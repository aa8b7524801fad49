--------------------------- MODULE AttachmentSpool ---------------------------
(***************************************************************************)
(* The attachment spool: a row in attachment_spool_objects and a ciphertext *)
(* file per attachment.  The writer inserts the row, writes a temporary     *)
(* file, renames it and marks the row STORED; readers lease the object,     *)
(* read it and acknowledge it; the maintenance cycle repairs what crashes   *)
(* leave behind and removes what has expired.  A transaction is one action; *)
(* a file operation is another, because no lock protects the files.         *)
(*                                                                         *)
(* A ciphertext is "ok" when its size and SHA-256 are those of the row.     *)
(* Clocks are flags that time may set: stale (the row is older than the     *)
(* writing grace), aged (the file is), dead (expires_at has passed) and     *)
(* lapsed (lease_expires_at has passed).  References and lease tokens are   *)
(* unique: the retries after a collision are left out.  A maintenance pass  *)
(* takes one object (limit = 1).  Symbolic links, which every operation     *)
(* refuses and leaves to an operator, are left out.                         *)
(***************************************************************************)
EXTENDS Naturals

CONSTANTS Objects,       \* attachments, each with its row and its files
          SpoolReaders,  \* consumers of attachments
          NoObject,      \* no attachment
          MaxTokens,     \* leases granted in a behaviour
          MaxSpoolFaults \* crashes, failing calls and damaged files

ASSUME SpoolAssumption ==
    /\ NoObject \notin Objects
    /\ MaxTokens \in Nat /\ MaxSpoolFaults \in Nat

VARIABLES obj,      \* attachment_spool_objects
          disk,     \* the spool directory
          writer,   \* the store() call of each attachment
          reader,   \* what each consumer holds
          maint,    \* the maintenance cycle
          lastToken,
          spoolFaults,
          handed,   \* attachments whose reference store() returned
          acked,    \* attachments whose acknowledge() was accepted
          damaged,  \* attachments whose file the disk has damaged
          given     \* leases under which read() has returned the plaintext

spoolVars == <<obj, disk, writer, reader, maint, lastToken, spoolFaults, handed, acked,
               damaged, given>>

NoRow == [st |-> "NONE", stale |-> FALSE, dead |-> FALSE, tok |-> 0, lapsed |-> FALSE]
NoFile == [tmp |-> "none", bin |-> "none", aged |-> FALSE]
NoLease == [ph |-> "idle", o |-> NoObject, tok |-> 0]
MaintOff == [pass |-> "off", step |-> "pick", o |-> NoObject, seen |-> "none",
             rec |-> "ok", pur |-> "ok", last |-> "none"]

SpoolInit ==
    /\ obj = [o \in Objects |-> NoRow]
    /\ disk = [o \in Objects |-> NoFile]
    /\ writer = [o \in Objects |-> "new"]
    /\ reader = [r \in SpoolReaders |-> NoLease]
    /\ maint = MaintOff
    /\ lastToken = 0 /\ spoolFaults = 0
    /\ handed = {} /\ acked = {} /\ damaged = {} /\ given = {}

\* Reconcile keeps the rows of its two row passes locked until it commits.
Locked(o) == maint.o = o /\ maint.pass \in {"writing", "stored"}

SpoolFault == spoolFaults < MaxSpoolFaults /\ spoolFaults' = spoolFaults + 1

-----------------------------------------------------------------------------
(* store()                                                                  *)

\* insert_writing commits before the first byte reaches the disk.
StoreInsert(o) ==
    /\ writer[o] = "new"
    /\ obj' = [obj EXCEPT ![o].st = "WRITING"]
    /\ writer' = [writer EXCEPT ![o] = "temp"]
    /\ UNCHANGED <<disk, reader, maint, lastToken, spoolFaults, handed, acked, damaged, given>>

\* Open with O_EXCL, write, fsync.
WriteTemp(o) ==
    /\ writer[o] = "temp"
    /\ disk' = [disk EXCEPT ![o].tmp = "full"]
    /\ writer' = [writer EXCEPT ![o] = "replace"]
    /\ UNCHANGED <<obj, reader, maint, lastToken, spoolFaults, handed, acked, damaged, given>>

\* Verify the temporary file and rename it.  When reconcile has removed it,
\* both files are unlinked and the caller goes on to its own clean-up.
ReplaceTemp(o) ==
    /\ writer[o] = "replace"
    /\ IF disk[o].tmp = "full"
       THEN /\ disk' = [disk EXCEPT ![o].tmp = "none", ![o].bin = "ok"]
            /\ writer' = [writer EXCEPT ![o] = "mark"]
       ELSE /\ disk' = [disk EXCEPT ![o].tmp = "none", ![o].bin = "none"]
            /\ writer' = [writer EXCEPT ![o] = "clean"]
    /\ UNCHANGED <<obj, reader, maint, lastToken, spoolFaults, handed, acked, damaged, given>>

\* An error while the file is written or an interrupt up to the return of
\* write_ciphertext_atomic: the temporary file is unlinked on the way out, or
\* survives when that fails.
WriteFails(o) ==
    /\ writer[o] \in {"temp", "replace", "mark"} /\ SpoolFault
    /\ \E left \in {"none", "part"} :
          disk' = [disk EXCEPT ![o].tmp = IF writer[o] = "temp" THEN left ELSE "none"]
    /\ writer' = [writer EXCEPT ![o] = "clean"]
    /\ UNCHANGED <<obj, reader, maint, lastToken, handed, acked, damaged, given>>

\* _best_effort_delete_writing: the files first, then the row, whatever its state;
\* an error in either half is ignored.
CleanFiles(o) ==
    /\ writer[o] = "clean"
    /\ \/ disk' = [disk EXCEPT ![o].tmp = "none", ![o].bin = "none"] /\ UNCHANGED spoolFaults
       \/ SpoolFault /\ UNCHANGED disk
    /\ writer' = [writer EXCEPT ![o] = "drop"]
    /\ UNCHANGED <<obj, reader, maint, lastToken, handed, acked, damaged, given>>

DropRow(o) ==
    /\ writer[o] = "drop" /\ ~Locked(o)
    /\ \/ obj' = [obj EXCEPT ![o] = NoRow] /\ UNCHANGED spoolFaults
       \/ SpoolFault /\ UNCHANGED obj
    /\ writer' = [writer EXCEPT ![o] = "failed"]
    /\ UNCHANGED <<disk, reader, maint, lastToken, handed, acked, damaged, given>>

\* The last transaction: the row must still be WRITING and the file verified.
MarkStored(o) ==
    /\ writer[o] = "mark" /\ ~Locked(o)
    /\ IF obj[o].st = "WRITING" /\ disk[o].bin = "ok"
       THEN /\ obj' = [obj EXCEPT ![o].st = "STORED"]
            /\ writer' = [writer EXCEPT ![o] = "done"]
            /\ handed' = handed \union {o}
       ELSE /\ writer' = [writer EXCEPT ![o] = "failed"]
            /\ UNCHANGED <<obj, handed>>
    /\ UNCHANGED <<disk, reader, maint, lastToken, spoolFaults, acked, damaged, given>>

\* A crash, or a last transaction that fails: nothing is cleaned up.
WriterCrash(o) ==
    /\ writer[o] \in {"temp", "replace", "mark", "clean", "drop"} /\ SpoolFault
    /\ \E left \in {"part", disk[o].tmp} :
          disk' = [disk EXCEPT ![o].tmp = IF writer[o] = "temp" THEN left ELSE disk[o].tmp]
    /\ writer' = [writer EXCEPT ![o] = "failed"]
    /\ UNCHANGED <<obj, reader, maint, lastToken, handed, acked, damaged, given>>

-----------------------------------------------------------------------------
(* acquire(), read(), acknowledge(), release()                              *)

\* _acquire_decision: "eligible" or "reclaim"
Acquirable(o) ==
    /\ ~obj[o].dead
    /\ obj[o].st = "STORED" \/ (obj[o].st = "LEASED" /\ obj[o].lapsed)

\* Mutant: a lease given up leaves its token on the row.
UnleasedKeepsToken(o) == [obj[o] EXCEPT !.st = "STORED", !.lapsed = FALSE]

Leased(o, tok) == [obj[o] EXCEPT !.st = "LEASED", !.tok = tok, !.lapsed = FALSE]
Unleased(o) == [obj[o] EXCEPT !.st = "STORED", !.tok = 0, !.lapsed = FALSE]

Acquire(r, o) ==
    /\ reader[r].ph = "idle" /\ o \in handed /\ ~Locked(o)
    /\ Acquirable(o)
    /\ lastToken < MaxTokens /\ lastToken' = lastToken + 1
    /\ obj' = [obj EXCEPT ![o] = Leased(o, lastToken')]
    /\ reader' = [reader EXCEPT ![r] = [ph |-> "held", o |-> o, tok |-> lastToken']]
    /\ UNCHANGED <<disk, writer, maint, spoolFaults, handed, acked, damaged, given>>

\* _lease_read_authorized, _release_allowed and the fence of acknowledge
Owns(r) ==
    LET row == obj[reader[r].o] IN
    row.st = "LEASED" /\ row.tok = reader[r].tok /\ ~row.lapsed

\* The first transaction of read() takes the snapshot.
ReadBegin(r) ==
    /\ reader[r].ph = "held" /\ ~Locked(reader[r].o)
    /\ Owns(r)
    /\ reader' = [reader EXCEPT ![r].ph = "reading"]
    /\ UNCHANGED <<obj, disk, writer, maint, lastToken, spoolFaults, handed, acked, damaged, given>>

\* The file is read and decrypted without a lock; only a verified one passes.
ReadFile(r) ==
    /\ reader[r].ph = "reading"
    /\ reader' = [reader EXCEPT ![r].ph =
                     IF disk[reader[r].o].bin = "ok" THEN "checked" ELSE "held"]
    /\ UNCHANGED <<obj, disk, writer, maint, lastToken, spoolFaults, handed, acked, damaged, given>>

\* Mutant: the plaintext is returned without looking at the row again.
StillOwnedUnchecked(r) == TRUE

\* matches_locked_row of the read snapshot: the fields besides the lease never change.
StillOwned(r) == Owns(r)

\* The second transaction: the same lease must still hold the row.
ReadReturn(r) ==
    /\ reader[r].ph = "checked" /\ ~Locked(reader[r].o)
    /\ reader' = [reader EXCEPT ![r].ph = "held"]
    /\ given' = IF StillOwned(r) THEN given \union {<<reader[r].o, reader[r].tok>>} ELSE given
    /\ UNCHANGED <<obj, disk, writer, maint, lastToken, spoolFaults, handed, acked, damaged>>

\* acknowledge(): a leased row becomes DELETE_PENDING and keeps its token, so
\* that a repeated call finds it and finishes the removal.
Acknowledge(r) ==
    LET o == reader[r].o IN
    /\ reader[r].ph = "held" /\ ~Locked(o)
    /\ \/ Owns(r) /\ obj' = [obj EXCEPT ![o].st = "DELETE_PENDING"]
       \/ obj[o].st = "DELETE_PENDING" /\ obj[o].tok = reader[r].tok /\ UNCHANGED obj
    /\ acked' = acked \union {o}
    /\ reader' = [reader EXCEPT ![r].ph = "unlink"]
    /\ UNCHANGED <<disk, writer, maint, lastToken, spoolFaults, handed, damaged, given>>

\* release(), or a call that the row refuses: the token is of no use any more.
Release(r) ==
    LET o == reader[r].o IN
    /\ reader[r].ph = "held" /\ ~Locked(o)
    /\ obj' = IF Owns(r) THEN [obj EXCEPT ![o] = Unleased(o)] ELSE obj
    /\ reader' = [reader EXCEPT ![r] = NoLease]
    /\ UNCHANGED <<disk, writer, maint, lastToken, spoolFaults, handed, acked, damaged, given>>

ReaderCrash(r) ==
    /\ reader[r].ph # "idle" /\ SpoolFault
    /\ reader' = [reader EXCEPT ![r] = NoLease]
    /\ UNCHANGED <<obj, disk, writer, maint, lastToken, handed, acked, damaged, given>>

\* reclaim_expired_leases
Reclaim(o) ==
    /\ obj[o].st = "LEASED" /\ obj[o].lapsed /\ ~Locked(o)
    /\ obj' = [obj EXCEPT ![o] = Unleased(o)]
    /\ UNCHANGED <<disk, writer, reader, maint, lastToken, spoolFaults, handed, acked, damaged, given>>

-----------------------------------------------------------------------------
(* _finalize_delete_pending, shared by acknowledge, reconcile and purge      *)

\* Mutant: an unlink that the disk refused counts as done.
UnlinkAssumed(o) == TRUE

\* unlink_succeeded
UnlinkSucceeded(o) == disk'[o].bin = "none"

\* safe_unlink_object_file: gone now, or the disk refused.
Unlinked(o, file) ==
    \/ disk' = [disk EXCEPT ![o][file] = "none"] /\ UNCHANGED spoolFaults
    \/ SpoolFault /\ UNCHANGED disk

\* The row goes when it is still the DELETE_PENDING row of the snapshot.
FinalizeRow(o) == IF obj[o].st = "DELETE_PENDING" THEN [obj EXCEPT ![o] = NoRow] ELSE obj

AckUnlink(r) ==
    LET o == reader[r].o IN
    /\ reader[r].ph = "unlink"
    /\ Unlinked(o, "bin")
    /\ reader' = [reader EXCEPT ![r].ph = IF UnlinkSucceeded(o) THEN "finish" ELSE "held"]
    /\ UNCHANGED <<obj, writer, maint, lastToken, handed, acked, damaged, given>>

AckFinish(r) ==
    /\ reader[r].ph = "finish" /\ ~Locked(reader[r].o)
    /\ obj' = FinalizeRow(reader[r].o)
    /\ reader' = [reader EXCEPT ![r] = NoLease]
    /\ UNCHANGED <<disk, writer, maint, lastToken, spoolFaults, handed, acked, damaged, given>>

-----------------------------------------------------------------------------
(* The maintenance cycle: reconcile in four passes, then purge              *)

PassAfter == [writing |-> "orphans", orphans |-> "stored", stored |-> "pending",
              pending |-> "purge", purge |-> "finish"]

\* Mutants: temporary files are not listed; purge takes what has not expired;
\* a file is taken for an orphan without a look at the table.
FinalFilesOnly(o) == disk[o].aged /\ disk[o].bin # "none"
PurgeableEarly(o) == obj[o].st = "STORED" \/ (obj[o].st = "LEASED" /\ obj[o].lapsed)
HasNoRow(o) == FALSE

\* exists_by_object_id
HasRow(o) == obj[o].st # "NONE"

\* Which object a pass may take; the selections are made in the database, the
\* orphan pass lists the directory.
StaleWriting(o) == obj[o].st = "WRITING" /\ obj[o].stale
OrphanFile(o) == disk[o].aged /\ (disk[o].tmp # "none" \/ disk[o].bin # "none")
Purgeable(o) ==
    /\ obj[o].dead
    /\ obj[o].st = "STORED" \/ (obj[o].st = "LEASED" /\ obj[o].lapsed)
SweepCandidates(pass) ==
    {o \in Objects : CASE pass = "writing" -> StaleWriting(o)
                       [] pass = "orphans" -> OrphanFile(o)
                       [] pass = "stored"  -> obj[o].st = "STORED"
                       [] pass = "pending" -> obj[o].st = "DELETE_PENDING"
                       [] pass = "purge"   -> Purgeable(o)}

PassDone == [maint EXCEPT !.pass = PassAfter[maint.pass], !.step = "pick",
                          !.o = NoObject, !.seen = "none"]

CycleBegin ==
    /\ maint.pass = "off"
    /\ maint' = [MaintOff EXCEPT !.pass = "writing"]
    /\ UNCHANGED <<obj, disk, writer, reader, lastToken, spoolFaults, handed, acked, damaged, given>>

PassEmpty ==
    /\ maint.pass \in DOMAIN PassAfter /\ maint.step = "pick" /\ SweepCandidates(maint.pass) = {}
    /\ maint' = PassDone
    /\ UNCHANGED <<obj, disk, writer, reader, lastToken, spoolFaults, handed, acked, damaged, given>>

\* inspect_ciphertext_file: VALID, MISMATCH or MISSING.  What a pass decides
\* later rests on what it saw here.
Inspect(o) == disk[o].bin

\* Row passes lock the row and inspect the final file.  The orphan pass asks
\* whether a row exists; a file with a row is skipped.  The pending pass takes
\* its snapshot; purge turns the row DELETE_PENDING and forgets a dead lease.
PassPick(o) ==
    /\ maint.pass \in DOMAIN PassAfter /\ maint.step = "pick" /\ o \in SweepCandidates(maint.pass)
    /\ maint' = IF maint.pass = "orphans" /\ HasRow(o) THEN PassDone
                ELSE [maint EXCEPT !.step = "act", !.o = o, !.seen = Inspect(o)]
    /\ obj' = IF maint.pass = "purge"
              THEN [obj EXCEPT ![o].st = "DELETE_PENDING", ![o].tok = 0, ![o].lapsed = FALSE]
              ELSE obj
    /\ UNCHANGED <<disk, writer, reader, lastToken, spoolFaults, handed, acked, damaged, given>>

\* _reconcile_stale_writing_row after the inspection.  A valid file promotes the
\* row; otherwise the files go first and the row with the commit.  The disk may
\* refuse an unlink, and the row then stays for the next cycle.
WritingAct ==
    LET o == maint.o IN
    /\ maint.pass = "writing" /\ maint.step = "act"
    /\ \/ /\ maint.seen = "ok"
          /\ obj' = [obj EXCEPT ![o].st = "STORED"]
          /\ disk' = [disk EXCEPT ![o].tmp = "none"]
          /\ maint' = PassDone /\ UNCHANGED spoolFaults
       \/ /\ maint.seen # "ok"
          /\ disk' = [disk EXCEPT ![o].tmp = "none",
                                  ![o].bin = IF maint.seen = "bad" THEN "none" ELSE @]
          /\ maint' = [maint EXCEPT !.step = "commit"]
          /\ UNCHANGED <<obj, spoolFaults>>
       \/ /\ maint.seen # "ok" /\ SpoolFault
          /\ disk' \in {disk, [disk EXCEPT ![o].bin = IF maint.seen = "bad" THEN "none" ELSE @]}
          /\ maint' = PassDone /\ UNCHANGED obj
    /\ UNCHANGED <<writer, reader, lastToken, handed, acked, damaged, given>>

\* safe_unlink of an orphan, one directory entry at a time.
OrphanAct ==
    LET o == maint.o IN
    /\ maint.pass = "orphans" /\ maint.step = "act"
    /\ \E file \in {"tmp", "bin"} : disk[o][file] # "none" /\ Unlinked(o, file)
    /\ maint' = PassDone
    /\ UNCHANGED <<obj, writer, reader, lastToken, handed, acked, damaged, given>>

\* _reconcile_unrecoverable_stored: a valid file is kept; a missing one costs
\* the row; a damaged one is unlinked first.
StoredAct ==
    LET o == maint.o IN
    /\ maint.pass = "stored" /\ maint.step = "act"
    /\ \/ maint.seen = "ok" /\ maint' = PassDone /\ UNCHANGED <<disk, spoolFaults>>
       \/ maint.seen = "none" /\ maint' = [maint EXCEPT !.step = "commit"]
                              /\ UNCHANGED <<disk, spoolFaults>>
       \/ /\ maint.seen = "bad" /\ Unlinked(o, "bin")
          /\ maint' = IF UnlinkSucceeded(o) THEN [maint EXCEPT !.step = "commit"] ELSE PassDone
    /\ UNCHANGED <<obj, writer, reader, lastToken, handed, acked, damaged, given>>

\* The two row passes delete the row they hold and commit.
RowPassCommit ==
    /\ maint.pass \in {"writing", "stored"} /\ maint.step = "commit"
    /\ obj' = [obj EXCEPT ![maint.o] = NoRow]
    /\ maint' = PassDone
    /\ UNCHANGED <<disk, writer, reader, lastToken, spoolFaults, handed, acked, damaged, given>>

\* _reconcile_delete_pending and the second half of purge_expired
FinalizeUnlink ==
    /\ maint.pass \in {"pending", "purge"} /\ maint.step = "act"
    /\ Unlinked(maint.o, "bin")
    /\ maint' = IF UnlinkSucceeded(maint.o) THEN [maint EXCEPT !.step = "commit"] ELSE PassDone
    /\ UNCHANGED <<obj, writer, reader, lastToken, handed, acked, damaged, given>>

FinalizeCommit ==
    /\ maint.pass \in {"pending", "purge"} /\ maint.step = "commit"
    /\ obj' = FinalizeRow(maint.o)
    /\ maint' = PassDone
    /\ UNCHANGED <<disk, writer, reader, lastToken, spoolFaults, handed, acked, damaged, given>>

\* An exception rolls the open transaction back: the rest of reconcile is
\* skipped and purge still runs; the files stay as they are.
PassRaises ==
    /\ maint.pass \in DOMAIN PassAfter /\ SpoolFault
    /\ maint' = IF maint.pass = "purge"
                THEN [PassDone EXCEPT !.pur = "error"]
                ELSE [PassDone EXCEPT !.pass = "purge", !.rec = "error"]
    /\ UNCHANGED <<obj, disk, writer, reader, lastToken, handed, acked, damaged, given>>

\* _build_cycle_result
CycleStatus ==
    CASE maint.rec = "ok" /\ maint.pur = "ok" -> "SUCCESS"
      [] maint.rec = "error" /\ maint.pur = "error" -> "FAILED"
      [] OTHER -> "PARTIAL"

CycleEnd ==
    /\ maint.pass = "finish"
    /\ maint' = [MaintOff EXCEPT !.last = CycleStatus]
    /\ UNCHANGED <<obj, disk, writer, reader, lastToken, spoolFaults, handed, acked, damaged, given>>

\* The process is cancelled or killed and the loop starts again.
MaintCrash ==
    /\ maint.pass # "off" /\ SpoolFault
    /\ maint' = MaintOff
    /\ UNCHANGED <<obj, disk, writer, reader, lastToken, handed, acked, damaged, given>>

-----------------------------------------------------------------------------
(* Time and the disk                                                        *)

RowGrowsStale(o) ==
    /\ obj[o].st = "WRITING" /\ ~obj[o].stale
    /\ obj' = [obj EXCEPT ![o].stale = TRUE]
    /\ UNCHANGED <<disk, writer, reader, maint, lastToken, spoolFaults, handed, acked, damaged, given>>

FileAges(o) ==
    /\ ~disk[o].aged /\ (disk[o].tmp # "none" \/ disk[o].bin # "none")
    /\ disk' = [disk EXCEPT ![o].aged = TRUE]
    /\ UNCHANGED <<obj, writer, reader, maint, lastToken, spoolFaults, handed, acked, damaged, given>>

ObjectExpires(o) ==
    /\ obj[o].st # "NONE" /\ ~obj[o].dead
    /\ obj' = [obj EXCEPT ![o].dead = TRUE]
    /\ UNCHANGED <<disk, writer, reader, maint, lastToken, spoolFaults, handed, acked, damaged, given>>

ReadLeaseExpires(o) ==
    /\ obj[o].st = "LEASED" /\ ~obj[o].lapsed
    /\ obj' = [obj EXCEPT ![o].lapsed = TRUE]
    /\ UNCHANGED <<disk, writer, reader, maint, lastToken, spoolFaults, handed, acked, damaged, given>>

DiskDamages(o) ==
    /\ disk[o].bin = "ok" /\ SpoolFault
    /\ \E left \in {"none", "bad"} : disk' = [disk EXCEPT ![o].bin = left]
    /\ damaged' = damaged \union {o}
    /\ UNCHANGED <<obj, writer, reader, maint, lastToken, handed, acked, given>>

-----------------------------------------------------------------------------
WriterStep(o) == StoreInsert(o) \/ WriteTemp(o) \/ ReplaceTemp(o) \/ CleanFiles(o)
                 \/ DropRow(o) \/ MarkStored(o)
ReaderStep(r) == \/ \E o \in Objects : Acquire(r, o)
                 \/ ReadBegin(r) \/ ReadFile(r) \/ ReadReturn(r) \/ Acknowledge(r)
                 \/ Release(r) \/ AckUnlink(r) \/ AckFinish(r)
MaintStep == \/ CycleBegin \/ PassEmpty \/ \E o \in Objects : PassPick(o)
             \/ WritingAct \/ OrphanAct \/ StoredAct \/ RowPassCommit
             \/ FinalizeUnlink \/ FinalizeCommit \/ CycleEnd
SpoolClock(o) == RowGrowsStale(o) \/ FileAges(o) \/ ObjectExpires(o) \/ ReadLeaseExpires(o)

SpoolNext ==
    \/ \E o \in Objects : \/ WriterStep(o) \/ WriteFails(o) \/ WriterCrash(o)
                          \/ Reclaim(o) \/ SpoolClock(o) \/ DiskDamages(o)
    \/ \E r \in SpoolReaders : ReaderStep(r) \/ ReaderCrash(r)
    \/ MaintStep \/ PassRaises \/ MaintCrash

SpoolSpec == SpoolInit /\ [][SpoolNext]_spoolVars

-----------------------------------------------------------------------------
(* Properties                                                               *)

\* The type of the spool's state; a lease token is on the row exactly while
\* the row is LEASED or was acknowledged (the table's lease checks).
SpoolTypeOK ==
    /\ obj \in [Objects -> [st : {"NONE", "WRITING", "STORED", "LEASED", "DELETE_PENDING"},
                            stale : BOOLEAN, dead : BOOLEAN, tok : 0..MaxTokens, lapsed : BOOLEAN]]
    /\ disk \in [Objects -> [tmp : {"none", "part", "full"}, bin : {"none", "ok", "bad"},
                             aged : BOOLEAN]]
    /\ writer \in [Objects -> {"new", "temp", "replace", "mark", "clean", "drop", "done", "failed"}]
    /\ \A r \in SpoolReaders :
          /\ reader[r].ph \in {"idle", "held", "reading", "checked", "unlink", "finish"}
          /\ reader[r].o \in Objects \union {NoObject} /\ reader[r].tok \in 0..MaxTokens
    /\ maint.pass \in {"off", "finish"} \union DOMAIN PassAfter
    /\ \A o \in Objects : /\ obj[o].st = "LEASED" => obj[o].tok > 0
                          /\ obj[o].st \in {"NONE", "WRITING", "STORED"} => obj[o].tok = 0

\* An attachment that store() has handed out and that is still STORED or
\* LEASED has its verified ciphertext on disk, unless the disk damaged it:
\* neither a late writer, a reader's clean-up nor any maintenance pass takes
\* the file away first.
HandedIsReadable ==
    \A o \in handed \ damaged : obj[o].st \in {"STORED", "LEASED"} => disk[o].bin = "ok"

\* Once the row of a handed-out attachment is gone, its ciphertext is gone:
\* the file is always unlinked before the row that points at it is deleted.
NoCiphertextWithoutRow ==
    \A o \in handed : obj[o].st = "NONE" => disk[o].bin = "none"

\* An attachment is removed only for a reason: its consumer acknowledged it,
\* it expired, or its file was damaged.  The cycle never removes one that a
\* consumer may still ask for.
RetainedUntilDone ==
    [][\A o \in handed :
          (obj[o].st \in {"STORED", "LEASED"} /\ obj'[o].st \in {"NONE", "DELETE_PENDING"})
             => o \in acked' \/ obj[o].dead \/ o \in damaged]_spoolVars

\* A read that overlaps the end of its lease returns nothing: plaintext is
\* returned neither after an acknowledge nor after the lease has passed to
\* another consumer.
FencedRead ==
    [][\A o \in Objects, t \in 1..MaxTokens :
          <<o, t>> \in given' \ given
             => /\ o \notin acked
                /\ \A r \in SpoolReaders : reader[r].o = o => reader[r].tok <= t]_spoolVars

\* Whatever crashes, an attachment does not outlive its time: in the end there
\* is neither a row nor a file of it.
SpoolGone(o) == obj[o].st = "NONE" /\ disk[o].tmp = "none" /\ disk[o].bin = "none"
NothingOutlives == \A o \in Objects : (writer[o] # "new") ~> [](SpoolGone(o))

\* Row and file agree although no transaction spans both: what was handed out stays
\* until it is done with, and no ciphertext is left without a row.
SpoolKeepsHanded ==
  /\ [](HandedIsReadable /\ NoCiphertextWithoutRow)
  /\ RetainedUntilDone
=============================================================================
