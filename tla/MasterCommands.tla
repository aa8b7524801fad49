--------------------------- MODULE MasterCommands ---------------------------
(***************************************************************************)
(* Commands a salon master sends over VK: a command is parsed, previewed,   *)
(* confirmed by a second message and only then sent to the booking service. *)
(* One channel identity is modelled (identities share no row).  A callback  *)
(* is handled in one transaction: the reads that precede the row lock are   *)
(* one step, everything after the lock another, and the remote POST, which  *)
(* the code makes while the transaction is open, splits the latter in two.  *)
(* A crash rolls the transaction back; the POST may have landed.            *)
(*                                                                         *)
(* A row is known by the message that inserted it.  Of the payload only     *)
(* what is still missing is kept; "live" says that the confirmation TTL has *)
(* not passed and "pii" that the stored phone and name can still be read.   *)
(* The booking service is external: it applies a key at most once.          *)
(***************************************************************************)
EXTENDS Naturals, FiniteSets

CONSTANTS MasterMsgs,       \* ids of the messages of the identity
          MasterHandlers,   \* concurrent callbacks (numbers: the first free one is taken)
          Masters,          \* master ids of the booking service
          FirstMaster,      \* the one the identity is bound to at first
          NoMaster,
          MaxCallbacks,     \* callbacks VK makes, repeated ones included
          MaxMasterFaults   \* timeouts, unclear answers, crashes and operator calls

ASSUME MasterAssumption ==
    /\ NoMaster \notin Masters /\ FirstMaster \in Masters
    /\ 0 \notin MasterMsgs   \* 0 stands for "no row"
    /\ MaxCallbacks \in Nat /\ MaxMasterFaults \in Nat

VARIABLES rows,       \* master_command_pendings, by inbound message
          texts,      \* what each message says
          calls,      \* callbacks made
          hand,       \* what each callback is doing
          bound,      \* the active binding of the identity
          flying,     \* POSTs the booking service has not decided
          landed,     \* POSTs it has applied
          refused,    \* POSTs it has refused
          lastKey, masterFaults

masterVars == <<rows, texts, calls, hand, bound, flying, landed, refused,
                lastKey, masterFaults>>

\* What parse_master_command_text makes of a text.  A command has a kind and is
\* complete or leaves something to ask.
Commands == [kind : {"close", "booking"}, full : BOOLEAN]
\* Nothing of the command has to be asked for.
Complete(t) == t.full
Said(w) == [kind |-> w, full |-> FALSE]
Texts == {Said("confirm"), Said("cancel"), Said("unknown"), Said("schedule")} \cup Commands

Open == {"CLARIFY", "CONFIRM"}
Closed == {"SUCCEEDED", "FAILED", "CANCELLED", "EXPIRED"}

NoCommand == [st |-> "none", kind |-> "none", key |-> 0, live |-> FALSE, pii |-> FALSE]

\* A terminal row that only records that the message has been answered.
MirrorRow(outcome) == [NoCommand EXCEPT !.st = outcome]

Resting == [ph |-> "idle", m |-> 0, master |-> NoMaster, lapsed |-> {}, row |-> 0]

MasterInit ==
    /\ rows = [m \in MasterMsgs |-> NoCommand]
    /\ texts = [m \in MasterMsgs |-> Said("unsent")]
    /\ calls = 0
    /\ hand = [h \in MasterHandlers |-> Resting]
    /\ bound \in {FirstMaster, NoMaster}
    /\ flying = {} /\ landed = {} /\ refused = {}
    /\ lastKey = 0 /\ masterFaults = 0

ActiveRequest == {m \in MasterMsgs : rows[m].st \in Open}
Lapsed == {m \in ActiveRequest : ~rows[m].live}
RowLocked(a) == \E h \in MasterHandlers : hand[h].ph = "post" /\ hand[h].row = a
MasterFault == masterFaults < MaxMasterFaults /\ masterFaults' = masterFaults + 1
Remote == <<flying, landed, refused>>

-----------------------------------------------------------------------------
(* The callback                                                             *)

\* The identity resolves to a master and the message has no row yet.
Unheard(m) == bound # NoMaster /\ rows[m] = NoCommand

\* VK calls with a message the master has just written (t) or, until it is answered
\* "ok", with an earlier one.  The binding, the row of this message and the clock are read before any lock;
\* an unbound identity or a known message is answered without a row.
Callback(h, m, t) ==
    /\ calls < MaxCallbacks /\ hand[h] = Resting
    /\ \A g \in MasterHandlers : g < h => hand[g] # Resting
    /\ \/ texts[m] = t
       \/ texts[m] = Said("unsent") /\ \A n \in MasterMsgs : n < m => texts[n] # Said("unsent")
    /\ texts' = [texts EXCEPT ![m] = t]
    /\ calls' = calls + 1
    /\ hand' = IF ~Unheard(m) THEN hand
               ELSE [hand EXCEPT ![h] = [ph |-> "read", m |-> m, master |-> bound,
                                         lapsed |-> Lapsed, row |-> 0]]
    /\ UNCHANGED <<rows, bound, Remote, lastKey, masterFaults>>

\* _expire_if_needed compares the TTL with the clock read before the lock.
\* Mutant: the TTL is not looked at.
ExpiredForNever(h, a) == FALSE
ExpiredFor(h, a) == a \in hand[h].lapsed

\* Only a previewed command can be confirmed.
\* Mutant: a command with open questions can be confirmed too.
ConfirmableAny(a) == rows[a].st \in Open
Confirmable(a) == rows[a].st = "CONFIRM"

\* The key is minted once, when the command first becomes confirmable.
\* Mutant: the merge that completes the command leaves the key as it was.
KeyOfStored(a) == rows[a].key
KeyOf(a) == IF rows[a].key = 0 THEN lastKey + 1 ELSE rows[a].key

\* Rows as the transaction of h commits them: the row of its own message is added
\* unless a concurrent callback has inserted it first (IntegrityError, DUPLICATE).
WithMirror(h, rs, row) == IF rs[hand[h].m] = NoCommand THEN [rs EXCEPT ![hand[h].m] = row] ELSE rs

MasterEnds(h) == hand' = [hand EXCEPT ![h] = Resting]

\* The transaction gives row a a new TTL: it lies after every clock read so far.
EndsRenewing(h, a) ==
    hand' = [g \in MasterHandlers |-> IF g = h THEN Resting ELSE [hand[g] EXCEPT !.lapsed = @ \ {a}]]

\* The rows after lazy expiry of the locked row.
Swept(h) == [m \in MasterMsgs |->
                IF m \in ActiveRequest /\ ExpiredFor(h, m) THEN [rows[m] EXCEPT !.st = "EXPIRED"] ELSE rows[m]]

\* The active row as the callback sees it after the lock.
Pending(h) == {m \in ActiveRequest : ~ExpiredFor(h, m)}
LockFree == \A a \in ActiveRequest : ~RowLocked(a)

\* _handle_control with nothing to act on, and an unknown text: a terminal row.
AnswerOnly(h) ==
    LET t == texts[hand[h].m] IN
    /\ hand[h].ph = "read" /\ LockFree
    /\ \/ t.kind \in {"confirm", "cancel"} /\ Pending(h) = {}
       \/ t.kind = "confirm" /\ \E a \in Pending(h) : ~Confirmable(a)
       \/ t.kind = "unknown" /\ Pending(h) = {}
    /\ rows' = WithMirror(h, Swept(h), MirrorRow("FAILED"))
    /\ MasterEnds(h)
    /\ UNCHANGED <<texts, calls, bound, Remote, lastKey, masterFaults>>

ScheduleRow(answered) == MirrorRow(IF answered THEN "SUCCEEDED" ELSE "FAILED")

\* _execute_schedule: a read of the booking service, then a terminal row.
ReadSchedule(h) ==
    /\ hand[h].ph = "read" /\ LockFree
    /\ texts[hand[h].m].kind = "schedule" /\ Pending(h) = {}
    /\ \E answered \in BOOLEAN : rows' = WithMirror(h, Swept(h), ScheduleRow(answered))
    /\ MasterEnds(h)
    /\ UNCHANGED <<texts, calls, bound, Remote, lastKey, masterFaults>>

CancelPending(h) ==
    /\ hand[h].ph = "read" /\ LockFree /\ texts[hand[h].m].kind = "cancel"
    /\ \E a \in Pending(h) :
          rows' = WithMirror(h, [rows EXCEPT ![a].st = "CANCELLED"], MirrorRow("CANCELLED"))
    /\ MasterEnds(h)
    /\ UNCHANGED <<texts, calls, bound, Remote, lastKey, masterFaults>>

\* A text that does not fit the active command: CONFLICT and no row, so that the
\* same message may be handled again.
Mismatch(a, t) == \/ t.kind \in {"unknown", "schedule"}
                  \/ t \in Commands /\ (rows[a].st # "CLARIFY" \/ rows[a].kind # t.kind)
PendingConflict(h) ==
    /\ hand[h].ph = "read" /\ LockFree
    /\ \E a \in Pending(h) : Mismatch(a, texts[hand[h].m])
    /\ MasterEnds(h)
    /\ UNCHANGED <<rows, texts, calls, bound, Remote, lastKey, masterFaults>>

\* A booking stores the phone and the name it was given under references; pii says that none of them has expired.
StoresPii(t) == t.kind = "booking"

NewCommand(t) ==
    [st |-> IF Complete(t) THEN "CONFIRM" ELSE "CLARIFY", kind |-> t.kind,
     key |-> IF Complete(t) THEN lastKey + 1 ELSE 0, live |-> TRUE, pii |-> StoresPii(t)]

\* _start_clarification and _start_confirmation.  The unique index on the active
\* identity is why nothing is inserted when another callback was first.
StartCommand(h) ==
    LET t == texts[hand[h].m] IN
    /\ hand[h].ph = "read" /\ LockFree /\ t \in Commands /\ Pending(h) = {}
    /\ rows' = WithMirror(h, Swept(h), NewCommand(t))
    /\ lastKey' = IF Complete(t) /\ rows'[hand[h].m] # rows[hand[h].m] THEN lastKey + 1 ELSE lastKey
    /\ MasterEnds(h)
    /\ UNCHANGED <<texts, calls, bound, Remote, masterFaults>>

\* _merge_clarification: the same kind again, with or without what was missing; a phone and a name that are given
\* again are stored under new references.
MergeClarification(h) ==
    LET t == texts[hand[h].m] IN
    /\ hand[h].ph = "read" /\ LockFree /\ t \in Commands
    /\ \E a \in Pending(h), again \in BOOLEAN :
          /\ ~Mismatch(a, t) /\ (again => StoresPii(t))
          /\ rows' = WithMirror(h, [rows EXCEPT ![a].live = TRUE,
                         ![a].st = IF Complete(t) THEN "CONFIRM" ELSE "CLARIFY",
                         ![a].key = IF Complete(t) THEN KeyOf(a) ELSE @,
                         ![a].pii = @ \/ again], MirrorRow("FAILED"))
          /\ EndsRenewing(h, a)
          /\ lastKey' = IF Complete(t) /\ rows[a].key = 0 THEN lastKey + 1 ELSE lastKey
    /\ UNCHANGED <<texts, calls, bound, Remote, masterFaults>>

-----------------------------------------------------------------------------
(* Execution of a confirmed command                                         *)

\* Both references can still be read; the read does not consume them.
PiiReadable(a) == rows[a].kind = "booking" => rows[a].pii

NewRequest(h, a) == [row |-> a, key |-> KeyOf(a), master |-> hand[h].master]

\* claim_for_execution and the POST with the command's key and the master of the
\* binding as it is now.  A booking whose phone or name is gone fails here.
Execute(h) ==
    /\ hand[h].ph = "read" /\ LockFree /\ texts[hand[h].m].kind = "confirm"
    /\ \E a \in Pending(h) :
          /\ Confirmable(a)
          /\ IF ~PiiReadable(a)
             THEN /\ rows' = WithMirror(h, [rows EXCEPT ![a].st = "FAILED"], MirrorRow("FAILED"))
                  /\ MasterEnds(h) /\ UNCHANGED flying
             ELSE /\ hand' = [hand EXCEPT ![h].ph = "post", ![h].row = a]
                  /\ flying' = flying \cup {NewRequest(h, a)}
                  /\ UNCHANGED rows
    /\ UNCHANGED <<texts, calls, bound, landed, refused, lastKey, masterFaults>>

\* The booking service applies a request, or repeats the answer it gave its key.
ServiceApplies(q) ==
    /\ q \in flying
    /\ flying' = flying \ {q}
    /\ landed' = IF \E p \in landed : p.key = q.key THEN landed ELSE landed \cup {q}
    /\ UNCHANGED <<rows, texts, calls, hand, bound, refused, lastKey, masterFaults>>

ServiceRefuses(q) ==
    /\ q \in flying /\ ~\E p \in landed : p.key = q.key
    /\ flying' = flying \ {q} /\ refused' = refused \cup {q}
    /\ UNCHANGED <<rows, texts, calls, hand, bound, landed, lastKey, masterFaults>>

Request(h, qs) == \E q \in qs : q.row = hand[h].row
Settled(h, st) == WithMirror(h, [rows EXCEPT ![hand[h].row].st = st], MirrorRow(st))

\* 200 with the expected payload: complete_execution and the mirror row.
\* Mutant: any answer that is not an error of the table counts as success.
SucceedsBlind(h) == hand[h].ph = "post"
Succeeds(h) == hand[h].ph = "post" /\ Request(h, landed)
AnsweredOk(h) ==
    /\ Succeeds(h)
    /\ rows' = Settled(h, "SUCCEEDED") /\ MasterEnds(h)
    /\ UNCHANGED <<texts, calls, bound, Remote, lastKey, masterFaults>>

\* A conflict or another code of the table: the command is over.
AnsweredNo(h) ==
    /\ hand[h].ph = "post" /\ Request(h, refused)
    /\ rows' = Settled(h, "FAILED") /\ MasterEnds(h)
    /\ UNCHANGED <<texts, calls, bound, Remote, lastKey, masterFaults>>

\* A status outside the table (a gateway error, say) is REMOTE_REJECTED, which is
\* not among the retryable codes, whatever became of the request.
AnsweredOther(h) ==
    /\ hand[h].ph = "post" /\ MasterFault
    /\ rows' = Settled(h, "FAILED") /\ MasterEnds(h)
    /\ UNCHANGED <<texts, calls, bound, Remote, lastKey>>

\* A timeout or a body that cannot be read: back to the preview, same key.
Retryable(h) ==
    /\ hand[h].ph = "post" /\ MasterFault
    /\ rows' = WithMirror(h, [rows EXCEPT ![hand[h].row].live = TRUE], MirrorRow("FAILED"))
    /\ EndsRenewing(h, hand[h].row)
    /\ UNCHANGED <<texts, calls, bound, Remote, lastKey>>

\* The process dies or the transaction fails: nothing of it is kept.
HandlerCrash(h) ==
    /\ hand[h] # Resting /\ MasterFault
    /\ MasterEnds(h)
    /\ UNCHANGED <<rows, texts, calls, bound, Remote, lastKey>>

-----------------------------------------------------------------------------
(* Time and the operator                                                    *)

TtlPasses(m) ==
    /\ m \in ActiveRequest /\ rows[m].live /\ ~RowLocked(m)
    /\ rows' = [rows EXCEPT ![m].live = FALSE]
    /\ UNCHANGED <<texts, calls, hand, bound, Remote, lastKey, masterFaults>>

PiiExpires(m) ==
    /\ m \in ActiveRequest /\ rows[m].pii /\ ~RowLocked(m)
    /\ rows' = [rows EXCEPT ![m].pii = FALSE]
    /\ UNCHANGED <<texts, calls, hand, bound, Remote, lastKey, masterFaults>>

Operator(to) == MasterFault /\ bound' = to
                /\ UNCHANGED <<rows, texts, calls, hand, Remote, lastKey>>

BindMaster(to) == bound = NoMaster /\ Operator(to)
\* The old binding is revoked and the new one inserted in one savepoint.
RebindMaster(to) == bound \notin {NoMaster, to} /\ Operator(to)
RevokeMaster == bound # NoMaster /\ Operator(NoMaster)

MasterNext ==
    \/ \E h \in MasterHandlers, m \in MasterMsgs, t \in Texts : Callback(h, m, t)
    \/ \E h \in MasterHandlers :
          \/ AnswerOnly(h) \/ ReadSchedule(h) \/ CancelPending(h) \/ PendingConflict(h)
          \/ StartCommand(h) \/ MergeClarification(h) \/ Execute(h)
          \/ AnsweredOk(h) \/ AnsweredNo(h) \/ AnsweredOther(h) \/ Retryable(h) \/ HandlerCrash(h)
    \/ \E q \in flying : ServiceApplies(q) \/ ServiceRefuses(q)
    \/ \E m \in MasterMsgs : TtlPasses(m) \/ PiiExpires(m)
    \/ \E to \in Masters : BindMaster(to) \/ RebindMaster(to)
    \/ RevokeMaster

MasterSpec == MasterInit /\ [][MasterNext]_masterVars

-----------------------------------------------------------------------------
(* Properties                                                               *)

Requests == [row : MasterMsgs, key : Nat \ {0}, master : Masters]

\* The variables keep the columns' value sets, and the index on the active identity
\* leaves at most one open command.
MasterTypeOK ==
    /\ \A m \in MasterMsgs :
          /\ rows[m].st \in Open \cup Closed \cup {"none"}
          /\ rows[m].st = "CONFIRM" => rows[m].key # 0
    /\ Cardinality(ActiveRequest) <= 1
    /\ \A h \in MasterHandlers : hand[h].ph \in {"idle", "read", "post"}
    /\ flying \cup landed \cup refused \subseteq Requests
    /\ bound \in Masters \cup {NoMaster}

\* However often a confirmation is repeated after timeouts, crashes and redelivered
\* callbacks, the booking service applies a command at most once, and a command
\* reported as SUCCEEDED has been applied.
AppliedOnce ==
    /\ \A p, q \in landed : p.row = q.row => p = q
    /\ \A m \in MasterMsgs :
          rows[m].st = "SUCCEEDED" /\ rows[m].kind # "none" => \E p \in landed : p.row = m

\* A POST is made only for a command whose preview had been committed with all of
\* its questions answered, by a callback of a confirming message, and never for one
\* that was cancelled, refused or executed before.
PostFollowsPreview ==
    [][\A q \in flying' \ flying :
          /\ rows[q.row].st = "CONFIRM" /\ rows[q.row].key = q.key
          /\ \E h \in MasterHandlers : hand'[h].ph = "post" /\ hand'[h].row = q.row
                                        /\ texts[hand[h].m].kind = "confirm"]_masterVars

\* A command whose confirmation TTL had passed when a callback arrived is neither
\* executed nor merged by that callback.
ExpiredStaysUnused ==
    [][\A h \in MasterHandlers : hand[h].ph = "read" =>
          \A a \in hand[h].lapsed :
             rows[a].st \in Open /\ hand'[h].ph # "read" =>
                /\ rows'[a].st \in {"EXPIRED", rows[a].st} /\ ~rows'[a].live
                /\ hand'[h].row # a]_masterVars

\* A master's command is applied once, exactly as it was previewed, and not after
\* its time.
CommandOnceAsPreviewed ==
  /\ []AppliedOnce
  /\ PostFollowsPreview
  /\ ExpiredStaysUnused
=============================================================================
