---------------------------- MODULE EphemeralPii ----------------------------
(***************************************************************************)
(* The store of short-lived encrypted personal data, seen by the holders   *)
(* of one opaque reference: the value is stored once, read, consumed or    *)
(* deleted by callers that run concurrently in transactions of their own,  *)
(* expires, and is purged.  A SELECT ... FOR UPDATE takes its timestamp    *)
(* when the statement starts and may then wait for the row lock, so the    *)
(* expiry is looked at again after the lock.                               *)
(*                                                                         *)
(* Abstractions: a caller's conversation, kind and purpose match the row's *)
(* or not; the key named by the row can be loaded or not; nothing else of  *)
(* the ciphertext matters (the AAD binds it to the same three columns).    *)
(***************************************************************************)
EXTENDS Naturals, FiniteSets

CONSTANTS PiiCallers,          \* concurrent holders of the reference
          MaxReferenceRetries, \* MAX_REFERENCE_COLLISION_RETRIES
          MaxPiiFaults         \* bound: failed commits and unavailable keys

Unlocked == "nobody"  \* holds the row lock when no caller does

ASSUME PiiConstants ==
  /\ MaxReferenceRetries \in Nat \ {0} /\ MaxPiiFaults \in Nat
  /\ Unlocked \notin PiiCallers

VARIABLES value,     \* the row: never stored, stored or gone; whether it expired; who holds its lock
          holders,   \* what each caller asks for and got
          piiFaults

piiVars == <<value, holders, piiFaults>>

PiiOps == {"read", "consume", "delete"}
NoAsk == [ph |-> "idle", op |-> "read", fits |-> FALSE, got |-> "nothing"]

PiiInit ==
  /\ value = [st |-> "new", expired |-> FALSE, lock |-> Unlocked]
  /\ holders = [c \in PiiCallers |-> NoAsk]
  /\ piiFaults = 0

PiiFault == piiFaults < MaxPiiFaults /\ piiFaults' = piiFaults + 1

\* store: encrypt under the active key, then insert under a fresh reference; a reference in use is drawn again.
StoreValue(collisions) ==
  /\ value.st = "new"
  /\ value' = [value EXCEPT !.st = IF collisions < MaxReferenceRetries THEN "stored" ELSE "refused"]
  /\ UNCHANGED <<holders, piiFaults>>

AnswerWith(c, got) == [holders EXCEPT ![c].ph = "done", ![c].got = got]

\* The row a statement sees: present, and unexpired when the statement starts.
Selectable == value.st = "stored" /\ ~value.expired

\* _bindings_match: conversation, kind and purpose of the caller are the row's.
BindingsMatch(c) == holders[c].fits

\* A call begins; fits says whether conversation, kind and purpose are the row's.
BeginsCall(c, op, fits) ==
  /\ value.st \in {"stored", "gone"} /\ holders[c].ph = "idle"
  /\ holders' = [holders EXCEPT ![c] = [ph |-> IF Selectable THEN "selected" ELSE "done",
                                        op |-> op, fits |-> fits,
                                        got |-> IF Selectable THEN "nothing" ELSE "denied"]]
  /\ UNCHANGED <<value, piiFaults>>

\* read_plaintext: no lock; the row was selected unexpired, the key may be missing.
ReadPlaintext(c) ==
  /\ holders[c].ph = "selected" /\ holders[c].op = "read"
  /\ \/ holders' = AnswerWith(c, IF BindingsMatch(c) THEN "seen" ELSE "denied") /\ UNCHANGED piiFaults
     \/ holders' = AnswerWith(c, "denied") /\ PiiFault
  /\ UNCHANGED value

\* Mutant: read the row for consumption without FOR UPDATE.
LockGrantedAny == TRUE

LockGranted == value.lock = Unlocked

\* select_for_consume gets the row lock; a row deleted meanwhile is no longer returned.
TakesRowLock(c) ==
  /\ holders[c].ph = "selected" /\ holders[c].op # "read"
  /\ LockGranted
  /\ IF value.st = "stored"
       THEN /\ value' = [value EXCEPT !.lock = c]
            /\ holders' = [holders EXCEPT ![c].ph = "locked"]
       ELSE /\ holders' = AnswerWith(c, "denied") /\ UNCHANGED value
  /\ UNCHANGED piiFaults

\* Mutant: trust the timestamp of the statement that waited for the lock.
StillUnexpiredAlways == TRUE

\* _row_still_unexpired_after_lock.
StillUnexpired == ~value.expired

\* Mutant: delete for any caller that knows the reference.
MayRemoveAny(c) == StillUnexpired

MayRemove(c) == StillUnexpired /\ BindingsMatch(c)

\* consume_once and delete after the lock: checks, decryption (consume), DELETE, commit.
RemovesRow(c) ==
  /\ holders[c].ph = "locked"
  /\ IF MayRemove(c)
       THEN /\ value' = [value EXCEPT !.st = "gone", !.lock = Unlocked]
            /\ holders' = AnswerWith(c, IF holders[c].op = "consume" THEN "consumed" ELSE "deleted")
       ELSE /\ value' = [value EXCEPT !.lock = Unlocked]
            /\ holders' = AnswerWith(c, "denied")
  /\ UNCHANGED piiFaults

\* The key cannot be loaded, or the transaction does not commit: the row stays and no plaintext is returned.
RemoveFails(c) ==
  /\ holders[c].ph = "locked"
  /\ PiiFault
  /\ value' = [value EXCEPT !.lock = Unlocked]
  /\ holders' = AnswerWith(c, "denied")

ValueExpires ==
  /\ value.st = "stored" /\ ~value.expired
  /\ value' = [value EXCEPT !.expired = TRUE]
  /\ UNCHANGED <<holders, piiFaults>>

\* purge_expired_batch: expired rows, skipping locked ones.
PurgeExpired ==
  /\ value.st = "stored" /\ value.expired /\ value.lock = Unlocked
  /\ value' = [value EXCEPT !.st = "gone"]
  /\ UNCHANGED <<holders, piiFaults>>

PiiNext ==
  \/ \E n \in 0..MaxReferenceRetries : StoreValue(n)
  \/ \E c \in PiiCallers : \/ \E op \in PiiOps, fits \in BOOLEAN : BeginsCall(c, op, fits)
                           \/ ReadPlaintext(c) \/ TakesRowLock(c) \/ RemovesRow(c) \/ RemoveFails(c)
  \/ ValueExpires \/ PurgeExpired

PiiSpec == PiiInit /\ [][PiiNext]_piiVars

-----------------------------------------------------------------------------
(* Properties.                                                             *)

\* consume_once promises the plaintext to one caller only, and not to one whose value another caller deleted.
ConsumedOnce == Cardinality({c \in PiiCallers : holders[c].got \in {"consumed", "deleted"}}) <= 1

\* A caller that had to wait for the row lock is not handed a value that expired while it waited.
NoneAfterExpiry ==
  [][\A c \in PiiCallers : holders'[c].got = "consumed" /\ holders[c].got # "consumed" => ~value.expired]_piiVars

\* A stored value disappears by its expiry or by a caller whose conversation, kind and purpose are the row's.
RemovedForCause ==
  [][value.st = "stored" /\ value'.st = "gone" =>
       value.expired \/ \E c \in PiiCallers : holders[c].fits /\ holders[c].ph = "locked"]_piiVars

\* A stored value is given away once, not after its expiry, and goes only for a
\* cause.
PlaintextOnce ==
  /\ []ConsumedOnce
  /\ NoneAfterExpiry
  /\ RemovedForCause
=============================================================================
