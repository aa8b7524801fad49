-------------------------- MODULE ChatProjection --------------------------
(***************************************************************************)
(* amocrm_message_projections and the workers that copy the messages of a  *)
(* conversation into its amoCRM chat.  A transaction and an HTTP call are  *)
(* one action each; between two of them a worker may crash or lose its     *)
(* lease.                                                                  *)
(*                                                                         *)
(* The lease is renewed before each HTTP call for longer than the call can *)
(* take (_lease_seconds_for_http), so it does not run out during a send,   *)
(* and a POST that is going to land does so before the call times out.     *)
(***************************************************************************)
EXTENDS Naturals

CONSTANTS Projections,   \* sources: inbox rows and delivered outbound rows
          NoProjection,  \* no candidate, no claim
          Blank,         \* sources without a text to copy
          Workers,
          MaxAttempts    \* max_attempts of the rows

ASSUME ProjectionAssumption == /\ NoProjection \notin Projections /\ Blank \subseteq Projections
                               /\ MaxAttempts \in Nat \ {0}

VARIABLES row,       \* the projection of each source
          wk,        \* the claim in the memory of each worker and its progress
          bound,     \* the conversation has one complete ACTIVE chat binding
          copies,    \* messages in the amoCRM chat that carry the row's msgid
          reported   \* sources for which process_claimed returned SKIPPED

vars == <<row, wk, bound, copies, reported>>

Statuses == {"ABSENT", "PENDING", "PROCESSING", "PROJECTED", "SKIPPED", "FAILED", "DEAD"}
Settled == {"PROJECTED", "SKIPPED", "DEAD"}
Phases == {"idle", "claimed", "reconcile", "history", "renew", "send", "attach",
           "complete", "fail", "kill"}

NoRow == [status |-> "ABSENT", lease |-> "none", ver |-> 0, att |-> 0,
          amo |-> FALSE, delayed |-> FALSE]
Idle == [ph |-> "idle", p |-> NoProjection, ver |-> 0, att |-> 0, amo |-> FALSE]

Init ==
    /\ row = [p \in Projections |-> NoRow]
    /\ wk = [w \in Workers |-> Idle]
    /\ bound \in BOOLEAN
    /\ copies = [p \in Projections |-> 0]
    /\ reported = {}

Return(w) == wk' = [wk EXCEPT ![w] = Idle]
Goto(w, ph) == wk' = [wk EXCEPT ![w].ph = ph]

\* The row that w claimed is still w's by token and version.
Fenced(w) ==
    /\ wk[w].p \in Projections
    /\ row[wk[w].p].status = "PROCESSING"
    /\ row[wk[w].p].ver = wk[w].ver

Owns(w) == Fenced(w) /\ row[wk[w].p].lease = "live"

\* Mutant: the lease columns are left in place.
TerminatedKeepsLease(r, status) == [r EXCEPT !.status = status, !.delayed = FALSE]

\* Every terminal UPDATE clears the lease.
Terminated(r, status) ==
    [r EXCEPT !.status = status, !.lease = "none", !.delayed = FALSE]

-----------------------------------------------------------------------------
(* Enqueue and claim                                                        *)

Enqueue(p) ==
    /\ row[p].status = "ABSENT"
    /\ row' = [row EXCEPT ![p].status = "PENDING"]
    /\ UNCHANGED <<wk, bound, copies, reported>>

Exhausted(p) ==
    row[p].status = "PROCESSING" /\ row[p].lease = "expired" /\ row[p].att >= MaxAttempts

Claimable(p) ==
    \/ row[p].status = "PENDING"
    \/ row[p].status = "FAILED" /\ ~row[p].delayed /\ row[p].att < MaxAttempts
    \/ row[p].status = "PROCESSING" /\ row[p].lease = "expired" /\ row[p].att < MaxAttempts

\* Mutant: a new claim starts from a clean row.
ClaimedForgetsId(r) ==
    [r EXCEPT !.status = "PROCESSING", !.lease = "live", !.ver = r.ver + 1,
              !.att = r.att + 1, !.amo = FALSE, !.delayed = FALSE]

Claimed(r) ==
    [r EXCEPT !.status = "PROCESSING", !.lease = "live", !.ver = r.ver + 1,
              !.att = r.att + 1, !.delayed = FALSE]

\* Mutant: rows whose last attempt was lost are left as they are.
NoRecovery(c) ==
    [p \in Projections |-> IF p = c THEN Claimed(row[p]) ELSE row[p]]

\* claim_next first buries rows whose last attempt was lost, then takes one row.
AfterClaim(c) ==
    [p \in Projections |->
        IF p = c THEN Claimed(row[p])
        ELSE IF Exhausted(p) THEN Terminated(row[p], "DEAD") ELSE row[p]]

Claim(w, c) ==
    /\ wk[w].ph = "idle"
    /\ Claimable(c)
    /\ row' = AfterClaim(c)
    /\ wk' = [wk EXCEPT ![w] = [ph |-> "claimed", p |-> c, ver |-> row[c].ver + 1,
                                att |-> row[c].att + 1, amo |-> row[c].amo]]
    /\ UNCHANGED <<bound, copies, reported>>

ClaimNothing(w) ==
    /\ wk[w].ph = "idle"
    /\ \A p \in Projections : ~Claimable(p)
    /\ row' = AfterClaim(NoProjection)
    /\ UNCHANGED <<wk, bound, copies, reported>>

-----------------------------------------------------------------------------
(* process_claimed                                                          *)

\* Every transaction proves the lease first; a stale claim is abandoned.
StaleLease(w) ==
    /\ wk[w].ph \notin {"idle", "history", "send"}
    /\ ~Owns(w)
    /\ Return(w)
    /\ UNCHANGED <<row, bound, copies, reported>>

\* A message id that an earlier attempt stored completes the row at once.
CompleteAttached(w) ==
    /\ wk[w].ph = "claimed"
    /\ wk[w].amo
    /\ Goto(w, "complete")
    /\ UNCHANGED <<row, bound, copies, reported>>

\* Mutant: every attempt sends, whatever became of the earlier ones.
NextAfterPrepareBlind(w) == "renew"

\* Attempts after the first reconcile with the chat history before they send.
NextAfterPrepare(w) == IF wk[w].att > 1 THEN "reconcile" ELSE "renew"

\* The chat is bound and the source has something to say.
Sendable(w) == bound /\ wk[w].p \notin Blank

PrepareSend(w) ==
    /\ wk[w].ph = "claimed"
    /\ ~wk[w].amo
    /\ Owns(w)
    /\ Sendable(w)
    /\ Goto(w, NextAfterPrepare(w))
    /\ UNCHANGED <<row, bound, copies, reported>>

\* skip_with_lease updates the row, then _ProjectionSkip leaves the session
\* scope and rolls the update back: SKIPPED is returned, PROCESSING stays.
PrepareSkip(w) ==
    /\ wk[w].ph = "claimed"
    /\ ~wk[w].amo
    /\ Owns(w)
    /\ ~Sendable(w)
    /\ reported' = reported \union {wk[w].p}
    /\ Return(w)
    /\ UNCHANGED <<row, bound, copies>>

RenewBeforeHttp(w) ==
    /\ Owns(w)
    /\ \/ wk[w].ph = "reconcile" /\ Goto(w, "history")
       \/ wk[w].ph = "renew" /\ Goto(w, "send")
    /\ UNCHANGED <<row, bound, copies, reported>>

\* Mutant: any readable history page counts as proof that the message is there.
ScanHistoryTrusting(w) ==
    /\ wk[w].ph = "history"
    /\ Goto(w, "attach")
    /\ UNCHANGED <<row, bound, copies, reported>>

\* FOUND attaches the id, ABSENT permits one POST, anything else fails the try.
ScanHistory(w) ==
    /\ wk[w].ph = "history"
    /\ \/ copies[wk[w].p] > 0 /\ Goto(w, "attach")
       \/ copies[wk[w].p] = 0 /\ Goto(w, "renew")
       \/ Goto(w, "fail")
    /\ UNCHANGED <<row, bound, copies, reported>>

Landed(w) == copies' = [copies EXCEPT ![wk[w].p] = @ + 1]

SendSucceeds(w) ==
    /\ wk[w].ph = "send"
    /\ Landed(w)
    /\ Goto(w, "attach")
    /\ UNCHANGED <<row, bound, reported>>

\* Timeout, 5xx or an unreadable answer: the message landed or it did not.
SendAmbiguous(w) ==
    /\ wk[w].ph = "send"
    /\ Landed(w) \/ UNCHANGED copies
    /\ Goto(w, "fail")
    /\ UNCHANGED <<row, bound, reported>>

SendRefused(w) ==
    /\ wk[w].ph = "send"
    /\ Goto(w, "kill")
    /\ UNCHANGED <<row, bound, copies, reported>>

AttachAmoId(w) ==
    /\ wk[w].ph = "attach"
    /\ Owns(w)
    /\ row' = [row EXCEPT ![wk[w].p].amo = TRUE]
    /\ Goto(w, "complete")
    /\ UNCHANGED <<bound, copies, reported>>

Complete(w) ==
    /\ wk[w].ph = "complete"
    /\ Owns(w)
    /\ row' = [row EXCEPT ![wk[w].p] = [Terminated(@, "PROJECTED") EXCEPT !.amo = TRUE]]
    /\ Return(w)
    /\ UNCHANGED <<bound, copies, reported>>

Failed(r) == [Terminated(r, "FAILED") EXCEPT !.delayed = TRUE]

FailClaimed(w) ==
    /\ wk[w].ph \in {"fail", "kill"}
    /\ Owns(w)
    /\ row' = [row EXCEPT ![wk[w].p] =
                 IF wk[w].ph = "kill" \/ @.att >= MaxAttempts
                 THEN Terminated(@, "DEAD") ELSE Failed(@)]
    /\ Return(w)
    /\ UNCHANGED <<bound, copies, reported>>

-----------------------------------------------------------------------------
(* Operators, clock and crashes                                             *)

\* An operator binds or unbinds the chat, or its integration id is captured.
BindingChanges ==
    /\ bound' = ~bound
    /\ UNCHANGED <<row, wk, copies, reported>>

Sending(p) == \E w \in Workers : wk[w].ph = "send" /\ wk[w].p = p

LeaseExpires(p) ==
    /\ row[p].lease = "live"
    /\ ~Sending(p)
    /\ row' = [row EXCEPT ![p].lease = "expired"]
    /\ UNCHANGED <<wk, bound, copies, reported>>

DelayPasses(p) ==
    /\ row[p].delayed
    /\ row' = [row EXCEPT ![p].delayed = FALSE]
    /\ UNCHANGED <<wk, bound, copies, reported>>

\* The process dies or the tick times out; a POST on its way may have landed.
Crash(w) ==
    /\ wk[w].ph # "idle"
    /\ \/ wk[w].ph = "send" /\ Landed(w)
       \/ UNCHANGED copies
    /\ Return(w)
    /\ UNCHANGED <<row, bound, reported>>

Handle(w) ==
    \/ StaleLease(w)
    \/ CompleteAttached(w)
    \/ PrepareSend(w)
    \/ PrepareSkip(w)
    \/ RenewBeforeHttp(w)
    \/ ScanHistory(w)
    \/ SendSucceeds(w)
    \/ SendAmbiguous(w)
    \/ SendRefused(w)
    \/ AttachAmoId(w)
    \/ Complete(w)
    \/ FailClaimed(w)

ClaimOne(w) == ClaimNothing(w) \/ \E c \in Projections : Claim(w, c)

Next ==
    \/ \E p \in Projections : Enqueue(p) \/ LeaseExpires(p) \/ DelayPasses(p)
    \/ \E w \in Workers : ClaimOne(w) \/ Handle(w) \/ Crash(w)
    \/ BindingChanges

Spec == Init /\ [][Next]_vars

\* Worker loops run for ever and time passes; nothing is assumed of operators.
Fairness ==
    /\ \A w \in Workers : WF_vars(ClaimOne(w)) /\ WF_vars(Handle(w))
    /\ \A p \in Projections : WF_vars(LeaseExpires(p)) /\ WF_vars(DelayPasses(p))

FairSpec == Spec /\ Fairness

-----------------------------------------------------------------------------
(* Properties                                                               *)

\* Types, and the row's lease columns: a lease exists exactly while PROCESSING.
TypeOK ==
    /\ row \in [Projections -> [status : Statuses, lease : {"none", "live", "expired"},
                                ver : Nat, att : Nat, amo : BOOLEAN, delayed : BOOLEAN]]
    /\ \A p \in Projections : (row[p].status = "PROCESSING") = (row[p].lease # "none")
    /\ wk \in [Workers -> [ph : Phases, p : Projections \union {NoProjection},
                           ver : Nat, att : Nat, amo : BOOLEAN]]
    /\ bound \in BOOLEAN
    /\ copies \in [Projections -> Nat]
    /\ reported \subseteq Projections

\* "Never blind-resend after ambiguous": however often answers are lost, workers
\* crash and leases expire, a message appears in the amoCRM chat at most once.
AtMostOneCopy == \A p \in Projections : copies[p] <= 1

\* A row that says PROJECTED, or that carries the id which the echo filter of
\* the manager ingress looks up, has its message in the chat.
ProjectedIsVisible ==
    \A p \in Projections : row[p].status = "PROJECTED" \/ row[p].amo => copies[p] > 0

\* amo ids and settled rows are final: an attached id is never lost, and a row
\* that is PROJECTED, SKIPPED or DEAD is never reopened.
SettledIsFinal ==
    [][\A p \in Projections :
          /\ row[p].status \in Settled => row'[p] = row[p]
          /\ row[p].amo => row'[p].amo]_vars

\* Every enqueued projection settles, although each attempt may be lost.
ProjectionSettles ==
    \A p \in Projections : row[p].status = "PENDING" ~> row[p].status \in Settled

\* The chat shows each message at most once, and the row tells the truth about it.
CopiesExact ==
  /\ AtMostOneCopy
  /\ ProjectedIsVisible

\* Every projection settles, and what is settled is never taken up again.
RowsSettleForGood ==
  /\ SettledIsFinal
  /\ ProjectionSettles

\* process_claimed answers "status = SKIPPED" with the skip reason it has just
\* written: what it reports is what the row says.
SkipIsRecorded == \A p \in reported : row[p].status = "SKIPPED"
=============================================================================
