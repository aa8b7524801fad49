--------------------------- MODULE TechnicalDeal ---------------------------
(***************************************************************************)
(* The technical deal of one conversation: the open row of                 *)
(* amocrm_entity_links, the workers that run ensure_technical_deal, the    *)
(* operator's resolve_reconcile and the leads of the CRM.                  *)
(*                                                                         *)
(* A transaction and an HTTP call are one action each.  Every claim of a   *)
(* reservation draws a fresh lease_token and makes at most one successful  *)
(* create POST, so the token also names the deal that POST creates.        *)
(***************************************************************************)
EXTENDS Naturals, FiniteSets

CONSTANTS Workers,          \* processes that run ensure_technical_deal
          NoWorker,         \* lease_owner IS NULL
          MaxReservations,  \* bound on the reservations ever claimed
          MaxDeletes        \* bound on deals deleted by people in the CRM

ASSUME DealAssumption == /\ NoWorker \notin Workers
                         /\ MaxReservations \in Nat
                         /\ MaxDeletes \in Nat

VARIABLES link,     \* the open row: status, external id, lease, submit marker
          tokens,   \* lease tokens drawn so far
          wk,       \* what each running ensure_technical_deal remembers
          op,       \* the deal an operator has confirmed, 0 when there is none
          deals,    \* leads of this conversation that exist in the CRM
          wire,     \* create POSTs without an answer, which may still land
          deleted,  \* number of deals deleted so far
          raced     \* history: a link was revoked on the 404 of another deal

vars == <<link, tokens, wk, op, deals, wire, deleted, raced>>

LinkStatuses == {"NONE", "RESERVED", "RECONCILE_REQUIRED", "ACTIVE"}
Phases == {"idle", "get", "revoke", "reserve", "post", "created", "ambiguous",
           "refused"}

\* No open row: none was written, or the last one is REVOKED.
NoLink == [status |-> "NONE", ext |-> 0, owner |-> NoWorker, token |-> 0,
           lease |-> "none", submitted |-> FALSE]
Reconcile == [NoLink EXCEPT !.status = "RECONCILE_REQUIRED"]

\* Mutant: the lease columns survive the activation.
ActiveKeepsLease(d) == [link EXCEPT !.status = "ACTIVE", !.ext = d]

Active(d) == [NoLink EXCEPT !.status = "ACTIVE", !.ext = d]
Reserved(w, t, lease, submitted) ==
    [status |-> "RESERVED", ext |-> 0, owner |-> w, token |-> t,
     lease |-> lease, submitted |-> submitted]

Idle == [ph |-> "idle", seen |-> 0, token |-> 0]

Init ==
    /\ link = NoLink
    /\ tokens = 0
    /\ wk = [w \in Workers |-> Idle]
    /\ op = 0
    /\ deals = {}
    /\ wire = {}
    /\ deleted = 0
    /\ raced = FALSE

Return(w) == wk' = [wk EXCEPT ![w] = Idle]
Goto(w, ph) == wk' = [wk EXCEPT ![w].ph = ph]

-----------------------------------------------------------------------------
(* ensure_technical_deal up to the reservation                              *)

\* RECONCILE_REQUIRED ends the call; an ACTIVE link is validated first.
Snapshot(w) ==
    /\ wk[w].ph = "idle"
    /\ link.status # "RECONCILE_REQUIRED"
    /\ wk' = [wk EXCEPT ![w] =
                 IF link.status = "ACTIVE"
                 THEN [ph |-> "get", seen |-> link.ext, token |-> 0]
                 ELSE [ph |-> "reserve", seen |-> 0, token |-> 0]]
    /\ UNCHANGED <<link, tokens, op, deals, wire, deleted, raced>>

\* GET of the linked deal: found and any uncertain answer end the call.
GetLead(w) ==
    /\ wk[w].ph = "get"
    /\ \/ Return(w)
       \/ wk[w].seen \notin deals /\ Goto(w, "revoke")
    /\ UNCHANGED <<link, tokens, op, deals, wire, deleted, raced>>

\* A 404 revokes the ACTIVE link, whichever deal it names by now.
RevokeActive(w) ==
    /\ wk[w].ph = "revoke"
    /\ link' = IF link.status = "ACTIVE" THEN NoLink ELSE link
    /\ raced' = (raced \/ (link.status = "ACTIVE" /\ link.ext # wk[w].seen))
    /\ Goto(w, "reserve")
    /\ UNCHANGED <<tokens, op, deals, wire, deleted>>

HeldByOther(w) == link.lease = "live" /\ link.owner # w

\* Mutant: an expired reservation is taken over although its POST may be out.
TakeableEvenSubmitted(w) ==
    \/ link.status = "NONE"
    \/ link.status = "RESERVED" /\ ~HeldByOther(w)

Takeable(w) ==
    \/ link.status = "NONE"
    \/ link.status = "RESERVED" /\ ~HeldByOther(w) /\ ~link.submitted

\* Reservation and submit marker commit together: only then is there a POST.
Reserve(w) ==
    /\ wk[w].ph = "reserve"
    /\ Takeable(w)
    /\ tokens < MaxReservations
    /\ tokens' = tokens + 1
    /\ link' = Reserved(w, tokens + 1, "live", TRUE)
    /\ wk' = [wk EXCEPT ![w] = [ph |-> "post", seen |-> 0, token |-> tokens + 1]]
    /\ UNCHANGED <<op, deals, wire, deleted, raced>>

\* The lease ran out before the marker: the bare reservation is committed.
ReserveUnsubmitted(w) ==
    /\ wk[w].ph = "reserve"
    /\ Takeable(w)
    /\ tokens < MaxReservations
    /\ tokens' = tokens + 1
    /\ link' = Reserved(w, tokens + 1, "expired", FALSE)
    /\ Return(w)
    /\ UNCHANGED <<op, deals, wire, deleted, raced>>

\* A submitted reservation that nobody else holds has an unknown outcome.
ReserveRefused(w) ==
    /\ wk[w].ph = "reserve"
    /\ ~Takeable(w)
    /\ link' = IF link.status = "RESERVED" /\ ~HeldByOther(w) THEN Reconcile ELSE link
    /\ Return(w)
    /\ UNCHANGED <<tokens, op, deals, wire, deleted, raced>>

-----------------------------------------------------------------------------
(* The create POST and what follows it                                      *)

PostCreated(w) ==
    /\ wk[w].ph = "post"
    /\ deals' = deals \union {wk[w].token}
    /\ Goto(w, "created")
    /\ UNCHANGED <<link, tokens, op, wire, deleted, raced>>

\* No answer, an unreadable one, 402, 403, 429 or 5xx: the deal may exist.
PostAmbiguous(w) ==
    /\ wk[w].ph = "post"
    /\ wire' = wire \union {wk[w].token}
    /\ Goto(w, "ambiguous")
    /\ UNCHANGED <<link, tokens, op, deals, deleted, raced>>

\* 401 after the refresh and any other explicit 4xx: the deal does not exist.
PostRefused(w) ==
    /\ wk[w].ph = "post"
    /\ Goto(w, "refused")
    /\ UNCHANGED <<link, tokens, op, deals, wire, deleted, raced>>

HoldsReservation(w) == link.status = "RESERVED" /\ link.token = wk[w].token

CompleteToActive(w) ==
    /\ wk[w].ph = "created"
    /\ link' = IF HoldsReservation(w) /\ link.lease = "live"
               THEN Active(wk[w].token) ELSE link
    /\ Return(w)
    /\ UNCHANGED <<tokens, op, deals, wire, deleted, raced>>

MarkReconcile(w) ==
    /\ wk[w].ph = "ambiguous"
    /\ link' = IF HoldsReservation(w) THEN Reconcile ELSE link
    /\ Return(w)
    /\ UNCHANGED <<tokens, op, deals, wire, deleted, raced>>

ReleaseForRetry(w) ==
    /\ wk[w].ph = "refused"
    /\ link' = IF HoldsReservation(w) THEN NoLink ELSE link
    /\ Return(w)
    /\ UNCHANGED <<tokens, op, deals, wire, deleted, raced>>

-----------------------------------------------------------------------------
(* Operator, CRM, clock and crashes                                         *)

\* resolve_reconcile: the row is RECONCILE_REQUIRED and the GET finds the deal.
OperatorConfirms(d) ==
    /\ op = 0
    /\ link.status = "RECONCILE_REQUIRED"
    /\ op' = d
    /\ UNCHANGED <<link, tokens, wk, deals, wire, deleted, raced>>

ActivateReconcileRequired ==
    /\ op # 0
    /\ link' = IF link.status = "RECONCILE_REQUIRED" THEN Active(op) ELSE link
    /\ op' = 0
    /\ UNCHANGED <<tokens, wk, deals, wire, deleted, raced>>

DealLands(t) ==
    /\ wire' = wire \ {t}
    /\ deals' = deals \union {t}
    /\ UNCHANGED <<link, tokens, wk, op, deleted, raced>>

DealDeleted(d) ==
    /\ deleted < MaxDeletes
    /\ deals' = deals \ {d}
    /\ deleted' = deleted + 1
    /\ UNCHANGED <<link, tokens, wk, op, wire, raced>>

LeaseExpires ==
    /\ link.lease = "live"
    /\ link' = [link EXCEPT !.lease = "expired"]
    /\ UNCHANGED <<tokens, wk, op, deals, wire, deleted, raced>>

\* The process dies: a POST it was making may or may not have left.
Crash(w) ==
    /\ wk[w].ph # "idle"
    /\ wire' = IF wk[w].ph = "post" THEN wire \union {wk[w].token} ELSE wire
    /\ Return(w)
    /\ UNCHANGED <<link, tokens, op, deals, deleted, raced>>

WorkerStep(w) ==
    \/ Snapshot(w)
    \/ GetLead(w)
    \/ RevokeActive(w)
    \/ Reserve(w)
    \/ ReserveUnsubmitted(w)
    \/ ReserveRefused(w)
    \/ PostCreated(w)
    \/ PostAmbiguous(w)
    \/ PostRefused(w)
    \/ CompleteToActive(w)
    \/ MarkReconcile(w)
    \/ ReleaseForRetry(w)
    \/ Crash(w)

Next ==
    \/ \E w \in Workers : WorkerStep(w)
    \/ \E d \in deals : OperatorConfirms(d)
    \/ ActivateReconcileRequired
    \/ \E t \in wire : DealLands(t)
    \/ \E d \in deals : DealDeleted(d)
    \/ LeaseExpires

Spec == Init /\ [][Next]_vars

-----------------------------------------------------------------------------
(* Properties                                                               *)

\* Types, and the CHECK constraints of the row: a lease, its owner and its
\* token exist exactly while it is RESERVED, an external id while ACTIVE.
TypeOK ==
    /\ link \in [status : LinkStatuses, ext : Nat, owner : Workers \union {NoWorker},
                 token : Nat, lease : {"none", "live", "expired"}, submitted : BOOLEAN]
    /\ (link.status = "RESERVED") = (link.token # 0)
    /\ (link.status = "RESERVED") = (link.owner # NoWorker)
    /\ (link.status = "RESERVED") = (link.lease # "none")
    /\ (link.status = "ACTIVE") = (link.ext # 0)
    /\ tokens \in Nat
    /\ wk \in [Workers -> [ph : Phases, seen : Nat, token : Nat]]
    /\ op \in Nat
    /\ deals \subseteq 1..tokens
    /\ wire \subseteq 1..tokens
    /\ deleted \in Nat
    /\ raced \in BOOLEAN

\* amocrm_crm_mirror_adapter.py and ADR-004: "exactly one TECHNICAL_DEAL per
\* conversation": reservation, submit marker, reconcile and revocation never
\* leave two leads for the conversation in the CRM, whatever is lost on the way.
AtMostOneDeal == \A a, b \in deals : a = b

\* No deal is forgotten: a lead that exists or may still appear is named by the
\* ACTIVE link, or the open row says that a create is running (RESERVED, with
\* its marker) or that its outcome is unknown (RECONCILE_REQUIRED).
DealIsTracked ==
    \A d \in deals \union wire :
        \/ link.status = "ACTIVE" /\ link.ext = d
        \/ link.status = "RESERVED" /\ link.submitted /\ link.token = d
        \/ link.status = "RECONCILE_REQUIRED"

\* Reservation, submit marker and reconcile keep one deal and track it, however
\* many workers, crashes, lost answers, lapsed leases and deletions there are:
\* a second or a forgotten deal needs a link revoked on another deal's 404.
OneTrackedDeal == raced \/ (AtMostOneDeal /\ DealIsTracked)
=============================================================================
