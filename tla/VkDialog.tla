------------------------------ MODULE VkDialog ------------------------------
(***************************************************************************)
(* One VK conversation behind the durable ingress.  VK delivers client     *)
(* messages and message_reply events; a message_reply is a person writing  *)
(* for the community or the echo of a message the bot itself has sent.     *)
(* Ingress workers apply events, the outbound worker sends the proof reply. *)
(* A transaction and an HTTP call are one action each; between two of them *)
(* a worker may crash or lose its lease.                                   *)
(*                                                                         *)
(* attempt_count and lease_version both start at 0 and grow with every     *)
(* claim only, so ver stands for both.  Retry delays and the handoff       *)
(* deadline only postpone a step and are left out.  Every change of        *)
(* manager_epoch or current_event_seq also moves context_version, so ctx   *)
(* stands for the three fences.  Claiming of reply plans is the subject    *)
(* of Dialog; here a plan is dispatched or dies in one step.               *)
(***************************************************************************)
EXTENDS Naturals

CONSTANTS Clients,      \* messages of the client
          Triggers,     \* those that carry the closed-proof trigger text
          Humans,       \* messages a person writes for the community
          Nothing,      \* no event, no row
          InWorkers,    \* ingress workers
          OutWorkers,   \* outbound workers
          MaxAttempts,  \* max_attempts of events and outbound rows
          MaxFaults     \* crashes and leases that run out under a worker

ClientEvent(c) == <<"client", c>>
Echo(c) == <<"echo", c>>
Human(h) == <<"human", h>>
Replies == {Echo(c) : c \in Triggers} \union {Human(h) : h \in Humans}
Events == {ClientEvent(c) : c \in Clients} \union Replies

ASSUME VkAssumption ==
    /\ Triggers \subseteq Clients
    /\ Nothing \notin Triggers \union Events
    /\ MaxAttempts \in Nat \ {0} /\ MaxFaults \in Nat

VARIABLES ev,       \* ingress_events
          iw,       \* the claim in the memory of each ingress worker
          conv,     \* the conversation row
          inbox,    \* client messages with an inbox row
          plan,     \* the reply plan of each trigger
          outb,     \* its VK_CLIENT_OUTBOUND row
          ow,       \* the claim in the memory of each outbound worker
          jobs,     \* mirror jobs, by their unique keys
          payload,  \* what the message_reply of each reply carries
          cmid,     \* conversation_message_id that VK gave to each reply, 0: none
          top,      \* the last conversation_message_id
          outcome,  \* the classification each processed reply returned
          faults    \* crashes and early lease expiries so far

vars == <<ev, iw, conv, inbox, plan, outb, ow, jobs, payload, cmid, top, outcome, faults>>
ingress == <<ev, iw, outcome>>
dialog == <<conv, inbox, plan, jobs>>
provider == <<payload, cmid, top>>

EventStatuses == {"NONE", "RECEIVED", "PROCESSING", "PROCESSED", "FAILED", "DEAD"}
OutStatuses == {"NONE", "PENDING", "PROCESSING", "ADMITTED", "DELIVERED", "FAILED",
                "CANCELLED", "DEAD"}
Leases == {"none", "live", "expired"}
PlanStatuses == {"NONE", "OPEN", "DISPATCHED", "CLOSED"}
Outcomes == {"none", "OWN_TEYA_ECHO", "EXTERNAL_ACTOR", "STALE", "UNRESOLVED_CONVERSATION"}
OutPhases == {"idle", "admit", "denied", "reclaimed", "send", "store", "deliver",
              "retry", "kill"}
Payloads == {"ABSENT", "FOREIGN", "BOT_TV_CANDIDATE"}
IdleIn == [ph |-> "idle", e |-> Nothing, ver |-> 0]
IdleOut == [ph |-> "idle", c |-> Nothing, ver |-> 0]

Init ==
    /\ ev = [e \in Events |-> [st |-> "NONE", lease |-> "none", ver |-> 0]]
    /\ iw = [w \in InWorkers |-> IdleIn]
    /\ conv = [mgr |-> FALSE, ctx |-> 0, hwm |-> 0]
    /\ inbox = {}
    /\ plan = [c \in Triggers |-> [st |-> "NONE", ctx |-> 0]]
    /\ outb = [c \in Triggers |-> [st |-> "NONE", lease |-> "none", ver |-> 0, id |-> FALSE]]
    /\ ow = [w \in OutWorkers |-> IdleOut]
    /\ jobs = {}
    /\ payload = [r \in Replies |-> "ABSENT"]
    /\ cmid = [r \in Replies |-> 0]
    /\ top = 0
    /\ outcome = [r \in Replies |-> "none"]
    /\ faults = 0

-----------------------------------------------------------------------------
(* VK and the webhook                                                       *)

\* VK numbers the messages of a conversation.
Written(r, kinds) ==
    /\ cmid' = [cmid EXCEPT ![r] = top + 1]
    /\ top' = top + 1
    /\ \E k \in kinds : payload' = [payload EXCEPT ![r] = k]

\* A person writes in the VK interface or through another application.
HumanWrites(h) ==
    /\ cmid[Human(h)] = 0
    /\ Written(Human(h), {"ABSENT", "FOREIGN"})
    /\ UNCHANGED <<ingress, dialog, outb, ow, faults>>

\* messages.send: a random_id that VK has seen before creates no second message;
\* the echo carries the authenticated payload or has lost it.
Landed(c) ==
    IF cmid[Echo(c)] = 0 THEN Written(Echo(c), {"ABSENT", "BOT_TV_CANDIDATE"})
                         ELSE UNCHANGED provider

\* The webhook stores the event and answers "ok" after the commit.  A repeated
\* callback finds the row and changes nothing.
AcceptEvent(e) ==
    /\ e \in Replies => cmid[e] > 0
    /\ ev[e].st = "NONE"
    /\ ev' = [ev EXCEPT ![e].st = "RECEIVED"]
    /\ UNCHANGED <<iw, outcome, dialog, outb, ow, provider, faults>>

-----------------------------------------------------------------------------
(* Ingress worker: claim, complete, fail                                    *)

\* Mutant: an expired final attempt is never found.
NeverExhausted(e) == FALSE

\* recover_exhausted_leases
Exhausted(e) == ev[e].st = "PROCESSING" /\ ev[e].lease = "expired" /\ ev[e].ver >= MaxAttempts

Claimable(e) ==
    /\ ev[e].ver < MaxAttempts
    /\ \/ ev[e].st \in {"RECEIVED", "FAILED"}
       \/ ev[e].st = "PROCESSING" /\ ev[e].lease = "expired"

\* claim_next buries expired final attempts, then takes one candidate.
AfterClaim(c) ==
    [e \in Events |->
        IF e = c THEN [st |-> "PROCESSING", lease |-> "live", ver |-> ev[e].ver + 1]
        ELSE IF Exhausted(e) THEN [ev[e] EXCEPT !.st = "DEAD", !.lease = "none"] ELSE ev[e]]

ClaimEvent(w, e) ==
    /\ iw[w].ph = "idle"
    /\ Claimable(e)
    /\ ev' = AfterClaim(e)
    /\ iw' = [iw EXCEPT ![w] = [ph |-> "run", e |-> e, ver |-> ev[e].ver + 1]]
    /\ UNCHANGED <<outcome, dialog, outb, ow, provider, faults>>

ClaimNoEvent(w) ==
    /\ iw[w].ph = "idle"
    /\ \A e \in Events : ~Claimable(e)
    /\ ev' = AfterClaim(Nothing)
    /\ UNCHANGED <<iw, outcome, dialog, outb, ow, provider, faults>>

\* Mutant: the status is not part of the fence.
OwnsEventByVersion(w) == ev[iw[w].e].ver = iw[w].ver

\* complete_with_lease and fail_with_lease ask for status, token and version;
\* an expired lease that nobody has taken is still good.
OwnsEvent(w) == ev[iw[w].e].st = "PROCESSING" /\ ev[iw[w].e].ver = iw[w].ver

\* Mutant: the lease columns are left in place.
SettleKeepsLease(w, status) ==
    /\ ev' = [ev EXCEPT ![iw[w].e].st = status]
    /\ iw' = [iw EXCEPT ![w] = IdleIn]

Settle(w, status) ==
    /\ ev' = [ev EXCEPT ![iw[w].e] = [@ EXCEPT !.st = status, !.lease = "none"]]
    /\ iw' = [iw EXCEPT ![w] = IdleIn]

\* StaleIngressLeaseError rolls the business effect back.
StaleEvent(w) ==
    /\ iw[w].ph # "idle"
    /\ ~OwnsEvent(w)
    /\ iw' = [iw EXCEPT ![w] = IdleIn]
    /\ UNCHANGED <<ev, outcome, dialog, outb, ow, provider, faults>>

\* Any other exception is rolled back and then recorded by fail_claimed.
EventRaises(w) ==
    /\ iw[w].ph = "run"
    /\ iw' = [iw EXCEPT ![w].ph = "fail"]
    /\ UNCHANGED <<ev, outcome, dialog, outb, ow, provider, faults>>

FailClaimed(w) ==
    /\ iw[w].ph = "fail"
    /\ OwnsEvent(w)
    /\ Settle(w, IF iw[w].ver >= MaxAttempts THEN "DEAD" ELSE "FAILED")
    /\ UNCHANGED <<outcome, dialog, outb, ow, provider, faults>>

-----------------------------------------------------------------------------
(* Client messages                                                          *)

CloseOpenPlans == [c \in Triggers |-> IF plan[c].st = "OPEN" THEN [plan[c] EXCEPT !.st = "CLOSED"]
                                                             ELSE plan[c]]

\* Mutant: rows that are already admitted are cancelled as well.
CancelAlsoAdmitted ==
    [c \in Triggers |-> IF outb[c].st \in {"PENDING", "PROCESSING", "FAILED", "ADMITTED"}
                        THEN [outb[c] EXCEPT !.st = "CANCELLED", !.lease = "none"] ELSE outb[c]]

CancelUnadmitted ==
    [c \in Triggers |-> IF outb[c].st \in {"PENDING", "PROCESSING", "FAILED"}
                        THEN [outb[c] EXCEPT !.st = "CANCELLED", !.lease = "none"] ELSE outb[c]]

\* VkClientInboundService.accept: inbox row and context version, nothing else;
\* a message that is already in the inbox is a duplicate.
AcceptMessage(c) ==
    /\ inbox' = inbox \union {c}
    /\ conv' = IF c \in inbox THEN conv ELSE [conv EXCEPT !.ctx = @ + 1]

\* The trigger replaces open plans by a proof plan of the new context.
CreateProofPlan(c) ==
    /\ plan' = [CloseOpenPlans EXCEPT ![c] = [st |-> "OPEN", ctx |-> conv.ctx + 1]]
    /\ outb' = CancelUnadmitted

ProcessClient(w, c) ==
    /\ iw[w].ph = "run"
    /\ iw[w].e = ClientEvent(c)
    /\ OwnsEvent(w)
    /\ Settle(w, "PROCESSED")
    /\ AcceptMessage(c)
    /\ IF c \in Triggers \ inbox THEN CreateProofPlan(c) ELSE UNCHANGED <<plan, outb>>
    /\ UNCHANGED <<jobs, ow, outcome, provider, faults>>

-----------------------------------------------------------------------------
(* message_reply: own echo or somebody else                                 *)

InFlight(c) == outb[c].st = "ADMITTED" /\ ~outb[c].id

\* Mutant: an echo that overtakes its receipt is not waited for.
ClassifyWithoutRace(r) ==
    IF \E c \in Triggers : r = Echo(c) /\ outb[c].id THEN "OWN_TEYA_ECHO" ELSE "EXTERNAL_ACTOR"

\* Mutant: while a send is in flight every reply without payload is the bot's.
ClassifyTrustsTiming(r) ==
    IF \E c \in Triggers : (r = Echo(c) /\ outb[c].id) \/ InFlight(c)
    THEN "OWN_TEYA_ECHO" ELSE "EXTERNAL_ACTOR"

\* The outbound rows that may explain a reply: an authenticated payload names
\* its row, a reply without payload may belong to any.
Candidates(r) == {c \in Triggers : payload[r] = "BOT_TV_CANDIDATE" => r = Echo(c)}

\* _classify_own_echo.  id means that the stored provider_message_id is the one
\* VK gave to the row's message.  A forged payload counts as FOREIGN.
Classify(r) ==
    IF payload[r] = "FOREIGN" THEN "EXTERNAL_ACTOR"
    ELSE IF \E c \in Candidates(r) : r = Echo(c) /\ outb[c].id THEN "OWN_TEYA_ECHO"
    ELSE IF \E c \in Candidates(r) : InFlight(c) THEN "RETRY"
    ELSE "EXTERNAL_ACTOR"

\* Mutant: the order of the replies is ignored.
VerdictUnordered(r) == IF inbox = {} THEN "UNRESOLVED_CONVERSATION" ELSE Classify(r)

\* The first client message creates the conversation.  Somebody else's reply
\* counts only if it is later than the last one that did.
Verdict(r) ==
    IF inbox = {} THEN "UNRESOLVED_CONVERSATION"
    ELSE IF Classify(r) = "EXTERNAL_ACTOR" /\ cmid[r] <= conv.hwm THEN "STALE"
    ELSE Classify(r)

\* VkClientMessageReplyOwnEchoRace
ReplyRaces(w) ==
    /\ iw[w].ph = "run" /\ iw[w].e \in Replies
    /\ Verdict(iw[w].e) = "RETRY"
    /\ iw' = [iw EXCEPT ![w].ph = "fail"]
    /\ UNCHANGED <<ev, outcome, dialog, outb, ow, provider, faults>>

Classified(w) ==
    /\ iw[w].ph = "run" /\ iw[w].e \in Replies
    /\ OwnsEvent(w)
    /\ Settle(w, "PROCESSED")
    /\ outcome' = [outcome EXCEPT ![iw[w].e] = Verdict(iw[w].e)]

ReplyIgnored(w) ==
    /\ Classified(w)
    /\ Verdict(iw[w].e) \in {"OWN_TEYA_ECHO", "STALE", "UNRESOLVED_CONVERSATION"}
    /\ UNCHANGED <<dialog, outb, ow, provider, faults>>

\* apply_chronologically_new_vk_external_reply
ExternalReply(r) == [mgr |-> TRUE, ctx |-> conv.ctx + 1, hwm |-> cmid[r]]

ReplyTakesOver(w) ==
    /\ Classified(w)
    /\ Verdict(iw[w].e) = "EXTERNAL_ACTOR"
    /\ conv' = ExternalReply(iw[w].e)
    /\ plan' = CloseOpenPlans
    /\ outb' = CancelUnadmitted
    /\ jobs' = IF conv.mgr THEN jobs ELSE jobs \union {<<"MANAGER_TAKEOVER", Nothing>>}
    /\ UNCHANGED <<inbox, ow, provider, faults>>

-----------------------------------------------------------------------------
(* Handoff expiry and reply plans                                           *)

\* A VK dialog has no pause: client messages leave HUMAN_ACTIVE as it is.
ExpireHandoff ==
    /\ conv.mgr
    /\ conv' = [conv EXCEPT !.mgr = FALSE]
    /\ plan' = CloseOpenPlans
    /\ outb' = CancelUnadmitted
    /\ UNCHANGED <<ingress, inbox, jobs, ow, provider, faults>>

Current(c) == ~conv.mgr /\ plan[c].ctx = conv.ctx

DispatchPlan(c) ==
    /\ plan[c].st = "OPEN"
    /\ Current(c)
    /\ plan' = [plan EXCEPT ![c].st = "DISPATCHED"]
    /\ outb' = [outb EXCEPT ![c].st = "PENDING"]
    /\ jobs' = jobs \union {<<"PLAN_DISPATCHED", c>>}
    /\ UNCHANGED <<ingress, conv, inbox, ow, provider, faults>>

\* The last attempt of the plan fails or is lost.
PlanDies(c) ==
    /\ plan[c].st = "OPEN"
    /\ plan' = [plan EXCEPT ![c].st = "CLOSED"]
    /\ jobs' = jobs \union {<<"PLAN_DEAD", c>>}
    /\ UNCHANGED <<ingress, conv, inbox, outb, ow, provider, faults>>

-----------------------------------------------------------------------------
(* Outbound worker: claim, admit, send, store the receipt, deliver          *)

ExhaustedOut(c) ==
    outb[c].st = "PROCESSING" /\ outb[c].lease = "expired" /\ outb[c].ver >= MaxAttempts

\* Mutant: the attempt limit also keeps admitted rows from being reclaimed.
OutClaimableCapped(c) ==
    /\ outb[c].ver < MaxAttempts
    /\ \/ outb[c].st \in {"PENDING", "FAILED"}
       \/ outb[c].st \in {"PROCESSING", "ADMITTED"} /\ outb[c].lease # "live"

OutClaimable(c) ==
    /\ outb[c].st = "ADMITTED" \/ outb[c].ver < MaxAttempts
    /\ \/ outb[c].st \in {"PENDING", "FAILED"}
       \/ outb[c].st = "PROCESSING" /\ outb[c].lease = "expired"
       \/ outb[c].st = "ADMITTED" /\ outb[c].lease # "live"

AfterOutClaim(x) ==
    [c \in Triggers |->
        IF c = x
        THEN [outb[c] EXCEPT !.st = IF @ = "ADMITTED" THEN @ ELSE "PROCESSING",
                             !.lease = "live", !.ver = @ + 1]
        ELSE IF ExhaustedOut(c) THEN [outb[c] EXCEPT !.st = "DEAD", !.lease = "none"]
        ELSE outb[c]]

ClaimOut(w, c) ==
    /\ ow[w].ph = "idle"
    /\ OutClaimable(c)
    /\ outb' = AfterOutClaim(c)
    /\ ow' = [ow EXCEPT ![w] = [ph |-> IF outb[c].st = "ADMITTED" THEN "reclaimed" ELSE "admit",
                                c |-> c, ver |-> outb[c].ver + 1]]
    /\ UNCHANGED <<ingress, dialog, provider, faults>>

ClaimNoOut(w) ==
    /\ ow[w].ph = "idle"
    /\ \A c \in Triggers : ~OutClaimable(c)
    /\ outb' = AfterOutClaim(Nothing)
    /\ UNCHANGED <<ingress, dialog, ow, provider, faults>>

OwnsOut(w, status) == outb[ow[w].c].st = status /\ outb[ow[w].c].ver = ow[w].ver

Goto(w, ph) == ow' = [ow EXCEPT ![w].ph = ph]

\* A phase whose transaction needs the row in a status abandons a lost claim.
StaleOut(w) ==
    /\ \/ ow[w].ph \in {"admit", "denied"} /\ ~OwnsOut(w, "PROCESSING")
       \/ ow[w].ph \in {"reclaimed", "store", "deliver", "retry", "kill"} /\ ~OwnsOut(w, "ADMITTED")
    /\ ow' = [ow EXCEPT ![w] = IdleOut]
    /\ UNCHANGED <<ingress, dialog, outb, provider, faults>>

Admit(w) ==
    /\ ow[w].ph = "admit"
    /\ OwnsOut(w, "PROCESSING")
    /\ Current(ow[w].c) /\ plan[ow[w].c].st = "DISPATCHED"
    /\ outb' = [outb EXCEPT ![ow[w].c].st = "ADMITTED"]
    /\ Goto(w, "send")
    /\ UNCHANGED <<ingress, dialog, provider, faults>>

\* The arbiter denies, or its transaction fails.
AdmitDenied(w) ==
    /\ ow[w].ph = "admit"
    /\ Goto(w, "denied")
    /\ UNCHANGED <<ingress, dialog, outb, provider, faults>>

FailOut(w) ==
    /\ ow[w].ph = "denied"
    /\ OwnsOut(w, "PROCESSING")
    /\ outb' = [outb EXCEPT ![ow[w].c] =
                   [@ EXCEPT !.st = IF ow[w].ver >= MaxAttempts THEN "DEAD" ELSE "FAILED",
                             !.lease = "none"]]
    /\ ow' = [ow EXCEPT ![w] = IdleOut]
    /\ UNCHANGED <<ingress, dialog, provider, faults>>

PrepareReclaimed(w) ==
    /\ ow[w].ph = "reclaimed"
    /\ OwnsOut(w, "ADMITTED")
    /\ Goto(w, "send")
    /\ UNCHANGED <<ingress, dialog, outb, provider, faults>>

SendAnswered(w) ==
    /\ ow[w].ph = "send"
    /\ Landed(ow[w].c)
    /\ Goto(w, "store")
    /\ UNCHANGED <<ingress, dialog, outb, faults>>

\* Timeouts and 5xx are transient, refusals and unreadable answers permanent;
\* the message may be in the chat all the same.
SendFails(w) ==
    /\ ow[w].ph = "send"
    /\ Landed(ow[w].c) \/ UNCHANGED provider
    /\ Goto(w, "retry") \/ Goto(w, "kill")
    /\ UNCHANGED <<ingress, dialog, outb, faults>>

\* A failed delivery stays ADMITTED until its attempts are used up.
FailAdmitted(w) ==
    /\ ow[w].ph \in {"retry", "kill"}
    /\ OwnsOut(w, "ADMITTED")
    /\ outb' = [outb EXCEPT ![ow[w].c] =
                   [@ EXCEPT !.st = IF ow[w].ph = "kill" \/ ow[w].ver >= MaxAttempts
                                    THEN "DEAD" ELSE "ADMITTED",
                             !.lease = "none"]]
    /\ ow' = [ow EXCEPT ![w] = IdleOut]
    /\ UNCHANGED <<ingress, dialog, provider, faults>>

\* set_vk_provider_message_id_with_lease: the receipt, before DELIVERED.
StoreId(w) ==
    /\ ow[w].ph = "store"
    /\ OwnsOut(w, "ADMITTED")
    /\ outb' = [outb EXCEPT ![ow[w].c].id = TRUE]
    /\ Goto(w, "deliver")
    /\ UNCHANGED <<ingress, dialog, provider, faults>>

\* mark_delivered_with_lease writes the provider id once more.
MarkDelivered(w) ==
    /\ ow[w].ph = "deliver"
    /\ OwnsOut(w, "ADMITTED")
    /\ outb' = [outb EXCEPT ![ow[w].c] =
                   [@ EXCEPT !.st = "DELIVERED", !.lease = "none", !.id = TRUE]]
    /\ ow' = [ow EXCEPT ![w] = IdleOut]
    /\ jobs' = jobs \union {<<"OUTBOUND_DELIVERED", ow[w].c>>}
    /\ UNCHANGED <<ingress, conv, inbox, plan, provider, faults>>

-----------------------------------------------------------------------------
(* Clock and crashes                                                        *)

Fault == faults < MaxFaults /\ faults' = faults + 1

\* A lease nobody works under runs out; under a running worker that is a fault.
EventLeaseExpires(e) ==
    /\ ev[e].lease = "live"
    /\ ev' = [ev EXCEPT ![e].lease = "expired"]
    /\ IF \E w \in InWorkers : iw[w].e = e /\ OwnsEvent(w) THEN Fault ELSE UNCHANGED faults
    /\ UNCHANGED <<iw, outcome, dialog, outb, ow, provider>>

OutLeaseExpires(c) ==
    /\ outb[c].lease = "live"
    /\ outb' = [outb EXCEPT ![c].lease = "expired"]
    /\ IF \E w \in OutWorkers : ow[w].c = c /\ ow[w].ver = outb[c].ver THEN Fault ELSE UNCHANGED faults
    /\ UNCHANGED <<ingress, dialog, ow, provider>>

CrashIn(w) ==
    /\ iw[w].ph # "idle"
    /\ Fault
    /\ iw' = [iw EXCEPT ![w] = IdleIn]
    /\ UNCHANGED <<ev, outcome, dialog, outb, ow, provider>>

\* A send on its way may still arrive.
CrashOut(w) ==
    /\ ow[w].ph # "idle"
    /\ Fault
    /\ \/ ow[w].ph = "send" /\ Landed(ow[w].c)
       \/ UNCHANGED provider
    /\ ow' = [ow EXCEPT ![w] = IdleOut]
    /\ UNCHANGED <<ingress, dialog, outb>>

-----------------------------------------------------------------------------
ClaimIn(w) == ClaimNoEvent(w) \/ \E e \in Events : ClaimEvent(w, e)

HandleEvent(w) ==
    \/ StaleEvent(w)
    \/ EventRaises(w)
    \/ FailClaimed(w)
    \/ \E c \in Clients : ProcessClient(w, c)
    \/ ReplyRaces(w)
    \/ ReplyIgnored(w)
    \/ ReplyTakesOver(w)

ClaimOutbound(w) == ClaimNoOut(w) \/ \E c \in Triggers : ClaimOut(w, c)

HandleOut(w) ==
    \/ StaleOut(w)
    \/ Admit(w)
    \/ AdmitDenied(w)
    \/ FailOut(w)
    \/ PrepareReclaimed(w)
    \/ SendAnswered(w)
    \/ SendFails(w)
    \/ FailAdmitted(w)
    \/ StoreId(w)
    \/ MarkDelivered(w)

Next ==
    \/ \E h \in Humans : HumanWrites(h)
    \/ \E e \in Events : AcceptEvent(e) \/ EventLeaseExpires(e)
    \/ \E w \in InWorkers : ClaimIn(w) \/ HandleEvent(w) \/ CrashIn(w)
    \/ \E c \in Triggers : DispatchPlan(c) \/ PlanDies(c) \/ OutLeaseExpires(c)
    \/ \E w \in OutWorkers : ClaimOutbound(w) \/ HandleOut(w) \/ CrashOut(w)
    \/ ExpireHandoff

Spec == Init /\ [][Next]_vars

\* Worker loops run for ever and time passes; nothing is assumed of VK, of
\* people or of faults.
Fairness ==
    /\ \A w \in InWorkers : WF_vars(ClaimIn(w)) /\ WF_vars(HandleEvent(w))
    /\ \A w \in OutWorkers : WF_vars(ClaimOutbound(w)) /\ WF_vars(HandleOut(w))
    /\ \A e \in Events : WF_vars(EventLeaseExpires(e))
    /\ \A c \in Triggers : WF_vars(OutLeaseExpires(c))

FairSpec == Spec /\ Fairness

-----------------------------------------------------------------------------
(* Properties                                                               *)

\* Types; a working claim names a row, and a lease exists exactly while an event
\* is PROCESSING.
TypeOK ==
    /\ ev \in [Events -> [st : EventStatuses, lease : Leases, ver : Nat]]
    /\ \A e \in Events : (ev[e].st = "PROCESSING") = (ev[e].lease # "none")
    /\ iw \in [InWorkers -> [ph : {"idle", "run", "fail"}, e : Events \union {Nothing}, ver : Nat]]
    /\ conv \in [mgr : BOOLEAN, ctx : Nat, hwm : Nat]
    /\ inbox \subseteq Clients
    /\ plan \in [Triggers -> [st : PlanStatuses, ctx : Nat]]
    /\ outb \in [Triggers -> [st : OutStatuses, lease : Leases, ver : Nat, id : BOOLEAN]]
    /\ ow \in [OutWorkers -> [ph : OutPhases, c : Triggers \union {Nothing}, ver : Nat]]
    /\ \A w \in InWorkers : iw[w].ph # "idle" => iw[w].e \in Events
    /\ \A w \in OutWorkers : ow[w].ph # "idle" => ow[w].c \in Triggers
    /\ payload \in [Replies -> Payloads] /\ cmid \in [Replies -> Nat] /\ top \in Nat
    /\ outcome \in [Replies -> Outcomes]
    /\ faults \in 0..MaxFaults

\* What became of each event, as the promise sees it.
FateOf(st) == CASE st = "NONE" -> "absent"
                [] st = "PROCESSED" -> "done"
                [] st = "DEAD" -> "dead"
                [] OTHER -> "open"
Fate == [e \in Events |-> FateOf(ev[e].st)]
Promise == INSTANCE EventPromise WITH state <- Fate, version <- conv.ctx

\* "Persist first; ACK only after commit": an acknowledged event is decided once,
\* and the dialog's context version moves by one with each decision that counts
\* and with nothing else, although workers crash, overlap and retry.
DecidedOnce == Promise!Spec

\* The bot's own message silences the bot only if the bot itself never learned
\* that it was sent: the row is DEAD and no receipt was stored.
OwnEchoHarmless ==
    \A c \in Triggers : outcome[Echo(c)] = "EXTERNAL_ACTOR" => outb[c].st = "DEAD" /\ ~outb[c].id

\* A person's reply is never taken for the bot's: once processed it has taken
\* the dialog over, unless a later reply had, or there was no dialog yet.
HumanHeard ==
    \A h \in Humans :
        LET r == Human(h)
        IN  /\ outcome[r] # "OWN_TEYA_ECHO"
            /\ outcome[r] = "STALE" =>
                  \E s \in Replies : outcome[s] = "EXTERNAL_ACTOR" /\ cmid[s] > cmid[r]

\* Replies take the dialog over in the order in which VK numbered them.
TakeoverOrder ==
    [][\A r \in Replies : outcome'[r] = "EXTERNAL_ACTOR" /\ outcome[r] # "EXTERNAL_ACTOR" =>
          \A s \in Replies : outcome[s] = "EXTERNAL_ACTOR" => cmid[s] < cmid[r]]_vars

\* What is in the chat was durably admitted, and what is DELIVERED is in the chat
\* with its receipt: no cancellation reaches a message that was sent.
SentIsAdmitted ==
    \A c \in Triggers :
        /\ cmid[Echo(c)] > 0 => outb[c].st \in {"ADMITTED", "DELIVERED", "DEAD"}
        /\ outb[c].st = "DELIVERED" => outb[c].id
        /\ outb[c].id => cmid[Echo(c)] > 0

\* Every event that was acknowledged ends PROCESSED or DEAD.
EventSettles ==
    \A e \in Events : ev[e].st = "RECEIVED" ~> ev[e].st \in {"PROCESSED", "DEAD"}

\* An admitted message ends DELIVERED or DEAD, so the wait for its receipt ends.
AdmittedSettles ==
    \A c \in Triggers : outb[c].st = "ADMITTED" ~> outb[c].st \in {"DELIVERED", "DEAD"}

\* What VK reports about the chat is told apart rightly: own echoes are harmless,
\* people are heard, and everything in the chat was admitted.
EchoSafe ==
  /\ OwnEchoHarmless
  /\ SentIsAdmitted
  /\ HumanHeard

\* Acknowledged events and admitted messages come to an end.
VkSettles ==
  /\ EventSettles
  /\ AdmittedSettles
=============================================================================
