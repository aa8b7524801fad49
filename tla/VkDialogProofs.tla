--------------------------- MODULE VkDialogProofs ---------------------------
(***************************************************************************)
(* Theorems about VkDialog: types, own echoes, the person who is heard,    *)
(* the order of takeovers, and that the durable ingress keeps the promise  *)
(* of EventPromise.                                                        *)
(***************************************************************************)
EXTENDS VkDialog, TLAPS

-----------------------------------------------------------------------------
(* Names of events                                                          *)

\* Different kinds of events have different names.
LEMMA EventNames ==
    /\ \A c \in Triggers : Echo(c) \in Replies
    /\ \A h \in Humans : Human(h) \in Replies
    /\ \A r \in Replies : r \in Events
    /\ \A c, d \in Triggers : Echo(c) = Echo(d) => c = d
    /\ \A c \in Triggers, h \in Humans : Echo(c) # Human(h)
    /\ \A h, k \in Humans : Human(h) = Human(k) => h = k
<1>1. /\ \A c \in Triggers : Echo(c) \in Replies
      /\ \A h \in Humans : Human(h) \in Replies
      /\ \A r \in Replies : r \in Events
    BY DEF Replies, Events
<1>2. \A c, d \in Triggers : Echo(c) = Echo(d) => c = d
    BY DEF Echo
<1>3. \A c \in Triggers, h \in Humans : Echo(c) # Human(h)
    BY DEF Echo, Human
<1>4. \A h, k \in Humans : Human(h) = Human(k) => h = k
    BY DEF Human
<1> QED BY <1>1, <1>2, <1>3, <1>4

-----------------------------------------------------------------------------
(* Types                                                                    *)

EvOK ==
    /\ ev \in [Events -> [st : EventStatuses, lease : Leases, ver : Nat]]
    /\ \A e \in Events : (ev[e].st = "PROCESSING") = (ev[e].lease # "none")
IwOK ==
    /\ iw \in [InWorkers -> [ph : {"idle", "run", "fail"}, e : Events \union {Nothing}, ver : Nat]]
    /\ \A w \in InWorkers : iw[w].ph # "idle" => iw[w].e \in Events
DialogOK ==
    /\ conv \in [mgr : BOOLEAN, ctx : Nat, hwm : Nat]
    /\ inbox \subseteq Clients
    /\ plan \in [Triggers -> [st : PlanStatuses, ctx : Nat]]
OutOK == outb \in [Triggers -> [st : OutStatuses, lease : Leases, ver : Nat, id : BOOLEAN]]
OwOK ==
    /\ ow \in [OutWorkers -> [ph : OutPhases, c : Triggers \union {Nothing}, ver : Nat]]
    /\ \A w \in OutWorkers : ow[w].ph # "idle" => ow[w].c \in Triggers
ProviderOK ==
    /\ payload \in [Replies -> Payloads] /\ cmid \in [Replies -> Nat] /\ top \in Nat
OutcomeOK == outcome \in [Replies -> Outcomes]
FaultsOK == faults \in 0..MaxFaults

Typed ==
    /\ EvOK /\ IwOK /\ DialogOK /\ OutOK /\ OwOK
    /\ ProviderOK /\ OutcomeOK /\ FaultsOK

\* TypeOK is the conjunction of what each part of the state owes.
LEMMA TypeParts == Typed <=> TypeOK
BY DEF Typed, TypeOK, EvOK, IwOK, DialogOK, OutOK, OwOK, ProviderOK, OutcomeOK, FaultsOK

\* What a step leaves alone keeps its type.
LEMMA Frames ==
    ASSUME Typed
    PROVE  /\ UNCHANGED ev => EvOK'
           /\ UNCHANGED iw => IwOK'
           /\ UNCHANGED dialog => DialogOK'
           /\ UNCHANGED outb => OutOK'
           /\ UNCHANGED ow => OwOK'
           /\ UNCHANGED provider => ProviderOK'
           /\ UNCHANGED outcome => OutcomeOK'
           /\ UNCHANGED faults => FaultsOK'
BY DEF Typed, EvOK, IwOK, DialogOK, OutOK, OwOK, ProviderOK, OutcomeOK, FaultsOK, dialog, provider

\* claim_next keeps the lease columns consistent.
LEMMA ClaimType ==
    ASSUME EvOK, NEW c, ev' = AfterClaim(c)
    PROVE  EvOK'
<1>1. ASSUME NEW e \in Events
      PROVE  /\ ev'[e] \in [st : EventStatuses, lease : Leases, ver : Nat]
             /\ (ev'[e].st = "PROCESSING") = (ev'[e].lease # "none")
    <2>0. ev[e] \in [st : EventStatuses, lease : Leases, ver : Nat]
        BY DEF EvOK
    <2>1. CASE e = c
        <3>1. ev'[e] = [st |-> "PROCESSING", lease |-> "live", ver |-> ev[e].ver + 1]
            BY <2>1 DEF AfterClaim
        <3>2. ev[e].ver \in Nat BY <2>0
        <3>3. ev[e].ver + 1 \in Nat BY <3>2
        <3> QED BY <3>1, <3>3 DEF EventStatuses, Leases
    <2>2. CASE e # c /\ Exhausted(e)
        <3>1. ev'[e] = [ev[e] EXCEPT !.st = "DEAD", !.lease = "none"]
            BY <2>2 DEF AfterClaim
        <3> QED BY <3>1, <2>0 DEF EventStatuses, Leases
    <2>3. CASE e # c /\ ~Exhausted(e)
        <3>1. ev'[e] = ev[e]
            BY <2>3 DEF AfterClaim
        <3> QED BY <3>1, <2>0 DEF EvOK
    <2> QED BY <2>1, <2>2, <2>3
<1>2. ev' \in [Events -> [st : EventStatuses, lease : Leases, ver : Nat]]
    BY <1>1 DEF AfterClaim
<1> QED BY <1>1, <1>2 DEF EvOK

\* So do complete_with_lease and fail_with_lease.
LEMMA SettleType ==
    ASSUME EvOK, IwOK, NEW w \in InWorkers, iw[w].ph # "idle",
           NEW status \in EventStatuses \ {"PROCESSING"}, Settle(w, status)
    PROVE  EvOK' /\ IwOK'
<1>1. iw[w].e \in Events BY DEF IwOK
<1>2. EvOK'
    BY <1>1 DEF EvOK, Settle, Leases
<1>3. IwOK'
    BY DEF IwOK, Settle, IdleIn
<1> QED BY <1>2, <1>3

\* Closing plans and cancelling rows keep their types.
LEMMA CloseType == DialogOK => CloseOpenPlans \in [Triggers -> [st : PlanStatuses, ctx : Nat]]
BY DEF DialogOK, CloseOpenPlans, PlanStatuses

LEMMA CancelType ==
    OutOK => CancelUnadmitted \in [Triggers -> [st : OutStatuses, lease : Leases, ver : Nat, id : BOOLEAN]]
BY DEF OutOK, CancelUnadmitted, OutStatuses, Leases

LEMMA ClaimOutType == ASSUME OutOK, NEW x, outb' = AfterOutClaim(x) PROVE OutOK'
<1>1. ASSUME NEW c \in Triggers
      PROVE outb'[c] \in [st : OutStatuses, lease : Leases, ver : Nat, id : BOOLEAN]
    <2>0. outb[c] \in [st : OutStatuses, lease : Leases, ver : Nat, id : BOOLEAN]
        BY DEF OutOK
    <2>1. CASE c = x
        <3>1. outb'[c] = [outb[c] EXCEPT !.st = IF outb[c].st = "ADMITTED" THEN "ADMITTED" ELSE "PROCESSING",
                                         !.lease = "live", !.ver = outb[c].ver + 1]
            BY <2>0, <2>1 DEF AfterOutClaim
        <3>2. outb[c].ver \in Nat BY <2>0
        <3>3. outb[c].ver + 1 \in Nat BY <3>2
        <3> QED BY <3>1, <3>3, <2>0 DEF OutStatuses, Leases
    <2>2. CASE c # x
        BY <2>0, <2>2 DEF AfterOutClaim, OutStatuses, Leases
    <2> QED BY <2>1, <2>2
<1> QED BY <1>1 DEF OutOK, AfterOutClaim

\* A claim in memory moves on or is dropped.
LEMMA GotoType ==
    ASSUME OwOK, NEW w \in OutWorkers, ow[w].ph # "idle", NEW ph \in OutPhases, Goto(w, ph)
    PROVE  OwOK'
BY DEF OwOK, Goto

LEMMA DropType ==
    ASSUME OwOK, NEW w \in OutWorkers, ow' = [ow EXCEPT ![w] = IdleOut]
    PROVE  OwOK'
BY DEF OwOK, IdleOut, OutPhases

\* VK numbers a new message.
LEMMA WrittenType ==
    ASSUME ProviderOK, NEW r \in Replies, NEW kinds, kinds \subseteq Payloads, Written(r, kinds)
    PROVE  ProviderOK'
BY DEF ProviderOK, Written

LEMMA LandedType ==
    ASSUME ProviderOK, NEW c \in Triggers, Landed(c)
    PROVE  ProviderOK'
<1>1. CASE cmid[Echo(c)] = 0
    BY <1>1, EventNames, WrittenType DEF Landed, Payloads
<1>2. CASE cmid[Echo(c)] # 0
    BY <1>2 DEF Landed, provider, ProviderOK
<1> QED BY <1>1, <1>2

LEMMA TypeInit == Init => Typed
<1> SUFFICES ASSUME Init PROVE Typed
    OBVIOUS
<1>1. EvOK /\ IwOK
    BY DEF Init, EvOK, IwOK, IdleIn, EventStatuses, Leases
<1>2. DialogOK /\ OutOK
    BY DEF Init, DialogOK, OutOK, PlanStatuses, OutStatuses, Leases
<1>3. OwOK
    BY DEF Init, OwOK, IdleOut, OutPhases
<1>4. ProviderOK /\ OutcomeOK /\ FaultsOK
    BY VkAssumption DEF Init, ProviderOK, OutcomeOK, FaultsOK, Payloads, Outcomes
<1> QED BY <1>1, <1>2, <1>3, <1>4 DEF Typed

\* Events: the webhook, the queue, client messages and replies.
LEMMA EventType ==
    ASSUME Typed, \/ \E h \in Humans : HumanWrites(h)
                  \/ \E e \in Events : AcceptEvent(e) \/ EventLeaseExpires(e)
                  \/ \E w \in InWorkers : ClaimIn(w) \/ HandleEvent(w) \/ CrashIn(w)
    PROVE  Typed'
<1>0. EvOK /\ IwOK /\ DialogOK /\ OutOK /\ ProviderOK /\ OutcomeOK /\ FaultsOK
    BY DEF Typed
<1>1. ASSUME NEW h \in Humans, HumanWrites(h) PROVE Typed'
    <2>1. ProviderOK'
        BY <1>0, <1>1, EventNames, WrittenType DEF HumanWrites, Payloads
    <2> QED BY <1>1, <2>1, Frames DEF HumanWrites, ingress, Typed
<1>2. ASSUME NEW e \in Events, AcceptEvent(e) PROVE Typed'
    <2>1. EvOK'
        BY <1>0, <1>2 DEF AcceptEvent, EvOK, EventStatuses
    <2> QED BY <1>2, <2>1, Frames DEF AcceptEvent, Typed
<1>3. ASSUME NEW e \in Events, EventLeaseExpires(e) PROVE Typed'
    <2>1. EvOK'
        BY <1>0, <1>3 DEF EventLeaseExpires, EvOK, Leases
    <2>2. FaultsOK'
        BY <1>0, <1>3, VkAssumption DEF EventLeaseExpires, Fault, FaultsOK
    <2> QED BY <1>3, <2>1, <2>2, Frames DEF EventLeaseExpires, Typed
<1>4. ASSUME NEW w \in InWorkers, NEW e \in Events, ClaimEvent(w, e) PROVE Typed'
    <2>1. EvOK'
        BY <1>0, <1>4, ClaimType DEF ClaimEvent
    <2>2. ev[e].ver \in Nat
        BY <1>0 DEF EvOK
    <2>3. ev[e].ver + 1 \in Nat
        BY <2>2
    <2>4. IwOK'
        BY <1>0, <1>4, <2>3 DEF ClaimEvent, IwOK
    <2> QED BY <1>4, <2>1, <2>4, Frames DEF ClaimEvent, Typed
<1>5. ASSUME NEW w \in InWorkers, ClaimNoEvent(w) PROVE Typed'
    <2>1. EvOK'
        BY <1>0, <1>5, ClaimType DEF ClaimNoEvent
    <2> QED BY <1>5, <2>1, Frames DEF ClaimNoEvent, Typed
<1>6. ASSUME NEW w \in InWorkers, StaleEvent(w) \/ EventRaises(w) \/ ReplyRaces(w) \/ CrashIn(w)
      PROVE Typed'
    <2>1. IwOK'
        BY <1>0, <1>6 DEF StaleEvent, EventRaises, ReplyRaces, CrashIn, IwOK, IdleIn
    <2>2. FaultsOK'
        BY <1>0, <1>6, VkAssumption, Frames DEF StaleEvent, EventRaises, ReplyRaces, CrashIn, Fault, FaultsOK
    <2> QED BY <1>6, <2>1, <2>2, Frames DEF StaleEvent, EventRaises, ReplyRaces, CrashIn, Typed
<1>7. ASSUME NEW w \in InWorkers, FailClaimed(w) PROVE Typed'
    <2>1. EvOK' /\ IwOK'
        BY <1>0, <1>7, SettleType DEF FailClaimed, EventStatuses
    <2> QED BY <1>7, <2>1, Frames DEF FailClaimed, Typed
<1>8. ASSUME NEW w \in InWorkers, NEW c \in Clients, ProcessClient(w, c) PROVE Typed'
    <2>1. EvOK' /\ IwOK'
        BY <1>0, <1>8, SettleType DEF ProcessClient, EventStatuses
    <2>2. conv' \in [mgr : BOOLEAN, ctx : Nat, hwm : Nat] /\ inbox' \subseteq Clients
        BY <1>0, <1>8 DEF ProcessClient, AcceptMessage, DialogOK
    <2>3. plan' \in [Triggers -> [st : PlanStatuses, ctx : Nat]] /\ OutOK'
        <3>1. CASE c \in Triggers \ inbox
            <4>1. plan' = [CloseOpenPlans EXCEPT ![c] = [st |-> "OPEN", ctx |-> conv.ctx + 1]]
                BY <1>8, <3>1 DEF ProcessClient, CreateProofPlan
            <4>2. conv.ctx \in Nat BY <1>0 DEF DialogOK
            <4>3. conv.ctx + 1 \in Nat BY <4>2
            <4>4. plan' \in [Triggers -> [st : PlanStatuses, ctx : Nat]]
                BY <1>0, <4>1, <4>3, CloseType DEF PlanStatuses
            <4> QED BY <1>0, <1>8, <3>1, <4>4, CancelType DEF ProcessClient, CreateProofPlan, OutOK
        <3>2. CASE c \notin Triggers \ inbox
            BY <1>0, <1>8, <3>2 DEF ProcessClient, DialogOK, OutOK
        <3> QED BY <3>1, <3>2
    <2> QED BY <1>8, <2>1, <2>2, <2>3, Frames DEF ProcessClient, Typed, DialogOK
<1>9. ASSUME NEW w \in InWorkers, Classified(w), Verdict(iw[w].e) # "RETRY"
      PROVE EvOK' /\ IwOK' /\ OutcomeOK'
    <2>1. EvOK' /\ IwOK'
        BY <1>0, <1>9, SettleType DEF Classified, EventStatuses
    <2>2. Verdict(iw[w].e) \in Outcomes
        BY <1>9 DEF Verdict, Classify, Outcomes
    <2> QED BY <1>0, <1>9, <2>1, <2>2 DEF Classified, OutcomeOK
<1>10. ASSUME NEW w \in InWorkers, ReplyIgnored(w) PROVE Typed'
    BY <1>9, <1>10, Frames DEF ReplyIgnored, Typed
<1>11. ASSUME NEW w \in InWorkers, ReplyTakesOver(w) PROVE Typed'
    <2>1. iw[w].e \in Replies
        BY <1>11 DEF ReplyTakesOver, Classified
    <2>2. conv' \in [mgr : BOOLEAN, ctx : Nat, hwm : Nat]
        BY <1>0, <1>11, <2>1 DEF ReplyTakesOver, ExternalReply, DialogOK, ProviderOK
    <2>3. DialogOK' /\ OutOK'
        BY <1>0, <1>11, <2>2, CloseType, CancelType DEF ReplyTakesOver, DialogOK, OutOK
    <2> QED BY <1>9, <1>11, <2>3, Frames DEF ReplyTakesOver, Typed
<1> QED BY <1>1, <1>2, <1>3, <1>4, <1>5, <1>6, <1>7, <1>8, <1>10, <1>11 DEF ClaimIn, HandleEvent

\* Plans and outbound rows.
LEMMA OutboundType ==
    ASSUME Typed, \/ \E c \in Triggers : DispatchPlan(c) \/ PlanDies(c) \/ OutLeaseExpires(c)
                  \/ \E w \in OutWorkers : ClaimOutbound(w) \/ HandleOut(w) \/ CrashOut(w)
                  \/ ExpireHandoff
    PROVE  Typed'
<1>0. DialogOK /\ OutOK /\ OwOK /\ ProviderOK /\ FaultsOK
    BY DEF Typed
<1>1. ASSUME NEW c \in Triggers, DispatchPlan(c) \/ PlanDies(c) PROVE Typed'
    <2>1. DialogOK' /\ OutOK'
        <3>1. CASE DispatchPlan(c)
            <4>1. DialogOK' BY <1>0, <3>1 DEF DispatchPlan, DialogOK, PlanStatuses
            <4>2. OutOK' BY <1>0, <3>1 DEF DispatchPlan, OutOK, OutStatuses
            <4> QED BY <4>1, <4>2
        <3>2. CASE PlanDies(c)
            BY <1>0, <3>2 DEF PlanDies, DialogOK, OutOK, PlanStatuses
        <3> QED BY <1>1, <3>1, <3>2
    <2> QED BY <1>1, <2>1, Frames DEF DispatchPlan, PlanDies, ingress, Typed
<1>2. ASSUME NEW c \in Triggers, OutLeaseExpires(c) PROVE Typed'
    <2>1. OutOK'
        BY <1>0, <1>2 DEF OutLeaseExpires, OutOK, Leases
    <2>2. FaultsOK'
        BY <1>0, <1>2, VkAssumption DEF OutLeaseExpires, Fault, FaultsOK
    <2> QED BY <1>2, <2>1, <2>2, Frames DEF OutLeaseExpires, ingress, Typed
<1>3. ASSUME NEW w \in OutWorkers, NEW c \in Triggers, ClaimOut(w, c) PROVE Typed'
    <2>1. OutOK'
        BY <1>0, <1>3, ClaimOutType DEF ClaimOut
    <2>2. outb[c].ver \in Nat
        BY <1>0 DEF OutOK
    <2>3. outb[c].ver + 1 \in Nat
        BY <2>2
    <2>4. OwOK'
        BY <1>0, <1>3, <2>3 DEF ClaimOut, OwOK, OutPhases
    <2> QED BY <1>3, <2>1, <2>4, Frames DEF ClaimOut, ingress, Typed
<1>4. ASSUME NEW w \in OutWorkers, ClaimNoOut(w) PROVE Typed'
    <2>1. OutOK'
        BY <1>0, <1>4, ClaimOutType DEF ClaimNoOut
    <2> QED BY <1>4, <2>1, Frames DEF ClaimNoOut, ingress, Typed
<1>5. ASSUME NEW w \in OutWorkers, AdmitDenied(w) \/ PrepareReclaimed(w) PROVE Typed'
    <2>1. OwOK'
        BY <1>0, <1>5, GotoType DEF AdmitDenied, PrepareReclaimed, OutPhases
    <2> QED BY <1>5, <2>1, Frames DEF AdmitDenied, PrepareReclaimed, ingress, Typed
<1>6. ASSUME NEW w \in OutWorkers, Admit(w) \/ StoreId(w) PROVE Typed'
    <2>1. OwOK'
        BY <1>0, <1>6, GotoType DEF Admit, StoreId, OutPhases
    <2>2. OutOK'
        <3>1. CASE Admit(w)
            BY <1>0, <3>1 DEF Admit, OutOK, OutStatuses
        <3>2. CASE StoreId(w)
            BY <1>0, <3>2 DEF StoreId, OutOK
        <3> QED BY <1>6, <3>1, <3>2
    <2> QED BY <1>6, <2>1, <2>2, Frames DEF Admit, StoreId, ingress, Typed
<1>7. ASSUME NEW w \in OutWorkers, FailOut(w) \/ FailAdmitted(w) PROVE Typed'
    <2>1. OwOK'
        BY <1>0, <1>7, DropType DEF FailOut, FailAdmitted
    <2>2. OutOK'
        <3>1. CASE FailOut(w)
            BY <1>0, <3>1 DEF FailOut, OutOK, OutStatuses, Leases
        <3>2. CASE FailAdmitted(w)
            BY <1>0, <3>2 DEF FailAdmitted, OutOK, OutStatuses, Leases
        <3> QED BY <1>7, <3>1, <3>2
    <2> QED BY <1>7, <2>1, <2>2, Frames DEF FailOut, FailAdmitted, ingress, Typed
<1>8. ASSUME NEW w \in OutWorkers, StaleOut(w) PROVE Typed'
    <2>1. OwOK'
        BY <1>0, <1>8, DropType DEF StaleOut
    <2> QED BY <1>8, <2>1, Frames DEF StaleOut, ingress, Typed
<1>9. ASSUME NEW w \in OutWorkers, SendAnswered(w) \/ SendFails(w) PROVE Typed'
    <2>1. OwOK'
        BY <1>0, <1>9, GotoType DEF SendAnswered, SendFails, OutPhases
    <2>2. ow[w].c \in Triggers
        BY <1>0, <1>9 DEF SendAnswered, SendFails, OwOK
    <2>3. ProviderOK'
        BY <1>0, <1>9, <2>2, LandedType, Frames DEF SendAnswered, SendFails
    <2> QED BY <1>9, <2>1, <2>3, Frames DEF SendAnswered, SendFails, ingress, Typed
<1>10. ASSUME NEW w \in OutWorkers, MarkDelivered(w) PROVE Typed'
    <2>1. OwOK'
        BY <1>0, <1>10, DropType DEF MarkDelivered
    <2>2. OutOK' /\ DialogOK'
        BY <1>0, <1>10 DEF MarkDelivered, OutOK, DialogOK, OutStatuses, Leases
    <2> QED BY <1>10, <2>1, <2>2, Frames DEF MarkDelivered, ingress, Typed
<1>11. ASSUME NEW w \in OutWorkers, CrashOut(w) PROVE Typed'
    <2>1. OwOK'
        BY <1>0, <1>11, DropType DEF CrashOut
    <2>2. ow[w].c \in Triggers
        BY <1>0, <1>11 DEF CrashOut, OwOK
    <2>3. ProviderOK'
        BY <1>0, <1>11, <2>2, LandedType, Frames DEF CrashOut
    <2>4. FaultsOK'
        BY <1>0, <1>11, VkAssumption DEF CrashOut, Fault, FaultsOK
    <2> QED BY <1>11, <2>1, <2>3, <2>4, Frames DEF CrashOut, ingress, Typed
<1>12. ASSUME ExpireHandoff PROVE Typed'
    <2>1. DialogOK'
        BY <1>0, <1>12, CloseType DEF ExpireHandoff, DialogOK
    <2>2. OutOK'
        BY <1>0, <1>12, CancelType DEF ExpireHandoff, OutOK
    <2> QED BY <1>12, <2>1, <2>2, Frames DEF ExpireHandoff, ingress, Typed
<1> QED BY <1>1, <1>2, <1>3, <1>4, <1>5, <1>6, <1>7, <1>8, <1>9, <1>10, <1>11, <1>12
        DEF ClaimOutbound, HandleOut

LEMMA TypeStep == Typed /\ [Next]_vars => Typed'
<1>1. ASSUME Typed, Next PROVE Typed'
    BY <1>1, EventType, OutboundType DEF Next
<1>2. ASSUME Typed, UNCHANGED vars PROVE Typed'
    BY <1>2, Frames DEF vars, dialog, provider, Typed
<1> QED BY <1>1, <1>2

\* Rows, claims and VK's numbers keep their types, and an event has a lease
\* exactly while it is PROCESSING.
THEOREM TypeCorrect == Spec => []TypeOK
<1>1. Spec => []Typed
    BY TypeInit, TypeStep, PTL DEF Spec
<1> QED BY <1>1, TypeParts, PTL

-----------------------------------------------------------------------------
(* The ingress keeps the promise of EventPromise                            *)

LEMMA Fates ==
    /\ FateOf("NONE") = "absent" /\ FateOf("PROCESSED") = "done" /\ FateOf("DEAD") = "dead"
    /\ \A st \in {"RECEIVED", "PROCESSING", "FAILED"} : FateOf(st) = "open"
BY DEF FateOf

\* Completing an event that the worker owns decides it.
LEMMA SettleDecides ==
    ASSUME Typed, NEW w \in InWorkers, iw[w].e \in Events, OwnsEvent(w), Settle(w, "PROCESSED")
    PROVE  Promise!Decide(iw[w].e)
<1> DEFINE x == iw[w].e
<1>1. Fate[x] = "open"
    BY Fates DEF Fate, OwnsEvent
<1>2. ev \in [Events -> [st : EventStatuses, lease : Leases, ver : Nat]]
    BY DEF Typed, EvOK
<1>3. ev'[x].st = "PROCESSED" /\ \A e \in Events : e # x => ev'[e] = ev[e]
    BY <1>2 DEF Settle
<1>4. Fate' = [Fate EXCEPT ![x] = "done"]
    BY <1>3, Fates DEF Fate
<1> QED BY <1>1, <1>4 DEF Promise!Decide

\* A claim gives up exactly the events whose last attempt was lost.
LEMMA ClaimDrops ==
    ASSUME Typed, NEW x, x \in Events => Claimable(x), ev' = AfterClaim(x), UNCHANGED conv
    PROVE  \E lost \in SUBSET Events : Promise!Drop(lost)
<1> DEFINE lost == {e \in Events : e # x /\ Exhausted(e)}
<1>0. \A e \in Events : ev[e] \in [st : EventStatuses, lease : Leases, ver : Nat]
    BY DEF Typed, EvOK
<1>1. \A e \in lost : Fate[e] = "open"
    BY Fates DEF Fate, Exhausted
<1>2. ASSUME NEW e \in Events
      PROVE  FateOf(ev'[e].st) = IF e \in lost THEN "dead" ELSE Fate[e]
    <2>1. CASE e = x
        <3>1. ev'[e].st = "PROCESSING" /\ ev[e].st \in {"RECEIVED", "PROCESSING", "FAILED"}
            BY <2>1 DEF AfterClaim, Claimable
        <3> QED BY <2>1, <3>1, Fates DEF Fate
    <2>2. CASE e \in lost
        <3>1. ev'[e].st = "DEAD"
            BY <1>0, <2>2 DEF AfterClaim
        <3> QED BY <2>2, <3>1, Fates
    <2>3. CASE e # x /\ e \notin lost
        <3>1. ev'[e] = ev[e]
            BY <2>3 DEF AfterClaim
        <3> QED BY <2>3, <3>1 DEF Fate
    <2> QED BY <2>1, <2>2, <2>3
<1>3. Fate' = [e \in Events |-> IF e \in lost THEN "dead" ELSE Fate[e]]
    BY <1>2 DEF Fate
<1>4. Promise!Drop(lost)
    BY <1>1, <1>3 DEF Promise!Drop
<1> QED BY <1>4

\* Everything else leaves the fates and the context version alone.
Stutters == Fate' = Fate /\ conv'.ctx = conv.ctx

LEMMA IngressRefines ==
    ASSUME Typed, Next
    PROVE  Promise!Next \/ Stutters
<1>0. /\ ev \in [Events -> [st : EventStatuses, lease : Leases, ver : Nat]]
      /\ conv \in [mgr : BOOLEAN, ctx : Nat, hwm : Nat]
      /\ \A w \in InWorkers : iw[w].ph # "idle" => iw[w].e \in Events
    BY DEF Typed, EvOK, DialogOK, IwOK
<1>1. ASSUME UNCHANGED <<ev, conv>> PROVE Stutters
    BY <1>1 DEF Stutters, Fate
<1>2. ASSUME NEW e \in Events, AcceptEvent(e) PROVE Promise!Next
    <2>1. Fate[e] = "absent"
        BY <1>2, Fates DEF AcceptEvent, Fate
    <2>2. ev'[e].st = "RECEIVED" /\ \A d \in Events : d # e => ev'[d] = ev[d]
        BY <1>0, <1>2 DEF AcceptEvent
    <2>3. Fate' = [Fate EXCEPT ![e] = "open"]
        BY <2>2, Fates DEF Fate
    <2> QED BY <1>2, <2>1, <2>3 DEF AcceptEvent, dialog, Promise!Acknowledge, Promise!Next
<1>3. ASSUME NEW e \in Events, EventLeaseExpires(e) PROVE Stutters
    <2>1. \A d \in Events : ev'[d].st = ev[d].st
        BY <1>0, <1>3 DEF EventLeaseExpires
    <2> QED BY <1>3, <2>1 DEF EventLeaseExpires, dialog, Stutters, Fate
<1>4. ASSUME NEW w \in InWorkers, ClaimIn(w) PROVE Promise!Next
    <2>1. \E lost \in SUBSET Events : Promise!Drop(lost)
        BY <1>4, ClaimDrops, VkAssumption DEF ClaimIn, ClaimEvent, ClaimNoEvent, dialog
    <2> QED BY <2>1 DEF Promise!Next
<1>5. ASSUME NEW w \in InWorkers, FailClaimed(w) PROVE Promise!Next \/ Stutters
    <2> DEFINE x == iw[w].e
    <2>0. x \in Events /\ ev[x].st = "PROCESSING"
        BY <1>0, <1>5 DEF FailClaimed, OwnsEvent
    <2>1. /\ ev'[x].st = IF iw[w].ver >= MaxAttempts THEN "DEAD" ELSE "FAILED"
          /\ \A d \in Events : d # x => ev'[d] = ev[d]
        BY <1>0, <1>5, <2>0 DEF FailClaimed, Settle
    <2>2. CASE iw[w].ver >= MaxAttempts
        <3>1. Fate' = [e \in Events |-> IF e \in {x} THEN "dead" ELSE Fate[e]]
            BY <2>1, <2>2, Fates DEF Fate
        <3>2. Fate[x] = "open"
            BY <2>0, Fates DEF Fate
        <3>3. Promise!Drop({x})
            BY <1>5, <3>1, <3>2 DEF FailClaimed, dialog, Promise!Drop
        <3> QED BY <2>0, <3>3 DEF Promise!Next
    <2>3. CASE ~(iw[w].ver >= MaxAttempts)
        <3>1. \A d \in Events : FateOf(ev'[d].st) = FateOf(ev[d].st)
            BY <2>0, <2>1, <2>3, Fates
        <3> QED BY <1>5, <3>1 DEF FailClaimed, dialog, Stutters, Fate
    <2> QED BY <2>2, <2>3
<1>6. ASSUME NEW w \in InWorkers, NEW c \in Clients, ProcessClient(w, c) PROVE Promise!Next
    <2>1. iw[w].e \in Events
        BY <1>0, <1>6 DEF ProcessClient
    <2>2. Promise!Decide(iw[w].e)
        BY <1>6, <2>1, SettleDecides DEF ProcessClient
    <2>3. conv'.ctx = conv.ctx + 1 \/ conv'.ctx = conv.ctx
        BY <1>0, <1>6 DEF ProcessClient, AcceptMessage
    <2> QED BY <2>1, <2>2, <2>3 DEF Promise!Apply, Promise!Ignore, Promise!Next
<1>7. ASSUME NEW w \in InWorkers, ReplyIgnored(w) \/ ReplyTakesOver(w) PROVE Promise!Next
    <2>1. Classified(w)
        BY <1>7 DEF ReplyIgnored, ReplyTakesOver
    <2>2. iw[w].e \in Events
        BY <1>0, <2>1 DEF Classified
    <2>3. Promise!Decide(iw[w].e)
        BY <2>1, <2>2, SettleDecides DEF Classified
    <2>4. conv'.ctx = conv.ctx + 1 \/ conv'.ctx = conv.ctx
        BY <1>7 DEF ReplyIgnored, ReplyTakesOver, ExternalReply, dialog
    <2> QED BY <2>2, <2>3, <2>4 DEF Promise!Apply, Promise!Ignore, Promise!Next
<1>8. ASSUME ExpireHandoff PROVE Stutters
    BY <1>0, <1>8 DEF ExpireHandoff, ingress, Stutters, Fate
<1>9. ASSUME NEW w \in InWorkers, StaleEvent(w) \/ EventRaises(w) \/ ReplyRaces(w) \/ CrashIn(w)
      PROVE UNCHANGED <<ev, conv>>
    BY <1>9 DEF StaleEvent, EventRaises, ReplyRaces, CrashIn, dialog
<1>10. ASSUME NEW c \in Triggers, DispatchPlan(c) \/ PlanDies(c) \/ OutLeaseExpires(c)
       PROVE UNCHANGED <<ev, conv>>
    BY <1>10 DEF DispatchPlan, PlanDies, OutLeaseExpires, ingress, dialog
<1>11. ASSUME NEW w \in OutWorkers, ClaimOutbound(w) \/ HandleOut(w) \/ CrashOut(w)
       PROVE UNCHANGED <<ev, conv>>
    BY <1>11 DEF ClaimOutbound, ClaimNoOut, ClaimOut, HandleOut, StaleOut, Admit, AdmitDenied,
        FailOut, PrepareReclaimed, SendAnswered, SendFails, FailAdmitted, StoreId, MarkDelivered,
        CrashOut, ingress, dialog
<1>12. ASSUME NEW h \in Humans, HumanWrites(h) PROVE UNCHANGED <<ev, conv>>
    BY <1>12 DEF HumanWrites, ingress, dialog
<1> QED BY <1>1, <1>2, <1>3, <1>4, <1>5, <1>6, <1>7, <1>8, <1>9, <1>10, <1>11, <1>12
        DEF Next, HandleEvent

\* "Persist first; ACK only after commit": for any events, workers, crashes,
\* overlaps and retries the ingress decides an acknowledged event once, and the
\* dialog's context version moves with applied events only.
THEOREM PromiseKept == Spec => DecidedOnce
<1>1. Init => Promise!Init
    BY DEF Init, Promise!Init, Fate, FateOf
<1>2. Typed /\ [Next]_vars => [Promise!Next]_<<Fate, conv.ctx>>
    <2>1. ASSUME Typed, Next PROVE [Promise!Next]_<<Fate, conv.ctx>>
        BY <2>1, IngressRefines DEF Stutters
    <2>2. ASSUME UNCHANGED vars PROVE UNCHANGED <<Fate, conv.ctx>>
        BY <2>2 DEF vars, Fate
    <2> QED BY <2>1, <2>2
<1>3. Spec => []Typed
    BY TypeInit, TypeStep, PTL DEF Spec
<1> QED BY <1>1, <1>2, <1>3, PTL DEF Spec, DecidedOnce, Promise!Spec

-----------------------------------------------------------------------------
(* Own echoes and people                                                    *)

Sent == {"ADMITTED", "DELIVERED", "DEAD"}

\* A plan needs an accepted message, an outbound row a dispatched plan.
RowInv ==
    \A c \in Triggers :
        /\ c \notin inbox => plan[c].st = "NONE"
        /\ outb[c].st # "NONE" => plan[c].st = "DISPATCHED"

\* Who is about to send holds an admitted row, who has an answer to store has sent.
SendInv ==
    /\ SentIsAdmitted
    /\ \A w \in OutWorkers :
          /\ ow[w].ph = "send" => outb[ow[w].c].st \in Sent
          /\ ow[w].ph \in {"store", "deliver"} => cmid[Echo(ow[w].c)] > 0

\* VK numbers messages once and without repetition, reports only what exists,
\* and gives no foreign payload to a message of the bot.
ChatInv ==
    /\ \A r \in Replies : ev[r].st # "NONE" => cmid[r] > 0
    /\ \A r \in Replies : cmid[r] <= top
    /\ \A r, s \in Replies : cmid[r] = cmid[s] /\ cmid[r] > 0 => r = s
    /\ \A c \in Triggers : payload[Echo(c)] # "FOREIGN"

\* The high-water mark is the number of the last reply that took over.
HeardInv ==
    /\ \A r \in Replies : outcome[r] # "none" => ev[r].st = "PROCESSED"
    /\ \A s \in Replies : outcome[s] = "EXTERNAL_ACTOR" => cmid[s] <= conv.hwm
    /\ conv.hwm > 0 => \E s \in Replies : outcome[s] = "EXTERNAL_ACTOR" /\ cmid[s] = conv.hwm
    /\ HumanHeard

VkInv == Typed /\ RowInv /\ SendInv /\ ChatInv /\ HeardInv /\ OwnEchoHarmless

LEMMA VkInit == Init => VkInv
<1> SUFFICES ASSUME Init PROVE VkInv
    OBVIOUS
<1>1. RowInv /\ SendInv
    BY EventNames DEF Init, RowInv, SendInv, SentIsAdmitted, IdleOut
<1>2. ChatInv /\ HeardInv /\ OwnEchoHarmless
    BY EventNames DEF Init, ChatInv, HeardInv, HumanHeard, OwnEchoHarmless
<1> QED BY <1>1, <1>2, TypeInit DEF VkInv

\* What a bulk UPDATE, a claim or a failure may do to outbound rows: what was
\* sent stays sent, what is dead stays dead, receipts and deliveries are not
\* made up.
OutQuiet ==
    \A c \in Triggers :
        /\ outb'[c].id = outb[c].id
        /\ outb[c].st \in Sent => outb'[c].st \in Sent
        /\ outb[c].st = "DEAD" => outb'[c].st = "DEAD"
        /\ outb'[c].st = "DELIVERED" => outb[c].st = "DELIVERED"

\* ... and no row appears.
SameRows == \A c \in Triggers : outb'[c].st # "NONE" => outb[c].st # "NONE"

\* What the queue may do to events: the processed stay processed, and only
\* messages that VK has numbered arrive.
EvGrows ==
    \A r \in Replies :
        /\ ev[r].st = "PROCESSED" => ev'[r].st = "PROCESSED"
        /\ ev'[r].st # "NONE" => ev[r].st # "NONE" \/ cmid[r] > 0

LEMMA CancelQuiet ==
    ASSUME Typed, outb' = CancelUnadmitted \/ outb' = outb
    PROVE  OutQuiet /\ SameRows
<1>1. \A c \in Triggers : outb[c] \in [st : OutStatuses, lease : Leases, ver : Nat, id : BOOLEAN]
    BY DEF Typed, OutOK
<1> QED BY <1>1 DEF OutQuiet, SameRows, CancelUnadmitted, Sent

LEMMA ClaimQuiet ==
    ASSUME Typed, NEW x, x \in Triggers => OutClaimable(x), outb' = AfterOutClaim(x)
    PROVE  OutQuiet /\ SameRows
<1>1. \A c \in Triggers : outb[c] \in [st : OutStatuses, lease : Leases, ver : Nat, id : BOOLEAN]
    BY DEF Typed, OutOK
<1>2. ASSUME NEW c \in Triggers
      PROVE  /\ outb'[c].id = outb[c].id
             /\ outb[c].st \in Sent => outb'[c].st = outb[c].st
             /\ outb'[c].st = "DELIVERED" => outb[c].st = "DELIVERED"
             /\ outb'[c].st # "NONE" => outb[c].st # "NONE"
    <2>1. CASE c = x
        BY <1>1, <2>1 DEF AfterOutClaim, OutClaimable, Sent
    <2>2. CASE c # x
        BY <1>1, <2>2 DEF AfterOutClaim, ExhaustedOut, Sent
    <2> QED BY <2>1, <2>2
<1> QED BY <1>2 DEF OutQuiet, SameRows, Sent

\* Steps that leave VK and the outbound worker alone.
LEMMA SendQuiet ==
    ASSUME VkInv, OutQuiet, UNCHANGED <<ow, provider>>
    PROVE  SendInv'
<1>1. \A w \in OutWorkers : ow[w].ph # "idle" => ow[w].c \in Triggers
    BY DEF VkInv, Typed, OwOK
<1>2. cmid' = cmid BY DEF provider
<1>3. SentIsAdmitted'
    BY <1>2 DEF VkInv, SendInv, OutQuiet, SentIsAdmitted, Sent
<1> QED BY <1>1, <1>2, <1>3 DEF VkInv, SendInv, OutQuiet

LEMMA EchoQuiet == ASSUME VkInv, OutQuiet, UNCHANGED outcome PROVE OwnEchoHarmless'
BY DEF VkInv, OutQuiet, OwnEchoHarmless

LEMMA RowQuiet ==
    ASSUME VkInv, SameRows, UNCHANGED inbox, UNCHANGED plan \/ plan' = CloseOpenPlans
    PROVE  RowInv'
<1>1. \A c \in Triggers : plan[c] \in [st : PlanStatuses, ctx : Nat]
    BY DEF VkInv, Typed, DialogOK
<1>2. \A c \in Triggers : plan'[c].st = plan[c].st \/ (plan[c].st = "OPEN" /\ plan'[c].st = "CLOSED")
    BY <1>1 DEF CloseOpenPlans
<1> QED BY <1>2 DEF VkInv, RowInv, SameRows

LEMMA ChatQuiet == ASSUME VkInv, EvGrows, UNCHANGED provider PROVE ChatInv'
BY DEF VkInv, ChatInv, EvGrows, provider

LEMMA HeardQuiet ==
    ASSUME VkInv, EvGrows, UNCHANGED outcome, conv'.hwm = conv.hwm,
           \A r \in Replies : cmid[r] > 0 => cmid'[r] = cmid[r]
    PROVE  HeardInv'
<1>1. \A r \in Replies : outcome[r] # "none" => ev[r].st = "PROCESSED" /\ cmid'[r] = cmid[r]
    BY DEF VkInv, HeardInv, ChatInv
<1>2. HumanHeard'
    BY <1>1, EventNames DEF VkInv, HeardInv, HumanHeard
<1>3. conv'.hwm > 0 => \E s \in Replies : outcome'[s] = "EXTERNAL_ACTOR" /\ cmid'[s] = conv'.hwm
    BY <1>1 DEF VkInv, HeardInv
<1>4. \A s \in Replies : outcome'[s] = "EXTERNAL_ACTOR" => cmid'[s] <= conv'.hwm
    BY <1>1 DEF VkInv, HeardInv
<1>5. \A r \in Replies : outcome'[r] # "none" => ev'[r].st = "PROCESSED"
    BY <1>1 DEF EvGrows
<1> QED BY <1>2, <1>3, <1>4, <1>5 DEF HeardInv

LEMMA SettleGrows ==
    ASSUME Typed, NEW w \in InWorkers, iw[w].e \in Events, OwnsEvent(w),
           NEW status \in EventStatuses, Settle(w, status)
    PROVE  EvGrows
<1>1. ev \in [Events -> [st : EventStatuses, lease : Leases, ver : Nat]]
    BY DEF Typed, EvOK
<1>2. \A e \in Events : ev'[e] = ev[e] \/ ev[e].st = "PROCESSING"
    BY <1>1 DEF Settle, OwnsEvent
<1> QED BY <1>2, EventNames DEF EvGrows

LEMMA ClaimGrows ==
    ASSUME Typed, NEW x, x \in Events => Claimable(x), ev' = AfterClaim(x)
    PROVE  EvGrows
<1>1. ASSUME NEW e \in Events
      PROVE  ev'[e] = ev[e] \/ ev[e].st \in {"RECEIVED", "FAILED", "PROCESSING"}
    BY DEF AfterClaim, Claimable, Exhausted
<1> QED BY <1>1, EventNames DEF EvGrows

\* Steps of the queue that have no effect on the dialog.
LEMMA QueueInv ==
    ASSUME VkInv, \/ \E e \in Events : AcceptEvent(e) \/ EventLeaseExpires(e)
                  \/ \E w \in InWorkers : \/ ClaimIn(w) \/ CrashIn(w) \/ StaleEvent(w)
                                          \/ EventRaises(w) \/ FailClaimed(w) \/ ReplyRaces(w)
    PROVE  RowInv' /\ SendInv' /\ ChatInv' /\ HeardInv' /\ OwnEchoHarmless'
<1>0. /\ Typed
      /\ ev \in [Events -> [st : EventStatuses, lease : Leases, ver : Nat]]
      /\ \A w \in InWorkers : iw[w].ph # "idle" => iw[w].e \in Events
    BY DEF VkInv, Typed, EvOK, IwOK
<1>1. UNCHANGED <<outcome, dialog, outb, ow, provider>>
    BY DEF AcceptEvent, EventLeaseExpires, ClaimIn, ClaimEvent, ClaimNoEvent, CrashIn, StaleEvent,
           EventRaises, FailClaimed, ReplyRaces
<1>2. EvGrows
    <2>1. ASSUME NEW e \in Events, AcceptEvent(e) PROVE EvGrows
        BY <1>0, <2>1, EventNames DEF AcceptEvent, EvGrows
    <2>2. ASSUME NEW e \in Events, EventLeaseExpires(e) PROVE EvGrows
        BY <1>0, <2>2, EventNames DEF EventLeaseExpires, EvGrows
    <2>3. ASSUME NEW w \in InWorkers, ClaimIn(w) PROVE EvGrows
        BY <1>0, <2>3, ClaimGrows, VkAssumption DEF ClaimIn, ClaimEvent, ClaimNoEvent
    <2>4. ASSUME NEW w \in InWorkers, FailClaimed(w) PROVE EvGrows
        BY <1>0, <2>4, SettleGrows DEF FailClaimed, EventStatuses
    <2>5. ASSUME NEW w \in InWorkers, CrashIn(w) \/ StaleEvent(w) \/ EventRaises(w) \/ ReplyRaces(w)
          PROVE EvGrows
        BY <2>5 DEF CrashIn, StaleEvent, EventRaises, ReplyRaces, EvGrows
    <2> QED BY <2>1, <2>2, <2>3, <2>4, <2>5
<1>3. OutQuiet /\ SameRows
    BY <1>0, <1>1, CancelQuiet
<1> QED BY <1>1, <1>2, <1>3, SendQuiet, EchoQuiet, RowQuiet, ChatQuiet, HeardQuiet
        DEF dialog, provider

\* A client message opens a plan only for a trigger seen for the first time.
LEMMA ClientInv ==
    ASSUME VkInv, NEW w \in InWorkers, NEW c \in Clients, ProcessClient(w, c)
    PROVE  RowInv' /\ SendInv' /\ ChatInv' /\ HeardInv' /\ OwnEchoHarmless'
<1>0. /\ Typed
      /\ iw[w].e \in Events
      /\ conv \in [mgr : BOOLEAN, ctx : Nat, hwm : Nat]
      /\ plan \in [Triggers -> [st : PlanStatuses, ctx : Nat]]
    BY DEF VkInv, Typed, IwOK, DialogOK, ProcessClient
<1>1. UNCHANGED <<outcome, ow, provider>>
    BY DEF ProcessClient
<1>2. EvGrows
    BY <1>0, SettleGrows DEF ProcessClient, EventStatuses
<1>3. OutQuiet /\ SameRows
    BY <1>0, CancelQuiet DEF ProcessClient, CreateProofPlan
<1>4. conv'.hwm = conv.hwm
    BY <1>0 DEF ProcessClient, AcceptMessage
<1>5. inbox' = inbox \union {c}
    BY DEF ProcessClient, AcceptMessage
<1>6. RowInv'
    <2>1. CASE c \in Triggers \ inbox
        <3>1. plan' = [CloseOpenPlans EXCEPT ![c] = [st |-> "OPEN", ctx |-> conv.ctx + 1]]
            BY <2>1 DEF ProcessClient, CreateProofPlan
        <3>2. \A d \in Triggers : d # c =>
                 plan'[d].st = plan[d].st \/ (plan[d].st = "OPEN" /\ plan'[d].st = "CLOSED")
            BY <1>0, <3>1 DEF CloseOpenPlans
        <3>3. outb[c].st = "NONE"
            BY <2>1 DEF VkInv, RowInv
        <3> QED BY <1>3, <1>5, <3>2, <3>3 DEF VkInv, RowInv, SameRows
    <2>2. CASE c \notin Triggers \ inbox
        <3>1. UNCHANGED <<plan, outb>>
            BY <2>2 DEF ProcessClient
        <3> QED BY <1>5, <3>1 DEF VkInv, RowInv
    <2> QED BY <2>1, <2>2
<1> QED BY <1>1, <1>2, <1>3, <1>4, <1>6, SendQuiet, EchoQuiet, ChatQuiet, HeardQuiet DEF provider

\* A reply that is processed was not processed before; VK has numbered it.
LEMMA ReplyFirst ==
    ASSUME VkInv, NEW w \in InWorkers, Classified(w)
    PROVE  /\ iw[w].e \in Replies /\ cmid[iw[w].e] > 0 /\ outcome[iw[w].e] = "none"
           /\ outcome' = [outcome EXCEPT ![iw[w].e] = Verdict(iw[w].e)]
           /\ ev'[iw[w].e].st = "PROCESSED"
           /\ EvGrows
<1>1. iw[w].e \in Replies /\ iw[w].e \in Events
    BY EventNames DEF Classified
<1>2. ev[iw[w].e].st = "PROCESSING"
    BY DEF Classified, OwnsEvent
<1>3. EvGrows
    BY <1>1, SettleGrows DEF Classified, EventStatuses, VkInv
<1>4. ev'[iw[w].e].st = "PROCESSED"
    BY <1>1 DEF Classified, Settle, VkInv, Typed, EvOK
<1> QED BY <1>1, <1>2, <1>3, <1>4 DEF Classified, VkInv, HeardInv, ChatInv

\* An own echo counts as somebody else's only after its row died without receipt.
LEMMA EchoVerdict ==
    ASSUME VkInv, NEW c \in Triggers, cmid[Echo(c)] > 0, Verdict(Echo(c)) = "EXTERNAL_ACTOR"
    PROVE  outb[c].st = "DEAD" /\ ~outb[c].id
<1>1. Classify(Echo(c)) = "EXTERNAL_ACTOR"
    BY DEF Verdict
<1>2. payload[Echo(c)] # "FOREIGN" /\ c \in Candidates(Echo(c))
    BY DEF VkInv, ChatInv, Candidates
<1>3. ~outb[c].id /\ ~InFlight(c)
    BY <1>1, <1>2 DEF Classify
<1> QED BY <1>3 DEF InFlight, VkInv, SendInv, SentIsAdmitted

\* A person's reply is not the bot's, and it is stale only after a later one.
LEMMA HumanVerdict ==
    ASSUME VkInv, NEW h \in Humans, cmid[Human(h)] > 0, outcome[Human(h)] = "none"
    PROVE  /\ Verdict(Human(h)) # "OWN_TEYA_ECHO"
           /\ Verdict(Human(h)) = "STALE" =>
                 \E s \in Replies : s # Human(h) /\ outcome[s] = "EXTERNAL_ACTOR" /\ cmid[s] > cmid[Human(h)]
<1> DEFINE r == Human(h)
<1>0. /\ r \in Replies
      /\ cmid \in [Replies -> Nat]
      /\ conv.hwm \in Nat
    BY EventNames DEF VkInv, Typed, ProviderOK, DialogOK
<1>1. Classify(r) # "OWN_TEYA_ECHO"
    BY EventNames DEF Classify, Candidates
<1>2. Classify(r) # "STALE"
    BY DEF Classify
<1>3. ASSUME Verdict(r) = "STALE"
      PROVE  \E s \in Replies : s # r /\ outcome[s] = "EXTERNAL_ACTOR" /\ cmid[s] > cmid[r]
    <2>1. cmid[r] <= conv.hwm
        BY <1>2, <1>3 DEF Verdict
    <2>2. conv.hwm > 0
        BY <1>0, <2>1
    <2>3. PICK s \in Replies : outcome[s] = "EXTERNAL_ACTOR" /\ cmid[s] = conv.hwm
        BY <2>2 DEF VkInv, HeardInv
    <2>4. s # r
        BY <2>3
    <2>5. cmid[s] # cmid[r]
        BY <1>0, <2>4 DEF VkInv, ChatInv
    <2> QED BY <1>0, <2>1, <2>3, <2>4, <2>5
<1> QED BY <1>1, <1>3 DEF Verdict

LEMMA ReplyInv ==
    ASSUME VkInv, NEW w \in InWorkers, ReplyIgnored(w) \/ ReplyTakesOver(w)
    PROVE  RowInv' /\ SendInv' /\ ChatInv' /\ HeardInv' /\ OwnEchoHarmless'
<1> DEFINE r == iw[w].e
<1>0. /\ Typed
      /\ conv \in [mgr : BOOLEAN, ctx : Nat, hwm : Nat]
      /\ cmid \in [Replies -> Nat]
      /\ outcome \in [Replies -> Outcomes]
    BY DEF VkInv, Typed, DialogOK, ProviderOK, OutcomeOK
<1>1. Classified(w) /\ UNCHANGED <<inbox, ow, provider>>
    BY DEF ReplyIgnored, ReplyTakesOver, dialog
<1>2. /\ r \in Replies /\ cmid[r] > 0 /\ outcome[r] = "none"
      /\ outcome' = [outcome EXCEPT ![r] = Verdict(r)]
      /\ ev'[r].st = "PROCESSED"
      /\ EvGrows
    BY <1>1, ReplyFirst
<1>3. OutQuiet /\ SameRows
    BY <1>0, CancelQuiet DEF ReplyIgnored, ReplyTakesOver
<1>4. RowInv' /\ SendInv' /\ ChatInv'
    BY <1>1, <1>2, <1>3, RowQuiet, SendQuiet, ChatQuiet DEF ReplyIgnored, ReplyTakesOver, dialog
<1>5. /\ outcome'[r] = Verdict(r)
      /\ \A s \in Replies : s # r => outcome'[s] = outcome[s]
    BY <1>0, <1>2
<1>6. OwnEchoHarmless'
    <2>1. ASSUME NEW c \in Triggers, outcome'[Echo(c)] = "EXTERNAL_ACTOR"
          PROVE  outb[c].st = "DEAD" /\ ~outb[c].id
        <3>1. CASE Echo(c) = r
            BY <1>2, <1>5, <2>1, <3>1, EchoVerdict
        <3>2. CASE Echo(c) # r
            BY <1>5, <2>1, <3>2, EventNames DEF VkInv, OwnEchoHarmless
        <3> QED BY <3>1, <3>2
    <2> QED BY <1>3, <2>1 DEF OwnEchoHarmless, OutQuiet
<1>7. cmid' = cmid
    BY <1>1 DEF provider
<1>8. HumanHeard'
    <2>1. ASSUME NEW h \in Humans
          PROVE  /\ outcome'[Human(h)] # "OWN_TEYA_ECHO"
                 /\ outcome'[Human(h)] = "STALE" =>
                       \E s \in Replies : outcome'[s] = "EXTERNAL_ACTOR" /\ cmid[s] > cmid[Human(h)]
        <3>1. CASE Human(h) = r
            BY <1>2, <1>5, <3>1, HumanVerdict
        <3>2. CASE Human(h) # r
            <4>1. outcome'[Human(h)] = outcome[Human(h)]
                BY <1>5, <3>2, EventNames
            <4>2. outcome[Human(h)] # "OWN_TEYA_ECHO"
                BY DEF VkInv, HeardInv, HumanHeard
            <4>3. ASSUME outcome[Human(h)] = "STALE"
                  PROVE  \E s \in Replies : outcome'[s] = "EXTERNAL_ACTOR" /\ cmid[s] > cmid[Human(h)]
                <5>1. PICK s \in Replies : outcome[s] = "EXTERNAL_ACTOR" /\ cmid[s] > cmid[Human(h)]
                    BY <4>3 DEF VkInv, HeardInv, HumanHeard
                <5>2. s # r BY <1>2, <5>1
                <5> QED BY <1>5, <5>1, <5>2
            <4> QED BY <4>1, <4>2, <4>3
        <3> QED BY <3>1, <3>2
    <2> QED BY <1>7, <2>1 DEF HumanHeard
<1>9. \A s \in Replies : outcome'[s] # "none" => ev'[s].st = "PROCESSED"
    BY <1>2, <1>5 DEF VkInv, HeardInv, EvGrows
<1>10. CASE ReplyIgnored(w)
    <2>1. conv' = conv /\ Verdict(r) # "EXTERNAL_ACTOR"
        BY <1>10 DEF ReplyIgnored, dialog
    <2>2. \A s \in Replies : outcome'[s] = "EXTERNAL_ACTOR" <=> outcome[s] = "EXTERNAL_ACTOR"
        BY <1>2, <1>5, <2>1
    <2> QED BY <1>4, <1>6, <1>7, <1>8, <1>9, <2>1, <2>2 DEF HeardInv, VkInv
<1>11. CASE ReplyTakesOver(w)
    <2>1. Verdict(r) = "EXTERNAL_ACTOR" /\ conv'.hwm = cmid[r]
        BY <1>11 DEF ReplyTakesOver, ExternalReply
    <2>2. ~(cmid[r] <= conv.hwm)
        BY <2>1 DEF Verdict
    <2>3. \A s \in Replies : outcome'[s] = "EXTERNAL_ACTOR" => cmid[s] <= cmid[r]
        BY <1>0, <1>2, <1>5, <2>2 DEF VkInv, HeardInv
    <2> QED BY <1>2, <1>4, <1>5, <1>6, <1>7, <1>8, <1>9, <2>1, <2>3 DEF HeardInv
<1> QED BY <1>10, <1>11

\* VK writes a new message: numbers of older ones stay.
LEMMA WrittenInv ==
    ASSUME VkInv, NEW r \in Replies, cmid[r] = 0, NEW kinds, Written(r, kinds),
           \A c \in Triggers : r = Echo(c) => "FOREIGN" \notin kinds, UNCHANGED ev
    PROVE  /\ ChatInv'
           /\ cmid'[r] > 0
           /\ \A s \in Replies : s # r => cmid'[s] = cmid[s]
<1>0. /\ cmid \in [Replies -> Nat] /\ top \in Nat
      /\ payload \in [Replies -> Payloads]
    BY DEF VkInv, Typed, ProviderOK
<1>1. /\ cmid'[r] = top + 1 /\ top' = top + 1
      /\ \A s \in Replies : s # r => cmid'[s] = cmid[s]
    BY <1>0 DEF Written
<1>2. \A c \in Triggers : payload'[Echo(c)] # "FOREIGN"
    BY <1>0, EventNames DEF Written, VkInv, ChatInv
<1>3. \A s \in Replies : cmid[s] \in Nat /\ cmid[s] <= top
    BY <1>0 DEF VkInv, ChatInv
<1>4. \A s \in Replies : cmid'[s] <= top'
    BY <1>0, <1>1, <1>3
<1>5. \A s, t \in Replies : cmid'[s] = cmid'[t] /\ cmid'[s] > 0 => s = t
    <2>1. \A s \in Replies : s # r => cmid'[s] # cmid'[r]
        BY <1>0, <1>1, <1>3
    <2> QED BY <1>1, <2>1 DEF VkInv, ChatInv
<1>6. cmid'[r] > 0
    BY <1>0, <1>1
<1>7. \A s \in Replies : ev'[s].st # "NONE" => cmid'[s] > 0
    BY <1>1, <1>6 DEF VkInv, ChatInv
<1> QED BY <1>1, <1>2, <1>4, <1>5, <1>6, <1>7 DEF ChatInv

\* A send puts the row's message into the chat, if it is not there already.
LEMMA LandedInv ==
    ASSUME VkInv, NEW c \in Triggers, Landed(c), UNCHANGED ev
    PROVE  /\ ChatInv'
           /\ cmid'[Echo(c)] > 0
           /\ \A s \in Replies : s # Echo(c) \/ cmid[s] > 0 => cmid'[s] = cmid[s]
<1>0. Echo(c) \in Replies /\ cmid[Echo(c)] \in Nat
    BY EventNames DEF VkInv, Typed, ProviderOK
<1>1. CASE cmid[Echo(c)] = 0
    BY <1>0, <1>1, WrittenInv DEF Landed
<1>2. CASE cmid[Echo(c)] # 0
    <2>1. UNCHANGED provider
        BY <1>2 DEF Landed
    <2>2. EvGrows
        BY DEF EvGrows
    <2> QED BY <1>0, <1>2, <2>1, <2>2, ChatQuiet DEF provider
<1> QED BY <1>1, <1>2

LEMMA HumanInv ==
    ASSUME VkInv, NEW h \in Humans, HumanWrites(h)
    PROVE  RowInv' /\ SendInv' /\ ChatInv' /\ HeardInv' /\ OwnEchoHarmless'
<1>0. Human(h) \in Replies /\ UNCHANGED <<ev, outcome, conv, inbox, plan, outb, ow>>
    BY EventNames DEF HumanWrites, ingress, dialog
<1>1. /\ ChatInv'
      /\ \A s \in Replies : s # Human(h) => cmid'[s] = cmid[s]
    BY <1>0, EventNames, WrittenInv DEF HumanWrites
<1>2. \A c \in Triggers : cmid'[Echo(c)] = cmid[Echo(c)]
    BY <1>1, EventNames
<1>3. \A w \in OutWorkers : ow[w].ph # "idle" => ow[w].c \in Triggers
    BY DEF VkInv, Typed, OwOK
<1>4. SendInv'
    BY <1>0, <1>2, <1>3 DEF VkInv, SendInv, SentIsAdmitted
<1>5. RowInv' /\ OwnEchoHarmless'
    BY <1>0 DEF VkInv, RowInv, OwnEchoHarmless
<1>6. HeardInv'
    <2>1. EvGrows BY <1>0 DEF EvGrows
    <2>2. \A s \in Replies : cmid[s] > 0 => cmid'[s] = cmid[s]
        BY <1>1 DEF HumanWrites
    <2> QED BY <1>0, <2>1, <2>2, HeardQuiet
<1> QED BY <1>1, <1>4, <1>5, <1>6

\* Plans and handoff.
LEMMA PlanInv ==
    ASSUME VkInv, ExpireHandoff \/ \E c \in Triggers : DispatchPlan(c) \/ PlanDies(c)
    PROVE  RowInv' /\ SendInv' /\ ChatInv' /\ HeardInv' /\ OwnEchoHarmless'
<1>0. /\ Typed
      /\ conv \in [mgr : BOOLEAN, ctx : Nat, hwm : Nat]
      /\ plan \in [Triggers -> [st : PlanStatuses, ctx : Nat]]
      /\ outb \in [Triggers -> [st : OutStatuses, lease : Leases, ver : Nat, id : BOOLEAN]]
    BY DEF VkInv, Typed, DialogOK, OutOK
<1>1. UNCHANGED <<ev, outcome, ow, provider, inbox>> /\ conv'.hwm = conv.hwm
    BY <1>0 DEF ExpireHandoff, DispatchPlan, PlanDies, ingress
<1>2. EvGrows
    BY <1>1 DEF EvGrows
<1>3. OutQuiet
    <2>1. CASE ExpireHandoff
        BY <1>0, <2>1, CancelQuiet DEF ExpireHandoff
    <2>2. ASSUME NEW c \in Triggers, DispatchPlan(c) PROVE OutQuiet
        <3>1. outb[c].st = "NONE"
            BY <2>2 DEF DispatchPlan, VkInv, RowInv
        <3>2. outb' = [outb EXCEPT ![c].st = "PENDING"]
            BY <2>2 DEF DispatchPlan
        <3> QED BY <1>0, <3>1, <3>2 DEF OutQuiet, Sent
    <2>3. ASSUME NEW c \in Triggers, PlanDies(c) PROVE OutQuiet
        BY <1>0, <2>3, CancelQuiet DEF PlanDies
    <2> QED BY <2>1, <2>2, <2>3
<1>4. RowInv'
    <2>1. CASE ExpireHandoff
        BY <1>0, <1>1, <2>1, CancelQuiet, RowQuiet DEF ExpireHandoff
    <2>2. ASSUME NEW c \in Triggers, DispatchPlan(c) PROVE RowInv'
        <3>1. /\ plan'[c].st = "DISPATCHED" /\ c \in inbox
              /\ \A d \in Triggers : d # c => plan'[d] = plan[d] /\ outb'[d] = outb[d]
            BY <1>0, <2>2 DEF DispatchPlan, VkInv, RowInv
        <3> QED BY <1>1, <3>1 DEF VkInv, RowInv
    <2>3. ASSUME NEW c \in Triggers, PlanDies(c) PROVE RowInv'
        <3>1. /\ c \in inbox /\ outb[c].st = "NONE" /\ outb' = outb
              /\ \A d \in Triggers : d # c => plan'[d] = plan[d]
            BY <1>0, <2>3 DEF PlanDies, VkInv, RowInv
        <3> QED BY <1>1, <3>1 DEF VkInv, RowInv
    <2> QED BY <2>1, <2>2, <2>3
<1> QED BY <1>1, <1>2, <1>3, <1>4, SendQuiet, EchoQuiet, ChatQuiet, HeardQuiet DEF provider

\* The outbound worker: what concerns the events and the plans.
LEMMA OutFrame ==
    ASSUME VkInv, UNCHANGED <<ingress, conv, inbox, plan, provider>>, SameRows
    PROVE  RowInv' /\ ChatInv' /\ HeardInv'
<1>1. EvGrows
    BY DEF ingress, EvGrows
<1> QED BY <1>1, RowQuiet, ChatQuiet, HeardQuiet DEF ingress, provider

\* Its steps up to the send, and failures: no receipt is written.
LEMMA OutQuietInv ==
    ASSUME VkInv, \/ \E c \in Triggers : OutLeaseExpires(c)
                  \/ \E w \in OutWorkers : \/ ClaimOutbound(w) \/ StaleOut(w) \/ Admit(w)
                                           \/ AdmitDenied(w) \/ FailOut(w) \/ PrepareReclaimed(w)
                                           \/ FailAdmitted(w)
    PROVE  RowInv' /\ SendInv' /\ ChatInv' /\ HeardInv' /\ OwnEchoHarmless'
<1>0. /\ Typed
      /\ outb \in [Triggers -> [st : OutStatuses, lease : Leases, ver : Nat, id : BOOLEAN]]
      /\ ow \in [OutWorkers -> [ph : OutPhases, c : Triggers \union {Nothing}, ver : Nat]]
      /\ \A w \in OutWorkers : ow[w].ph # "idle" => ow[w].c \in Triggers
    BY DEF VkInv, Typed, OutOK, OwOK
<1>1. UNCHANGED <<ingress, conv, inbox, plan, provider>>
    BY DEF OutLeaseExpires, ClaimOutbound, ClaimOut, ClaimNoOut, StaleOut, Admit, AdmitDenied,
           FailOut, PrepareReclaimed, FailAdmitted, dialog
<1>2. OutQuiet /\ SameRows
    <2>1. ASSUME NEW c \in Triggers, OutLeaseExpires(c) PROVE OutQuiet /\ SameRows
        BY <1>0, <2>1 DEF OutLeaseExpires, OutQuiet, SameRows
    <2>2. ASSUME NEW w \in OutWorkers, ClaimOutbound(w) PROVE OutQuiet /\ SameRows
        BY <1>0, <2>2, ClaimQuiet, VkAssumption DEF ClaimOutbound, ClaimOut, ClaimNoOut
    <2>3. ASSUME NEW w \in OutWorkers, Admit(w) PROVE OutQuiet /\ SameRows
        BY <1>0, <2>3 DEF Admit, OwnsOut, OutQuiet, SameRows, Sent
    <2>4. ASSUME NEW w \in OutWorkers, FailOut(w) PROVE OutQuiet /\ SameRows
        BY <1>0, <2>4 DEF FailOut, OwnsOut, OutQuiet, SameRows, Sent
    <2>5. ASSUME NEW w \in OutWorkers, FailAdmitted(w) PROVE OutQuiet /\ SameRows
        <3> DEFINE c == ow[w].c
        <3>1. c \in Triggers /\ outb[c].st = "ADMITTED"
            BY <1>0, <2>5 DEF FailAdmitted, OwnsOut
        <3>2. /\ outb'[c].st \in {"DEAD", "ADMITTED"} /\ outb'[c].id = outb[c].id
              /\ \A d \in Triggers : d # c => outb'[d] = outb[d]
            <4> DEFINE st == IF ow[w].ph = "kill" \/ ow[w].ver >= MaxAttempts THEN "DEAD" ELSE "ADMITTED"
            <4>1. outb' = [outb EXCEPT ![c] = [outb[c] EXCEPT !.st = st, !.lease = "none"]]
                BY <1>0, <2>5, <3>1 DEF FailAdmitted
            <4>2. st \in {"DEAD", "ADMITTED"} OBVIOUS
            <4> HIDE DEF st
            <4> QED BY <1>0, <3>1, <4>1, <4>2
        <3> QED BY <3>1, <3>2 DEF OutQuiet, SameRows, Sent
    <2>6. ASSUME NEW w \in OutWorkers, StaleOut(w) \/ AdmitDenied(w) \/ PrepareReclaimed(w)
          PROVE OutQuiet /\ SameRows
        BY <1>0, <2>6, CancelQuiet DEF StaleOut, AdmitDenied, PrepareReclaimed
    <2> QED BY <2>1, <2>2, <2>3, <2>4, <2>5, <2>6
<1>3. ASSUME NEW w \in OutWorkers
      PROVE  \/ ow'[w] = ow[w]
             \/ ow'[w].ph \notin {"send", "store", "deliver"}
             \/ ow'[w].ph = "send" /\ ow'[w].c \in Triggers /\ outb'[ow'[w].c].st = "ADMITTED"
    <2>1. ASSUME NEW c \in Triggers, OutLeaseExpires(c) PROVE ow'[w] = ow[w]
        BY <2>1 DEF OutLeaseExpires
    <2>2. ASSUME NEW v \in OutWorkers, ClaimOutbound(v)
          PROVE  ow'[w] = ow[w] \/ ow'[w].ph \in {"reclaimed", "admit"}
        BY <1>0, <2>2 DEF ClaimOutbound, ClaimOut, ClaimNoOut
    <2>3. ASSUME NEW v \in OutWorkers, Admit(v) \/ PrepareReclaimed(v)
          PROVE  ow'[w] = ow[w] \/ (ow'[w].ph = "send" /\ ow'[w].c \in Triggers /\ outb'[ow'[w].c].st = "ADMITTED")
        <3>1. ow[v].c \in Triggers
            BY <1>0, <2>3 DEF Admit, PrepareReclaimed
        <3>2. outb'[ow[v].c].st = "ADMITTED"
            BY <1>0, <2>3, <3>1 DEF Admit, PrepareReclaimed, OwnsOut
        <3>3. ow' = [ow EXCEPT ![v].ph = "send"]
            BY <2>3 DEF Admit, PrepareReclaimed, Goto
        <3> QED BY <1>0, <3>1, <3>2, <3>3
    <2>4. ASSUME NEW v \in OutWorkers, StaleOut(v) \/ FailOut(v) \/ FailAdmitted(v)
          PROVE  ow'[w] = ow[w] \/ ow'[w].ph = "idle"
        <3>1. ow' = [ow EXCEPT ![v] = IdleOut]
            BY <2>4 DEF StaleOut, FailOut, FailAdmitted
        <3> QED BY <1>0, <3>1 DEF IdleOut
    <2>5. ASSUME NEW v \in OutWorkers, AdmitDenied(v)
          PROVE  ow'[w] = ow[w] \/ ow'[w].ph = "denied"
        BY <1>0, <2>5 DEF AdmitDenied, Goto
    <2> QED BY <2>1, <2>2, <2>3, <2>4, <2>5
<1>4. cmid' = cmid /\ UNCHANGED outcome
    BY <1>1 DEF provider, ingress
<1>5. SentIsAdmitted'
    BY <1>2, <1>4 DEF VkInv, SendInv, SentIsAdmitted, OutQuiet, Sent
<1>6. SendInv'
    <2>1. ASSUME NEW w \in OutWorkers, ow'[w].ph = "send" PROVE outb'[ow'[w].c].st \in Sent
        <3>1. CASE ow'[w] = ow[w]
            BY <1>0, <1>2, <2>1, <3>1 DEF VkInv, SendInv, OutQuiet
        <3>2. CASE ow'[w] # ow[w]
            BY <1>3, <2>1, <3>2 DEF Sent
        <3> QED BY <3>1, <3>2
    <2>2. ASSUME NEW w \in OutWorkers, ow'[w].ph \in {"store", "deliver"}
          PROVE  cmid'[Echo(ow'[w].c)] > 0
        <3>1. ow'[w] = ow[w]
            BY <1>3, <2>2
        <3> QED BY <1>4, <2>2, <3>1 DEF VkInv, SendInv
    <2> QED BY <1>5, <2>1, <2>2 DEF SendInv
<1> QED BY <1>1, <1>2, <1>4, <1>6, OutFrame, EchoQuiet

\* A send that lands, or may have landed, and a crash.
LEMMA SendingInv ==
    ASSUME VkInv, NEW w \in OutWorkers, SendAnswered(w) \/ SendFails(w) \/ CrashOut(w)
    PROVE  RowInv' /\ SendInv' /\ ChatInv' /\ HeardInv' /\ OwnEchoHarmless'
<1> DEFINE c == ow[w].c
<1>0. /\ ow \in [OutWorkers -> [ph : OutPhases, c : Triggers \union {Nothing}, ver : Nat]]
      /\ \A v \in OutWorkers : ow[v].ph # "idle" => ow[v].c \in Triggers
      /\ c \in Triggers
      /\ UNCHANGED <<ev, outcome, conv, inbox, plan, outb>>
    BY DEF VkInv, Typed, OwOK, SendAnswered, SendFails, CrashOut, ingress, dialog
<1>1. CASE ow[w].ph = "send" /\ Landed(c)
    <2>1. /\ ChatInv'
          /\ cmid'[Echo(c)] > 0
          /\ \A s \in Replies : s # Echo(c) \/ cmid[s] > 0 => cmid'[s] = cmid[s]
        BY <1>0, <1>1, LandedInv
    <2>2. outb[c].st \in Sent
        BY <1>1 DEF VkInv, SendInv
    <2>3. SentIsAdmitted'
        BY <1>0, <2>1, <2>2, EventNames DEF VkInv, SendInv, SentIsAdmitted, Sent
    <2>4. \A v \in OutWorkers : \/ ow'[v] = ow[v]
                                \/ ow'[v].ph \notin {"send", "store", "deliver"}
                                \/ ow'[v].ph = "store" /\ ow'[v].c = c
        BY <1>0 DEF SendAnswered, SendFails, CrashOut, Goto, IdleOut
    <2>5. \A v \in OutWorkers : ow[v].ph \in {"store", "deliver"} => cmid'[Echo(ow[v].c)] > 0
        BY <1>0, <2>1, EventNames DEF VkInv, SendInv
    <2>6. SendInv'
        BY <1>0, <2>1, <2>3, <2>4, <2>5 DEF VkInv, SendInv
    <2>7. HeardInv'
        <3>1. EvGrows BY <1>0 DEF EvGrows
        <3> QED BY <1>0, <2>1, <3>1, HeardQuiet
    <2> QED BY <1>0, <2>1, <2>6, <2>7 DEF VkInv, RowInv, OwnEchoHarmless
<1>2. CASE UNCHANGED provider
    <2>1. \A v \in OutWorkers : \/ ow'[v] = ow[v]
                                \/ ow'[v].ph \notin {"send", "store", "deliver"}
                                \/ ow'[v].ph = "store" /\ ow'[v].c = c /\ Landed(c)
        BY <1>0 DEF SendAnswered, SendFails, CrashOut, Goto, IdleOut
    <2>2. CASE Landed(c) /\ SendAnswered(w)
        BY <1>1, <2>2 DEF SendAnswered
    <2>3. CASE ~SendAnswered(w)
        <3>1. \A v \in OutWorkers : ow'[v] = ow[v] \/ ow'[v].ph \notin {"send", "store", "deliver"}
            BY <1>0, <2>3 DEF SendFails, CrashOut, Goto, IdleOut
        <3>2. cmid' = cmid
            BY <1>2 DEF provider
        <3>3. SendInv'
            BY <1>0, <3>1, <3>2 DEF VkInv, SendInv, SentIsAdmitted
        <3>4. EvGrows
            BY <1>0 DEF EvGrows
        <3> QED BY <1>0, <1>2, <3>2, <3>3, <3>4, ChatQuiet, HeardQuiet DEF VkInv, RowInv, OwnEchoHarmless
    <2> QED BY <2>2, <2>3 DEF SendAnswered
<1> QED BY <1>1, <1>2 DEF SendAnswered, SendFails, CrashOut

\* Receipt and delivery are written for a message that is in the chat.
LEMMA ReceiptInv ==
    ASSUME VkInv, NEW w \in OutWorkers, StoreId(w) \/ MarkDelivered(w)
    PROVE  RowInv' /\ SendInv' /\ ChatInv' /\ HeardInv' /\ OwnEchoHarmless'
<1> DEFINE c == ow[w].c
<1>0. /\ outb \in [Triggers -> [st : OutStatuses, lease : Leases, ver : Nat, id : BOOLEAN]]
      /\ ow \in [OutWorkers -> [ph : OutPhases, c : Triggers \union {Nothing}, ver : Nat]]
      /\ \A v \in OutWorkers : ow[v].ph # "idle" => ow[v].c \in Triggers
      /\ c \in Triggers
    BY DEF VkInv, Typed, OwOK, OutOK, StoreId, MarkDelivered
<1>1. UNCHANGED <<ingress, conv, inbox, plan, provider>>
    BY DEF StoreId, MarkDelivered, dialog
<1>2. outb[c].st = "ADMITTED" /\ cmid[Echo(c)] > 0
    BY DEF StoreId, MarkDelivered, OwnsOut, VkInv, SendInv
<1>3. outb'[c].st \in {"ADMITTED", "DELIVERED"} /\ outb'[c].id = TRUE
    <2>1. CASE StoreId(w) BY <1>0, <1>2, <2>1 DEF StoreId
    <2>2. CASE MarkDelivered(w) BY <1>0, <2>2 DEF MarkDelivered
    <2> QED BY <2>1, <2>2
<1>4. \A d \in Triggers : d # c => outb'[d] = outb[d]
    BY <1>0 DEF StoreId, MarkDelivered
<1>5. cmid' = cmid /\ outcome' = outcome
    BY <1>1 DEF provider, ingress
<1>6. SameRows
    BY <1>2, <1>4 DEF SameRows
<1>7. OwnEchoHarmless'
    BY <1>2, <1>4, <1>5 DEF VkInv, OwnEchoHarmless
<1>8. SentIsAdmitted'
    BY <1>2, <1>3, <1>4, <1>5 DEF VkInv, SendInv, SentIsAdmitted
<1>9. \A v \in OutWorkers : \/ ow'[v] = ow[v]
                            \/ ow'[v].ph = "idle"
                            \/ ow'[v].ph = "deliver" /\ ow'[v].c = c
    BY <1>0 DEF StoreId, MarkDelivered, Goto, IdleOut
<1>10. \A d \in Triggers : outb[d].st \in Sent => outb'[d].st \in Sent
    BY <1>3, <1>4 DEF Sent
<1>11. SendInv'
    BY <1>0, <1>2, <1>5, <1>8, <1>9, <1>10 DEF VkInv, SendInv
<1> QED BY <1>1, <1>6, <1>7, <1>11, OutFrame

LEMMA VkStep == VkInv /\ [Next]_vars => VkInv'
<1>1. ASSUME VkInv, Next PROVE VkInv'
    <2>1. Typed'
        BY <1>1, TypeStep DEF VkInv
    <2>2. RowInv' /\ SendInv' /\ ChatInv' /\ HeardInv' /\ OwnEchoHarmless'
        BY <1>1, HumanInv, QueueInv, ClientInv, ReplyInv, PlanInv, OutQuietInv,
           SendingInv, ReceiptInv DEF Next, HandleEvent, HandleOut
    <2> QED BY <2>1, <2>2 DEF VkInv
<1>2. ASSUME VkInv, UNCHANGED vars PROVE VkInv'
    <2>1. Typed'
        BY <1>2, TypeStep DEF VkInv
    <2>2. RowInv' /\ SendInv' /\ OwnEchoHarmless'
        BY <1>2 DEF vars, VkInv, RowInv, SendInv, SentIsAdmitted, OwnEchoHarmless
    <2>3. ChatInv' /\ HeardInv'
        BY <1>2 DEF vars, VkInv, ChatInv, HeardInv, HumanHeard
    <2> QED BY <2>1, <2>2, <2>3 DEF VkInv
<1> QED BY <1>1, <1>2

\* For any messages, workers, retries and faults: the bot's own echo silences the
\* bot only after its row died without a receipt, what is in the chat was
\* admitted, what is delivered has its receipt, and a person is never taken for
\* the bot and never overruled by an earlier reply.
THEOREM EchoCorrect == Spec => []EchoSafe
<1>1. Spec => []VkInv
    BY VkInit, VkStep, PTL DEF Spec
<1>2. VkInv => EchoSafe
    BY DEF VkInv, SendInv, HeardInv, EchoSafe
<1> QED BY <1>1, <1>2, PTL

\* Only the takeover records an external reply, and it is later than all before.
LEMMA TakeoverStep ==
    ASSUME VkInv, Next, NEW r \in Replies, outcome'[r] = "EXTERNAL_ACTOR", outcome[r] # "EXTERNAL_ACTOR",
           NEW s \in Replies, outcome[s] = "EXTERNAL_ACTOR"
    PROVE  cmid[s] < cmid[r]
<1>0. cmid \in [Replies -> Nat] /\ conv.hwm \in Nat /\ outcome \in [Replies -> Outcomes]
    BY DEF VkInv, Typed, ProviderOK, DialogOK, OutcomeOK
<1>1. outcome' # outcome
    OBVIOUS
<1>2. PICK w \in InWorkers : ReplyIgnored(w) \/ ReplyTakesOver(w)
    BY <1>1 DEF Next, HumanWrites, AcceptEvent, EventLeaseExpires, ClaimIn, ClaimNoEvent, ClaimEvent,
        HandleEvent, StaleEvent, EventRaises, FailClaimed, ProcessClient, ReplyRaces, CrashIn,
        DispatchPlan, PlanDies, OutLeaseExpires, ClaimOutbound, ClaimNoOut, ClaimOut, HandleOut,
        StaleOut, Admit, AdmitDenied, FailOut, PrepareReclaimed, SendAnswered, SendFails,
        FailAdmitted, StoreId, MarkDelivered, CrashOut, ExpireHandoff, ingress
<1>3. Classified(w)
    BY <1>2 DEF ReplyIgnored, ReplyTakesOver
<1>4. r = iw[w].e /\ Verdict(r) = "EXTERNAL_ACTOR"
    BY <1>0, <1>3, ReplyFirst
<1>5. ~(cmid[r] <= conv.hwm)
    BY <1>4 DEF Verdict
<1>6. cmid[s] <= conv.hwm
    BY DEF VkInv, HeardInv
<1> QED BY <1>0, <1>5, <1>6

\* Replies take the dialog over in the order in which VK numbered them, however
\* their callbacks are delayed, retried and processed.
THEOREM OrderCorrect == Spec => TakeoverOrder
<1> DEFINE Ordered ==
        \A r \in Replies : outcome'[r] = "EXTERNAL_ACTOR" /\ outcome[r] # "EXTERNAL_ACTOR" =>
            \A s \in Replies : outcome[s] = "EXTERNAL_ACTOR" => cmid[s] < cmid[r]
<1>1. VkInv /\ [Next]_vars => [Ordered]_vars
    BY TakeoverStep
<1>2. Spec => []VkInv
    BY VkInit, VkStep, PTL DEF Spec
<1> QED BY <1>1, <1>2, PTL DEF Spec, TakeoverOrder
=============================================================================
