--------------------------- MODULE DialogProofs ---------------------------
(***************************************************************************)
(* Theorems about Dialog, for any sets of messages and workers and any     *)
(* bounds: type correctness, then the fencing invariant, then the sink,    *)
(* the booking and the outbox invariants, each proved inductive from the   *)
(* ones before it, and the action properties they imply: no row goes       *)
(* backwards and the active offer follows what was delivered.  Last, the   *)
(* dialog implements ReplyPromise under the mapping Replies.               *)
(***************************************************************************)
EXTENDS Dialog, FiniteSetTheorems, TLAPS

-----------------------------------------------------------------------------
(* Type correctness *)

\* Closing plans and cancelling outbound rows keep the row types.
LEMMA CloseOpenPlansType ==
    ASSUME plan \in [ClientMsgs -> PlanType], NEW s \in PlanStatuses
    PROVE  CloseOpenPlans(s) \in [ClientMsgs -> PlanType]
  BY DEF CloseOpenPlans, PlanType, Leases

LEMMA CancelUnadmittedType ==
    ASSUME outb \in [ClientMsgs -> OutType]
    PROVE  CancelUnadmitted \in [ClientMsgs -> OutType]
  BY DEF CancelUnadmitted, OutType, Leases, OutStatuses

\* The claim of a plan and of an outbound row keeps the row's type.
LEMMA ClaimedPlanType ==
    ASSUME NEW p \in PlanType
    PROVE  [p EXCEPT !.status = "PROCESSING", !.lease = "live",
                     !.ver = p.ver + 1, !.att = p.att + 1] \in PlanType
<1>1. p.ver + 1 \in Nat /\ p.att + 1 \in Nat BY DEF PlanType
<1>2. QED BY <1>1 DEF PlanType, PlanStatuses, Leases

LEMMA ClaimedOutType ==
    ASSUME NEW o \in OutType, NEW s \in {"ADMITTED", "PROCESSING"}
    PROVE  [o EXCEPT !.status = s, !.lease = "live",
                     !.ver = o.ver + 1, !.att = o.att + 1] \in OutType
<1>1. o.ver + 1 \in Nat /\ o.att + 1 \in Nat BY DEF OutType
<1>2. QED BY <1>1 DEF OutType, OutStatuses, Leases

\* What a claim picked: an existing candidate, or none.
LEMMA PlanClaimPicks ==
    ASSUME NEW w \in Workers, PlanClaim(w)
    PROVE  \E r \in ClientMsgs \cup {NoMsg}, c \in ClientMsgs \cup {NoMsg} :
              /\ r # NoMsg => r \in ExhaustedPlans
              /\ c # NoMsg => Claimable(c)
              /\ ClaimPlan(w, r, c)
<1>1. \A r \in OrNone(ExhaustedPlans) :
        r \in ClientMsgs \cup {NoMsg} /\ (r # NoMsg => r \in ExhaustedPlans)
  BY DEF ExhaustedPlans, OrNone
<1>2. \A c \in OrNone({m \in ClientMsgs : Claimable(m)}) :
        c \in ClientMsgs \cup {NoMsg} /\ (c # NoMsg => Claimable(c))
  BY DEF OrNone
<1>3. QED BY <1>1, <1>2 DEF PlanClaim

LEMMA OutClaimPicks ==
    ASSUME NEW w \in Workers, OutClaim(w)
    PROVE  \E c \in ClientMsgs \cup {NoMsg} :
              (c # NoMsg => OutClaimable(c)) /\ ClaimOut(w, c)
<1>1. \A c \in OrNone({m \in ClientMsgs : OutClaimable(m)}) :
        c \in ClientMsgs \cup {NoMsg} /\ (c # NoMsg => OutClaimable(c))
  BY DEF OrNone
<1>2. QED BY <1>1 DEF OutClaim

\* The values the code stores in a conversation row are well typed.
LEMMA BumpedType ==
    ASSUME NEW c \in ConvType
    PROVE  Bumped(c) \in ConvType
<1>1. c.seq + 1 \in Nat /\ c.ctx + 1 \in Nat BY DEF ConvType
<1>2. QED BY <1>1 DEF Bumped, ConvType

LEMMA EnterOrContinuePauseType ==
    ASSUME NEW c \in ConvType
    PROVE  EnterOrContinuePause(c) \in ConvType
  BY DEF EnterOrContinuePause, ConvType

LEMMA ManagerAppliedType ==
    ASSUME NEW c \in ConvType, NEW s \in Nat
    PROVE  ManagerApplied(c, s) \in ConvType
<1>1. c.epoch + 1 \in Nat /\ c.ctx + 1 \in Nat BY DEF ConvType
<1>2. QED BY <1>1 DEF ManagerApplied, ConvType

LEMMA NewPlanType ==
    ASSUME NEW c \in ConvType, NEW nb \in Nat \cup {FUTURE, INFINITY}, NEW d \in BOOLEAN
    PROVE  NewPlan(c, nb, d) \in PlanType
<1>1. NoPlan \in PlanType
  BY DEF NoPlan, PlanType, PlanStatuses, Leases, Resolutions, PAST
<1>2. QED BY <1>1 DEF NewPlan, PlanType, ConvType, PlanStatuses

LEMMA TypeInit == Init => TypeOK
<1> SUFFICES ASSUME Init PROVE TypeOK OBVIOUS
<1> USE MessagesAssumption, BoundsAssumption
<1>1. conv \in ConvType
  BY DEF Init, ConvType, NoDeadline
<1>2. NoPlan \in PlanType /\ NoOut \in OutType /\ IdlePlan \in PlanClaimType
      /\ IdleOut \in OutClaimType
  BY DEF NoPlan, PlanType, PlanStatuses, Leases, Resolutions, PAST, NoOut, OutType,
         OutStatuses, IdlePlan, IdleOut, PlanClaimType, OutClaimType, PlanPhases, OutPhases
<1>3. IdlePlan.ph = "idle" /\ IdleOut.ph = "idle"
  BY DEF IdlePlan, IdleOut
<1>4. mgr \in [ManagerMsgs -> [class : MgrClasses, seq : Nat]]
  BY DEF Init, MgrClasses
<1>5. QED BY <1>1, <1>2, <1>3, <1>4 DEF Init, TypeOK

\* Every step keeps every column and every claim within its type.
LEMMA TypeStep == TypeOK /\ [Next]_vars => TypeOK'
<1> SUFFICES ASSUME TypeOK, [Next]_vars PROVE TypeOK'
  OBVIOUS
<1> USE MessagesAssumption, BoundsAssumption
<1>1. ASSUME NEW m \in ClientMsgs, AcceptInbound(m) PROVE TypeOK'
  <2>1. CASE IsDuplicate(m)
    BY <1>1, <2>1 DEF AcceptInbound, TypeOK
  <2>2. CASE ~IsDuplicate(m)
    <3> AcceptNew(m) BY <1>1, <2>2 DEF AcceptInbound
    <3> DEFINE paused == EnterOrContinuePause(Bumped(conv))
    <3>1. Bumped(conv) \in ConvType /\ paused \in ConvType
      BY BumpedType, EnterOrContinuePauseType DEF TypeOK
    <3>2. conv' \in ConvType
      BY <3>1 DEF AcceptNew, ConvType
    <3>3. plan' \in [ClientMsgs -> PlanType]
      <4>1. CloseOpenPlans("SUPERSEDED") \in [ClientMsgs -> PlanType]
        BY CloseOpenPlansType DEF PlanStatuses, TypeOK
      <4>2. NewPlan(Bumped(conv), FUTURE, FALSE) \in PlanType
        BY <3>1, NewPlanType
      <4>3. NewPlan(paused, paused.deadline, TRUE) \in PlanType
        <5>1. paused.deadline \in Nat \cup {FUTURE, INFINITY} BY <3>1 DEF ConvType
        <5>2. QED BY <3>1, <5>1, NewPlanType
      <4>4. QED BY <4>1, <4>2, <4>3 DEF AcceptNew
    <3>4. outb' \in [ClientMsgs -> OutType]
      BY CancelUnadmittedType DEF AcceptNew, TypeOK
    <3>5. jobs' \subseteq JobKinds \X (ClientMsgs \cup {NoMsg})
      BY DEF AcceptNew, TypeOK, JobKinds
    <3>6. offer' \in ClientMsgs \cup {NoMsg} /\ inbox' \in [ClientMsgs -> Nat]
      BY <3>1 DEF AcceptNew, TypeOK, ConvType
    <3>7. QED
      BY <1>1, <3>2, <3>3, <3>4, <3>5, <3>6 DEF AcceptInbound, TypeOK
  <2>3. QED BY <2>1, <2>2
<1>2. ASSUME NEW g \in ManagerMsgs, ManagerMessage(g) PROVE TypeOK'
  <2> DEFINE numbered == [conv EXCEPT !.seq = conv.seq + 1]
  <2>1. numbered \in ConvType /\ numbered.seq \in Nat
    <3>1. conv.seq + 1 \in Nat BY DEF TypeOK, ConvType
    <3>2. QED BY <3>1 DEF TypeOK, ConvType
  <2>2. conv' \in ConvType
    BY <1>2, <2>1, ManagerAppliedType DEF ManagerMessage, TypeOK
  <2>3. mgr' \in [ManagerMsgs -> [class : MgrClasses, seq : Nat]]
    <3>1. Classify(conv.hwm, ProviderSeq[g]) \in MgrClasses BY DEF Classify, MgrClasses
    <3>2. mgr[g] \in [class : MgrClasses, seq : Nat] BY DEF TypeOK
    <3>3. mgr' = mgr \/ \E x \in [class : MgrClasses, seq : Nat] : mgr' = [mgr EXCEPT ![g] = x]
      <4>1. CASE mgr' = [mgr EXCEPT ![g] = [class |-> Classify(conv.hwm, ProviderSeq[g]),
                                            seq |-> numbered.seq]]
        BY <2>1, <3>1, <4>1
      <4>2. CASE mgr' = [mgr EXCEPT ![g].class = Classify(conv.hwm, ProviderSeq[g])]
        <5>1. [mgr[g] EXCEPT !.class = Classify(conv.hwm, ProviderSeq[g])]
                \in [class : MgrClasses, seq : Nat]
          BY <3>1, <3>2
        <5>2. QED BY <4>2, <5>1
      <4>3. QED BY <1>2, <4>1, <4>2 DEF ManagerMessage
    <3>4. QED BY <3>3 DEF TypeOK
  <2>4. plan' \in [ClientMsgs -> PlanType] /\ outb' \in [ClientMsgs -> OutType]
    BY <1>2, CloseOpenPlansType, CancelUnadmittedType DEF ManagerMessage, TypeOK, PlanStatuses
  <2>5. jobs' \subseteq JobKinds \X (ClientMsgs \cup {NoMsg})
    BY <1>2 DEF ManagerMessage, TypeOK, TakeoverJob, JobKinds
  <2>6. QED BY <1>2, <2>2, <2>3, <2>4, <2>5 DEF ManagerMessage, TypeOK
<1>3. ASSUME ManagerTakeover PROVE TypeOK'
  <2>1. conv' \in ConvType
    <3>1. conv.epoch + 1 \in Nat BY DEF TypeOK, ConvType
    <3>2. conv \in ConvType BY DEF TypeOK
    <3>3. [conv EXCEPT !.ownership = "MANAGER", !.status = "HANDOFF", !.hs = "HUMAN_ACTIVE",
                       !.epoch = conv.epoch + 1, !.takeover = TRUE, !.deadline = INFINITY,
                       !.anchor = FALSE, !.active = NoMsg] \in ConvType
      BY <3>1, <3>2 DEF ConvType
    <3>4. QED BY <1>3, <3>2, <3>3 DEF ManagerTakeover
  <2>2. plan' \in [ClientMsgs -> PlanType] /\ outb' \in [ClientMsgs -> OutType]
    BY <1>3, CloseOpenPlansType, CancelUnadmittedType DEF ManagerTakeover, TypeOK, PlanStatuses
  <2>3. jobs' \subseteq JobKinds \X (ClientMsgs \cup {NoMsg})
    BY <1>3 DEF ManagerTakeover, TypeOK, TakeoverJob, JobKinds
  <2>4. QED BY <1>3, <2>1, <2>2, <2>3 DEF ManagerTakeover, TypeOK
<1>4. ASSUME NEW a, ReturnToBot(a), a \in ClientMsgs \cup {NoMsg} PROVE conv' \in ConvType
  <2>1. NoDeadline \in Nat /\ conv.ctx + 1 \in Nat /\ conv.epoch + 1 \in Nat
    BY DEF NoDeadline, TypeOK, ConvType
  <2>2. QED BY <1>4, <2>1 DEF ReturnToBot, TypeOK, ConvType
<1>5. ASSUME ExpireActiveHandoff PROVE TypeOK'
  <2>1. plan' \in [ClientMsgs -> PlanType] /\ outb' \in [ClientMsgs -> OutType]
    BY <1>5, CloseOpenPlansType, CancelUnadmittedType
       DEF ExpireActiveHandoff, TypeOK, PlanStatuses
  <2>2. QED BY <1>4, <1>5, <2>1 DEF ExpireActiveHandoff, TypeOK
<1>6. ASSUME ExpirePausedHandoff PROVE TypeOK'
  <2>1. CASE DeferredPlanIsCurrent
    BY <1>4, <1>6, <2>1 DEF ExpirePausedHandoff, TypeOK, DeferredPlanIsCurrent
  <2>2. CASE ~DeferredPlanIsCurrent
    <3>1. [conv EXCEPT !.quarantined = TRUE] \in ConvType BY DEF TypeOK, ConvType
    <3>2. QED BY <1>6, <2>2, <3>1 DEF ExpirePausedHandoff, TypeOK
  <2>3. QED BY <2>1, <2>2
<1>7. ASSUME NEW w \in Workers, PlanClaim(w) PROVE TypeOK'
  <2>1. PICK r \in ClientMsgs \cup {NoMsg}, c \in ClientMsgs \cup {NoMsg} : ClaimPlan(w, r, c)
    BY <1>7, PlanClaimPicks
  <2>2. \A m \in ClientMsgs : /\ plan[m] \in PlanType /\ plan[m].ver + 1 \in Nat
                              /\ plan[m].att + 1 \in Nat /\ Readied(m) \in PlanStatuses
    BY DEF TypeOK, PlanType, Readied, PlanStatuses
  <2>3. plan' \in [ClientMsgs -> PlanType]
    <3>1. \A m \in ClientMsgs :
            /\ [plan[m] EXCEPT !.status = "DEAD", !.lease = "none"] \in PlanType
            /\ [plan[m] EXCEPT !.status = Readied(m)] \in PlanType
      BY <2>2 DEF PlanType, PlanStatuses, Leases
    <3>2. QED BY <2>1, <2>2, <3>1, ClaimedPlanType DEF ClaimPlan
  <2>4. pw' \in [Workers -> PlanClaimType]
        /\ \A v \in Workers : pw'[v].ph # "idle" => pw'[v].m \in ClientMsgs
    BY <2>1, <2>2 DEF ClaimPlan, TypeOK, PlanClaimType, PlanPhases, Resolutions
  <2>5. jobs' \subseteq JobKinds \X (ClientMsgs \cup {NoMsg})
    <3>1. RecoveryJob(r) \subseteq JobKinds \X (ClientMsgs \cup {NoMsg})
      BY DEF RecoveryJob, JobKinds
    <3>2. QED BY <2>1, <3>1 DEF ClaimPlan, TypeOK
  <2>6. QED BY <1>7, <2>3, <2>4, <2>5 DEF PlanClaim, TypeOK
<1>8. IdlePlan \in PlanClaimType /\ IdlePlan.ph = "idle"
      /\ IdleOut \in OutClaimType /\ IdleOut.ph = "idle"
  BY DEF IdlePlan, IdleOut, PlanClaimType, OutClaimType, PlanPhases, OutPhases, Resolutions
<1>9. ASSUME NEW w \in Workers, PlanTask(w) PROVE TypeOK'
  <2> DEFINE c == pw[w]
  <2>1. CASE PlanStale(w)
    BY <1>8, <2>1 DEF PlanStale, TypeOK
  <2>2. CASE PlanRaises(w)
    BY <2>2 DEF PlanRaises, TypeOK, PlanClaimType, PlanPhases
  <2>3. CASE BookingPhase1(w)
    <3>1. c.m \in ClientMsgs /\ plan[c.m] \in PlanType /\ c \in PlanClaimType
      BY <2>3 DEF BookingPhase1, TypeOK
    <3>2. plan' \in [ClientMsgs -> PlanType]
      <4>1. Dispatched(plan[c.m]) \in PlanType /\ MarkStarted(plan[c.m]) \in PlanType
        BY <3>1 DEF Dispatched, MarkStarted, PlanType, PlanStatuses, Leases, Resolutions
      <4>2. QED BY <2>3, <3>1, <4>1 DEF BookingPhase1, TypeOK
    <3>3. pw' \in [Workers -> PlanClaimType]
          /\ \A v \in Workers : pw'[v].ph # "idle" => pw'[v].m \in ClientMsgs
      <4> DEFINE got == IF HasResult(plan[c.m]) THEN plan[c.m].res ELSE "INTERRUPTED"
      <4>1. got \in Resolutions BY <3>1 DEF PlanType, Resolutions
      <4>2. [c EXCEPT !.ph = "remote"] \in PlanClaimType
            /\ [c EXCEPT !.ph = "finalize", !.got = got] \in PlanClaimType
        BY <3>1, <4>1 DEF PlanClaimType, PlanPhases
      <4>3. [c EXCEPT !.ph = "remote"].m = c.m
            /\ [c EXCEPT !.ph = "finalize", !.got = got].m = c.m
        BY <3>1 DEF PlanClaimType
      <4>4. \E x \in PlanClaimType : /\ x.ph # "idle" => x.m \in ClientMsgs
                                     /\ pw' = [pw EXCEPT ![w] = x]
        BY <1>8, <2>3, <3>1, <4>2, <4>3 DEF BookingPhase1
      <4>5. QED BY <4>4 DEF TypeOK
    <3>4. jobs' \subseteq JobKinds \X (ClientMsgs \cup {NoMsg})
      BY <2>3, <3>1 DEF BookingPhase1, TypeOK, JobKinds
    <3>5. QED BY <2>3, <3>2, <3>3, <3>4 DEF BookingPhase1, TypeOK
  <2>4. CASE BookingRemote(w)
    <3>1. c.m \in ClientMsgs /\ calls[c.m] + 1 \in Nat
      BY <2>4 DEF BookingRemote, TypeOK
    <3>2. pw' \in [Workers -> PlanClaimType]
          /\ \A v \in Workers : pw'[v].ph # "idle" => pw'[v].m \in ClientMsgs
      <4>1. PICK r \in RemoteResults : pw' = [pw EXCEPT ![w] = [c EXCEPT !.ph = "finalize", !.got = r]]
        BY <2>4 DEF BookingRemote
      <4>2. c \in PlanClaimType /\ r \in Resolutions BY DEF TypeOK, Resolutions
      <4>3. [c EXCEPT !.ph = "finalize", !.got = r] \in PlanClaimType
            /\ [c EXCEPT !.ph = "finalize", !.got = r].m = c.m
        BY <4>2 DEF PlanClaimType, PlanPhases
      <4>4. QED BY <3>1, <4>1, <4>3 DEF TypeOK
    <3>3. QED BY <2>4, <3>1, <3>2 DEF BookingRemote, TypeOK
  <2>5. CASE BookingPhase2(w)
    <3> DEFINE res == IF HasResult(plan[c.m]) THEN plan[c.m].res ELSE c.got
    <3>1. c.m \in ClientMsgs /\ plan[c.m] \in PlanType /\ c \in PlanClaimType
      BY <2>5 DEF BookingPhase2, TypeOK
    <3>0. res \in Resolutions BY <3>1 DEF PlanType, PlanClaimType
    <3>2. plan' \in [ClientMsgs -> PlanType]
      <4>1. Dispatched(plan[c.m]) \in PlanType
        BY <3>1 DEF Dispatched, PlanType, PlanStatuses, Leases
      <4>2. [Dispatched(plan[c.m]) EXCEPT !.res = res] \in PlanType
        BY <3>0, <4>1 DEF PlanType
      <4>3. QED BY <2>5, <3>1, <4>1, <4>2 DEF BookingPhase2, TypeOK
    <3>3. outb' \in [ClientMsgs -> OutType]
      <4>1. NoOut \in OutType
        BY DEF NoOut, OutType, OutStatuses, Leases, Resolutions
      <4>2. [NoOut EXCEPT !.status = "PENDING", !.body = res] \in OutType
        BY <3>0, <4>1 DEF OutType, OutStatuses
      <4>3. QED BY <2>5, <3>1, <4>2 DEF BookingPhase2, TypeOK
    <3>4. jobs' \subseteq JobKinds \X (ClientMsgs \cup {NoMsg})
      BY <2>5, <3>1 DEF BookingPhase2, TypeOK, JobKinds
    <3>5. pw' \in [Workers -> PlanClaimType]
          /\ \A v \in Workers : pw'[v].ph # "idle" => pw'[v].m \in ClientMsgs
      BY <1>8, <2>5 DEF BookingPhase2, TypeOK
    <3>6. QED BY <2>5, <3>2, <3>3, <3>4, <3>5 DEF BookingPhase2, TypeOK
  <2>6. CASE PlanFail(w)
    <3>1. c.m \in ClientMsgs /\ plan[c.m] \in PlanType
      BY <2>6 DEF PlanFail, TypeOK
    <3>2. plan' \in [ClientMsgs -> PlanType]
      <4>1. \A s \in {"DEAD", "FAILED"}, n \in {plan[c.m].nb, FUTURE} :
              [plan[c.m] EXCEPT !.status = s, !.nb = n, !.lease = "none"] \in PlanType
        BY <3>1 DEF PlanType, PlanStatuses, Leases
      <4>2. QED BY <2>6, <3>1, <4>1 DEF PlanFail, TypeOK
    <3>3. jobs' \subseteq JobKinds \X (ClientMsgs \cup {NoMsg})
      BY <2>6, <3>1 DEF PlanFail, TypeOK, JobKinds
    <3>4. pw' \in [Workers -> PlanClaimType]
          /\ \A v \in Workers : pw'[v].ph # "idle" => pw'[v].m \in ClientMsgs
      BY <1>8, <2>6 DEF PlanFail, TypeOK
    <3>5. QED BY <2>6, <3>2, <3>3, <3>4 DEF PlanFail, TypeOK
  <2>7. QED BY <1>9, <2>1, <2>2, <2>3, <2>4, <2>5, <2>6 DEF PlanTask
<1>10. ASSUME NEW w \in Workers, OutClaim(w) PROVE TypeOK'
  <2>1. PICK c \in ClientMsgs \cup {NoMsg} : ClaimOut(w, c)
    BY <1>10, OutClaimPicks
  <2>2. \A m \in ClientMsgs : /\ outb[m] \in OutType /\ outb[m].ver + 1 \in Nat
                              /\ outb[m].att + 1 \in Nat
    BY DEF TypeOK, OutType
  <2>3. outb' \in [ClientMsgs -> OutType]
    <3>1. \A m \in ClientMsgs : [outb[m] EXCEPT !.status = "DEAD", !.lease = "none"] \in OutType
      BY <2>2 DEF OutType, OutStatuses, Leases
    <3>2. \A m \in ClientMsgs :
            [outb[m] EXCEPT
               !.status = IF outb[m].status = "ADMITTED" THEN "ADMITTED" ELSE "PROCESSING",
               !.lease = "live", !.ver = outb[m].ver + 1, !.att = outb[m].att + 1] \in OutType
      BY <2>2, ClaimedOutType
    <3>3. QED BY <2>1, <2>2, <3>1, <3>2 DEF ClaimOut
  <2>4. ow' \in [Workers -> OutClaimType]
        /\ \A v \in Workers : ow'[v].ph # "idle" => ow'[v].m \in ClientMsgs
    BY <2>1, <2>2 DEF ClaimOut, TypeOK, OutClaimType, OutPhases
  <2>5. QED BY <1>10, <2>3, <2>4 DEF OutClaim, TypeOK
<1>11. ASSUME NEW w \in Workers, OutTask(w) PROVE TypeOK'
  <2> DEFINE c == ow[w]
  <2>1. CASE Admit(w)
    <3>1. c.m \in ClientMsgs /\ outb[c.m] \in OutType /\ c \in OutClaimType
      BY <2>1 DEF Admit, TypeOK
    <3>2. outb' \in [ClientMsgs -> OutType]
      BY <2>1, <3>1 DEF Admit, TypeOK, OutType, OutStatuses
    <3>3. ow' \in [Workers -> OutClaimType]
          /\ \A v \in Workers : ow'[v].ph # "idle" => ow'[v].m \in ClientMsgs
      <4>1. \A p \in {"denied", "admitted"} : [c EXCEPT !.ph = p] \in OutClaimType
                                              /\ [c EXCEPT !.ph = p].m = c.m
        BY <3>1 DEF OutClaimType, OutPhases
      <4>2. \E x \in OutClaimType : /\ x.ph # "idle" => x.m \in ClientMsgs
                                    /\ ow' = [ow EXCEPT ![w] = x]
        BY <1>8, <2>1, <3>1, <4>1 DEF Admit
      <4>3. QED BY <4>2 DEF TypeOK
    <3>4. QED BY <2>1, <3>2, <3>3 DEF Admit, TypeOK
  <2>2. CASE AdmitRaises(w)
    BY <2>2 DEF AdmitRaises, TypeOK, OutClaimType, OutPhases
  <2>3. CASE OutFail(w)
    <3>1. c.m \in ClientMsgs /\ outb[c.m] \in OutType
      BY <2>3 DEF OutFail, TypeOK
    <3>2. outb' \in [ClientMsgs -> OutType]
      BY <2>3, <3>1 DEF OutFail, TypeOK, OutType, OutStatuses, Leases
    <3>3. ow' \in [Workers -> OutClaimType]
          /\ \A v \in Workers : ow'[v].ph # "idle" => ow'[v].m \in ClientMsgs
      BY <1>8, <2>3 DEF OutFail, TypeOK
    <3>4. QED BY <2>3, <3>2, <3>3 DEF OutFail, TypeOK
  <2>4. CASE PrepareReclaimed(w)
    BY <1>8, <2>4 DEF PrepareReclaimed, TypeOK, OutClaimType, OutPhases
  <2>5. CASE SinkAccepts(w)
    BY <2>5 DEF SinkAccepts, TypeOK, OutClaimType, OutPhases
  <2>6. CASE SinkRefuses(w)
    BY <2>6 DEF SinkRefuses, TypeOK, OutClaimType, OutPhases
  <2>7. CASE FailAdmitted(w)
    <3>1. c.m \in ClientMsgs /\ outb[c.m] \in OutType
      BY <2>7 DEF FailAdmitted, TypeOK
    <3>2. outb' \in [ClientMsgs -> OutType]
      BY <2>7, <3>1 DEF FailAdmitted, TypeOK, OutType, OutStatuses, Leases
    <3>3. ow' \in [Workers -> OutClaimType]
          /\ \A v \in Workers : ow'[v].ph # "idle" => ow'[v].m \in ClientMsgs
      BY <1>8, <2>7 DEF FailAdmitted, TypeOK
    <3>4. QED BY <2>7, <3>2, <3>3 DEF FailAdmitted, TypeOK
  <2>8. CASE Deliver(w)
    <3>1. c.m \in ClientMsgs /\ outb[c.m] \in OutType
      BY <2>8 DEF Deliver, TypeOK
    <3>2. outb' \in [ClientMsgs -> OutType]
      <4>1. [outb[c.m] EXCEPT !.status = "DELIVERED", !.lease = "none"] \in OutType
        BY <3>1 DEF OutType, OutStatuses, Leases
      <4>2. QED BY <2>8, <3>1, <4>1 DEF Deliver, TypeOK
    <3>3. ow' \in [Workers -> OutClaimType]
          /\ \A v \in Workers : ow'[v].ph # "idle" => ow'[v].m \in ClientMsgs
      <4>1. [c EXCEPT !.ph = "delivered"] \in OutClaimType
            /\ [c EXCEPT !.ph = "delivered"].m = c.m
        BY DEF TypeOK, OutClaimType, OutPhases
      <4>2. \E x \in OutClaimType : /\ x.ph # "idle" => x.m \in ClientMsgs
                                    /\ ow' = [ow EXCEPT ![w] = x]
        BY <1>8, <2>8, <3>1, <4>1 DEF Deliver
      <4>3. QED BY <4>2 DEF TypeOK
    <3>4. offer' \in ClientMsgs \cup {NoMsg}
      BY <2>8, <3>1 DEF Deliver, TypeOK, Activated
    <3>5. jobs' \subseteq JobKinds \X (ClientMsgs \cup {NoMsg})
      BY <2>8, <3>1 DEF Deliver, TypeOK, JobKinds
    <3>6. QED BY <2>8, <3>2, <3>3, <3>4, <3>5 DEF Deliver, TypeOK
  <2>9. CASE EnqueueProjection(w)
    <3>1. jobs' \subseteq JobKinds \X (ClientMsgs \cup {NoMsg})
      BY <2>9 DEF EnqueueProjection, TypeOK, JobKinds
    <3>2. QED BY <1>8, <2>9, <3>1 DEF EnqueueProjection, TypeOK
  <2>10. QED BY <1>11, <2>1, <2>2, <2>3, <2>4, <2>5, <2>6, <2>7, <2>8, <2>9 DEF OutTask
<1>12. ASSUME NEW m \in ClientMsgs, RepairProjection(m) PROVE TypeOK'
  BY <1>12 DEF RepairProjection, TypeOK, JobKinds
<1>13. ASSUME DeadlinePasses PROVE TypeOK'
  <2>1. passed' \in Nat
    BY <1>13 DEF DeadlinePasses, TypeOK, ConvType, INFINITY
  <2>2. QED BY <1>13, <2>1 DEF DeadlinePasses, TypeOK
<1>14. ASSUME NEW m \in ClientMsgs, PlanDelayPasses(m) PROVE TypeOK'
  BY <1>14 DEF PlanDelayPasses, TypeOK, PlanType, PAST
<1>15. ASSUME NEW m \in ClientMsgs, OutDelayPasses(m) PROVE TypeOK'
  BY <1>15 DEF OutDelayPasses, TypeOK, OutType
<1>16. ASSUME NEW b \in BOOLEAN, FaultIf(b) PROVE faults' \in 0..MaxFaults
  BY <1>16 DEF FaultIf, TypeOK
<1>17. ASSUME NEW m \in ClientMsgs, PlanLeaseExpires(m) PROVE TypeOK'
  <2>1. faults' \in 0..MaxFaults BY <1>16, <1>17 DEF PlanLeaseExpires
  <2>2. [plan[m] EXCEPT !.lease = "expired"] \in PlanType BY DEF TypeOK, PlanType, Leases
  <2>3. QED BY <1>17, <2>1, <2>2 DEF PlanLeaseExpires, TypeOK
<1>18. ASSUME NEW m \in ClientMsgs, OutLeaseExpires(m) PROVE TypeOK'
  <2>1. faults' \in 0..MaxFaults BY <1>16, <1>18 DEF OutLeaseExpires
  <2>2. QED BY <1>18, <2>1 DEF OutLeaseExpires, TypeOK, OutType, Leases
<1>19. ASSUME NEW w \in Workers, DropPlanTask(w) PROVE TypeOK'
  BY <1>8, <1>16, <1>19 DEF DropPlanTask, TypeOK
<1>20. ASSUME NEW w \in Workers, DropOutTask(w) PROVE TypeOK'
  BY <1>8, <1>16, <1>20 DEF DropOutTask, TypeOK
<1>21. CASE UNCHANGED vars
  BY <1>21 DEF vars, TypeOK
<1>22. QED
  BY <1>1, <1>2, <1>3, <1>5, <1>6, <1>7, <1>9, <1>10, <1>11, <1>12, <1>13, <1>14, <1>15,
     <1>17, <1>18, <1>19, <1>20, <1>21 DEF Next

\* Every column and every claim in memory keeps its type in every behaviour.
THEOREM TypeCorrect == Spec => []TypeOK
<1>1. TypeOK /\ [Next]_vars => TypeOK' BY TypeStep
<1>2. QED BY <1>1, TypeInit, PTL DEF Spec

-----------------------------------------------------------------------------
(* Fencing: what may still be answered or sent is current *)

\* A plan exists only for an accepted message, an outbound row only for a
\* dispatched plan.
RowsFollow ==
    \A m \in ClientMsgs :
        /\ inbox[m] = 0 => plan[m].status = "NONE"
        /\ outb[m].status # "NONE" => plan[m].status = "DISPATCHED"

FencingInv ==
    /\ HandoffConsistent
    /\ OpenPlanIsCurrent
    /\ PauseOwesReply
    /\ UnadmittedIsCurrent
    /\ RowsFollow

\* The outbound worker only moves rows along: it never makes a row admissible
\* that was not, and never creates one.
LEMMA OutboundOnlyStep ==
    ASSUME FencingInv, UNCHANGED <<conv, inbox, plan>>,
           \A m \in ClientMsgs :
              /\ outb'[m].status \in OutCancellable => outb[m].status \in OutCancellable
              /\ outb'[m].status # "NONE" => outb[m].status # "NONE"
    PROVE  FencingInv'
<1>1. HandoffConsistent' BY DEF FencingInv, HandoffConsistent
<1>2. OpenPlanIsCurrent' BY DEF FencingInv, OpenPlanIsCurrent, OpenPlans, FencesMatch
<1>3. PauseOwesReply' BY DEF FencingInv, PauseOwesReply, DeferredPlanIsCurrent, FencesMatch
<1>4. UnadmittedIsCurrent'
  BY DEF FencingInv, UnadmittedIsCurrent, FencesMatch, AllowsAutomaticReply
<1>5. RowsFollow' BY DEF FencingInv, RowsFollow
<1>6. QED BY <1>1, <1>2, <1>3, <1>4, <1>5 DEF FencingInv

\* The reply-plan worker never opens a plan, never leaves DISPATCHED, never
\* touches the fencing columns, and leaves a waiting deferred plan alone.
LEMMA PlanOnlyStep ==
    ASSUME FencingInv, UNCHANGED <<conv, inbox, outb>>,
           \A m \in ClientMsgs :
              /\ plan'[m].ctx = plan[m].ctx /\ plan'[m].epoch = plan[m].epoch
              /\ plan'[m].seq = plan[m].seq /\ plan'[m].deferred = plan[m].deferred
              /\ plan'[m].status \notin PlanTerminal \cup {"NONE"}
                    => plan[m].status \notin PlanTerminal \cup {"NONE"}
              /\ plan[m].status \in {"NONE", "DISPATCHED"} => plan'[m].status = plan[m].status
              /\ conv.hs = "HUMAN_PAUSE" /\ m = conv.active
                    => plan'[m].nb = plan[m].nb /\ plan'[m].status \in {"PENDING", "READY"}
    PROVE  FencingInv'
<1>1. HandoffConsistent' BY DEF FencingInv, HandoffConsistent
<1>2. OpenPlanIsCurrent' BY DEF FencingInv, OpenPlanIsCurrent, OpenPlans, FencesMatch
<1>3. PauseOwesReply' BY DEF FencingInv, PauseOwesReply, DeferredPlanIsCurrent, FencesMatch
<1>4. UnadmittedIsCurrent'
  BY DEF FencingInv, UnadmittedIsCurrent, FencesMatch, AllowsAutomaticReply
<1>5. RowsFollow' BY DEF FencingInv, RowsFollow
<1>6. QED BY <1>1, <1>2, <1>3, <1>4, <1>5 DEF FencingInv

\* What closing plans and cancelling outbound rows leaves behind.
LEMMA Closed ==
    ASSUME TypeOK, NEW s \in {"CANCELLED", "SUPERSEDED"}, NEW m \in ClientMsgs
    PROVE  /\ CloseOpenPlans(s)[m].status \in PlanTerminal \cup {"NONE"}
           /\ plan[m].status \in PlanTerminal \cup {"NONE"} => CloseOpenPlans(s)[m] = plan[m]
  BY DEF CloseOpenPlans, OpenPlans, PlanTerminal, TypeOK, PlanType

LEMMA Cancelled ==
    ASSUME TypeOK, NEW m \in ClientMsgs
    PROVE  /\ CancelUnadmitted[m].status \notin OutCancellable
           /\ CancelUnadmitted[m].status # "NONE" => outb[m].status # "NONE"
  BY DEF CancelUnadmitted, OutCancellable, TypeOK, OutType

\* Closing every plan and cancelling every outbound row keeps the invariant
\* whatever happens to the conversation, as long as that is a consistent state
\* without a running pause.
LEMMA ClosingStep ==
    ASSUME TypeOK, FencingInv, NEW s \in {"CANCELLED", "SUPERSEDED"},
           plan' = CloseOpenPlans(s), outb' = CancelUnadmitted, inbox' = inbox,
           HandoffConsistent', conv'.hs # "HUMAN_PAUSE", ~conv'.quarantined
    PROVE  FencingInv'
<1>1. \A m \in ClientMsgs : plan'[m].status \in PlanTerminal \cup {"NONE"}
  BY Closed
<1>2. OpenPlanIsCurrent' BY <1>1 DEF OpenPlanIsCurrent, OpenPlans
<1>3. PauseOwesReply' BY DEF PauseOwesReply
<1>4. UnadmittedIsCurrent' BY Cancelled DEF UnadmittedIsCurrent
<1>5. RowsFollow'
  <2> SUFFICES ASSUME NEW m \in ClientMsgs
               PROVE  /\ inbox[m] = 0 => plan'[m].status = "NONE"
                      /\ outb'[m].status # "NONE" => plan'[m].status = "DISPATCHED"
    BY DEF RowsFollow
  <2> QED BY Closed, Cancelled DEF FencingInv, RowsFollow, PlanTerminal
<1>6. QED BY <1>2, <1>3, <1>4, <1>5 DEF FencingInv

LEMMA FencingInit == Init => FencingInv
<1> SUFFICES ASSUME Init PROVE FencingInv OBVIOUS
<1>1. \A m \in ClientMsgs : plan[m].status = "NONE" /\ outb[m].status = "NONE"
  BY DEF Init, NoPlan, NoOut
<1>2. HandoffConsistent /\ PauseOwesReply BY DEF Init, HandoffConsistent, PauseOwesReply
<1>3. QED BY <1>1, <1>2 DEF FencingInv, OpenPlanIsCurrent, OpenPlans, UnadmittedIsCurrent,
                            OutCancellable, RowsFollow

\* A new client message closes what it outdates and leaves one current plan.
LEMMA AcceptFencing ==
    ASSUME TypeOK, FencingInv, NEW m \in ClientMsgs, AcceptInbound(m)
    PROVE  FencingInv'
<1> USE MessagesAssumption
<1>1. CASE IsDuplicate(m)
  <2>1. UNCHANGED <<conv, inbox, plan, outb>> BY <1>1 DEF AcceptInbound
  <2>2. QED BY <2>1, OutboundOnlyStep
<1>2. CASE ~IsDuplicate(m)
  <2> DEFINE bumped == Bumped(conv)
             paused == EnterOrContinuePause(bumped)
             closed == CloseOpenPlans("SUPERSEDED")
  <2>0. /\ AcceptNew(m) /\ inbox[m] = 0 /\ plan[m].status = "NONE"
        /\ outb' = CancelUnadmitted
        /\ inbox' = [inbox EXCEPT ![m] = bumped.seq]
    BY <1>2 DEF AcceptInbound, IsDuplicate, FencingInv, RowsFollow, AcceptNew
  <2>1. /\ bumped \in ConvType /\ paused \in ConvType
        /\ bumped.ctx # NoDeadline /\ bumped.seq # 0
        /\ \A f \in {"status", "ownership", "hs", "takeover", "deadline", "anchor",
                     "quarantined"} : bumped[f] = conv[f]
    <3>1. bumped \in ConvType /\ paused \in ConvType
      BY BumpedType, EnterOrContinuePauseType DEF TypeOK
    <3>2. bumped.ctx = conv.ctx + 1 /\ bumped.seq = conv.seq + 1
      BY DEF Bumped, TypeOK, ConvType
    <3>3. bumped.ctx # NoDeadline /\ bumped.seq # 0
      BY <3>2 DEF TypeOK, ConvType, NoDeadline
    <3>4. \A f \in {"status", "ownership", "hs", "takeover", "deadline", "anchor",
                    "quarantined"} : bumped[f] = conv[f]
      BY DEF Bumped, TypeOK, ConvType
    <3>5. QED BY <3>1, <3>3, <3>4
  <2>2. \A n \in ClientMsgs : closed[n].status \in PlanTerminal \cup {"NONE"}
    BY Closed
  <2>3. outb[m].status = "NONE"
    BY <2>0 DEF FencingInv, RowsFollow
  <2>4. closed \in [ClientMsgs -> PlanType]
    BY CloseOpenPlansType DEF TypeOK, PlanStatuses
  <2>5. UnadmittedIsCurrent' BY <2>0, Cancelled DEF UnadmittedIsCurrent
  <2>6. ASSUME \A n \in ClientMsgs \ {m} : plan'[n] = closed[n] PROVE RowsFollow'
    <3>1. ASSUME NEW n \in ClientMsgs \ {m}
          PROVE  /\ inbox'[n] = 0 => plan'[n].status = "NONE"
                 /\ outb'[n].status # "NONE" => plan'[n].status = "DISPATCHED"
      BY <2>0, <2>6, Closed, Cancelled DEF FencingInv, RowsFollow, TypeOK, PlanTerminal
    <3>2. inbox'[m] # 0 /\ outb'[m].status = "NONE"
      BY <2>0, <2>1, <2>3, Cancelled DEF TypeOK
    <3>3. QED BY <3>1, <3>2 DEF RowsFollow
  <2>7. CASE AllowsAutomaticReply
    <3>1. /\ plan' = [closed EXCEPT ![m] = NewPlan(bumped, FUTURE, FALSE)]
          /\ conv' = [bumped EXCEPT !.active = m]
      BY <2>0, <2>7 DEF AcceptNew
    <3>2. /\ \A f \in {"status", "ownership", "hs", "takeover", "deadline", "anchor",
                       "quarantined"} : conv'[f] = conv[f]
          /\ conv'.ctx = bumped.ctx /\ conv'.epoch = bumped.epoch /\ conv'.seq = bumped.seq
          /\ conv'.active = m
      BY <2>1, <3>1 DEF ConvType
    <3>3. HandoffConsistent' BY <3>2 DEF FencingInv, HandoffConsistent
    <3>4. plan'[m].ctx = bumped.ctx /\ plan'[m].epoch = bumped.epoch /\ plan'[m].seq = bumped.seq
      BY <2>4, <3>1 DEF NewPlan, NoPlan
    <3>5. OpenPlanIsCurrent'
      BY <2>2, <2>4, <2>7, <3>1, <3>2, <3>4
         DEF OpenPlanIsCurrent, OpenPlans, FencesMatch, AllowsAutomaticReply
    <3>6. PauseOwesReply' BY <2>7, <3>2 DEF FencingInv, PauseOwesReply, AllowsAutomaticReply
    <3>7. RowsFollow' BY <2>4, <2>6, <3>1
    <3>8. QED BY <2>5, <3>3, <3>5, <3>6, <3>7 DEF FencingInv
  <2>8. CASE ~AllowsAutomaticReply
    <3>1. conv.status = "HANDOFF" /\ conv.hs \in {"HUMAN_ACTIVE", "HUMAN_PAUSE"}
      BY <2>8 DEF FencingInv, HandoffConsistent, AllowsAutomaticReply
    <3>2. /\ plan' = [closed EXCEPT ![m] = NewPlan(paused, paused.deadline, TRUE)]
          /\ conv' = [paused EXCEPT !.active = m]
      BY <2>0, <2>8, <3>1 DEF AcceptNew
    <3>3. /\ paused.hs = "HUMAN_PAUSE" /\ paused.anchor /\ paused.deadline # NoDeadline
          /\ paused.status = "HANDOFF" /\ paused.ownership = "MANAGER" /\ paused.takeover
          /\ ~paused.quarantined
      BY <2>1, <3>1 DEF EnterOrContinuePause, FencingInv, HandoffConsistent, PauseOwesReply,
                        ConvType
    <3>4. /\ conv'.hs = "HUMAN_PAUSE" /\ conv'.anchor /\ conv'.deadline = paused.deadline
          /\ conv'.status = "HANDOFF" /\ conv'.ownership = "MANAGER" /\ conv'.takeover
          /\ ~conv'.quarantined /\ conv'.ctx = paused.ctx /\ conv'.epoch = paused.epoch
          /\ conv'.seq = paused.seq /\ conv'.active = m
      BY <2>1, <3>2, <3>3 DEF ConvType
    <3>5. HandoffConsistent' BY <3>3, <3>4 DEF HandoffConsistent
    <3>6. /\ plan'[m].ctx = paused.ctx /\ plan'[m].epoch = paused.epoch
          /\ plan'[m].seq = paused.seq /\ plan'[m].nb = paused.deadline /\ plan'[m].deferred
          /\ plan'[m].status = "PENDING"
      BY <2>4, <3>2 DEF NewPlan, NoPlan
    <3>7. OpenPlanIsCurrent'
      BY <2>2, <2>4, <3>2, <3>4, <3>6 DEF OpenPlanIsCurrent, OpenPlans, FencesMatch
    <3>8. PauseOwesReply' BY <3>4, <3>6 DEF PauseOwesReply, DeferredPlanIsCurrent, FencesMatch
    <3>9. RowsFollow' BY <2>4, <2>6, <3>2
    <3>10. QED BY <2>5, <3>5, <3>7, <3>8, <3>9 DEF FencingInv
  <2>9. QED BY <2>7, <2>8
<1>3. QED BY <1>1, <1>2

\* A manager message or a takeover closes everything the bot still had to say.
LEMMA ManagerFencing ==
    ASSUME TypeOK, FencingInv, ManagerTakeover \/ \E g \in ManagerMsgs : ManagerMessage(g)
    PROVE  FencingInv'
<1> USE MessagesAssumption
<1>1. ASSUME NEW g \in ManagerMsgs, ManagerMessage(g) PROVE FencingInv'
  <2> DEFINE numbered == [conv EXCEPT !.seq = conv.seq + 1]
  <2>1. CASE UNCHANGED <<conv, plan, outb>>
    BY <1>1, <2>1, OutboundOnlyStep DEF ManagerMessage
  <2>2. CASE /\ conv' = ManagerApplied(numbered, ProviderSeq[g])
             /\ plan' = CloseOpenPlans("CANCELLED") /\ outb' = CancelUnadmitted
    <3>1. numbered.ctx = conv.ctx BY DEF TypeOK, ConvType
    <3>2. /\ conv'.hs = "HUMAN_ACTIVE" /\ ~conv'.anchor /\ conv'.deadline = numbered.ctx + 1
          /\ conv'.status = "HANDOFF" /\ conv'.ownership = "MANAGER" /\ conv'.takeover
          /\ ~conv'.quarantined
      BY <2>2 DEF ManagerApplied, TypeOK, ConvType
    <3>3. conv'.deadline # NoDeadline BY <3>1, <3>2 DEF TypeOK, ConvType, NoDeadline
    <3>4. HandoffConsistent' BY <3>2, <3>3 DEF HandoffConsistent
    <3>5. inbox' = inbox BY <1>1 DEF ManagerMessage
    <3>6. QED BY <2>2, <3>2, <3>4, <3>5, ClosingStep
  <2>3. QED BY <1>1, <2>1, <2>2 DEF ManagerMessage
<1>2. ASSUME ManagerTakeover PROVE FencingInv'
  <2>1. inbox' = inbox /\ plan' = CloseOpenPlans("CANCELLED") BY <1>2 DEF ManagerTakeover
  <2>2. CASE AlreadyTaken
    <3>1. conv' = conv /\ outb' = outb BY <1>2, <2>2 DEF ManagerTakeover
    <3>2. \A m \in ClientMsgs : plan[m].status \in PlanTerminal \cup {"NONE"}
      BY <2>2 DEF FencingInv, OpenPlanIsCurrent, OpenPlans, AlreadyTaken
    <3>3. plan' = plan
      BY <2>1, <3>2 DEF CloseOpenPlans, OpenPlans, TypeOK
    <3>4. QED BY <2>1, <3>1, <3>3, OutboundOnlyStep
  <2>3. CASE ~AlreadyTaken
    <3>1. /\ conv'.hs = "HUMAN_ACTIVE" /\ ~conv'.anchor /\ conv'.deadline = INFINITY
          /\ conv'.status = "HANDOFF" /\ conv'.ownership = "MANAGER" /\ conv'.takeover
          /\ conv'.quarantined = conv.quarantined
      <4>1. \E e : conv' = [conv EXCEPT !.ownership = "MANAGER", !.status = "HANDOFF",
                       !.hs = "HUMAN_ACTIVE", !.epoch = e, !.takeover = TRUE,
                       !.deadline = INFINITY, !.anchor = FALSE, !.active = NoMsg]
        BY <1>2, <2>3 DEF ManagerTakeover
      <4>2. QED BY <4>1 DEF TypeOK, ConvType
    <3>2. HandoffConsistent' BY <3>1 DEF HandoffConsistent, INFINITY, NoDeadline
    <3>3. ~conv'.quarantined /\ outb' = CancelUnadmitted
      BY <1>2, <2>3, <3>1 DEF ManagerTakeover, FencingInv, PauseOwesReply
    <3>4. QED BY <2>1, <3>1, <3>2, <3>3, ClosingStep
  <2>4. QED BY <2>2, <2>3
<1>3. QED BY <1>1, <1>2

\* The end of a handoff gives the dialog back to the bot with exactly the
\* reply the pause owes, or with none.
LEMMA ExpiryFencing ==
    ASSUME TypeOK, FencingInv, ExpireActiveHandoff \/ ExpirePausedHandoff
    PROVE  FencingInv'
<1>1. ASSUME NEW a, ReturnToBot(a), ~conv.quarantined
      PROVE  /\ HandoffConsistent' /\ conv'.hs = "BOT_ACTIVE" /\ ~conv'.quarantined
             /\ conv'.ctx = conv.ctx /\ conv'.epoch = conv.epoch /\ conv'.seq = conv.seq
             /\ conv'.active = a
  BY <1>1 DEF ReturnToBot, HandoffConsistent, TypeOK, ConvType
<1>2. ~conv.quarantined BY DEF FencingInv, PauseOwesReply
<1>3. CASE ExpireActiveHandoff
  BY <1>1, <1>2, <1>3, ClosingStep DEF ExpireActiveHandoff
<1>4. CASE ExpirePausedHandoff
  <2>1. /\ conv.hs = "HUMAN_PAUSE" /\ DeferredPlanIsCurrent
        /\ UNCHANGED <<plan, outb, inbox>> /\ ReturnToBot(conv.active)
    BY <1>4 DEF ExpirePausedHandoff, FencingInv, PauseOwesReply
  <2>2. /\ HandoffConsistent' /\ conv'.hs = "BOT_ACTIVE" /\ ~conv'.quarantined
        /\ conv'.ctx = conv.ctx /\ conv'.epoch = conv.epoch /\ conv'.seq = conv.seq
        /\ conv'.active = conv.active
    BY <1>1, <1>2, <2>1
  <2>3. OpenPlanIsCurrent'
    BY <2>1, <2>2 DEF FencingInv, OpenPlanIsCurrent, OpenPlans, FencesMatch
  <2>4. PauseOwesReply' BY <2>2 DEF PauseOwesReply
  <2>5. UnadmittedIsCurrent'
    BY <2>1 DEF FencingInv, UnadmittedIsCurrent, AllowsAutomaticReply
  <2>6. RowsFollow' BY <2>1 DEF FencingInv, RowsFollow
  <2>7. QED BY <2>2, <2>3, <2>4, <2>5, <2>6 DEF FencingInv
<1>5. QED BY <1>3, <1>4

\* The reply-plan worker works on the open plan while the bot owns the dialog.
LEMMA PlanWorkerFencing ==
    ASSUME TypeOK, FencingInv, NEW w \in Workers, PlanClaim(w) \/ PlanTask(w)
    PROVE  FencingInv'
<1> USE MessagesAssumption
<1>0. \A m \in ClientMsgs : plan[m] \in PlanType BY DEF TypeOK
<1>1. CASE PlanClaim(w)
  <2>1. PICK r \in ClientMsgs \cup {NoMsg}, c \in ClientMsgs \cup {NoMsg} :
          /\ r # NoMsg => r \in ExhaustedPlans
          /\ c # NoMsg => Claimable(c)
          /\ ClaimPlan(w, r, c)
    BY <1>1, PlanClaimPicks
  <2>2. UNCHANGED <<conv, inbox, outb>> BY <1>1 DEF PlanClaim
  <2>3. ASSUME NEW m \in ClientMsgs
        PROVE  /\ plan'[m].ctx = plan[m].ctx /\ plan'[m].epoch = plan[m].epoch
               /\ plan'[m].seq = plan[m].seq /\ plan'[m].deferred = plan[m].deferred
               /\ plan'[m].nb = plan[m].nb
               /\ \/ plan'[m].status = plan[m].status
                  \/ plan[m].status = "PENDING" /\ plan'[m].status = "READY"
                  \/ m = r /\ plan'[m].status = "DEAD"
                  \/ m = c /\ m # NoMsg /\ plan'[m].status = "PROCESSING"
    BY <1>0, <2>1 DEF ClaimPlan, PlanType, Readied
  <2>4. \A m \in ClientMsgs :
          /\ m = r => plan[m].status = "PROCESSING"
          /\ m = c => plan[m].status \in {"PENDING", "READY", "FAILED", "PROCESSING"}
                      /\ conv.hs = "BOT_ACTIVE"
    BY <2>1 DEF ExhaustedPlans, Claimable, Readied
  <2>5. conv.hs = "HUMAN_PAUSE" => /\ conv.active \in ClientMsgs
                                   /\ plan[conv.active].status \in {"PENDING", "READY"}
    BY DEF FencingInv, PauseOwesReply, DeferredPlanIsCurrent
  <2>6. QED BY <2>2, <2>3, <2>4, <2>5, PlanOnlyStep DEF PlanTerminal
<1>2. CASE PlanStale(w) \/ PlanRaises(w) \/ BookingRemote(w)
  BY <1>2, OutboundOnlyStep DEF PlanStale, PlanRaises, BookingRemote
<1>3. ASSUME PlanValid(pw[w])
      PROVE  plan[pw[w].m].status = "PROCESSING" /\ conv.hs = "BOT_ACTIVE"
             /\ AllowsAutomaticReply /\ FencesMatch(pw[w].m)
  BY <1>3 DEF PlanValid, OwnsPlan, FencingInv, HandoffConsistent, AllowsAutomaticReply
<1>4. CASE BookingPhase1(w)
  <2> DEFINE m == pw[w].m
  <2>1. m \in ClientMsgs /\ PlanValid(pw[w]) /\ UNCHANGED <<conv, inbox, outb>>
    BY <1>4 DEF BookingPhase1, TypeOK
  <2>2. \/ plan' = plan \/ plan' = [plan EXCEPT ![m] = Dispatched(plan[m])]
        \/ plan' = [plan EXCEPT ![m] = MarkStarted(plan[m])]
    BY <1>4 DEF BookingPhase1
  <2>3. \A n \in ClientMsgs :
           /\ plan'[n].ctx = plan[n].ctx /\ plan'[n].epoch = plan[n].epoch
           /\ plan'[n].seq = plan[n].seq /\ plan'[n].deferred = plan[n].deferred
           /\ plan'[n].nb = plan[n].nb
           /\ plan'[n].status # plan[n].status => n = m /\ plan'[n].status = "DISPATCHED"
    <3>1. CASE plan' = plan BY <3>1
    <3>2. CASE plan' = [plan EXCEPT ![m] = Dispatched(plan[m])]
      BY <1>0, <2>1, <3>2 DEF TypeOK, PlanType, Dispatched
    <3>3. CASE plan' = [plan EXCEPT ![m] = MarkStarted(plan[m])]
      BY <1>0, <2>1, <3>3 DEF TypeOK, PlanType, MarkStarted
    <3>4. QED BY <2>2, <3>1, <3>2, <3>3
  <2>4. conv.hs # "HUMAN_PAUSE" /\ plan[m].status = "PROCESSING" BY <1>3, <2>1
  <2>5. QED BY <2>1, <2>3, <2>4, PlanOnlyStep DEF PlanTerminal
<1>5. CASE BookingPhase2(w)
  <2> DEFINE m == pw[w].m
             res == IF HasResult(plan[m]) THEN plan[m].res ELSE pw[w].got
  <2>1. m \in ClientMsgs /\ PlanValid(pw[w]) /\ UNCHANGED <<conv, inbox>>
    BY <1>5 DEF BookingPhase2, TypeOK
  <2>2. /\ AllowsAutomaticReply /\ FencesMatch(m) /\ plan[m].status = "PROCESSING"
        /\ outb[m].status = "NONE"
    BY <1>3, <2>1 DEF FencingInv, RowsFollow
  <2>3. /\ plan' = [plan EXCEPT ![m] = [Dispatched(plan[m]) EXCEPT !.res = res]]
        /\ outb' = [outb EXCEPT ![m] = [NoOut EXCEPT !.status = "PENDING", !.body = res]]
    BY <1>5, <2>2 DEF BookingPhase2
  <2>4. /\ plan'[m].ctx = plan[m].ctx /\ plan'[m].epoch = plan[m].epoch
        /\ plan'[m].seq = plan[m].seq /\ plan'[m].status = "DISPATCHED"
        /\ outb'[m].status = "PENDING"
        /\ \A n \in ClientMsgs \ {m} : plan'[n] = plan[n] /\ outb'[n] = outb[n]
    BY <1>0, <2>1, <2>3 DEF Dispatched, PlanType, NoOut, TypeOK
  <2>5. HandoffConsistent' BY <2>1 DEF FencingInv, HandoffConsistent
  <2>6. OpenPlanIsCurrent'
    BY <2>1, <2>4 DEF FencingInv, OpenPlanIsCurrent, OpenPlans, FencesMatch, PlanTerminal
  <2>7. PauseOwesReply'
    BY <2>1, <2>2 DEF FencingInv, PauseOwesReply, AllowsAutomaticReply
  <2>8. UnadmittedIsCurrent'
    BY <2>1, <2>2, <2>4 DEF FencingInv, UnadmittedIsCurrent, FencesMatch, AllowsAutomaticReply
  <2>9. RowsFollow'
    BY <2>1, <2>2, <2>4 DEF FencingInv, RowsFollow
  <2>10. QED BY <2>5, <2>6, <2>7, <2>8, <2>9 DEF FencingInv
<1>6. CASE PlanFail(w)
  <2> DEFINE m == pw[w].m
  <2>1. m \in ClientMsgs /\ UNCHANGED <<conv, inbox, outb>>
    BY <1>6 DEF PlanFail, TypeOK
  <2>2. CASE OwnsPlan(pw[w])
    <3>1. plan[m].status = "PROCESSING" BY <2>2 DEF OwnsPlan
    <3>2. \A n \in ClientMsgs :
             /\ plan'[n].ctx = plan[n].ctx /\ plan'[n].epoch = plan[n].epoch
             /\ plan'[n].seq = plan[n].seq /\ plan'[n].deferred = plan[n].deferred
             /\ n # m => plan'[n] = plan[n]
             /\ n = m => plan'[n].status \in {"DEAD", "FAILED"}
      <4>1. PICK s \in {"DEAD", "FAILED"} : \E nb :
              plan' = [plan EXCEPT ![m] = [plan[m] EXCEPT !.status = s, !.nb = nb, !.lease = "none"]]
        BY <1>6, <2>2 DEF PlanFail
      <4>2. QED BY <1>0, <2>1, <4>1 DEF TypeOK, PlanType
    <3>3. conv.hs = "HUMAN_PAUSE" => conv.active # m
                                     /\ plan[conv.active].status \in {"PENDING", "READY"}
      BY <3>1 DEF FencingInv, PauseOwesReply, DeferredPlanIsCurrent
    <3>4. QED BY <2>1, <3>1, <3>2, <3>3, PlanOnlyStep DEF PlanTerminal
  <2>3. CASE ~OwnsPlan(pw[w])
    BY <1>6, <2>1, <2>3, OutboundOnlyStep DEF PlanFail
  <2>4. QED BY <2>2, <2>3
<1>7. QED BY <1>1, <1>2, <1>4, <1>5, <1>6 DEF PlanTask

\* The outbound worker only decides rows that are there.
LEMMA OutWorkerFencing ==
    ASSUME TypeOK, FencingInv, NEW w \in Workers, OutClaim(w) \/ OutTask(w)
    PROVE  FencingInv'
<1> USE MessagesAssumption
<1>0. \A m \in ClientMsgs : outb[m] \in OutType BY DEF TypeOK
<1>1. CASE OutClaim(w)
  <2>1. PICK c \in ClientMsgs \cup {NoMsg} :
          (c # NoMsg => OutClaimable(c)) /\ ClaimOut(w, c)
    BY <1>1, OutClaimPicks
  <2>2. \A m \in ClientMsgs :
          \/ outb'[m].status = outb[m].status
          \/ outb'[m].status = "DEAD" /\ ExhaustedOut(m)
          \/ m = c /\ outb'[m].status = "PROCESSING" /\ outb[m].status # "ADMITTED"
    BY <1>0, <2>1 DEF ClaimOut, OutType
  <2>3. \A m \in ClientMsgs :
          /\ ExhaustedOut(m) => outb[m].status = "PROCESSING"
          /\ m = c /\ outb[m].status # "ADMITTED" => outb[m].status \in OutCancellable
    BY <2>1 DEF ExhaustedOut, OutClaimable, OutCancellable
  <2>4. QED BY <1>1, <2>2, <2>3, OutboundOnlyStep DEF OutClaim, OutCancellable
<1>2. CASE AdmitRaises(w) \/ PrepareReclaimed(w) \/ SinkAccepts(w) \/ SinkRefuses(w)
           \/ EnqueueProjection(w)
  BY <1>2, OutboundOnlyStep
     DEF AdmitRaises, PrepareReclaimed, SinkAccepts, SinkRefuses, EnqueueProjection
<1>3. ASSUME NEW m \in ClientMsgs, NEW o, outb' = [outb EXCEPT ![m] = o],
             o.status \notin OutCancellable \/ outb[m].status \in OutCancellable,
             outb[m].status # "NONE", UNCHANGED <<conv, inbox, plan>>
      PROVE  FencingInv'
  <2>1. \A n \in ClientMsgs :
          /\ outb'[n].status \in OutCancellable => outb[n].status \in OutCancellable
          /\ outb'[n].status # "NONE" => outb[n].status # "NONE"
    BY <1>3 DEF TypeOK
  <2>2. QED BY <1>3, <2>1, OutboundOnlyStep
<1>4. CASE Admit(w)
  <2> DEFINE m == ow[w].m
  <2>1. m \in ClientMsgs /\ UNCHANGED <<conv, inbox, plan>> BY <1>4 DEF Admit, TypeOK
  <2>2. CASE outb' = outb BY <2>1, <2>2, OutboundOnlyStep
  <2>3. CASE outb' = [outb EXCEPT ![m].status = "ADMITTED"] /\ OwnsOut(ow[w], "PROCESSING")
    <3>1. [outb[m] EXCEPT !.status = "ADMITTED"].status = "ADMITTED"
      BY <1>0, <2>1 DEF OutType
    <3>2. outb[m].status = "PROCESSING" BY <2>3 DEF OwnsOut
    <3>3. QED BY <1>3, <2>1, <2>3, <3>1, <3>2 DEF OutCancellable
  <2>4. QED BY <1>4, <2>2, <2>3 DEF Admit
<1>5. CASE OutFail(w)
  <2> DEFINE m == ow[w].m
  <2>1. m \in ClientMsgs /\ UNCHANGED <<conv, inbox, plan>> BY <1>5 DEF OutFail, TypeOK
  <2>2. CASE ~OwnsOut(ow[w], "PROCESSING")
    BY <1>5, <2>1, <2>2, OutboundOnlyStep DEF OutFail
  <2>3. CASE OwnsOut(ow[w], "PROCESSING")
    <3>1. outb[m].status = "PROCESSING" BY <2>3 DEF OwnsOut
    <3>2. \E o : outb' = [outb EXCEPT ![m] = o] BY <1>5, <2>3 DEF OutFail
    <3>3. QED BY <1>3, <2>1, <3>1, <3>2 DEF OutCancellable
  <2>4. QED BY <2>2, <2>3
<1>6. CASE FailAdmitted(w)
  <2> DEFINE m == ow[w].m
  <2>1. m \in ClientMsgs /\ UNCHANGED <<conv, inbox, plan>> BY <1>6 DEF FailAdmitted, TypeOK
  <2>2. CASE ~OwnsOut(ow[w], "ADMITTED")
    BY <1>6, <2>1, <2>2, OutboundOnlyStep DEF FailAdmitted
  <2>3. CASE OwnsOut(ow[w], "ADMITTED")
    <3>1. outb[m].status = "ADMITTED" BY <2>3 DEF OwnsOut
    <3>2. PICK s \in {"DEAD", "ADMITTED"} : \E nb :
            outb' = [outb EXCEPT ![m] = [outb[m] EXCEPT !.status = s, !.nb = nb, !.lease = "none"]]
      BY <1>6, <2>3 DEF FailAdmitted
    <3>3. \A nb : [outb[m] EXCEPT !.status = s, !.nb = nb, !.lease = "none"].status = s
      BY <1>0, <2>1 DEF OutType
    <3>4. QED BY <1>3, <2>1, <3>1, <3>2, <3>3 DEF OutCancellable
  <2>4. QED BY <2>2, <2>3
<1>7. CASE Deliver(w)
  <2> DEFINE m == ow[w].m
  <2>1. m \in ClientMsgs /\ UNCHANGED <<conv, inbox, plan>> BY <1>7 DEF Deliver, TypeOK
  <2>2. CASE outb' = outb BY <2>1, <2>2, OutboundOnlyStep
  <2>3. CASE /\ outb' = [outb EXCEPT ![m] = [@ EXCEPT !.status = "DELIVERED", !.lease = "none"]]
             /\ OwnsOut(ow[w], "ADMITTED")
    <3>1. [outb[m] EXCEPT !.status = "DELIVERED", !.lease = "none"].status = "DELIVERED"
      BY <1>0, <2>1 DEF OutType
    <3>2. outb[m].status = "ADMITTED" BY <2>3 DEF OwnsOut
    <3>3. QED BY <1>3, <2>1, <2>3, <3>1, <3>2 DEF OutCancellable
  <2>4. QED BY <1>7, <2>2, <2>3 DEF Deliver
<1>8. QED BY <1>1, <1>2, <1>4, <1>5, <1>6, <1>7 DEF OutTask

\* Every step preserves the fencing invariant.
LEMMA FencingStep == TypeOK /\ FencingInv /\ [Next]_vars => FencingInv'
<1> SUFFICES ASSUME TypeOK, FencingInv, [Next]_vars PROVE FencingInv'
  OBVIOUS
<1>1. ASSUME UNCHANGED <<conv, inbox, plan, outb>> PROVE FencingInv'
  BY <1>1, OutboundOnlyStep
<1>2. ASSUME NEW m \in ClientMsgs, RepairProjection(m) PROVE FencingInv'
  BY <1>1, <1>2 DEF RepairProjection
<1>3. CASE DeadlinePasses
  BY <1>1, <1>3 DEF DeadlinePasses
<1>4. ASSUME NEW m \in ClientMsgs, PlanDelayPasses(m) PROVE FencingInv'
  <2>1. plan' = [plan EXCEPT ![m].nb = PAST] /\ plan[m].nb = FUTURE
        /\ UNCHANGED <<conv, inbox, outb>>
    BY <1>4 DEF PlanDelayPasses
  <2>2. \A n \in ClientMsgs :
           /\ plan'[n].ctx = plan[n].ctx /\ plan'[n].epoch = plan[n].epoch
           /\ plan'[n].seq = plan[n].seq /\ plan'[n].deferred = plan[n].deferred
           /\ plan'[n].status = plan[n].status /\ (n # m => plan'[n].nb = plan[n].nb)
    BY <2>1 DEF TypeOK, PlanType
  <2>3. conv.hs = "HUMAN_PAUSE" => plan[conv.active].status \in {"PENDING", "READY"}
                                   /\ plan[conv.active].nb = conv.deadline
    BY DEF FencingInv, PauseOwesReply, DeferredPlanIsCurrent
  <2>4. conv.deadline # FUTURE BY DEF TypeOK, ConvType, FUTURE, INFINITY
  <2>5. QED BY <2>1, <2>2, <2>3, <2>4, PlanOnlyStep
<1>5. ASSUME NEW m \in ClientMsgs, OutDelayPasses(m) PROVE FencingInv'
  <2>1. \A n \in ClientMsgs : outb'[n].status = outb[n].status
    BY <1>5 DEF OutDelayPasses, TypeOK, OutType
  <2>2. QED BY <1>5, <2>1, OutboundOnlyStep DEF OutDelayPasses
<1>6. ASSUME NEW m \in ClientMsgs, PlanLeaseExpires(m) PROVE FencingInv'
  <2>1. plan' = [plan EXCEPT ![m].lease = "expired"] /\ UNCHANGED <<conv, inbox, outb>>
    BY <1>6 DEF PlanLeaseExpires
  <2>2. \A n \in ClientMsgs :
           /\ plan'[n].ctx = plan[n].ctx /\ plan'[n].epoch = plan[n].epoch
           /\ plan'[n].seq = plan[n].seq /\ plan'[n].deferred = plan[n].deferred
           /\ plan'[n].status = plan[n].status /\ plan'[n].nb = plan[n].nb
    BY <2>1 DEF TypeOK, PlanType
  <2>3. conv.hs = "HUMAN_PAUSE" => plan[conv.active].status \in {"PENDING", "READY"}
    BY DEF FencingInv, PauseOwesReply, DeferredPlanIsCurrent
  <2>4. QED BY <2>1, <2>2, <2>3, PlanOnlyStep
<1>7. ASSUME NEW m \in ClientMsgs, OutLeaseExpires(m) PROVE FencingInv'
  <2>1. \A n \in ClientMsgs : outb'[n].status = outb[n].status
    BY <1>7 DEF OutLeaseExpires, TypeOK, OutType
  <2>2. QED BY <1>7, <2>1, OutboundOnlyStep DEF OutLeaseExpires
<1>8. ASSUME NEW w \in Workers, DropPlanTask(w) \/ DropOutTask(w) PROVE FencingInv'
  BY <1>1, <1>8 DEF DropPlanTask, DropOutTask
<1>9. CASE UNCHANGED vars
  BY <1>1, <1>9 DEF vars
<1>10. QED
  BY <1>2, <1>3, <1>4, <1>5, <1>6, <1>7, <1>8, <1>9, AcceptFencing, ManagerFencing,
     ExpiryFencing, PlanWorkerFencing, OutWorkerFencing DEF Next

\* The handoff columns stay consistent, the open plan and every row that can
\* still be admitted are current, and a running pause owes exactly one reply.
THEOREM FencingCorrect == Spec => []RepliesAreCurrent
<1>1. TypeOK /\ FencingInv /\ [Next]_vars => FencingInv' BY FencingStep
<1>2. FencingInv => RepliesAreCurrent BY DEF FencingInv, RepliesAreCurrent
<1>3. QED BY <1>1, <1>2, TypeCorrect, FencingInit, PTL DEF Spec

-----------------------------------------------------------------------------
(* Row moves: what one step may do to one plan and one outbound row *)

\* A plan is created, closed, readied, claimed, failed or dispatched, or keeps
\* its status; its fencing columns never change, the attempts grow only by a
\* claim, the lease comes and goes with PROCESSING.
PlanMove(p, q) ==
    \/ q = p
    \/ /\ p.status = "NONE" /\ q.status = "PENDING" /\ q.lease = "none"
       /\ q.att = 0 /\ q.res = "none"
    \/ /\ q.ctx = p.ctx /\ q.epoch = p.epoch /\ q.seq = p.seq
       /\ \/ /\ p.status \notin PlanTerminal \cup {"NONE"}
             /\ q.status \in {"CANCELLED", "SUPERSEDED"} /\ q.lease = "none"
             /\ q.att = p.att /\ q.res = p.res
          \/ /\ p.status = "PENDING" /\ q.status = "READY" /\ q.lease = p.lease
             /\ q.att = p.att /\ q.res = p.res
          \/ /\ p.status \in {"PENDING", "READY", "FAILED", "PROCESSING"}
             /\ p.att < MaxAttempts /\ q.status = "PROCESSING" /\ q.lease = "live"
             /\ q.att = p.att + 1 /\ q.res = p.res
          \/ /\ p.status = "PROCESSING" /\ q.status \in {"DEAD", "FAILED"}
             /\ q.lease = "none" /\ q.att = p.att /\ q.res = p.res
          \/ /\ p.status = "PROCESSING" /\ q.status = "DISPATCHED" /\ q.lease = "none"
             /\ q.att = p.att
          \/ /\ q.status = p.status /\ (q.lease = "none" <=> p.lease = "none")
             /\ q.att = p.att /\ (p.status # "PROCESSING" => q.res = p.res)

\* An outbound row is created, cancelled, claimed, failed, admitted or
\* delivered, or keeps its status; its body never changes.
OutMove(o, q) ==
    \/ q = o
    \/ o.status = "NONE" /\ q.status = "PENDING" /\ q.lease = "none" /\ q.att = 0
    \/ /\ q.body = o.body
       /\ \/ o.status \in OutCancellable /\ q.status = "CANCELLED" /\ q.lease = "none"
          \/ /\ o.status \in OutCancellable /\ o.att < MaxAttempts
             /\ q.status = "PROCESSING" /\ q.lease = "live" /\ q.att = o.att + 1
          \/ /\ o.status = "PROCESSING" /\ q.status \in {"DEAD", "FAILED"}
             /\ q.lease = "none" /\ q.att = o.att
          \/ o.status = "PROCESSING" /\ q.status = "ADMITTED"
          \/ o.status = "ADMITTED" /\ q.status = "ADMITTED"
          \/ o.status = "ADMITTED" /\ q.status \in {"DELIVERED", "DEAD"} /\ q.lease = "none"
          \/ /\ q.status = o.status /\ q.att = o.att
             /\ q.lease = "none" <=> o.lease = "none"

\* Closing plans and cancelling outbound rows are row moves.
LEMMA ClosedMoves ==
    ASSUME TypeOK, NEW s \in {"CANCELLED", "SUPERSEDED"}, NEW m \in ClientMsgs
    PROVE  PlanMove(plan[m], CloseOpenPlans(s)[m])
<1>1. plan[m] \in PlanType BY DEF TypeOK
<1>2. CASE m \in OpenPlans
  <2>1. CloseOpenPlans(s)[m] = [plan[m] EXCEPT !.status = s, !.lease = "none"]
    BY <1>2 DEF CloseOpenPlans
  <2>2. QED BY <1>1, <1>2, <2>1 DEF PlanMove, OpenPlans, PlanType
<1>3. CASE m \notin OpenPlans
  BY <1>3 DEF CloseOpenPlans, PlanMove
<1>4. QED BY <1>2, <1>3

LEMMA CancelledMoves ==
    ASSUME TypeOK, NEW m \in ClientMsgs
    PROVE  OutMove(outb[m], CancelUnadmitted[m])
<1>1. outb[m] \in OutType BY DEF TypeOK
<1>2. QED BY <1>1 DEF CancelUnadmitted, OutMove, OutCancellable, OutType

\* The steps that change a plan.
LEMMA PlanChangers ==
    ASSUME [Next]_vars, plan' # plan
    PROVE  \/ \E n \in ClientMsgs : AcceptInbound(n) \/ PlanDelayPasses(n) \/ PlanLeaseExpires(n)
           \/ \E g \in ManagerMsgs : ManagerMessage(g)
           \/ ManagerTakeover \/ ExpireActiveHandoff
           \/ \E w \in Workers : PlanClaim(w) \/ BookingPhase1(w) \/ BookingPhase2(w) \/ PlanFail(w)
  BY DEF Next, vars, ExpirePausedHandoff, PlanTask, PlanStale, PlanRaises, BookingRemote,
              DropPlanTask, OutClaim, OutTask, DropOutTask, Admit, AdmitRaises, OutFail,
              PrepareReclaimed, SinkAccepts, SinkRefuses, FailAdmitted, Deliver,
              EnqueueProjection, RepairProjection, DeadlinePasses, OutDelayPasses, OutLeaseExpires

\* Every step moves every plan along PlanMove.
LEMMA PlanMoves ==
    ASSUME TypeOK, FencingInv, [Next]_vars, NEW m \in ClientMsgs
    PROVE  PlanMove(plan[m], plan'[m])
<1> USE MessagesAssumption, BoundsAssumption
<1>0. plan[m] \in PlanType /\ \A n \in ClientMsgs : plan[n] \in PlanType BY DEF TypeOK
<1>1. ASSUME plan' = plan PROVE PlanMove(plan[m], plan'[m])
  BY <1>1 DEF PlanMove
<1>2. ASSUME NEW n \in ClientMsgs, AcceptInbound(n) PROVE PlanMove(plan[m], plan'[m])
  <2>1. CASE IsDuplicate(n)
    BY <1>1, <1>2, <2>1 DEF AcceptInbound
  <2>2. CASE ~IsDuplicate(n)
    <3>1. AcceptNew(n) /\ plan[n].status = "NONE"
      BY <1>2, <2>2 DEF AcceptInbound, IsDuplicate, FencingInv, RowsFollow
    <3>2. CloseOpenPlans("SUPERSEDED") \in [ClientMsgs -> PlanType]
      BY CloseOpenPlansType DEF TypeOK, PlanStatuses
    <3>3. \A c, nb, d : LET q == NewPlan(c, nb, d) IN
            q.status = "PENDING" /\ q.lease = "none" /\ q.att = 0 /\ q.res = "none"
      BY DEF NewPlan, NoPlan
    <3>4. plan' = CloseOpenPlans("SUPERSEDED")
          \/ \E c, nb, d : plan' = [CloseOpenPlans("SUPERSEDED") EXCEPT ![n] = NewPlan(c, nb, d)]
      BY <3>1 DEF AcceptNew
    <3>5. CASE m = n /\ plan' # CloseOpenPlans("SUPERSEDED")
      BY <3>1, <3>2, <3>3, <3>4, <3>5 DEF PlanMove
    <3>6. CASE m # n \/ plan' = CloseOpenPlans("SUPERSEDED")
      <4>1. plan'[m] = CloseOpenPlans("SUPERSEDED")[m] BY <3>2, <3>4, <3>6
      <4>2. QED BY <4>1, ClosedMoves
    <3>7. QED BY <3>5, <3>6
  <2>3. QED BY <2>1, <2>2
<1>3. ASSUME NEW g \in ManagerMsgs, ManagerMessage(g) PROVE PlanMove(plan[m], plan'[m])
  <2>1. plan' = plan \/ plan' = CloseOpenPlans("CANCELLED") BY <1>3 DEF ManagerMessage
  <2>2. QED BY <1>1, <2>1, ClosedMoves
<1>4. CASE ManagerTakeover \/ ExpireActiveHandoff
  <2>1. plan' = CloseOpenPlans("CANCELLED") BY <1>4 DEF ManagerTakeover, ExpireActiveHandoff
  <2>2. QED BY <2>1, ClosedMoves
<1>5. ASSUME NEW w \in Workers, PlanClaim(w) PROVE PlanMove(plan[m], plan'[m])
  <2>1. PICK r \in ClientMsgs \cup {NoMsg}, c \in ClientMsgs \cup {NoMsg} :
          /\ r # NoMsg => r \in ExhaustedPlans
          /\ c # NoMsg => Claimable(c)
          /\ ClaimPlan(w, r, c)
    BY <1>5, PlanClaimPicks
  <2>2. CASE m = r
    <3>1. plan'[m] = [plan[m] EXCEPT !.status = "DEAD", !.lease = "none"]
      BY <2>1, <2>2 DEF ClaimPlan
    <3>2. plan[m].status = "PROCESSING" BY <2>1, <2>2 DEF ExhaustedPlans
    <3>3. QED BY <1>0, <3>1, <3>2 DEF PlanMove, PlanType
  <2>3. CASE m # r /\ m = c
    <3>1. plan'[m] = [plan[m] EXCEPT !.status = "PROCESSING", !.lease = "live",
                         !.ver = plan[m].ver + 1, !.att = plan[m].att + 1]
      BY <2>1, <2>3 DEF ClaimPlan
    <3>2. plan[m].status \in {"PENDING", "READY", "FAILED", "PROCESSING"}
          /\ plan[m].att < MaxAttempts
      BY <2>1, <2>3 DEF Claimable, Readied
    <3>3. QED BY <1>0, <3>1, <3>2 DEF PlanMove, PlanType
  <2>4. CASE m # r /\ m # c
    <3>1. plan'[m] = [plan[m] EXCEPT !.status = Readied(m)]
      BY <2>1, <2>4 DEF ClaimPlan
    <3>2. QED BY <1>0, <3>1 DEF PlanMove, PlanType, Readied
  <2>5. QED BY <2>2, <2>3, <2>4
<1>6. ASSUME NEW w \in Workers, BookingPhase1(w) \/ BookingPhase2(w)
      PROVE  PlanMove(plan[m], plan'[m])
  <2> DEFINE c == pw[w]
  <2>1. c.m \in ClientMsgs /\ plan[c.m].status = "PROCESSING"
    BY <1>6 DEF BookingPhase1, BookingPhase2, TypeOK, PlanValid, OwnsPlan
  <2>2. \/ plan' = plan \/ plan' = [plan EXCEPT ![c.m] = Dispatched(plan[c.m])]
        \/ plan' = [plan EXCEPT ![c.m] = MarkStarted(plan[c.m])]
        \/ \E x : plan' = [plan EXCEPT ![c.m] = [Dispatched(plan[c.m]) EXCEPT !.res = x]]
    BY <1>6 DEF BookingPhase1, BookingPhase2
  <2>4. CASE m # c.m
    <3>1. plan'[m] = plan[m] BY <2>2, <2>4 DEF TypeOK
    <3>2. QED BY <3>1 DEF PlanMove
  <2>5. CASE m = c.m
    <3>1. \/ plan' = plan \/ plan'[m] = Dispatched(plan[m])
          \/ plan'[m] = MarkStarted(plan[m])
          \/ \E x : plan'[m] = [Dispatched(plan[m]) EXCEPT !.res = x]
      BY <2>2, <2>5 DEF TypeOK
    <3>2. QED BY <1>0, <2>1, <2>5, <3>1 DEF PlanMove, Dispatched, MarkStarted, PlanType
  <2>6. QED BY <2>4, <2>5
<1>7. ASSUME NEW w \in Workers, PlanFail(w) PROVE PlanMove(plan[m], plan'[m])
  <2> DEFINE c == pw[w]
  <2>1. CASE ~OwnsPlan(c) BY <1>1, <1>7, <2>1 DEF PlanFail
  <2>2. CASE OwnsPlan(c)
    <3>1. c.m \in ClientMsgs /\ plan[c.m].status = "PROCESSING"
      BY <1>7, <2>2 DEF PlanFail, TypeOK, OwnsPlan
    <3>2. PICK s \in {"DEAD", "FAILED"} : \E nb :
            plan' = [plan EXCEPT ![c.m] = [plan[c.m] EXCEPT !.status = s, !.nb = nb, !.lease = "none"]]
      BY <1>7, <2>2 DEF PlanFail
    <3>4. CASE m # c.m
      <4>1. plan'[m] = plan[m] BY <3>2, <3>4 DEF TypeOK
      <4>2. QED BY <4>1 DEF PlanMove
    <3>5. CASE m = c.m
      <4>1. \E nb : plan'[m] = [plan[m] EXCEPT !.status = s, !.nb = nb, !.lease = "none"]
        BY <3>2, <3>5 DEF TypeOK
      <4>2. QED BY <1>0, <3>1, <3>5, <4>1 DEF PlanMove, PlanType
    <3>6. QED BY <3>4, <3>5
  <2>3. QED BY <2>1, <2>2
<1>8. ASSUME NEW n \in ClientMsgs, PlanDelayPasses(n) \/ PlanLeaseExpires(n)
      PROVE  PlanMove(plan[m], plan'[m])
  <2>1. \/ plan' = [plan EXCEPT ![n].nb = PAST]
        \/ plan' = [plan EXCEPT ![n].lease = "expired"] /\ plan[n].lease = "live"
    BY <1>8 DEF PlanDelayPasses, PlanLeaseExpires
  <2>2. QED BY <1>0, <2>1 DEF TypeOK, PlanMove, PlanType
<1>9. QED
  BY <1>1, <1>2, <1>3, <1>4, <1>5, <1>6, <1>7, <1>8, PlanChangers

\* The steps that change an outbound row.
LEMMA OutChangers ==
    ASSUME [Next]_vars
    PROVE  \/ outb' = outb \/ outb' = CancelUnadmitted
           \/ \E w \in Workers : \/ BookingPhase2(w) \/ OutClaim(w) \/ Admit(w) \/ OutFail(w)
                                 \/ FailAdmitted(w) \/ Deliver(w)
           \/ \E n \in ClientMsgs : OutDelayPasses(n) \/ OutLeaseExpires(n)
  BY DEF Next, vars, AcceptInbound, AcceptNew, ManagerMessage, ManagerTakeover,
         ExpireActiveHandoff, ExpirePausedHandoff, PlanClaim, PlanTask, PlanStale, PlanRaises,
         BookingPhase1, BookingRemote, PlanFail, DropPlanTask, OutTask, DropOutTask,
         AdmitRaises, PrepareReclaimed, SinkAccepts, SinkRefuses, EnqueueProjection,
         RepairProjection, DeadlinePasses, PlanDelayPasses, PlanLeaseExpires

\* Every step moves every outbound row along OutMove.
LEMMA OutMoves ==
    ASSUME TypeOK, [Next]_vars, NEW m \in ClientMsgs
    PROVE  OutMove(outb[m], outb'[m])
<1> USE MessagesAssumption, BoundsAssumption
<1>0. outb[m] \in OutType /\ \A n \in ClientMsgs : outb[n] \in OutType BY DEF TypeOK
<1>1. ASSUME outb' = outb PROVE OutMove(outb[m], outb'[m])
  BY <1>1 DEF OutMove
<1>2. ASSUME NEW n \in ClientMsgs, NEW o, outb' = [outb EXCEPT ![n] = o],
             m = n => OutMove(outb[m], o)
      PROVE  OutMove(outb[m], outb'[m])
  <2>1. CASE m = n
    <3>1. outb'[m] = o BY <1>2, <2>1 DEF TypeOK
    <3>2. QED BY <1>2, <2>1, <3>1
  <2>2. CASE m # n
    <3>1. outb'[m] = outb[m] BY <1>2, <2>2 DEF TypeOK
    <3>2. QED BY <3>1 DEF OutMove
  <2>3. QED BY <2>1, <2>2
<1>3. CASE outb' = CancelUnadmitted BY <1>3, CancelledMoves
<1>4. ASSUME NEW w \in Workers, BookingPhase2(w) PROVE OutMove(outb[m], outb'[m])
  <2>1. pw[w].m \in ClientMsgs BY <1>4 DEF BookingPhase2, TypeOK
  <2>2. CASE outb[pw[w].m].status = "NONE"
    <3>1. PICK b : outb' = [outb EXCEPT ![pw[w].m] = [NoOut EXCEPT !.status = "PENDING", !.body = b]]
      BY <1>4, <2>2 DEF BookingPhase2
    <3>2. m = pw[w].m => OutMove(outb[m], [NoOut EXCEPT !.status = "PENDING", !.body = b])
      BY <2>2 DEF OutMove, NoOut
    <3>3. QED BY <1>2, <2>1, <3>1, <3>2
  <2>3. CASE outb[pw[w].m].status # "NONE" BY <1>1, <1>4, <2>3 DEF BookingPhase2
  <2>4. QED BY <2>2, <2>3
<1>5. ASSUME NEW w \in Workers, OutClaim(w) PROVE OutMove(outb[m], outb'[m])
  <2>1. PICK c \in ClientMsgs \cup {NoMsg} :
          (c # NoMsg => OutClaimable(c)) /\ ClaimOut(w, c)
    BY <1>5, OutClaimPicks
  <2>2. CASE ExhaustedOut(m)
    <3>1. outb'[m] = [outb[m] EXCEPT !.status = "DEAD", !.lease = "none"]
          /\ outb[m].status = "PROCESSING"
      BY <2>1, <2>2 DEF ClaimOut, ExhaustedOut
    <3>2. QED BY <1>0, <3>1 DEF OutMove, OutType
  <2>3. CASE ~ExhaustedOut(m) /\ m = c
    <3>1. outb'[m] = [outb[m] EXCEPT
             !.status = IF outb[m].status = "ADMITTED" THEN "ADMITTED" ELSE "PROCESSING",
             !.lease = "live", !.ver = outb[m].ver + 1, !.att = outb[m].att + 1]
      BY <2>1, <2>3 DEF ClaimOut
    <3>2. \/ outb[m].status = "ADMITTED"
          \/ outb[m].status \in OutCancellable /\ outb[m].att < MaxAttempts
      BY <2>1, <2>3 DEF OutClaimable, OutCancellable
    <3>3. QED BY <1>0, <3>1, <3>2 DEF OutMove, OutType, OutCancellable
  <2>4. CASE ~ExhaustedOut(m) /\ m # c
    <3>1. outb'[m] = outb[m] BY <2>1, <2>4 DEF ClaimOut
    <3>2. QED BY <3>1 DEF OutMove
  <2>5. QED BY <2>2, <2>3, <2>4
<1>6. ASSUME NEW w \in Workers, Admit(w) PROVE OutMove(outb[m], outb'[m])
  <2>1. ow[w].m \in ClientMsgs BY <1>6 DEF Admit, TypeOK
  <2>2. outb' = outb \/ /\ OwnsOut(ow[w], "PROCESSING")
                        /\ outb' = [outb EXCEPT ![ow[w].m].status = "ADMITTED"]
    BY <1>6 DEF Admit
  <2>3. m = ow[w].m /\ OwnsOut(ow[w], "PROCESSING")
          => OutMove(outb[m], [outb[m] EXCEPT !.status = "ADMITTED"])
    BY <1>0 DEF OwnsOut, OutMove, OutType
  <2>4. QED BY <1>1, <1>2, <2>1, <2>2, <2>3
<1>7. ASSUME NEW w \in Workers, OutFail(w) \/ FailAdmitted(w)
      PROVE  OutMove(outb[m], outb'[m])
  <2> DEFINE row(s, nb) == [outb[ow[w].m] EXCEPT !.status = s, !.nb = nb, !.lease = "none"]
  <2>1. ow[w].m \in ClientMsgs BY <1>7 DEF OutFail, FailAdmitted, TypeOK
  <2>2. \/ outb' = outb
        \/ /\ outb[ow[w].m].status = "PROCESSING"
           /\ \E s \in {"DEAD", "FAILED"} : \E nb : outb' = [outb EXCEPT ![ow[w].m] = row(s, nb)]
        \/ /\ outb[ow[w].m].status = "ADMITTED"
           /\ \E s \in {"DEAD", "ADMITTED"} : \E nb : outb' = [outb EXCEPT ![ow[w].m] = row(s, nb)]
    BY <1>7 DEF OutFail, FailAdmitted, OwnsOut
  <2>3. ASSUME m = ow[w].m, NEW s, NEW nb,
               \/ outb[m].status = "PROCESSING" /\ s \in {"DEAD", "FAILED"}
               \/ outb[m].status = "ADMITTED" /\ s \in {"DEAD", "ADMITTED"}
        PROVE  OutMove(outb[m], row(s, nb))
    BY <1>0, <2>3 DEF OutMove, OutType
  <2> HIDE DEF row
  <2>4. QED BY <1>1, <1>2, <2>1, <2>2, <2>3
<1>8. ASSUME NEW w \in Workers, Deliver(w) PROVE OutMove(outb[m], outb'[m])
  <2>1. ow[w].m \in ClientMsgs BY <1>8 DEF Deliver, TypeOK
  <2>2. outb' = outb
        \/ /\ OwnsOut(ow[w], "ADMITTED")
           /\ outb' = [outb EXCEPT ![ow[w].m] = [outb[ow[w].m] EXCEPT !.status = "DELIVERED",
                                                                     !.lease = "none"]]
    BY <1>8 DEF Deliver
  <2>3. m = ow[w].m /\ OwnsOut(ow[w], "ADMITTED")
          => OutMove(outb[m], [outb[m] EXCEPT !.status = "DELIVERED", !.lease = "none"])
    BY <1>0 DEF OwnsOut, OutMove, OutType
  <2>4. QED BY <1>1, <1>2, <2>1, <2>2, <2>3
<1>9. ASSUME NEW n \in ClientMsgs, OutDelayPasses(n) \/ OutLeaseExpires(n)
      PROVE  OutMove(outb[m], outb'[m])
  <2>1. \/ outb' = [outb EXCEPT ![n].nb = PAST]
        \/ outb' = [outb EXCEPT ![n].lease = "expired"] /\ outb[n].lease = "live"
    BY <1>9 DEF OutDelayPasses, OutLeaseExpires
  <2>2. QED BY <1>0, <2>1 DEF TypeOK, OutMove, OutType
<1>10. QED
  BY <1>1, <1>3, <1>4, <1>5, <1>6, <1>7, <1>8, <1>9, OutChangers

-----------------------------------------------------------------------------
(* Transitions: terminal states are final, a pause never slides *)

\* The deadline of a running pause survives every step that keeps the pause.
LEMMA PauseKeepsDeadline ==
    ASSUME TypeOK, FencingInv, [Next]_vars,
           conv.hs = "HUMAN_PAUSE", conv'.hs = "HUMAN_PAUSE"
    PROVE  conv'.deadline = conv.deadline
<1>1. ASSUME NEW m \in ClientMsgs, AcceptInbound(m) PROVE conv'.deadline = conv.deadline
  <2>1. CASE IsDuplicate(m) BY <1>1, <2>1 DEF AcceptInbound
  <2>2. CASE ~IsDuplicate(m)
    <3>1. AcceptNew(m) /\ ~AllowsAutomaticReply
          /\ conv.status = "HANDOFF" /\ conv.hs \in {"HUMAN_ACTIVE", "HUMAN_PAUSE"}
      BY <1>1, <2>2 DEF AcceptInbound, FencingInv, HandoffConsistent, AllowsAutomaticReply
    <3>2. conv' = [EnterOrContinuePause(Bumped(conv)) EXCEPT !.active = m]
      BY <3>1 DEF AcceptNew
    <3>3. /\ Bumped(conv) \in ConvType /\ Bumped(conv).hs = "HUMAN_PAUSE"
          /\ Bumped(conv).deadline = conv.deadline
      <4>1. Bumped(conv) \in ConvType BY BumpedType DEF TypeOK
      <4>2. QED BY <4>1 DEF Bumped, TypeOK, ConvType
    <3>4. EnterOrContinuePause(Bumped(conv)) = Bumped(conv)
      BY <3>3 DEF EnterOrContinuePause
    <3>5. QED BY <3>2, <3>3, <3>4 DEF ConvType
  <2>3. QED BY <2>1, <2>2
<1>2. ASSUME NEW g \in ManagerMsgs, ManagerMessage(g) PROVE conv'.deadline = conv.deadline
  <2> DEFINE numbered == [conv EXCEPT !.seq = conv.seq + 1]
  <2>1. CASE conv' = conv BY <2>1
  <2>2. CASE conv' = ManagerApplied(numbered, ProviderSeq[g])
    <3>1. conv'.hs = "HUMAN_ACTIVE" BY <2>2 DEF ManagerApplied, TypeOK, ConvType
    <3>2. QED BY <3>1
  <2>3. QED BY <1>2, <2>1, <2>2 DEF ManagerMessage
<1>3. ASSUME ManagerTakeover PROVE conv'.deadline = conv.deadline
  <2>1. CASE conv' = conv BY <2>1
  <2>2. CASE conv' # conv
    <3>1. \E e : conv' = [conv EXCEPT !.ownership = "MANAGER", !.status = "HANDOFF",
                     !.hs = "HUMAN_ACTIVE", !.epoch = e, !.takeover = TRUE,
                     !.deadline = INFINITY, !.anchor = FALSE, !.active = NoMsg]
      BY <1>3, <2>2 DEF ManagerTakeover
    <3>2. conv'.hs = "HUMAN_ACTIVE" BY <3>1 DEF TypeOK, ConvType
    <3>3. QED BY <3>2
  <2>3. QED BY <2>1, <2>2
<1>4. ASSUME ExpireActiveHandoff \/ ExpirePausedHandoff PROVE conv'.deadline = conv.deadline
  <2>1. \/ \E a : ReturnToBot(a)
        \/ conv' = [conv EXCEPT !.quarantined = TRUE]
    BY <1>4 DEF ExpireActiveHandoff, ExpirePausedHandoff
  <2>2. \A a : ~ReturnToBot(a) BY DEF ReturnToBot, TypeOK, ConvType
  <2>3. QED BY <2>1, <2>2 DEF TypeOK, ConvType
<1>5. \/ conv' = conv
      \/ \E m \in ClientMsgs : AcceptInbound(m)
      \/ \E g \in ManagerMsgs : ManagerMessage(g)
      \/ ManagerTakeover \/ ExpireActiveHandoff \/ ExpirePausedHandoff
  BY DEF Next, vars, PlanClaim, PlanTask, PlanStale, PlanRaises, BookingPhase1, BookingRemote,
         BookingPhase2, PlanFail, DropPlanTask, OutClaim, OutTask, DropOutTask, Admit,
         AdmitRaises, OutFail, PrepareReclaimed, SinkAccepts, SinkRefuses, FailAdmitted,
         Deliver, EnqueueProjection, RepairProjection, DeadlinePasses, PlanDelayPasses,
         OutDelayPasses, PlanLeaseExpires, OutLeaseExpires
<1>6. QED BY <1>1, <1>2, <1>3, <1>4, <1>5

\* Plans and outbound rows move along REPLY_PLAN_TRANSITIONS and
\* OUTBOUND_TRANSITIONS only, and the deadline of a running pause stays where
\* the first message of the client put it.
THEOREM NeverBackwardsCorrect == Spec => NeverBackwards
<1> DEFINE Legal == \A m \in ClientMsgs :
              /\ plan[m].status = plan'[m].status
                 \/ <<plan[m].status, plan'[m].status>> \in PlanTransitions
              /\ outb[m].status = outb'[m].status
                 \/ <<outb[m].status, outb'[m].status>> \in OutTransitions
           Kept == conv.hs = "HUMAN_PAUSE" /\ conv'.hs = "HUMAN_PAUSE"
                      => conv'.deadline = conv.deadline
<1>1. ASSUME TypeOK, FencingInv, [Next]_vars PROVE Legal
  <2> SUFFICES ASSUME NEW m \in ClientMsgs
               PROVE  /\ plan[m].status = plan'[m].status
                         \/ <<plan[m].status, plan'[m].status>> \in PlanTransitions
                      /\ outb[m].status = outb'[m].status
                         \/ <<outb[m].status, outb'[m].status>> \in OutTransitions
    OBVIOUS
  <2>1. plan[m].status \in PlanStatuses BY <1>1 DEF TypeOK, PlanType
  <2>2. PlanMove(plan[m], plan'[m]) BY <1>1, PlanMoves
  <2>3. plan[m].status = plan'[m].status
        \/ <<plan[m].status, plan'[m].status>> \in PlanTransitions
    BY <2>1, <2>2 DEF PlanMove, PlanTransitions, PlanStatuses, PlanTerminal
  <2>4. OutMove(outb[m], outb'[m]) BY <1>1, OutMoves
  <2>5. outb[m].status = outb'[m].status
        \/ <<outb[m].status, outb'[m].status>> \in OutTransitions
    BY <2>4 DEF OutMove, OutTransitions, OutCancellable
  <2>6. QED BY <2>3, <2>5
<1>2. ASSUME TypeOK, FencingInv, [Next]_vars PROVE Kept
  BY <1>2, PauseKeepsDeadline
<1>3. TypeOK /\ FencingInv /\ [Next]_vars => [Legal]_vars /\ [Kept]_vars BY <1>1, <1>2
<1>4. TypeOK /\ FencingInv /\ [Next]_vars => FencingInv' BY FencingStep
<1>5. QED
  BY <1>3, <1>4, TypeCorrect, FencingInit, PTL
     DEF Spec, NeverBackwards, LegalTransitions, PauseNeverSlides

-----------------------------------------------------------------------------
(* The sink: a worker acts under its lease, the sink gets only what was admitted *)

AdmittedRows == {"ADMITTED", "DELIVERED", "DEAD"}

\* What an outbound task remembers of the row it works on: the row was
\* admitted, the sink has accepted it, it was delivered.
SinkTasks ==
    \A w \in Workers :
        /\ ow[w].ph \in {"admitted", "sent", "transient", "permanent"}
              => outb[ow[w].m].status \in AdmittedRows
        /\ ow[w].ph = "sent" => ow[w].m \in sunk
        /\ ow[w].ph = "delivered" => outb[ow[w].m].status = "DELIVERED"

SinkInv == LeaseDiscipline /\ SinkFollowsAdmission /\ SinkTasks

\* The outbound task of a worker changes only by its own steps.
LEMMA OutTaskSteps ==
    ASSUME TypeOK, [Next]_vars, NEW w \in Workers
    PROVE  ow'[w] = ow[w] \/ OutClaim(w) \/ OutTask(w) \/ DropOutTask(w)
<1>1. \/ ow' = ow
      \/ \E v \in Workers : OutClaim(v) \/ OutTask(v) \/ DropOutTask(v)
  BY DEF Next, vars, AcceptInbound, ManagerMessage, ManagerTakeover,
         ExpireActiveHandoff, ExpirePausedHandoff, PlanClaim, PlanTask, PlanStale, PlanRaises,
         BookingPhase1, BookingRemote, BookingPhase2, PlanFail, DropPlanTask,
         RepairProjection, DeadlinePasses, PlanDelayPasses, PlanLeaseExpires,
         OutDelayPasses, OutLeaseExpires
<1>2. ASSUME NEW v \in Workers, OutClaim(v) \/ OutTask(v) \/ DropOutTask(v)
      PROVE  \E x : ow' = [ow EXCEPT ![v] = x]
  <2>0. ow = [ow EXCEPT ![v] = ow[v]] BY DEF TypeOK
  <2>1. CASE OutClaim(v)
    <3>1. PICK c \in ClientMsgs \cup {NoMsg} : ClaimOut(v, c) BY <2>1, OutClaimPicks
    <3>2. QED BY <2>0, <3>1 DEF ClaimOut
  <2>2. CASE OutTask(v) \/ DropOutTask(v)
    BY <2>2 DEF OutTask, DropOutTask, Admit, AdmitRaises, OutFail, PrepareReclaimed,
                SinkAccepts, SinkRefuses, FailAdmitted, Deliver, EnqueueProjection
  <2>3. QED BY <1>2, <2>1, <2>2
<1>3. ASSUME NEW v \in Workers, v # w, OutClaim(v) \/ OutTask(v) \/ DropOutTask(v)
      PROVE  ow'[w] = ow[w]
  BY <1>2, <1>3 DEF TypeOK
<1>4. QED BY <1>1, <1>3

\* Only the delivery transaction makes a row DELIVERED.
LEMMA OnlyDeliverDelivers ==
    ASSUME TypeOK, [Next]_vars, NEW m \in ClientMsgs,
           outb[m].status # "DELIVERED", outb'[m].status = "DELIVERED"
    PROVE  \E w \in Workers : Deliver(w) /\ ow[w].m = m /\ OwnsOut(ow[w], "ADMITTED")
                              /\ OfferBinds(m)
<1> USE MessagesAssumption
<1>0. \A n \in ClientMsgs : outb[n] \in OutType BY DEF TypeOK
<1>1. CASE outb' = outb BY <1>1
<1>2. CASE outb' = CancelUnadmitted BY <1>0, <1>2 DEF CancelUnadmitted, OutType
<1>3. ASSUME NEW w \in Workers, BookingPhase2(w) PROVE FALSE
  <2>1. \/ outb' = outb
        \/ \E b : outb' = [outb EXCEPT ![pw[w].m] = [NoOut EXCEPT !.status = "PENDING", !.body = b]]
    BY <1>3 DEF BookingPhase2
  <2>2. \A b : [NoOut EXCEPT !.status = "PENDING", !.body = b].status = "PENDING" BY DEF NoOut
  <2>3. outb' = outb \/ \E o : o.status = "PENDING" /\ outb' = [outb EXCEPT ![pw[w].m] = o]
    BY <2>1, <2>2
  <2>4. QED BY <2>3 DEF TypeOK
<1>4. ASSUME NEW w \in Workers, OutClaim(w) PROVE FALSE
  <2>1. PICK c \in ClientMsgs \cup {NoMsg} : ClaimOut(w, c) BY <1>4, OutClaimPicks
  <2>2. QED BY <1>0, <2>1 DEF ClaimOut, OutType
<1>5. ASSUME NEW w \in Workers, Admit(w) PROVE FALSE
  <2>1. outb' = outb \/ outb' = [outb EXCEPT ![ow[w].m].status = "ADMITTED"]
    BY <1>5 DEF Admit
  <2>2. QED BY <1>0, <2>1 DEF OutType, TypeOK
<1>6. ASSUME NEW w \in Workers, OutFail(w) \/ FailAdmitted(w) PROVE FALSE
  <2>1. \/ outb' = outb
        \/ \E s \in {"DEAD", "FAILED", "ADMITTED"} : \E nb : outb' = [outb EXCEPT ![ow[w].m] =
              [outb[ow[w].m] EXCEPT !.status = s, !.nb = nb, !.lease = "none"]]
    BY <1>6 DEF OutFail, FailAdmitted
  <2>2. ow[w].m \in ClientMsgs BY <1>6 DEF OutFail, FailAdmitted, TypeOK
  <2>3. \A s, nb : [outb[ow[w].m] EXCEPT !.status = s, !.nb = nb, !.lease = "none"].status = s
    BY <1>0, <2>2 DEF OutType
  <2>4. outb' = outb \/ \E o : o.status # "DELIVERED" /\ outb' = [outb EXCEPT ![ow[w].m] = o]
    BY <2>1, <2>3
  <2>5. QED BY <2>4 DEF TypeOK
<1>7. ASSUME NEW w \in Workers, Deliver(w)
      PROVE  ow[w].m = m /\ OwnsOut(ow[w], "ADMITTED") /\ OfferBinds(m)
  <2>1. \/ outb' = outb
        \/ /\ OwnsOut(ow[w], "ADMITTED") /\ OfferBinds(ow[w].m)
           /\ outb' = [outb EXCEPT ![ow[w].m] =
                         [outb[ow[w].m] EXCEPT !.status = "DELIVERED", !.lease = "none"]]
    BY <1>7 DEF Deliver
  <2>2. QED BY <2>1 DEF TypeOK
<1>8. ASSUME NEW n \in ClientMsgs, OutDelayPasses(n) \/ OutLeaseExpires(n) PROVE FALSE
  <2>1. outb' = [outb EXCEPT ![n].nb = PAST] \/ outb' = [outb EXCEPT ![n].lease = "expired"]
    BY <1>8 DEF OutDelayPasses, OutLeaseExpires
  <2>2. QED BY <1>0, <2>1 DEF OutType, TypeOK
<1>9. QED BY <1>1, <1>2, <1>3, <1>4, <1>5, <1>6, <1>7, <1>8, OutChangers

\* The sink's history grows only when the sink accepts a row.
LEMMA SunkChangers ==
    ASSUME [Next]_vars
    PROVE  /\ sunk \subseteq sunk'
           /\ \A m \in sunk' \ sunk : \E w \in Workers : SinkAccepts(w) /\ ow[w].m = m
<1>1. sunk' = sunk \/ \E w \in Workers : SinkAccepts(w)
  BY DEF Next, vars, AcceptInbound, ManagerMessage, ManagerTakeover,
         ExpireActiveHandoff, ExpirePausedHandoff, PlanClaim, PlanTask, PlanStale, PlanRaises,
         BookingPhase1, BookingRemote, BookingPhase2, PlanFail, DropPlanTask, OutClaim,
         OutTask, DropOutTask, Admit, AdmitRaises, OutFail, PrepareReclaimed, SinkRefuses,
         FailAdmitted, Deliver, EnqueueProjection, RepairProjection, DeadlinePasses,
         PlanDelayPasses, PlanLeaseExpires, OutDelayPasses, OutLeaseExpires
<1>2. QED BY <1>1 DEF SinkAccepts

\* An admitted row stays admitted, delivered or dead; a delivered one stays delivered.
LEMMA AdmittedStays ==
    ASSUME TypeOK, [Next]_vars, NEW m \in ClientMsgs
    PROVE  /\ outb[m].status \in AdmittedRows => outb'[m].status \in AdmittedRows
           /\ outb[m].status = "DELIVERED" => outb'[m].status = "DELIVERED"
<1>1. OutMove(outb[m], outb'[m]) BY OutMoves
<1>2. QED BY <1>1 DEF OutMove, AdmittedRows, OutCancellable

LEMMA LeaseStep ==
    ASSUME TypeOK, FencingInv, LeaseDiscipline, [Next]_vars PROVE LeaseDiscipline'
<1> SUFFICES ASSUME NEW m \in ClientMsgs
             PROVE  /\ plan'[m].lease # "none" <=> plan'[m].status = "PROCESSING"
                    /\ plan'[m].att <= MaxAttempts
                    /\ outb'[m].status = "PROCESSING" => outb'[m].lease # "none"
                    /\ outb'[m].lease # "none" => outb'[m].status \in {"PROCESSING", "ADMITTED"}
                    /\ outb'[m].status \in OutCancellable => outb'[m].att <= MaxAttempts
  BY DEF LeaseDiscipline
<1> USE BoundsAssumption
<1>1. PlanMove(plan[m], plan'[m]) /\ OutMove(outb[m], outb'[m]) BY PlanMoves, OutMoves
<1>2. /\ plan[m].lease # "none" <=> plan[m].status = "PROCESSING"
      /\ plan[m].att <= MaxAttempts /\ plan[m].att \in Nat
      /\ outb[m].status = "PROCESSING" => outb[m].lease # "none"
      /\ outb[m].lease # "none" => outb[m].status \in {"PROCESSING", "ADMITTED"}
      /\ outb[m].status \in OutCancellable => outb[m].att <= MaxAttempts
      /\ outb[m].att \in Nat
  BY DEF LeaseDiscipline, TypeOK, PlanType, OutType
<1>3. (plan'[m].lease # "none" <=> plan'[m].status = "PROCESSING") /\ plan'[m].att <= MaxAttempts
  BY <1>1, <1>2 DEF PlanMove, PlanTerminal
<1>4. /\ outb'[m].status = "PROCESSING" => outb'[m].lease # "none"
      /\ outb'[m].lease # "none" => outb'[m].status \in {"PROCESSING", "ADMITTED"}
      /\ outb'[m].status \in OutCancellable => outb'[m].att <= MaxAttempts
  BY <1>1, <1>2 DEF OutMove, OutCancellable
<1>5. QED BY <1>3, <1>4

LEMMA SinkTasksStep ==
    ASSUME TypeOK, SinkInv, [Next]_vars PROVE SinkTasks'
<1> USE MessagesAssumption
<1> SUFFICES ASSUME NEW w \in Workers
             PROVE  /\ ow'[w].ph \in {"admitted", "sent", "transient", "permanent"}
                          => outb'[ow'[w].m].status \in AdmittedRows
                    /\ ow'[w].ph = "sent" => ow'[w].m \in sunk'
                    /\ ow'[w].ph = "delivered" => outb'[ow'[w].m].status = "DELIVERED"
  BY DEF SinkTasks
<1> DEFINE c == ow[w]
<1>0. c \in OutClaimType /\ (c.ph # "idle" => c.m \in ClientMsgs) /\ IdleOut.ph = "idle"
      /\ sunk \subseteq sunk'
  <2>1. c \in OutClaimType /\ (c.ph # "idle" => c.m \in ClientMsgs) /\ IdleOut.ph = "idle"
    BY DEF TypeOK, IdleOut
  <2>2. sunk \subseteq sunk'
    BY SunkChangers
  <2>3. QED BY <2>1, <2>2
<1>1. CASE ow'[w] = c
  <2>1. c.ph \in {"admitted", "sent", "transient", "permanent", "delivered"} => c.m \in ClientMsgs
    BY <1>0
  <2>2. QED BY <1>0, <1>1, <2>1, AdmittedStays DEF SinkInv, SinkTasks
<1>2. CASE OutClaim(w)
  <2>1. PICK n \in ClientMsgs \cup {NoMsg} : ClaimOut(w, n) BY <1>2, OutClaimPicks
  <2>2. ow' = ow \/ ow'[w].ph \in {"claimed", "reclaimed"} BY <2>1 DEF ClaimOut, TypeOK
  <2>3. QED BY <1>1, <2>2
<1>3. CASE DropOutTask(w) \/ OutFail(w) \/ FailAdmitted(w) \/ EnqueueProjection(w)
  <2>1. ow'[w] = IdleOut
    BY <1>3 DEF DropOutTask, OutFail, FailAdmitted, EnqueueProjection, TypeOK
  <2>2. QED BY <1>0, <2>1
<1>4. ASSUME NEW p, ow' = [ow EXCEPT ![w].ph = p] PROVE ow'[w].ph = p /\ ow'[w].m = c.m
  BY <1>0, <1>4 DEF TypeOK, OutClaimType
<1>5. CASE Admit(w)
  <2>1. CASE ow' = [ow EXCEPT ![w].ph = "admitted"]
             /\ outb' = [outb EXCEPT ![c.m].status = "ADMITTED"]
    <3>1. c.m \in ClientMsgs BY <1>0, <1>5 DEF Admit
    <3>2. outb[c.m] \in OutType BY <3>1 DEF TypeOK
    <3>3. outb'[c.m].status = "ADMITTED" BY <2>1, <3>1, <3>2 DEF TypeOK, OutType
    <3>4. ow'[w].ph = "admitted" /\ ow'[w].m = c.m BY <1>4, <2>1
    <3>5. QED BY <3>3, <3>4 DEF AdmittedRows
  <2>2. CASE ow' = [ow EXCEPT ![w].ph = "denied"]
    <3>1. ow'[w].ph = "denied" BY <1>4, <2>2
    <3>2. QED BY <3>1
  <2>3. CASE ow' = [ow EXCEPT ![w] = IdleOut]
    <3>1. ow'[w] = IdleOut BY <2>3 DEF TypeOK
    <3>2. QED BY <1>0, <3>1
  <2>4. QED BY <1>5, <2>1, <2>2, <2>3 DEF Admit
<1>6. CASE AdmitRaises(w)
  <2>1. ow'[w].ph = "denied" BY <1>4, <1>6 DEF AdmitRaises
  <2>2. QED BY <2>1
<1>7. CASE PrepareReclaimed(w)
  <2>1. CASE OwnsOut(c, "ADMITTED")
    <3>1. ow'[w] = [c EXCEPT !.ph = "admitted"] /\ c.m \in ClientMsgs /\ outb' = outb
      BY <1>0, <1>7, <2>1 DEF PrepareReclaimed, TypeOK
    <3>2. ow'[w].ph = "admitted" /\ ow'[w].m = c.m BY <1>0, <3>1 DEF OutClaimType
    <3>3. QED BY <2>1, <3>1, <3>2 DEF OwnsOut, AdmittedRows
  <2>2. CASE ~OwnsOut(c, "ADMITTED")
    <3>1. ow'[w] = IdleOut BY <1>7, <2>2 DEF PrepareReclaimed, TypeOK
    <3>2. QED BY <1>0, <3>1
  <2>3. QED BY <2>1, <2>2
<1>8. CASE SinkAccepts(w)
  <2>1. /\ c.ph = "admitted" /\ outb' = outb /\ sunk' = sunk \cup {c.m}
        /\ ow'[w].ph = "sent" /\ ow'[w].m = c.m
    BY <1>4, <1>8 DEF SinkAccepts
  <2>2. QED BY <2>1 DEF SinkInv, SinkTasks
<1>9. CASE SinkRefuses(w)
  <2>1. /\ c.ph = "admitted" /\ outb' = outb /\ ow'[w].ph \in {"transient", "permanent"}
        /\ ow'[w].m = c.m
    BY <1>4, <1>9 DEF SinkRefuses
  <2>2. QED BY <2>1 DEF SinkInv, SinkTasks
<1>10. CASE Deliver(w)
  <2>1. CASE ow' = [ow EXCEPT ![w] = IdleOut]
    <3>1. ow'[w] = IdleOut BY <2>1 DEF TypeOK
    <3>2. QED BY <1>0, <3>1
  <2>2. CASE /\ ow' = [ow EXCEPT ![w].ph = "delivered"]
             /\ outb' = [outb EXCEPT ![c.m] = [@ EXCEPT !.status = "DELIVERED", !.lease = "none"]]
    <3>1. c.m \in ClientMsgs BY <1>0, <1>10 DEF Deliver
    <3>2. outb[c.m] \in OutType BY <3>1 DEF TypeOK
    <3>3. outb'[c.m].status = "DELIVERED" BY <2>2, <3>1, <3>2 DEF TypeOK, OutType
    <3>4. ow'[w].ph = "delivered" /\ ow'[w].m = c.m BY <1>4, <2>2
    <3>5. QED BY <3>3, <3>4
  <2>3. QED BY <1>10, <2>1, <2>2 DEF Deliver
<1>11. QED
  BY <1>1, <1>2, <1>3, <1>5, <1>6, <1>7, <1>8, <1>9, <1>10, OutTaskSteps DEF OutTask

LEMMA SinkStep ==
    TypeOK /\ FencingInv /\ SinkInv /\ [Next]_vars => SinkInv'
<1> SUFFICES ASSUME TypeOK, FencingInv, SinkInv, [Next]_vars PROVE SinkInv'
  OBVIOUS
<1>1. LeaseDiscipline' BY LeaseStep DEF SinkInv
<1>2. SinkTasks' BY SinkTasksStep
<1>3. ASSUME NEW m \in ClientMsgs
      PROVE  /\ m \in sunk' => outb'[m].status \in AdmittedRows
             /\ outb'[m].status = "DELIVERED" => m \in sunk'
  <2>1. CASE m \in sunk
    <3>1. outb[m].status \in AdmittedRows
      BY <2>1 DEF SinkInv, SinkFollowsAdmission, AdmittedRows
    <3>2. QED BY <2>1, <3>1, AdmittedStays, SunkChangers
  <2>2. CASE m \notin sunk
    <3>1. m \in sunk' => outb'[m].status \in AdmittedRows
      <4>1. SUFFICES ASSUME m \in sunk' PROVE outb'[m].status \in AdmittedRows OBVIOUS
      <4>2. PICK w \in Workers : SinkAccepts(w) /\ ow[w].m = m BY <2>2, <4>1, SunkChangers
      <4>3. outb[m].status \in AdmittedRows
        BY <4>2 DEF SinkAccepts, SinkInv, SinkTasks
      <4>4. QED BY <4>3, AdmittedStays
    <3>2. outb'[m].status = "DELIVERED" => m \in sunk'
      <4>1. outb[m].status # "DELIVERED" BY <2>2 DEF SinkInv, SinkFollowsAdmission
      <4>2. SUFFICES ASSUME outb'[m].status = "DELIVERED" PROVE m \in sunk' OBVIOUS
      <4>3. PICK w \in Workers : Deliver(w) /\ ow[w].m = m
        BY <4>1, <4>2, OnlyDeliverDelivers
      <4>4. m \in sunk BY <4>3 DEF Deliver, SinkInv, SinkTasks
      <4>5. QED BY <2>2, <4>4
    <3>3. QED BY <3>1, <3>2
  <2>3. QED BY <2>1, <2>2
<1>4. SinkFollowsAdmission' BY <1>3 DEF SinkFollowsAdmission, AdmittedRows
<1>5. QED BY <1>1, <1>2, <1>4 DEF SinkInv

LEMMA SinkInit == Init => SinkInv
<1> SUFFICES ASSUME Init PROVE SinkInv OBVIOUS
<1> USE BoundsAssumption
<1>1. \A m \in ClientMsgs : /\ plan[m].status = "NONE" /\ plan[m].lease = "none" /\ plan[m].att = 0
                            /\ outb[m].status = "NONE" /\ outb[m].lease = "none"
  BY DEF Init, NoPlan, NoOut
<1>2. LeaseDiscipline BY <1>1 DEF LeaseDiscipline, OutCancellable
<1>3. SinkFollowsAdmission BY <1>1 DEF SinkFollowsAdmission, Init
<1>4. SinkTasks BY DEF SinkTasks, Init, IdleOut
<1>5. QED BY <1>2, <1>3, <1>4 DEF SinkInv

\* Every worker acts only under its lease, and the sink gets only what was
\* admitted, whatever leases expire under running handlers.
THEOREM OutboundDisciplineCorrect == Spec => []OutboundDiscipline
<1>1. TypeOK /\ FencingInv /\ [Next]_vars => FencingInv' BY FencingStep
<1>2. TypeOK /\ FencingInv /\ SinkInv /\ [Next]_vars => SinkInv' BY SinkStep
<1>3. SinkInv => OutboundDiscipline BY DEF SinkInv, OutboundDiscipline
<1>4. QED BY <1>1, <1>2, <1>3, TypeCorrect, FencingInit, SinkInit, PTL DEF Spec

-----------------------------------------------------------------------------
(* Booking: the backend is called once, and its answer is what is sent *)

\* The marker or the result is on the plan before the backend is called, and no
\* two tasks stand before that call for the same plan.
BookingInv ==
    /\ \A m \in ClientMsgs :
          /\ calls[m] <= 1
          /\ plan[m].res = "none" => calls[m] = 0
          /\ plan[m].status = "NONE" => plan[m].res = "none"
          /\ outb[m].status # "NONE" => HasResult(plan[m]) /\ outb[m].body = plan[m].res
    /\ \A w \in Workers :
          /\ pw[w].ph = "remote" => plan[pw[w].m].res # "none" /\ calls[pw[w].m] = 0
          /\ pw[w].ph = "finalize" => pw[w].got \notin {"none", "started"}
    /\ \A v, w \in Workers :
          pw[v].ph = "remote" /\ pw[w].ph = "remote" /\ pw[v].m = pw[w].m => v = w

\* An outbound row is created by the finalizing transaction only.
LEMMA OnlyPhase2Creates ==
    ASSUME TypeOK, [Next]_vars, NEW m \in ClientMsgs,
           outb[m].status = "NONE", outb'[m].status # "NONE"
    PROVE  \E w \in Workers : BookingPhase2(w) /\ pw[w].m = m
<1> USE MessagesAssumption
<1>0. \A n \in ClientMsgs : outb[n] \in OutType BY DEF TypeOK
<1>1. CASE outb' = outb BY <1>1
<1>2. CASE outb' = CancelUnadmitted BY <1>2 DEF CancelUnadmitted, OutCancellable
<1>3. ASSUME NEW w \in Workers, BookingPhase2(w) PROVE pw[w].m = m
  <2>1. outb' = outb \/ \E o : outb' = [outb EXCEPT ![pw[w].m] = o] BY <1>3 DEF BookingPhase2
  <2>2. QED BY <2>1 DEF TypeOK
<1>4. ASSUME NEW w \in Workers, OutClaim(w) PROVE FALSE
  <2>1. PICK c \in ClientMsgs \cup {NoMsg} : (c # NoMsg => OutClaimable(c)) /\ ClaimOut(w, c)
    BY <1>4, OutClaimPicks
  <2>2. m # c /\ ~ExhaustedOut(m) BY <2>1 DEF OutClaimable, ExhaustedOut
  <2>3. QED BY <2>1, <2>2 DEF ClaimOut
<1>5. ASSUME NEW w \in Workers, Admit(w) \/ OutFail(w) \/ FailAdmitted(w) \/ Deliver(w)
      PROVE  FALSE
  <2>1. \/ outb' = outb
        \/ outb[ow[w].m].status \in {"PROCESSING", "ADMITTED"}
           /\ \E o : outb' = [outb EXCEPT ![ow[w].m] = o]
    BY <1>5 DEF Admit, OutFail, FailAdmitted, Deliver, OwnsOut
  <2>2. QED BY <2>1 DEF TypeOK
<1>6. ASSUME NEW n \in ClientMsgs, OutDelayPasses(n) \/ OutLeaseExpires(n) PROVE FALSE
  <2>1. outb' = [outb EXCEPT ![n].nb = PAST] \/ outb' = [outb EXCEPT ![n].lease = "expired"]
    BY <1>6 DEF OutDelayPasses, OutLeaseExpires
  <2>2. QED BY <1>0, <2>1 DEF OutType, TypeOK
<1>7. QED BY <1>1, <1>2, <1>3, <1>4, <1>5, <1>6, OutChangers

\* The resolution of an existing plan is written by the two booking
\* transactions only.
LEMMA OnlyBookingResolves ==
    ASSUME TypeOK, FencingInv, [Next]_vars, NEW m \in ClientMsgs,
           plan[m].status # "NONE", plan'[m].res # plan[m].res
    PROVE  \E w \in Workers : (BookingPhase1(w) \/ BookingPhase2(w)) /\ pw[w].m = m
<1> USE MessagesAssumption
<1>0. \A n \in ClientMsgs : plan[n] \in PlanType BY DEF TypeOK
<1>1. plan' # plan OBVIOUS
<1>2. ASSUME NEW s, CloseOpenPlans(s)[m].res # plan[m].res PROVE FALSE
  BY <1>0, <1>2 DEF CloseOpenPlans, PlanType
<1>3. ASSUME NEW n \in ClientMsgs, AcceptInbound(n) PROVE FALSE
  <2>1. ~IsDuplicate(n) BY <1>1, <1>3 DEF AcceptInbound
  <2>2. AcceptNew(n) /\ m # n
    BY <1>3, <2>1 DEF AcceptInbound, IsDuplicate, FencingInv, RowsFollow
  <2>3. plan'[m] = CloseOpenPlans("SUPERSEDED")[m]
    BY <2>2 DEF AcceptNew, CloseOpenPlans
  <2>4. QED BY <1>2, <2>3
<1>4. ASSUME plan' = CloseOpenPlans("CANCELLED") PROVE FALSE
  BY <1>2, <1>4
<1>5. ASSUME NEW w \in Workers, PlanClaim(w) PROVE FALSE
  <2>1. PICK r \in ClientMsgs \cup {NoMsg}, c \in ClientMsgs \cup {NoMsg} : ClaimPlan(w, r, c)
    BY <1>5, PlanClaimPicks
  <2>2. QED BY <1>0, <2>1 DEF ClaimPlan, PlanType
<1>6. ASSUME NEW w \in Workers, BookingPhase1(w) \/ BookingPhase2(w) PROVE pw[w].m = m
  <2>1. plan' = plan \/ \E p : plan' = [plan EXCEPT ![pw[w].m] = p]
    BY <1>6 DEF BookingPhase1, BookingPhase2
  <2>2. QED BY <2>1 DEF TypeOK
<1>7. ASSUME NEW w \in Workers, PlanFail(w) PROVE FALSE
  <2>1. plan' = plan \/ \E s, nb : plan' = [plan EXCEPT ![pw[w].m] =
                          [plan[pw[w].m] EXCEPT !.status = s, !.nb = nb, !.lease = "none"]]
    BY <1>7 DEF PlanFail
  <2>2. pw[w].m \in ClientMsgs BY <1>7 DEF PlanFail, TypeOK
  <2>3. \A s, nb : [plan[pw[w].m] EXCEPT !.status = s, !.nb = nb, !.lease = "none"].res
                      = plan[pw[w].m].res
    BY <1>0, <2>2 DEF PlanType
  <2>4. plan' = plan \/ \E p : p.res = plan[pw[w].m].res /\ plan' = [plan EXCEPT ![pw[w].m] = p]
    BY <2>1, <2>3
  <2>5. QED BY <2>2, <2>4 DEF TypeOK
<1>8. ASSUME NEW n \in ClientMsgs, PlanDelayPasses(n) \/ PlanLeaseExpires(n) PROVE FALSE
  <2>1. plan' = [plan EXCEPT ![n].nb = PAST] \/ plan' = [plan EXCEPT ![n].lease = "expired"]
    BY <1>8 DEF PlanDelayPasses, PlanLeaseExpires
  <2>2. /\ [plan[n] EXCEPT !.nb = PAST].res = plan[n].res
        /\ [plan[n] EXCEPT !.lease = "expired"].res = plan[n].res
    BY <1>0 DEF PlanType
  <2>3. \E p : p.res = plan[n].res /\ plan' = [plan EXCEPT ![n] = p] BY <2>1, <2>2
  <2>4. QED BY <2>3 DEF TypeOK
<1>9. ASSUME \/ \E g \in ManagerMsgs : ManagerMessage(g)
             \/ ManagerTakeover \/ ExpireActiveHandoff
      PROVE  FALSE
  BY <1>1, <1>4, <1>9 DEF ManagerMessage, ManagerTakeover, ExpireActiveHandoff
<1>10. QED BY <1>1, <1>3, <1>5, <1>6, <1>7, <1>8, <1>9, PlanChangers

\* The reply-plan task of a worker changes only by its own steps.
LEMMA PlanTaskSteps ==
    ASSUME TypeOK, [Next]_vars
    PROVE  \/ pw' = pw
           \/ \E w \in Workers : /\ PlanClaim(w) \/ PlanTask(w) \/ DropPlanTask(w)
                                 /\ \A v \in Workers \ {w} : pw'[v] = pw[v]
<1>1. \/ pw' = pw
      \/ \E v \in Workers : PlanClaim(v) \/ PlanTask(v) \/ DropPlanTask(v)
  BY DEF Next, vars, AcceptInbound, ManagerMessage, ManagerTakeover,
         ExpireActiveHandoff, ExpirePausedHandoff, OutClaim, OutTask, DropOutTask, Admit,
         AdmitRaises, OutFail, PrepareReclaimed, SinkAccepts, SinkRefuses, FailAdmitted,
         Deliver, EnqueueProjection, RepairProjection, DeadlinePasses, PlanDelayPasses,
         PlanLeaseExpires, OutDelayPasses, OutLeaseExpires
<1>2. ASSUME NEW w \in Workers, PlanClaim(w) \/ PlanTask(w) \/ DropPlanTask(w)
      PROVE  \E x : pw' = [pw EXCEPT ![w] = x]
  <2>0. pw = [pw EXCEPT ![w] = pw[w]] BY DEF TypeOK
  <2>1. CASE PlanClaim(w)
    <3>1. PICK r \in ClientMsgs \cup {NoMsg}, c \in ClientMsgs \cup {NoMsg} : ClaimPlan(w, r, c)
      BY <2>1, PlanClaimPicks
    <3>2. QED BY <2>0, <3>1 DEF ClaimPlan
  <2>2. CASE PlanTask(w) \/ DropPlanTask(w)
    BY <2>2 DEF PlanTask, DropPlanTask, PlanStale, PlanRaises, BookingPhase1, BookingRemote,
                BookingPhase2, PlanFail
  <2>3. QED BY <1>2, <2>1, <2>2
<1>3. QED BY <1>1, <1>2 DEF TypeOK

\* The backend is called by the remote step of a booking task only.
LEMMA CallsChangers ==
    ASSUME [Next]_vars
    PROVE  calls' = calls \/ \E w \in Workers : BookingRemote(w)
  BY DEF Next, vars, AcceptInbound, ManagerMessage, ManagerTakeover,
         ExpireActiveHandoff, ExpirePausedHandoff, PlanClaim, PlanTask, PlanStale, PlanRaises,
         BookingPhase1, BookingPhase2, PlanFail, DropPlanTask, OutClaim, SinkAccepts,
         OutTask, DropOutTask, Admit, AdmitRaises, OutFail, PrepareReclaimed, SinkRefuses,
         FailAdmitted, Deliver, EnqueueProjection, RepairProjection, DeadlinePasses,
         PlanDelayPasses, PlanLeaseExpires, OutDelayPasses, OutLeaseExpires

\* Everything but the three booking transactions.
LEMMA BookingFrame ==
    ASSUME TypeOK, FencingInv, BookingInv, [Next]_vars,
           ~\E w \in Workers : BookingPhase1(w) \/ BookingRemote(w) \/ BookingPhase2(w)
    PROVE  BookingInv'
<1> USE MessagesAssumption
<1>1. calls' = calls BY CallsChangers
<1>2. ASSUME NEW m \in ClientMsgs PROVE plan'[m].res = plan[m].res
  <2>1. CASE plan[m].status # "NONE" BY <2>1, OnlyBookingResolves
  <2>2. CASE plan[m].status = "NONE"
    <3>1. PlanMove(plan[m], plan'[m]) /\ plan[m].res = "none"
      BY <2>2, PlanMoves DEF BookingInv
    <3>2. QED BY <2>2, <3>1 DEF PlanMove
  <2>3. QED BY <2>1, <2>2
<1>3. ASSUME NEW m \in ClientMsgs, plan'[m].status = "NONE" PROVE plan[m].status = "NONE"
  <2>1. PlanMove(plan[m], plan'[m]) BY PlanMoves
  <2>2. QED BY <1>3, <2>1 DEF PlanMove
<1>4. ASSUME NEW m \in ClientMsgs, outb'[m].status # "NONE"
      PROVE  outb[m].status # "NONE" /\ outb'[m].body = outb[m].body
  <2>1. outb[m].status # "NONE" BY <1>4, OnlyPhase2Creates
  <2>2. OutMove(outb[m], outb'[m]) BY OutMoves
  <2>3. QED BY <2>1, <2>2 DEF OutMove
<1>5. ASSUME NEW w \in Workers
      PROVE  pw'[w] = pw[w] \/ pw'[w].ph \notin {"remote", "finalize"}
  <2>1. CASE pw'[w] = pw[w] BY <2>1
  <2>2. CASE pw'[w] # pw[w]
    <3>1. PlanClaim(w) \/ PlanStale(w) \/ PlanRaises(w) \/ PlanFail(w) \/ DropPlanTask(w)
      BY <2>2, PlanTaskSteps DEF PlanTask
    <3>2. CASE PlanClaim(w)
      <4>1. PICK r \in ClientMsgs \cup {NoMsg}, c \in ClientMsgs \cup {NoMsg} : ClaimPlan(w, r, c)
        BY <3>2, PlanClaimPicks
      <4>2. QED BY <2>2, <4>1 DEF ClaimPlan, TypeOK
    <3>3. CASE PlanStale(w) \/ PlanFail(w) \/ DropPlanTask(w)
      <4>1. pw'[w] = IdlePlan BY <3>3 DEF PlanStale, PlanFail, DropPlanTask, TypeOK
      <4>2. QED BY <4>1 DEF IdlePlan
    <3>4. CASE PlanRaises(w)
      BY <3>4 DEF PlanRaises, TypeOK, PlanClaimType
    <3>5. QED BY <3>1, <3>2, <3>3, <3>4
  <2>3. QED BY <2>1, <2>2
<1>6. ASSUME NEW m \in ClientMsgs
      PROVE  /\ calls'[m] <= 1
             /\ plan'[m].res = "none" => calls'[m] = 0
             /\ plan'[m].status = "NONE" => plan'[m].res = "none"
             /\ outb'[m].status # "NONE" => HasResult(plan'[m]) /\ outb'[m].body = plan'[m].res
  BY <1>1, <1>2, <1>3, <1>4 DEF BookingInv, HasResult
<1>7. ASSUME NEW w \in Workers
      PROVE  /\ pw'[w].ph = "remote" => plan'[pw'[w].m].res # "none" /\ calls'[pw'[w].m] = 0
             /\ pw'[w].ph = "finalize" => pw'[w].got \notin {"none", "started"}
  <2>1. CASE pw'[w] # pw[w] BY <1>5, <2>1
  <2>2. CASE pw'[w] = pw[w]
    <3>1. pw[w].ph = "remote" => pw[w].m \in ClientMsgs BY DEF TypeOK
    <3>2. QED BY <1>1, <1>2, <2>2, <3>1 DEF BookingInv
  <2>3. QED BY <2>1, <2>2
<1>8. \A v, w \in Workers :
        pw'[v].ph = "remote" /\ pw'[w].ph = "remote" /\ pw'[v].m = pw'[w].m => v = w
  BY <1>5 DEF BookingInv
<1>9. QED BY <1>6, <1>7, <1>8 DEF BookingInv, HasResult

\* A task that changes only itself and the rows of its own message.
LEMMA BookingTaskStep ==
    ASSUME TypeOK, BookingInv, NEW w \in Workers, NEW m \in ClientMsgs, pw[w].m = m,
           \A v \in Workers \ {w} : pw'[v] = pw[v],
           \A n \in ClientMsgs \ {m} :
              plan'[n] = plan[n] /\ outb'[n] = outb[n] /\ calls'[n] = calls[n],
           calls'[m] <= 1,
           plan'[m].res # "none", plan'[m].status # "NONE",
           outb'[m].status # "NONE" => HasResult(plan'[m]) /\ outb'[m].body = plan'[m].res,
           pw'[w].ph = "remote" => /\ pw'[w].m = m /\ calls'[m] = 0
                                   /\ \A v \in Workers \ {w} : ~(pw[v].ph = "remote" /\ pw[v].m = m),
           pw'[w].ph = "finalize" => pw'[w].got \notin {"none", "started"},
           \A v \in Workers \ {w} : pw[v].ph = "remote" /\ pw[v].m = m => calls'[m] = 0
    PROVE  BookingInv'
<1>1. ASSUME NEW n \in ClientMsgs
      PROVE  /\ calls'[n] <= 1
             /\ plan'[n].res = "none" => calls'[n] = 0
             /\ plan'[n].status = "NONE" => plan'[n].res = "none"
             /\ outb'[n].status # "NONE" => HasResult(plan'[n]) /\ outb'[n].body = plan'[n].res
  <2>1. CASE n = m BY <2>1
  <2>2. CASE n # m BY <2>2 DEF BookingInv
  <2>3. QED BY <2>1, <2>2
<1>2. ASSUME NEW v \in Workers
      PROVE  /\ pw'[v].ph = "remote" => plan'[pw'[v].m].res # "none" /\ calls'[pw'[v].m] = 0
             /\ pw'[v].ph = "finalize" => pw'[v].got \notin {"none", "started"}
  <2>1. CASE v = w BY <2>1
  <2>2. CASE v # w
    <3>1. pw'[v] = pw[v] /\ (pw[v].ph = "remote" => pw[v].m \in ClientMsgs) BY <2>2 DEF TypeOK
    <3>2. pw[v].ph = "finalize" => pw[v].got \notin {"none", "started"} BY DEF BookingInv
    <3>3. pw[v].ph = "remote" => plan'[pw[v].m].res # "none" /\ calls'[pw[v].m] = 0
      <4>1. CASE pw[v].m = m BY <2>2, <4>1
      <4>2. CASE pw[v].m # m BY <3>1, <4>2 DEF BookingInv
      <4>3. QED BY <4>1, <4>2
    <3>4. QED BY <3>1, <3>2, <3>3
  <2>3. QED BY <2>1, <2>2
<1>3. \A u, v \in Workers :
        pw'[u].ph = "remote" /\ pw'[v].ph = "remote" /\ pw'[u].m = pw'[v].m => u = v
  BY DEF BookingInv
<1>4. QED BY <1>1, <1>2, <1>3 DEF BookingInv, HasResult

LEMMA Phase1Booking ==
    ASSUME TypeOK, FencingInv, BookingInv, [Next]_vars, NEW w \in Workers, BookingPhase1(w)
    PROVE  BookingInv'
<1> DEFINE c == pw[w]
           m == pw[w].m
           p == plan[m]
<1>1. /\ m \in ClientMsgs /\ c \in PlanClaimType /\ c.ph = "claimed" /\ p \in PlanType
      /\ p.status = "PROCESSING" /\ outb[m].status = "NONE"
      /\ UNCHANGED <<outb, calls>>
  BY DEF BookingPhase1, TypeOK, PlanValid, OwnsPlan, FencingInv, RowsFollow
<1>2. plan'[m].status = "PROCESSING" /\ plan'[m].res = IF p.res = "none" THEN "started" ELSE p.res
  <2>1. plan' = IF p.res = "none" THEN [plan EXCEPT ![m] = MarkStarted(p)] ELSE plan
    BY <1>1 DEF BookingPhase1
  <2>2. MarkStarted(p).status = "PROCESSING" /\ MarkStarted(p).res = "started"
    BY <1>1 DEF MarkStarted, PlanType
  <2>3. QED BY <1>1, <2>1, <2>2 DEF TypeOK
<1>3. \A n \in ClientMsgs \ {m} : plan'[n] = plan[n]
  BY <1>1 DEF BookingPhase1, TypeOK
<1>4. \A v \in Workers \ {w} : pw'[v] = pw[v]
  BY DEF BookingPhase1, TypeOK
<1>5. CASE p.res = "none"
  <2>1. pw'[w] = [c EXCEPT !.ph = "remote"] BY <1>1, <1>5 DEF BookingPhase1, TypeOK
  <2>2. pw'[w].ph = "remote" /\ pw'[w].m = m BY <1>1, <2>1 DEF PlanClaimType
  <2>3. calls[m] = 0 /\ \A v \in Workers : ~(pw[v].ph = "remote" /\ pw[v].m = m)
    BY <1>1, <1>5 DEF BookingInv
  <2>4. QED BY <1>1, <1>2, <1>3, <1>4, <1>5, <2>2, <2>3, BookingTaskStep
<1>6. CASE p.res # "none"
  <2> DEFINE got == IF HasResult(p) THEN p.res ELSE "INTERRUPTED"
  <2>1. pw'[w] = [c EXCEPT !.ph = "finalize", !.got = got]
    BY <1>1, <1>6 DEF BookingPhase1, TypeOK
  <2>2. got \notin {"none", "started"} BY DEF HasResult
  <2> HIDE DEF got
  <2>3. pw'[w].ph = "finalize" /\ pw'[w].got \notin {"none", "started"}
    BY <1>1, <2>1, <2>2 DEF PlanClaimType
  <2>4. calls[m] <= 1 /\ \A v \in Workers : pw[v].ph = "remote" /\ pw[v].m = m => calls[m] = 0
    BY <1>1 DEF BookingInv
  <2>5. QED BY <1>1, <1>2, <1>3, <1>4, <1>6, <2>3, <2>4, BookingTaskStep
<1>7. QED BY <1>5, <1>6

LEMMA RemoteBooking ==
    ASSUME TypeOK, BookingInv, NEW w \in Workers, BookingRemote(w)
    PROVE  BookingInv'
<1> DEFINE c == pw[w]
           m == pw[w].m
<1>1. /\ m \in ClientMsgs /\ c \in PlanClaimType /\ c.ph = "remote"
      /\ UNCHANGED <<outb, plan>> /\ calls' = [calls EXCEPT ![m] = calls[m] + 1]
  BY DEF BookingRemote, TypeOK
<1>2. calls[m] = 0 /\ plan[m].res # "none" /\ plan[m].status # "NONE"
      /\ (outb[m].status # "NONE" => HasResult(plan[m]) /\ outb[m].body = plan[m].res)
      /\ \A v \in Workers \ {w} : ~(pw[v].ph = "remote" /\ pw[v].m = m)
  BY <1>1 DEF BookingInv
<1>3. calls'[m] = 1 /\ \A n \in ClientMsgs \ {m} : calls'[n] = calls[n]
  BY <1>1, <1>2 DEF TypeOK
<1>4. PICK r \in RemoteResults : pw' = [pw EXCEPT ![w] = [c EXCEPT !.ph = "finalize", !.got = r]]
  BY DEF BookingRemote
<1>5. r \notin {"none", "started"} BY BoundsAssumption DEF BookingResults
<1>6. /\ pw'[w].ph = "finalize" /\ pw'[w].got = r
      /\ \A v \in Workers \ {w} : pw'[v] = pw[v]
  BY <1>1, <1>4 DEF TypeOK, PlanClaimType
<1>7. QED BY <1>1, <1>2, <1>3, <1>5, <1>6, BookingTaskStep DEF HasResult

LEMMA Phase2Booking ==
    ASSUME TypeOK, FencingInv, BookingInv, NEW w \in Workers, BookingPhase2(w)
    PROVE  BookingInv'
<1> DEFINE c == pw[w]
           m == pw[w].m
           p == plan[m]
           res == IF HasResult(p) THEN p.res ELSE c.got
<1>1. /\ m \in ClientMsgs /\ c \in PlanClaimType /\ c.ph = "finalize" /\ p \in PlanType
      /\ p.status = "PROCESSING" /\ outb[m].status = "NONE" /\ UNCHANGED calls
      /\ pw' = [pw EXCEPT ![w] = IdlePlan]
  BY DEF BookingPhase2, TypeOK, PlanValid, OwnsPlan, FencingInv, RowsFollow
<1>2. /\ plan' = [plan EXCEPT ![m] = [Dispatched(p) EXCEPT !.res = res]]
      /\ outb' = [outb EXCEPT ![m] = [NoOut EXCEPT !.status = "PENDING", !.body = res]]
  BY <1>1 DEF BookingPhase2
<1>3. res \notin {"none", "started"} BY <1>1 DEF BookingInv, HasResult
<1> HIDE DEF res
<1>4. /\ [Dispatched(p) EXCEPT !.res = res].res = res
      /\ [Dispatched(p) EXCEPT !.res = res].status = "DISPATCHED"
      /\ [NoOut EXCEPT !.status = "PENDING", !.body = res].body = res
  BY <1>1 DEF Dispatched, PlanType, NoOut
<1>5. /\ plan'[m].res = res /\ plan'[m].status = "DISPATCHED" /\ outb'[m].body = res
      /\ \A n \in ClientMsgs \ {m} : plan'[n] = plan[n] /\ outb'[n] = outb[n]
  BY <1>1, <1>2, <1>4 DEF TypeOK
<1>6. pw'[w].ph = "idle" /\ \A v \in Workers \ {w} : pw'[v] = pw[v]
  BY <1>1 DEF TypeOK, IdlePlan
<1>7. calls[m] <= 1 /\ \A v \in Workers : pw[v].ph = "remote" /\ pw[v].m = m => calls[m] = 0
  BY <1>1 DEF BookingInv
<1>8. HasResult(plan'[m]) BY <1>3, <1>5 DEF HasResult
<1>9. QED BY <1>1, <1>3, <1>5, <1>6, <1>7, <1>8, BookingTaskStep

LEMMA BookingInit == Init => BookingInv
<1> SUFFICES ASSUME Init PROVE BookingInv OBVIOUS
<1>1. \A m \in ClientMsgs : /\ plan[m].status = "NONE" /\ plan[m].res = "none"
                            /\ outb[m].status = "NONE" /\ calls[m] = 0
  BY DEF Init, NoPlan, NoOut
<1>2. \A w \in Workers : pw[w].ph = "idle" BY DEF Init, IdlePlan
<1>3. QED BY <1>1, <1>2 DEF BookingInv

LEMMA BookingStep == TypeOK /\ FencingInv /\ BookingInv /\ [Next]_vars => BookingInv'
  BY BookingFrame, Phase1Booking, RemoteBooking, Phase2Booking

\* The booking backend is called at most once for a plan, whatever crashes,
\* timeouts and overlapping workers do, and what is sent is the stored result.
THEOREM BookingOnceCorrect == Spec => []BookingResolvedOnce
<1>1. TypeOK /\ FencingInv /\ [Next]_vars => FencingInv' BY FencingStep
<1>2. TypeOK /\ FencingInv /\ BookingInv /\ [Next]_vars => BookingInv' BY BookingStep
<1>3. BookingInv => BookingResolvedOnce BY DEF BookingInv, BookingResolvedOnce
<1>4. QED BY <1>1, <1>2, <1>3, TypeCorrect, FencingInit, BookingInit, PTL DEF Spec

-----------------------------------------------------------------------------
(* The record: a dense timeline, managers in provider order, one job per fact *)

\* Every accepted message has a plan, no plan is ahead of the dialog, and the
\* events counted so far are finitely many.
TimelineInv ==
    /\ TimelineDense
    /\ ManagerOrder
    /\ IsFiniteSet(Numbered) /\ IsFiniteSet(Applied)
    /\ \A m \in ClientMsgs : /\ inbox[m] # 0 => plan[m].status # "NONE"
                             /\ plan[m].status # "NONE" => plan[m].ctx <= conv.ctx

\* Event numbers in use are at most the dialog's counter.
LEMMA NumbersBelow ==
    ASSUME TypeOK, TimelineInv
    PROVE  /\ \A m \in ClientMsgs : inbox[m] <= conv.seq
           /\ \A g \in Applied : mgr[g].seq <= conv.seq
<1>1. conv.seq \in Nat BY DEF TypeOK, ConvType
<1>2. \A m \in Numbered : inbox[m] \in 1..conv.seq BY DEF TimelineInv, TimelineDense
<1>3. \A g \in Applied : mgr[g].seq \in 1..conv.seq BY DEF TimelineInv, TimelineDense
<1>4. \A m \in ClientMsgs : m \in Numbered \/ inbox[m] = 0 BY DEF Numbered
<1>5. QED BY <1>1, <1>2, <1>3, <1>4

\* A step that numbers no event.
LEMMA TimelineFrame ==
    ASSUME TypeOK, FencingInv', TimelineInv, UNCHANGED inbox,
           Applied' = Applied, \A g \in Applied : mgr'[g].seq = mgr[g].seq,
           conv'.seq = conv.seq, conv'.hwm = conv.hwm, conv'.ctx = conv.ctx,
           \A m \in ClientMsgs : PlanMove(plan[m], plan'[m])
    PROVE  TimelineInv'
<1>1. ASSUME NEW m \in ClientMsgs, plan'[m].status # "NONE"
      PROVE  plan[m].status # "NONE" /\ plan'[m].ctx = plan[m].ctx
  <2>1. inbox[m] # 0 BY <1>1 DEF FencingInv, RowsFollow
  <2>2. plan[m].status # "NONE" BY <2>1 DEF TimelineInv
  <2>3. PlanMove(plan[m], plan'[m]) OBVIOUS
  <2>4. QED BY <2>2, <2>3 DEF PlanMove
<1>2. ASSUME NEW m \in ClientMsgs, inbox[m] # 0 PROVE plan'[m].status # "NONE"
  <2>1. plan[m].status # "NONE" /\ PlanMove(plan[m], plan'[m]) BY <1>2 DEF TimelineInv
  <2>2. QED BY <2>1 DEF PlanMove
<1>3. Numbered' = Numbered BY DEF Numbered
<1>4. {inbox'[m] : m \in Numbered'} = {inbox[m] : m \in Numbered}
      /\ {mgr'[g].seq : g \in Applied'} = {mgr[g].seq : g \in Applied}
  BY <1>3
<1>5. TimelineDense'
  <2>1. \A m, n \in ClientMsgs :
           plan'[m].status # "NONE" /\ plan'[n].status # "NONE" /\ inbox'[m] < inbox'[n]
              => plan'[m].ctx < plan'[n].ctx
    BY <1>1 DEF TimelineInv, TimelineDense
  <2>2. QED BY <1>3, <1>4, <2>1 DEF TimelineInv, TimelineDense
<1>6. ManagerOrder' BY DEF TimelineInv, ManagerOrder
<1>7. QED BY <1>1, <1>2, <1>3, <1>5, <1>6 DEF TimelineInv

\* A new client message takes the next number and the next context version.
LEMMA AcceptTimeline ==
    ASSUME TypeOK, FencingInv, TimelineInv, NEW n \in ClientMsgs,
           AcceptInbound(n), ~IsDuplicate(n), [Next]_vars
    PROVE  TimelineInv'
<1> DEFINE bumped == Bumped(conv)
           paused == EnterOrContinuePause(bumped)
           k == conv.seq + 1
<1>1. /\ AcceptNew(n) /\ inbox[n] = 0 /\ plan[n].status = "NONE" /\ mgr' = mgr
      /\ conv.seq \in Nat /\ conv.ctx \in Nat /\ inbox \in [ClientMsgs -> Nat]
  BY DEF AcceptInbound, IsDuplicate, FencingInv, RowsFollow, TypeOK, ConvType
<1>2. /\ bumped \in ConvType /\ paused \in ConvType
      /\ bumped.seq = k /\ bumped.ctx = conv.ctx + 1 /\ bumped.hwm = conv.hwm
      /\ paused.seq = k /\ paused.ctx = conv.ctx + 1 /\ paused.hwm = conv.hwm
  <2>1. bumped \in ConvType /\ paused \in ConvType
    BY BumpedType, EnterOrContinuePauseType DEF TypeOK
  <2>2. bumped.seq = k /\ bumped.ctx = conv.ctx + 1 /\ bumped.hwm = conv.hwm
    BY DEF Bumped, TypeOK, ConvType
  <2> HIDE DEF bumped, k
  <2>3. paused.seq = bumped.seq /\ paused.ctx = bumped.ctx /\ paused.hwm = bumped.hwm
    BY <2>1 DEF EnterOrContinuePause, ConvType
  <2>4. QED BY <2>1, <2>2, <2>3
<1>3. inbox' = [inbox EXCEPT ![n] = k] BY <1>1, <1>2 DEF AcceptNew
<1> HIDE DEF bumped, paused, k
<1>4. \/ /\ conv' = [bumped EXCEPT !.active = n]
         /\ plan'[n] = NewPlan(bumped, FUTURE, FALSE)
      \/ /\ conv' = [paused EXCEPT !.active = n]
         /\ plan'[n] = NewPlan(paused, paused.deadline, TRUE)
  <2>1. ~AllowsAutomaticReply
           => conv.status = "HANDOFF" /\ conv.hs \in {"HUMAN_ACTIVE", "HUMAN_PAUSE"}
    BY DEF FencingInv, HandoffConsistent, AllowsAutomaticReply
  <2>2. QED BY <1>1, <2>1 DEF AcceptNew, bumped, paused, CloseOpenPlans
<1>5. /\ conv'.seq = k /\ conv'.ctx = conv.ctx + 1 /\ conv'.hwm = conv.hwm
      /\ plan'[n].ctx = conv.ctx + 1 /\ plan'[n].status = "PENDING"
  <2>1. \A c, nb, d : NewPlan(c, nb, d).ctx = c.ctx /\ NewPlan(c, nb, d).status = "PENDING"
    BY DEF NewPlan, NoPlan
  <2>2. PICK c \in {bumped, paused} : /\ conv' = [c EXCEPT !.active = n]
                                      /\ \E nb, d : plan'[n] = NewPlan(c, nb, d)
    BY <1>4
  <2>3. conv'.seq = c.seq /\ conv'.ctx = c.ctx /\ conv'.hwm = c.hwm
    BY <1>2, <2>2 DEF ConvType
  <2>4. plan'[n].ctx = c.ctx /\ plan'[n].status = "PENDING" BY <2>1, <2>2
  <2>5. QED BY <1>2, <2>2, <2>3, <2>4
<1>6. ASSUME NEW m \in ClientMsgs \ {n}
      PROVE  plan'[m].ctx = plan[m].ctx /\ (plan'[m].status = "NONE" <=> plan[m].status = "NONE")
             /\ inbox'[m] = inbox[m]
  <2>1. plan'[m] = CloseOpenPlans("SUPERSEDED")[m] BY <1>1 DEF AcceptNew, CloseOpenPlans
  <2>2. plan[m] \in PlanType BY DEF TypeOK
  <2>3. QED BY <1>1, <1>3, <2>1, <2>2 DEF CloseOpenPlans, OpenPlans, PlanType
<1>7. k = conv.seq + 1 /\ k \in Nat /\ k # 0 BY <1>1 DEF k
<1>8. Numbered' = Numbered \cup {n} /\ n \notin Numbered /\ Applied' = Applied
  <2>1. n \notin Numbered /\ Applied' = Applied BY <1>1 DEF Numbered, Applied
  <2>2. inbox'[n] = k BY <1>1, <1>3
  <2>3. Numbered' = Numbered \cup {n} BY <1>6, <1>7, <2>2 DEF Numbered
  <2>4. QED BY <2>1, <2>3
<1>9. {inbox'[m] : m \in Numbered'} = {inbox[m] : m \in Numbered} \cup {k}
  <2>1. inbox'[n] = k BY <1>1, <1>3
  <2>2. \A m \in Numbered : inbox'[m] = inbox[m] BY <1>6, <1>8 DEF Numbered
  <2>3. QED BY <1>8, <2>1, <2>2
<1>10. 1..k = (1..conv.seq) \cup {k} BY <1>1, <1>7
<1>11. {inbox'[m] : m \in Numbered'} \cup {mgr'[g].seq : g \in Applied'} = 1..conv'.seq
  BY <1>1, <1>5, <1>8, <1>9, <1>10 DEF TimelineInv, TimelineDense
<1>12. /\ IsFiniteSet(Numbered') /\ IsFiniteSet(Applied')
       /\ Cardinality(Numbered') + Cardinality(Applied') = conv'.seq
  <2>1. IsFiniteSet(Numbered) /\ IsFiniteSet(Applied)
        /\ Cardinality(Numbered) + Cardinality(Applied) = conv.seq
    BY DEF TimelineInv, TimelineDense
  <2>2. Cardinality(Numbered \cup {n}) = Cardinality(Numbered) + 1
        /\ IsFiniteSet(Numbered \cup {n})
    BY <1>8, <2>1, FS_AddElement
  <2>3. Cardinality(Numbered) \in Nat /\ Cardinality(Applied) \in Nat
    BY <2>1, FS_CardinalityType
  <2>4. QED BY <1>5, <1>7, <1>8, <2>1, <2>2, <2>3
<1>13. ASSUME NEW a \in ClientMsgs, NEW b \in ClientMsgs,
              plan'[a].status # "NONE", plan'[b].status # "NONE", inbox'[a] < inbox'[b]
       PROVE  plan'[a].ctx < plan'[b].ctx
  <2>1. inbox'[n] = k BY <1>1, <1>3
  <2>2. \A m \in ClientMsgs : inbox[m] <= conv.seq /\ inbox[m] \in Nat
    BY NumbersBelow DEF TypeOK
  <2>3. a # n BY <1>1, <1>6, <1>7, <1>13, <2>1, <2>2
  <2>4. CASE b = n
    <3>1. plan[a].ctx <= conv.ctx /\ plan[a].ctx \in Nat
      BY <1>6, <1>13, <2>3 DEF TimelineInv, TypeOK, PlanType
    <3>2. QED BY <1>1, <1>5, <1>6, <2>3, <2>4, <3>1
  <2>5. CASE b # n
    BY <1>6, <1>13, <2>3, <2>5 DEF TimelineInv, TimelineDense
  <2>6. QED BY <2>4, <2>5
<1>14. TimelineDense' BY <1>11, <1>12, <1>13 DEF TimelineDense
<1>15. ManagerOrder'
  BY <1>1, <1>5, <1>8 DEF TimelineInv, ManagerOrder
<1>16. ASSUME NEW m \in ClientMsgs
       PROVE  /\ inbox'[m] # 0 => plan'[m].status # "NONE"
              /\ plan'[m].status # "NONE" => plan'[m].ctx <= conv'.ctx
  <2>1. CASE m = n BY <1>1, <1>5, <2>1
  <2>2. CASE m # n
    <3>1. plan[m].ctx \in Nat BY DEF TypeOK, PlanType
    <3>2. QED BY <1>1, <1>5, <1>6, <2>2, <3>1 DEF TimelineInv
  <2>3. QED BY <2>1, <2>2
<1>17. QED BY <1>12, <1>14, <1>15, <1>16 DEF TimelineInv

\* An applied manager message takes the next number; it is newer for the
\* provider than everything applied before it.
LEMMA ManagerTimeline ==
    ASSUME TypeOK, FencingInv', TimelineInv, NEW g \in ManagerMsgs, ManagerMessage(g), [Next]_vars,
           \A m \in ClientMsgs : PlanMove(plan[m], plan'[m])
    PROVE  TimelineInv'
<1> USE MessagesAssumption
<1> DEFINE class == Classify(conv.hwm, ProviderSeq[g])
           numbered == [conv EXCEPT !.seq = conv.seq + 1]
           k == conv.seq + 1
<1>0. /\ inbox' = inbox /\ conv \in ConvType /\ conv.seq \in Nat /\ conv.ctx \in Nat
      /\ conv.hwm \in Nat /\ mgr \in [ManagerMsgs -> [class : MgrClasses, seq : Nat]]
  BY DEF ManagerMessage, TypeOK, ConvType
<1>1. CASE mgr[g].class # "NONE"
  <2>1. UNCHANGED <<mgr, conv>> BY <1>1 DEF ManagerMessage
  <2>2. Applied' = Applied BY <2>1 DEF Applied
  <2>3. QED BY <1>0, <2>1, <2>2, TimelineFrame
<1>2. CASE mgr[g].class = "NONE" /\ class # "APPLIED"
  <2>1. conv' = conv /\ mgr' = [mgr EXCEPT ![g].class = class] BY <1>2 DEF ManagerMessage
  <2>2. \A h \in ManagerMsgs : /\ mgr'[h].class = IF h = g THEN class ELSE mgr[h].class
                               /\ mgr'[h].seq = mgr[h].seq
    BY <1>0, <2>1
  <2> HIDE DEF class
  <2>3. Applied' = Applied BY <1>2, <2>2 DEF Applied
  <2>4. \A h \in Applied : mgr'[h].seq = mgr[h].seq BY <2>2 DEF Applied
  <2>5. QED BY <1>0, <2>1, <2>3, <2>4, TimelineFrame
<1>3. CASE mgr[g].class = "NONE" /\ class = "APPLIED"
  <2>1. ProviderSeq[g] > conv.hwm /\ ProviderSeq[g] \in Nat
    BY <1>3 DEF Classify
  <2>2. /\ mgr' = [mgr EXCEPT ![g] = [class |-> "APPLIED", seq |-> numbered.seq]]
        /\ conv' = ManagerApplied(numbered, ProviderSeq[g])
    BY <1>3 DEF ManagerMessage
  <2>3. numbered.seq = k /\ numbered.ctx = conv.ctx /\ k \in Nat /\ k # 0
    BY <1>0 DEF ConvType
  <2>4. /\ conv'.seq = numbered.seq /\ conv'.hwm = ProviderSeq[g]
        /\ conv'.ctx = numbered.ctx + 1
    BY <1>0, <2>2 DEF ManagerApplied, ConvType
  <2>5. conv'.seq = k /\ conv'.hwm = ProviderSeq[g] /\ conv'.ctx = conv.ctx + 1
    BY <2>3, <2>4
  <2>6. /\ mgr'[g].class = "APPLIED" /\ mgr'[g].seq = k
        /\ \A h \in ManagerMsgs \ {g} : mgr'[h] = mgr[h]
    BY <1>0, <2>2, <2>3
  <2> HIDE DEF numbered
  <2>7. k = conv.seq + 1 OBVIOUS
  <2> HIDE DEF k
  <2>8. Numbered' = Numbered /\ Applied' = Applied \cup {g} /\ g \notin Applied
    BY <1>0, <1>3, <2>6 DEF Numbered, Applied
  <2>9. {inbox'[m] : m \in Numbered'} = {inbox[m] : m \in Numbered} BY <1>0, <2>8
  <2>10. {mgr'[h].seq : h \in Applied'} = {mgr[h].seq : h \in Applied} \cup {k}
    <3>1. \A h \in Applied : mgr'[h] = mgr[h] BY <2>6, <2>8 DEF Applied
    <3>2. QED BY <2>6, <2>8, <3>1
  <2>11. 1..k = (1..conv.seq) \cup {k} BY <1>0, <2>3, <2>7
  <2>12. {inbox'[m] : m \in Numbered'} \cup {mgr'[h].seq : h \in Applied'} = 1..conv'.seq
    BY <2>5, <2>9, <2>10, <2>11 DEF TimelineInv, TimelineDense
  <2>13. /\ IsFiniteSet(Numbered') /\ IsFiniteSet(Applied')
         /\ Cardinality(Numbered') + Cardinality(Applied') = conv'.seq
    <3>1. IsFiniteSet(Numbered) /\ IsFiniteSet(Applied)
          /\ Cardinality(Numbered) + Cardinality(Applied) = conv.seq
      BY DEF TimelineInv, TimelineDense
    <3>2. Cardinality(Applied \cup {g}) = Cardinality(Applied) + 1
          /\ IsFiniteSet(Applied \cup {g})
      BY <2>8, <3>1, FS_AddElement
    <3>3. Cardinality(Numbered) \in Nat /\ Cardinality(Applied) \in Nat
      BY <3>1, FS_CardinalityType
    <3>4. QED BY <2>5, <2>7, <2>8, <3>1, <3>2, <3>3
  <2>14. ASSUME NEW m \in ClientMsgs
         PROVE  /\ plan'[m].status # "NONE"
                      => plan[m].status # "NONE" /\ plan'[m].ctx = plan[m].ctx
                /\ inbox'[m] # 0 => plan'[m].status # "NONE"
    <3>1. inbox'[m] = 0 => plan'[m].status = "NONE" BY DEF FencingInv, RowsFollow
    <3>2. inbox[m] # 0 => plan[m].status # "NONE" BY DEF TimelineInv
    <3>3. PlanMove(plan[m], plan'[m]) OBVIOUS
    <3>4. QED BY <1>0, <3>1, <3>2, <3>3 DEF PlanMove
  <2>15. \A a, b \in ClientMsgs :
            plan'[a].status # "NONE" /\ plan'[b].status # "NONE" /\ inbox'[a] < inbox'[b]
               => plan'[a].ctx < plan'[b].ctx
    BY <1>0, <2>14 DEF TimelineInv, TimelineDense
  <2>16. TimelineDense' BY <2>12, <2>13, <2>15 DEF TimelineDense
  <2>17. ManagerOrder'
    <3>1. \A h \in Applied : /\ mgr'[h] = mgr[h] /\ mgr[h].seq <= conv.seq /\ mgr[h].seq \in Nat
                             /\ ProviderSeq[h] <= conv.hwm /\ ProviderSeq[h] \in Nat
      BY <1>0, <2>6, <2>8, NumbersBelow DEF TimelineInv, ManagerOrder, Applied
    <3>2. \A h \in Applied : mgr'[h].seq < k /\ ProviderSeq[h] < ProviderSeq[g]
      BY <1>0, <2>1, <2>7, <3>1
    <3>3. \A a, b \in Applied' : mgr'[a].seq < mgr'[b].seq => ProviderSeq[a] < ProviderSeq[b]
      <4> SUFFICES ASSUME NEW a \in Applied', NEW b \in Applied', mgr'[a].seq < mgr'[b].seq
                   PROVE  ProviderSeq[a] < ProviderSeq[b]
        OBVIOUS
      <4>1. CASE a \in Applied /\ b \in Applied
        BY <3>1, <4>1 DEF TimelineInv, ManagerOrder
      <4>2. CASE a \in Applied /\ b = g BY <3>2, <4>2
      <4>3. CASE a = g
        <5>1. mgr'[b].seq <= k /\ mgr'[b].seq \in Nat
          BY <2>3, <2>6, <2>8, <3>1, <3>2
        <5>2. QED BY <2>3, <2>6, <4>3, <5>1
      <4>4. QED BY <2>8, <4>1, <4>2, <4>3
    <3>4. \A a \in Applied' : ProviderSeq[a] <= conv'.hwm
      BY <2>1, <2>5, <2>8, <3>1, <3>2
    <3>5. \E a \in Applied' : ProviderSeq[a] = conv'.hwm BY <2>5, <2>8
    <3>6. QED BY <3>3, <3>4, <3>5 DEF ManagerOrder
  <2>18. ASSUME NEW m \in ClientMsgs, plan'[m].status # "NONE" PROVE plan'[m].ctx <= conv'.ctx
    <3>1. plan[m].ctx \in Nat BY DEF TypeOK, PlanType
    <3>2. QED BY <1>0, <2>5, <2>14, <2>18, <3>1 DEF TimelineInv
  <2>19. QED BY <2>13, <2>14, <2>16, <2>17, <2>18 DEF TimelineInv
<1>4. QED BY <1>1, <1>2, <1>3

\* Accepted client messages and manager messages apart, no step touches the
\* timeline.
LEMMA TimelineChangers ==
    ASSUME TypeOK, [Next]_vars,
           ~\E n \in ClientMsgs : AcceptInbound(n) /\ ~IsDuplicate(n),
           ~\E g \in ManagerMsgs : ManagerMessage(g)
    PROVE  UNCHANGED <<inbox, mgr>> /\ conv'.seq = conv.seq /\ conv'.hwm = conv.hwm
           /\ conv'.ctx = conv.ctx /\ conv'.epoch >= conv.epoch
<1>0. conv \in ConvType /\ conv.epoch \in Nat BY DEF TypeOK, ConvType
<1>1. UNCHANGED <<inbox, mgr>>
      /\ (\/ conv' = conv \/ ManagerTakeover
          \/ ExpireActiveHandoff \/ ExpirePausedHandoff)
  BY DEF Next, vars, AcceptInbound, ManagerTakeover, ExpireActiveHandoff, ExpirePausedHandoff,
         PlanClaim, PlanTask, PlanStale, PlanRaises, BookingPhase1, BookingRemote,
         BookingPhase2, PlanFail, DropPlanTask, OutClaim, OutTask, DropOutTask, Admit,
         AdmitRaises, OutFail, PrepareReclaimed, SinkAccepts, SinkRefuses, FailAdmitted,
         Deliver, EnqueueProjection, RepairProjection, DeadlinePasses, PlanDelayPasses,
         OutDelayPasses, PlanLeaseExpires, OutLeaseExpires
<1>2. CASE conv' = conv BY <1>0, <1>1, <1>2
<1>3. CASE ManagerTakeover /\ ~AlreadyTaken
  <2>1. PICK e : e = conv.epoch + 1 /\
          conv' = [conv EXCEPT !.ownership = "MANAGER", !.status = "HANDOFF",
                     !.hs = "HUMAN_ACTIVE", !.epoch = e, !.takeover = TRUE,
                     !.deadline = INFINITY, !.anchor = FALSE, !.active = NoMsg]
    BY <1>3 DEF ManagerTakeover
  <2>2. conv'.seq = conv.seq /\ conv'.hwm = conv.hwm /\ conv'.ctx = conv.ctx /\ conv'.epoch = e
    BY <1>0, <2>1 DEF ConvType
  <2>3. QED BY <1>0, <1>1, <2>1, <2>2
<1>4. CASE ManagerTakeover /\ AlreadyTaken BY <1>2, <1>4 DEF ManagerTakeover
<1>5. CASE ExpireActiveHandoff \/ ExpirePausedHandoff
  <2>1. (\E a : ReturnToBot(a)) \/ conv' = [conv EXCEPT !.quarantined = TRUE]
    BY <1>5 DEF ExpireActiveHandoff, ExpirePausedHandoff
  <2>2. conv'.seq = conv.seq /\ conv'.hwm = conv.hwm /\ conv'.ctx = conv.ctx
        /\ conv'.epoch = conv.epoch
    BY <1>0, <2>1 DEF ReturnToBot, ConvType
  <2>3. QED BY <1>0, <1>1, <2>2
<1>6. QED BY <1>1, <1>2, <1>3, <1>4, <1>5

LEMMA TimelineStep ==
    ASSUME TypeOK, FencingInv, FencingInv', TimelineInv, [Next]_vars PROVE TimelineInv'
<1>1. \A m \in ClientMsgs : PlanMove(plan[m], plan'[m]) BY PlanMoves
<1>2. CASE \E n \in ClientMsgs : AcceptInbound(n) /\ ~IsDuplicate(n)
  BY <1>2, AcceptTimeline
<1>3. CASE \E g \in ManagerMsgs : ManagerMessage(g)
  BY <1>1, <1>3, ManagerTimeline
<1>4. CASE /\ ~\E n \in ClientMsgs : AcceptInbound(n) /\ ~IsDuplicate(n)
           /\ ~\E g \in ManagerMsgs : ManagerMessage(g)
  <2>1. UNCHANGED <<inbox, mgr>> /\ conv'.seq = conv.seq /\ conv'.hwm = conv.hwm
        /\ conv'.ctx = conv.ctx
    BY <1>4, TimelineChangers
  <2>2. Applied' = Applied BY <2>1 DEF Applied
  <2>3. QED BY <1>1, <2>1, <2>2, TimelineFrame
<1>5. QED BY <1>2, <1>3, <1>4

LEMMA TimelineInit == Init => TimelineInv
<1> SUFFICES ASSUME Init PROVE TimelineInv OBVIOUS
<1>1. Numbered = {} /\ Applied = {} BY DEF Init, Numbered, Applied
<1>2. conv.seq = 0 /\ conv.hwm = 0 BY DEF Init
<1>3. IsFiniteSet(Numbered) /\ IsFiniteSet(Applied)
      /\ Cardinality(Numbered) = 0 /\ Cardinality(Applied) = 0
  BY <1>1, FS_EmptySet
<1>4. \A m \in ClientMsgs : plan[m].status = "NONE" /\ inbox[m] = 0 BY DEF Init, NoPlan
<1>5. {inbox[m] : m \in Numbered} \cup {mgr[g].seq : g \in Applied} = 1..conv.seq
  BY <1>1, <1>2
<1>6. Cardinality(Numbered) + Cardinality(Applied) = conv.seq BY <1>2, <1>3
<1>7. TimelineDense BY <1>4, <1>5, <1>6 DEF TimelineDense
<1>8. ManagerOrder BY <1>1, <1>2 DEF ManagerOrder
<1>9. QED BY <1>3, <1>4, <1>7, <1>8 DEF TimelineInv

\* A handoff is under way only after a manager has taken over once.
MirrorInv ==
    /\ MirrorExact
    /\ conv.hs # "BOT_ACTIVE" => conv.epoch > 0

\* The outbox stays exact when a step records exactly the facts it commits: the
\* jobs X for the messages that get a number, the plans that become DISPATCHED
\* or DEAD, the rows that become DELIVERED, and the first takeover.
LEMMA MirrorFrame ==
    ASSUME MirrorExact, NEW X, jobs' = jobs \cup X,
           \A m \in ClientMsgs :
              /\ inbox'[m] # 0 <=> inbox[m] # 0 \/ <<"CLIENT_MESSAGE", m>> \in X
              /\ plan'[m].status = "DISPATCHED"
                    <=> plan[m].status = "DISPATCHED" \/ <<"PLAN_DISPATCHED", m>> \in X
              /\ plan'[m].status = "DEAD" <=> plan[m].status = "DEAD" \/ <<"PLAN_DEAD", m>> \in X
              /\ outb'[m].status = "DELIVERED"
                    <=> outb[m].status = "DELIVERED" \/ <<"OUTBOUND_DELIVERED", m>> \in X
              /\ <<"BOT_PROJECTION", m>> \in X => outb'[m].status = "DELIVERED",
           conv'.epoch > 0 <=> conv.epoch > 0 \/ <<"MANAGER_TAKEOVER", NoMsg>> \in X
    PROVE  MirrorExact'
  BY DEF MirrorExact

\* Closing plans and cancelling rows makes nothing DISPATCHED, DEAD or DELIVERED.
LEMMA ClosedExact ==
    ASSUME TypeOK, NEW s \in {"CANCELLED", "SUPERSEDED"}, NEW m \in ClientMsgs
    PROVE  /\ CloseOpenPlans(s)[m].status = "DISPATCHED" <=> plan[m].status = "DISPATCHED"
           /\ CloseOpenPlans(s)[m].status = "DEAD" <=> plan[m].status = "DEAD"
           /\ CancelUnadmitted[m].status = "DELIVERED" <=> outb[m].status = "DELIVERED"
<1>1. plan[m] \in PlanType /\ outb[m] \in OutType BY DEF TypeOK
<1>2. QED BY <1>1 DEF CloseOpenPlans, OpenPlans, PlanTerminal, CancelUnadmitted, OutCancellable,
                      PlanType, OutType

\* A step that leaves the inbox, the conversation's epoch and the outbox alone.
LEMMA MirrorQuiet ==
    ASSUME MirrorExact, UNCHANGED <<inbox, jobs>>, conv'.epoch = conv.epoch,
           \A m \in ClientMsgs :
              /\ plan'[m].status = "DISPATCHED" <=> plan[m].status = "DISPATCHED"
              /\ plan'[m].status = "DEAD" <=> plan[m].status = "DEAD"
              /\ outb'[m].status = "DELIVERED" <=> outb[m].status = "DELIVERED"
    PROVE  MirrorExact'
  BY DEF MirrorExact

\* Messages: the inbox row and its jobs are written together, a takeover and
\* its job.
LEMMA MessagesMirror ==
    ASSUME TypeOK, FencingInv, MirrorInv,
           \/ \E n \in ClientMsgs : AcceptInbound(n)
           \/ \E g \in ManagerMsgs : ManagerMessage(g)
           \/ ManagerTakeover \/ ExpireActiveHandoff \/ ExpirePausedHandoff
    PROVE  MirrorInv'
<1> USE MessagesAssumption
<1>0. /\ conv \in ConvType /\ conv.epoch \in Nat /\ conv.seq \in Nat
      /\ MirrorExact /\ (conv.hs # "BOT_ACTIVE" => conv.epoch > 0)
  BY DEF TypeOK, ConvType, MirrorInv
<1>1. ASSUME NEW n \in ClientMsgs, AcceptInbound(n) PROVE MirrorInv'
  <2>1. CASE IsDuplicate(n)
    <3>1. UNCHANGED <<conv, inbox, plan, outb, jobs>> BY <1>1, <2>1 DEF AcceptInbound
    <3>2. QED BY <1>0, <3>1 DEF MirrorInv, MirrorExact
  <2>2. CASE ~IsDuplicate(n)
    <3> DEFINE bumped == Bumped(conv)
               paused == EnterOrContinuePause(bumped)
               X == {<<"CLIENT_MESSAGE", n>>, <<"CLIENT_PROJECTION", n>>}
    <3>1. AcceptNew(n) /\ plan[n].status = "NONE" /\ inbox[n] = 0
      BY <1>1, <2>2 DEF AcceptInbound, IsDuplicate, FencingInv, RowsFollow
    <3>2. /\ bumped \in ConvType /\ paused \in ConvType
          /\ bumped.seq = conv.seq + 1 /\ bumped.epoch = conv.epoch /\ bumped.hs = conv.hs
          /\ paused.epoch = conv.epoch /\ (paused.hs # "BOT_ACTIVE" => conv.hs # "BOT_ACTIVE")
      <4>1. bumped \in ConvType /\ paused \in ConvType
        BY BumpedType, EnterOrContinuePauseType DEF TypeOK
      <4>2. bumped.seq = conv.seq + 1 /\ bumped.epoch = conv.epoch /\ bumped.hs = conv.hs
        BY DEF Bumped, TypeOK, ConvType
      <4> HIDE DEF bumped
      <4>3. paused.epoch = bumped.epoch /\ (paused.hs # "BOT_ACTIVE" => bumped.hs # "BOT_ACTIVE")
        BY <4>1 DEF EnterOrContinuePause, ConvType
      <4>4. QED BY <4>1, <4>2, <4>3
    <3>3. /\ jobs' = jobs \cup X /\ inbox' = [inbox EXCEPT ![n] = bumped.seq]
          /\ outb' = CancelUnadmitted
      BY <3>1 DEF AcceptNew
    <3>4. \E c \in {bumped, paused}, a \in {n, NoMsg} : conv' = [c EXCEPT !.active = a]
      BY <3>1 DEF AcceptNew
    <3>5. \A m \in ClientMsgs : \/ plan'[m] = CloseOpenPlans("SUPERSEDED")[m]
                                \/ m = n /\ \E c, nb, d : plan'[m] = NewPlan(c, nb, d)
      <4>1. CloseOpenPlans("SUPERSEDED") \in [ClientMsgs -> PlanType]
        BY CloseOpenPlansType DEF TypeOK, PlanStatuses
      <4>2. \/ plan' = CloseOpenPlans("SUPERSEDED")
            \/ \E c, nb, d : plan' = [CloseOpenPlans("SUPERSEDED") EXCEPT ![n] = NewPlan(c, nb, d)]
        BY <3>1 DEF AcceptNew
      <4>3. QED BY <4>1, <4>2
    <3> HIDE DEF bumped, paused
    <3>6. conv'.epoch = conv.epoch /\ (conv'.hs # "BOT_ACTIVE" => conv.hs # "BOT_ACTIVE")
      BY <3>2, <3>4 DEF ConvType
    <3>7. ASSUME NEW m \in ClientMsgs
          PROVE  /\ inbox'[m] # 0 <=> inbox[m] # 0 \/ <<"CLIENT_MESSAGE", m>> \in X
                 /\ plan'[m].status = "DISPATCHED"
                       <=> plan[m].status = "DISPATCHED" \/ <<"PLAN_DISPATCHED", m>> \in X
                 /\ plan'[m].status = "DEAD" <=> plan[m].status = "DEAD" \/ <<"PLAN_DEAD", m>> \in X
                 /\ outb'[m].status = "DELIVERED"
                       <=> outb[m].status = "DELIVERED" \/ <<"OUTBOUND_DELIVERED", m>> \in X
                 /\ <<"BOT_PROJECTION", m>> \in X => outb'[m].status = "DELIVERED"
      <4>1. bumped.seq # 0 BY <1>0, <3>2
      <4>2. inbox'[m] # 0 <=> inbox[m] # 0 \/ m = n
        BY <3>3, <4>1 DEF TypeOK
      <4>3. (plan'[m].status = "DISPATCHED" <=> plan[m].status = "DISPATCHED")
            /\ (plan'[m].status = "DEAD" <=> plan[m].status = "DEAD")
        <5>1. CASE plan'[m] = CloseOpenPlans("SUPERSEDED")[m] BY <5>1, ClosedExact
        <5>2. CASE plan'[m] # CloseOpenPlans("SUPERSEDED")[m]
          <6>1. \A c, nb, d : NewPlan(c, nb, d).status = "PENDING" BY DEF NewPlan, NoPlan
          <6>2. m = n /\ plan'[m].status = "PENDING" BY <3>5, <5>2, <6>1
          <6>3. QED BY <3>1, <6>2
        <5>3. QED BY <5>1, <5>2
      <4>4. outb'[m].status = "DELIVERED" <=> outb[m].status = "DELIVERED"
        BY <3>3, ClosedExact
      <4>5. QED BY <4>2, <4>3, <4>4
    <3>8. <<"MANAGER_TAKEOVER", NoMsg>> \notin X OBVIOUS
    <3> HIDE DEF X
    <3>9. MirrorExact' BY <1>0, <3>3, <3>6, <3>7, <3>8, MirrorFrame
    <3>10. QED BY <1>0, <3>6, <3>9 DEF MirrorInv
  <2>3. QED BY <2>1, <2>2
<1>2. ASSUME NEW s \in {"CANCELLED"}, plan' = CloseOpenPlans(s), outb' = CancelUnadmitted,
             inbox' = inbox, conv'.epoch = conv.epoch + 1,
             \/ jobs' = jobs \cup TakeoverJob
             \/ conv.hs # "BOT_ACTIVE" /\ jobs' = jobs
      PROVE  MirrorInv'
  <2>1. \A m \in ClientMsgs :
           /\ plan'[m].status = "DISPATCHED" <=> plan[m].status = "DISPATCHED"
           /\ plan'[m].status = "DEAD" <=> plan[m].status = "DEAD"
           /\ outb'[m].status = "DELIVERED" <=> outb[m].status = "DELIVERED"
    BY <1>2, ClosedExact
  <2>2. conv'.epoch > 0 BY <1>0, <1>2
  <2>3. \A m \in ClientMsgs :
           /\ <<"CLIENT_MESSAGE", m>> \notin TakeoverJob /\ <<"PLAN_DISPATCHED", m>> \notin TakeoverJob
           /\ <<"PLAN_DEAD", m>> \notin TakeoverJob /\ <<"OUTBOUND_DELIVERED", m>> \notin TakeoverJob
           /\ <<"BOT_PROJECTION", m>> \notin TakeoverJob
    BY DEF TakeoverJob
  <2>4. <<"MANAGER_TAKEOVER", NoMsg>> \in TakeoverJob BY DEF TakeoverJob
  <2>5. MirrorExact'
    <3>1. CASE jobs' = jobs \cup TakeoverJob
      BY <1>0, <1>2, <2>1, <2>2, <2>3, <2>4, <3>1, MirrorFrame
    <3>2. CASE conv.hs # "BOT_ACTIVE" /\ jobs' = jobs
      <4>1. conv.epoch > 0 BY <1>0, <3>2
      <4>2. QED BY <1>0, <1>2, <2>1, <2>2, <3>2, <4>1 DEF MirrorExact
    <3>3. QED BY <1>2, <3>1, <3>2
  <2>6. QED BY <2>2, <2>5 DEF MirrorInv
<1>3. ASSUME NEW g \in ManagerMsgs, ManagerMessage(g) PROVE MirrorInv'
  <2> DEFINE numbered == [conv EXCEPT !.seq = conv.seq + 1]
  <2>1. CASE UNCHANGED <<conv, plan, outb, jobs>>
    <3>1. inbox' = inbox BY <1>3 DEF ManagerMessage
    <3>2. QED BY <1>0, <2>1, <3>1 DEF MirrorInv, MirrorExact
  <2>2. CASE /\ conv' = ManagerApplied(numbered, ProviderSeq[g])
             /\ plan' = CloseOpenPlans("CANCELLED") /\ outb' = CancelUnadmitted
             /\ jobs' = IF conv.hs = "BOT_ACTIVE" THEN jobs \cup TakeoverJob ELSE jobs
    <3>1. numbered.epoch = conv.epoch BY <1>0 DEF ConvType
    <3>2. conv'.epoch = numbered.epoch + 1 BY <1>0, <2>2 DEF ManagerApplied, ConvType
    <3>3. inbox' = inbox BY <1>3 DEF ManagerMessage
    <3> HIDE DEF numbered
    <3>4. QED BY <1>2, <2>2, <3>1, <3>2, <3>3
  <2>3. QED BY <1>3, <2>1, <2>2 DEF ManagerMessage
<1>4. ASSUME ManagerTakeover PROVE MirrorInv'
  <2>1. CASE AlreadyTaken
    <3>1. /\ UNCHANGED <<conv, outb, jobs, inbox>> /\ plan' = CloseOpenPlans("CANCELLED")
      BY <1>4, <2>1 DEF ManagerTakeover
    <3>2. \A m \in ClientMsgs :
             /\ plan'[m].status = "DISPATCHED" <=> plan[m].status = "DISPATCHED"
             /\ plan'[m].status = "DEAD" <=> plan[m].status = "DEAD"
      BY <3>1, ClosedExact
    <3>3. MirrorExact' BY <1>0, <3>1, <3>2, MirrorQuiet
    <3>4. QED BY <1>0, <3>1, <3>3 DEF MirrorInv
  <2>2. CASE ~AlreadyTaken
    <3>1. /\ plan' = CloseOpenPlans("CANCELLED") /\ outb' = CancelUnadmitted
          /\ jobs' = jobs \cup TakeoverJob /\ inbox' = inbox
      BY <1>4, <2>2 DEF ManagerTakeover
    <3>2. PICK e : e = conv.epoch + 1 /\
            conv' = [conv EXCEPT !.ownership = "MANAGER", !.status = "HANDOFF",
                       !.hs = "HUMAN_ACTIVE", !.epoch = e, !.takeover = TRUE,
                       !.deadline = INFINITY, !.anchor = FALSE, !.active = NoMsg]
      BY <1>4, <2>2 DEF ManagerTakeover
    <3>3. conv'.epoch = e BY <1>0, <3>2 DEF ConvType
    <3>4. QED BY <1>2, <3>1, <3>2, <3>3
  <2>3. QED BY <2>1, <2>2
<1>5. ASSUME NEW a, ReturnToBot(a) PROVE conv'.epoch = conv.epoch /\ conv'.hs = "BOT_ACTIVE"
  BY <1>0, <1>5 DEF ReturnToBot, ConvType
<1>6. CASE ExpireActiveHandoff
  <2>1. /\ plan' = CloseOpenPlans("CANCELLED") /\ outb' = CancelUnadmitted
        /\ UNCHANGED <<inbox, jobs>> /\ conv'.epoch = conv.epoch /\ conv'.hs = "BOT_ACTIVE"
    BY <1>5, <1>6 DEF ExpireActiveHandoff
  <2>2. \A m \in ClientMsgs :
           /\ plan'[m].status = "DISPATCHED" <=> plan[m].status = "DISPATCHED"
           /\ plan'[m].status = "DEAD" <=> plan[m].status = "DEAD"
           /\ outb'[m].status = "DELIVERED" <=> outb[m].status = "DELIVERED"
    BY <2>1, ClosedExact
  <2>3. MirrorExact' BY <1>0, <2>1, <2>2, MirrorQuiet
  <2>4. QED BY <2>1, <2>3 DEF MirrorInv
<1>7. CASE ExpirePausedHandoff
  <2>1. UNCHANGED <<inbox, plan, outb, jobs>> BY <1>7 DEF ExpirePausedHandoff
  <2>2. ReturnToBot(conv.active) \/ conv' = [conv EXCEPT !.quarantined = TRUE]
    BY <1>7 DEF ExpirePausedHandoff
  <2>3. conv'.epoch = conv.epoch /\ conv'.hs \in {"BOT_ACTIVE", conv.hs}
    BY <1>0, <1>5, <2>2 DEF ConvType
  <2>4. MirrorExact' BY <1>0, <2>1, <2>3, MirrorQuiet
  <2>5. QED BY <1>0, <2>3, <2>4 DEF MirrorInv
<1>8. QED BY <1>1, <1>3, <1>4, <1>6, <1>7

\* The reply-plan worker: a plan becomes DISPATCHED or DEAD together with its job.
LEMMA PlanWorkerMirror ==
    ASSUME TypeOK, FencingInv, MirrorInv, NEW w \in Workers, PlanClaim(w) \/ PlanTask(w)
    PROVE  MirrorInv'
<1> USE MessagesAssumption
<1> DEFINE m == pw[w].m
<1>0. MirrorExact /\ \A n \in ClientMsgs : plan[n] \in PlanType BY DEF MirrorInv, TypeOK
<1>1. ASSUME MirrorExact', conv' = conv PROVE MirrorInv' BY <1>1 DEF MirrorInv
<1>2. CASE PlanClaim(w)
  <2>1. PICK r \in ClientMsgs \cup {NoMsg}, c \in ClientMsgs \cup {NoMsg} :
          /\ r # NoMsg => r \in ExhaustedPlans
          /\ c # NoMsg => Claimable(c)
          /\ ClaimPlan(w, r, c)
    BY <1>2, PlanClaimPicks
  <2>2. UNCHANGED <<conv, inbox, outb>> /\ jobs' = jobs \cup RecoveryJob(r)
    BY <1>2, <2>1 DEF PlanClaim, ClaimPlan
  <2>3. ASSUME NEW n \in ClientMsgs
        PROVE  /\ plan'[n].status = "DISPATCHED" <=> plan[n].status = "DISPATCHED"
               /\ plan'[n].status = "DEAD" <=> plan[n].status = "DEAD" \/ n = r
    <3>1. n = c => plan[n].status \notin {"DISPATCHED", "DEAD"} BY <2>1 DEF Claimable, Readied
    <3>2. n = r => plan[n].status = "PROCESSING" BY <2>1 DEF ExhaustedPlans
    <3>3. QED BY <1>0, <2>1, <3>1, <3>2 DEF ClaimPlan, Readied, PlanType
  <2>4. /\ <<"MANAGER_TAKEOVER", NoMsg>> \notin RecoveryJob(r)
        /\ \A n \in ClientMsgs :
             /\ <<"PLAN_DEAD", n>> \in RecoveryJob(r) <=> n = r
             /\ <<"CLIENT_MESSAGE", n>> \notin RecoveryJob(r)
             /\ <<"PLAN_DISPATCHED", n>> \notin RecoveryJob(r)
             /\ <<"OUTBOUND_DELIVERED", n>> \notin RecoveryJob(r)
             /\ <<"BOT_PROJECTION", n>> \notin RecoveryJob(r)
    BY DEF RecoveryJob
  <2>5. MirrorExact' BY <1>0, <2>2, <2>3, <2>4, MirrorFrame
  <2>6. QED BY <1>1, <2>2, <2>5
<1>3. CASE PlanStale(w) \/ PlanRaises(w) \/ BookingRemote(w)
  <2>1. UNCHANGED <<conv, inbox, plan, outb, jobs>>
    BY <1>3 DEF PlanStale, PlanRaises, BookingRemote
  <2>2. QED BY <1>0, <1>1, <2>1 DEF MirrorExact
<1>4. ASSUME NEW X, jobs' = jobs \cup X, NEW p, plan' = [plan EXCEPT ![m] = p],
             UNCHANGED <<conv, inbox>>, m \in ClientMsgs, plan[m].status = "PROCESSING",
             \A n \in ClientMsgs : outb'[n].status = "DELIVERED" <=> outb[n].status = "DELIVERED",
             \/ p.status = "DISPATCHED" /\ X = {<<"PLAN_DISPATCHED", m>>}
             \/ p.status = "DEAD" /\ X = {<<"PLAN_DEAD", m>>}
             \/ p.status \notin {"DISPATCHED", "DEAD"} /\ X = {}
      PROVE  MirrorInv'
  <2>1. plan'[m] = p /\ \A n \in ClientMsgs \ {m} : plan'[n] = plan[n] BY <1>4 DEF TypeOK
  <2>2. ASSUME NEW n \in ClientMsgs
        PROVE  /\ plan'[n].status = "DISPATCHED"
                     <=> plan[n].status = "DISPATCHED" \/ <<"PLAN_DISPATCHED", n>> \in X
               /\ plan'[n].status = "DEAD" <=> plan[n].status = "DEAD" \/ <<"PLAN_DEAD", n>> \in X
    <3>1. CASE n = m BY <1>4, <2>1, <3>1
    <3>2. CASE n # m BY <1>4, <2>1, <3>2
    <3>3. QED BY <3>1, <3>2
  <2>3. /\ <<"MANAGER_TAKEOVER", NoMsg>> \notin X
        /\ \A n \in ClientMsgs :
             /\ <<"CLIENT_MESSAGE", n>> \notin X /\ <<"OUTBOUND_DELIVERED", n>> \notin X
             /\ <<"BOT_PROJECTION", n>> \notin X
    BY <1>4
  <2>4. MirrorExact' BY <1>0, <1>4, <2>2, <2>3, MirrorFrame
  <2>5. QED BY <1>1, <1>4, <2>4
<1>5. CASE BookingPhase1(w)
  <2>1. /\ m \in ClientMsgs /\ plan[m].status = "PROCESSING" /\ outb[m].status = "NONE"
        /\ UNCHANGED <<conv, inbox, outb>>
    BY <1>5 DEF BookingPhase1, TypeOK, PlanValid, OwnsPlan, FencingInv, RowsFollow
  <2>2. jobs' = jobs \cup {} /\ (plan' = plan \/ plan' = [plan EXCEPT ![m] = MarkStarted(plan[m])])
    BY <1>5, <2>1 DEF BookingPhase1
  <2>3. plan' = [plan EXCEPT ![m] = plan[m]] \/ plan' = [plan EXCEPT ![m] = MarkStarted(plan[m])]
    BY <2>1, <2>2 DEF TypeOK
  <2>4. MarkStarted(plan[m]).status = "PROCESSING" BY <1>0, <2>1 DEF MarkStarted, PlanType
  <2>5. QED BY <1>4, <2>1, <2>2, <2>3, <2>4
<1>6. CASE BookingPhase2(w)
  <2>1. /\ m \in ClientMsgs /\ plan[m].status = "PROCESSING" /\ outb[m].status = "NONE"
        /\ UNCHANGED <<conv, inbox>> /\ jobs' = jobs \cup {<<"PLAN_DISPATCHED", m>>}
    BY <1>6 DEF BookingPhase2, TypeOK, PlanValid, OwnsPlan, FencingInv, RowsFollow
  <2>2. PICK x : /\ plan' = [plan EXCEPT ![m] = [Dispatched(plan[m]) EXCEPT !.res = x]]
                 /\ outb' = [outb EXCEPT ![m] = [NoOut EXCEPT !.status = "PENDING", !.body = x]]
    BY <1>6, <2>1 DEF BookingPhase2
  <2>3. /\ [Dispatched(plan[m]) EXCEPT !.res = x].status = "DISPATCHED"
        /\ [NoOut EXCEPT !.status = "PENDING", !.body = x].status = "PENDING"
    BY <1>0, <2>1 DEF Dispatched, PlanType, NoOut
  <2>4. \A n \in ClientMsgs : outb'[n].status = "DELIVERED" <=> outb[n].status = "DELIVERED"
    BY <2>1, <2>2, <2>3 DEF TypeOK
  <2>5. QED BY <1>4, <2>1, <2>2, <2>3, <2>4
<1>7. CASE PlanFail(w)
  <2>1. m \in ClientMsgs /\ UNCHANGED <<conv, inbox, outb>> BY <1>7 DEF PlanFail, TypeOK
  <2>2. CASE ~OwnsPlan(pw[w])
    <3>1. UNCHANGED <<plan, jobs>> BY <1>7, <2>2 DEF PlanFail
    <3>2. QED BY <1>0, <1>1, <2>1, <3>1 DEF MirrorExact
  <2>3. CASE OwnsPlan(pw[w])
    <3>1. plan[m].status = "PROCESSING" BY <2>3 DEF OwnsPlan
    <3>2. \A s, nb : [plan[m] EXCEPT !.status = s, !.nb = nb, !.lease = "none"].status = s
      BY <1>0, <2>1 DEF PlanType
    <3>3. \/ /\ \E nb : plan' = [plan EXCEPT ![m] =
                            [plan[m] EXCEPT !.status = "DEAD", !.nb = nb, !.lease = "none"]]
             /\ jobs' = jobs \cup {<<"PLAN_DEAD", m>>}
          \/ /\ \E nb : plan' = [plan EXCEPT ![m] =
                            [plan[m] EXCEPT !.status = "FAILED", !.nb = nb, !.lease = "none"]]
             /\ jobs' = jobs \cup {}
      BY <1>7, <2>3 DEF PlanFail
    <3>4. \/ \E p : /\ p.status = "DEAD" /\ plan' = [plan EXCEPT ![m] = p]
                    /\ jobs' = jobs \cup {<<"PLAN_DEAD", m>>}
          \/ \E p : /\ p.status = "FAILED" /\ plan' = [plan EXCEPT ![m] = p]
                    /\ jobs' = jobs \cup {}
      BY <3>2, <3>3
    <3>5. QED BY <1>4, <2>1, <3>1, <3>4
  <2>4. QED BY <2>2, <2>3
<1>8. QED BY <1>2, <1>3, <1>5, <1>6, <1>7 DEF PlanTask

\* The outbound worker: a row becomes DELIVERED together with its job, and only
\* a delivered row is projected.
LEMMA OutWorkerMirror ==
    ASSUME TypeOK, SinkInv, MirrorInv, [Next]_vars, NEW w \in Workers, OutClaim(w) \/ OutTask(w)
    PROVE  MirrorInv'
<1> USE MessagesAssumption
<1> DEFINE m == ow[w].m
<1>0. MirrorExact BY DEF MirrorInv
<1>1. UNCHANGED <<conv, inbox, plan>>
  BY DEF OutClaim, OutTask, Admit, AdmitRaises, OutFail, PrepareReclaimed, SinkAccepts,
         SinkRefuses, FailAdmitted, Deliver, EnqueueProjection
<1>2. SUFFICES MirrorExact' BY <1>1 DEF MirrorInv
<1>3. CASE ~Deliver(w) /\ ~EnqueueProjection(w)
  <2>1. jobs' = jobs
    BY <1>3 DEF OutClaim, OutTask, Admit, AdmitRaises, OutFail, PrepareReclaimed, SinkAccepts,
                SinkRefuses, FailAdmitted
  <2>2. ASSUME NEW v \in Workers, Deliver(v), NEW n \in ClientMsgs,
               outb[n].status # "DELIVERED", outb'[n].status = "DELIVERED",
               OwnsOut(ow[v], "ADMITTED"), OfferBinds(n), ow[v].m = n
        PROVE  FALSE
    <3>1. jobs' = jobs \cup {<<"OUTBOUND_DELIVERED", n>>} BY <2>2 DEF Deliver
    <3>2. <<"OUTBOUND_DELIVERED", n>> \notin jobs BY <1>0, <2>2 DEF MirrorExact
    <3>3. QED BY <2>1, <3>1, <3>2
  <2>3. \A n \in ClientMsgs : outb'[n].status = "DELIVERED" <=> outb[n].status = "DELIVERED"
    BY <2>2, AdmittedStays, OnlyDeliverDelivers
  <2>4. QED BY <1>0, <1>1, <2>1, <2>3, MirrorQuiet
<1>4. CASE Deliver(w)
  <2>1. m \in ClientMsgs BY <1>4 DEF Deliver, TypeOK
  <2>2. CASE UNCHANGED <<outb, jobs>> BY <1>0, <1>1, <2>2, MirrorQuiet
  <2>3. CASE /\ outb' = [outb EXCEPT ![m] = [@ EXCEPT !.status = "DELIVERED", !.lease = "none"]]
             /\ jobs' = jobs \cup {<<"OUTBOUND_DELIVERED", m>>}
    <3>1. [outb[m] EXCEPT !.status = "DELIVERED", !.lease = "none"].status = "DELIVERED"
      BY <2>1 DEF TypeOK, OutType
    <3>2. outb'[m].status = "DELIVERED" /\ \A n \in ClientMsgs \ {m} : outb'[n] = outb[n]
      BY <2>1, <2>3, <3>1 DEF TypeOK
    <3> DEFINE X == {<<"OUTBOUND_DELIVERED", m>>}
    <3>3. /\ <<"MANAGER_TAKEOVER", NoMsg>> \notin X
          /\ \A n \in ClientMsgs :
               /\ <<"OUTBOUND_DELIVERED", n>> \in X <=> n = m
               /\ <<"CLIENT_MESSAGE", n>> \notin X /\ <<"PLAN_DISPATCHED", n>> \notin X
               /\ <<"PLAN_DEAD", n>> \notin X /\ <<"BOT_PROJECTION", n>> \notin X
      OBVIOUS
    <3>4. jobs' = jobs \cup X BY <2>3
    <3> HIDE DEF X
    <3>5. QED BY <1>0, <1>1, <3>2, <3>3, <3>4, MirrorFrame
  <2>4. QED BY <1>4, <2>2, <2>3 DEF Deliver
<1>5. CASE EnqueueProjection(w)
  <2>1. m \in ClientMsgs /\ outb' = outb /\ outb[m].status = "DELIVERED"
        /\ (jobs' = jobs \/ jobs' = jobs \cup {<<"BOT_PROJECTION", m>>})
    BY <1>5 DEF EnqueueProjection, TypeOK, SinkInv, SinkTasks
  <2>2. QED BY <1>0, <1>1, <2>1 DEF MirrorExact
<1>6. QED BY <1>3, <1>4, <1>5

LEMMA MirrorStep ==
    ASSUME TypeOK, FencingInv, SinkInv, MirrorInv, [Next]_vars PROVE MirrorInv'
<1>0. MirrorExact /\ (\A n \in ClientMsgs : plan[n] \in PlanType /\ outb[n] \in OutType)
  BY DEF MirrorInv, TypeOK
<1>1. ASSUME NEW m \in ClientMsgs, RepairProjection(m) PROVE MirrorInv'
  <2>1. /\ outb[m].status = "DELIVERED" /\ jobs' = jobs \cup {<<"BOT_PROJECTION", m>>}
        /\ UNCHANGED <<conv, inbox, plan, outb>>
    BY <1>1 DEF RepairProjection
  <2>2. MirrorExact' BY <1>0, <2>1 DEF MirrorExact
  <2>3. QED BY <2>1, <2>2 DEF MirrorInv
<1>2. ASSUME NEW m \in ClientMsgs, \/ PlanDelayPasses(m) \/ OutDelayPasses(m)
                                   \/ PlanLeaseExpires(m) \/ OutLeaseExpires(m)
      PROVE  MirrorInv'
  <2>1. UNCHANGED <<conv, inbox, jobs>>
    BY <1>2 DEF PlanDelayPasses, OutDelayPasses, PlanLeaseExpires, OutLeaseExpires
  <2>2. \/ plan' = plan \/ plan' = [plan EXCEPT ![m].nb = PAST]
        \/ plan' = [plan EXCEPT ![m].lease = "expired"]
    BY <1>2 DEF PlanDelayPasses, OutDelayPasses, PlanLeaseExpires, OutLeaseExpires
  <2>3. \/ outb' = outb \/ outb' = [outb EXCEPT ![m].nb = PAST]
        \/ outb' = [outb EXCEPT ![m].lease = "expired"]
    BY <1>2 DEF PlanDelayPasses, OutDelayPasses, PlanLeaseExpires, OutLeaseExpires
  <2>4. \A n \in ClientMsgs : plan'[n].status = plan[n].status
    <3>1. /\ [plan[m] EXCEPT !.nb = PAST].status = plan[m].status
          /\ [plan[m] EXCEPT !.lease = "expired"].status = plan[m].status
      BY <1>0 DEF PlanType
    <3>2. plan' = plan \/ \E p : p.status = plan[m].status /\ plan' = [plan EXCEPT ![m] = p]
      BY <2>2, <3>1
    <3>3. QED BY <3>2 DEF TypeOK
  <2>5. \A n \in ClientMsgs : outb'[n].status = outb[n].status
    BY <1>0, <2>3 DEF TypeOK, OutType
  <2>6. MirrorExact' BY <1>0, <2>1, <2>4, <2>5, MirrorQuiet
  <2>7. QED BY <2>1, <2>6 DEF MirrorInv
<1>3. CASE \/ \E w \in Workers : DropPlanTask(w) \/ DropOutTask(w)
           \/ DeadlinePasses \/ UNCHANGED vars
  <2>1. UNCHANGED <<conv, inbox, plan, outb, jobs>>
    BY <1>3 DEF DropPlanTask, DropOutTask, DeadlinePasses, vars
  <2>2. QED BY <2>1 DEF MirrorInv, MirrorExact
<1>4. QED
  BY <1>1, <1>2, <1>3, MessagesMirror, PlanWorkerMirror, OutWorkerMirror DEF Next

LEMMA MirrorInit == Init => MirrorInv
<1> SUFFICES ASSUME Init PROVE MirrorInv OBVIOUS
<1>1. \A m \in ClientMsgs : /\ plan[m].status = "NONE" /\ outb[m].status = "NONE"
                            /\ inbox[m] = 0
  BY DEF Init, NoPlan, NoOut
<1>2. jobs = {} /\ conv.epoch = 0 /\ conv.hs = "BOT_ACTIVE" BY DEF Init
<1>3. QED BY <1>1, <1>2 DEF MirrorInv, MirrorExact

\* What the dialog leaves behind is exact: one mirror job per committed fact, a
\* timeline without gap or repetition, managers in the provider's order.
THEOREM RecordExactCorrect == Spec => []RecordExact
<1>1. TypeOK /\ FencingInv /\ [Next]_vars => FencingInv' BY FencingStep
<1>2. TypeOK /\ FencingInv /\ SinkInv /\ [Next]_vars => SinkInv' BY SinkStep
<1>3. TypeOK /\ FencingInv /\ FencingInv' /\ TimelineInv /\ [Next]_vars => TimelineInv'
  BY TimelineStep
<1>4. TypeOK /\ FencingInv /\ SinkInv /\ MirrorInv /\ [Next]_vars => MirrorInv'
  BY MirrorStep
<1>5. TimelineInv /\ MirrorInv => RecordExact BY DEF TimelineInv, MirrorInv, RecordExact
<1>6. QED
  BY <1>1, <1>2, <1>3, <1>4, <1>5, TypeCorrect, FencingInit, SinkInit, TimelineInit,
     MirrorInit, PTL DEF Spec

-----------------------------------------------------------------------------
(* The active offer *)

\* The active offer changes by a new client message or by a delivery.
LEMMA OfferChangers ==
    ASSUME [Next]_vars, offer' # offer
    PROVE  offer' = NoMsg \/ \E w \in Workers : Deliver(w)
  BY DEF Next, vars, AcceptInbound, AcceptNew, ManagerMessage, ManagerTakeover,
         ExpireActiveHandoff, ExpirePausedHandoff, PlanClaim, PlanTask, PlanStale, PlanRaises,
         BookingPhase1, BookingRemote, BookingPhase2, PlanFail, DropPlanTask, OutClaim,
         OutTask, DropOutTask, Admit, AdmitRaises, OutFail, PrepareReclaimed, SinkAccepts,
         SinkRefuses, FailAdmitted, EnqueueProjection, RepairProjection, DeadlinePasses,
         PlanDelayPasses, PlanLeaseExpires, OutDelayPasses, OutLeaseExpires

LEMMA OfferStep ==
    ASSUME TypeOK, BookingInv, OfferProvenance, [Next]_vars
    PROVE  /\ OfferProvenance'
           /\ offer # NoMsg /\ offer' # NoMsg /\ offer' # offer => Older(offer, offer')
<1> USE MessagesAssumption
<1>0. ASSUME NEW m \in ClientMsgs, outb[m].status = "DELIVERED"
      PROVE  outb'[m].status = "DELIVERED" /\ outb'[m].body = outb[m].body
  <2>1. OutMove(outb[m], outb'[m]) BY OutMoves
  <2>2. QED BY <1>0, <2>1, AdmittedStays DEF OutMove
<1>1. ASSUME NEW m \in ClientMsgs, outb'[m].status = "DELIVERED"
      PROVE  outb'[m].body \in {"OFFER_SLOTS", "NO_OFFER", "INTERRUPTED"}
  <2>1. CASE outb[m].status = "DELIVERED"
    BY <1>0, <2>1 DEF OfferProvenance
  <2>2. CASE outb[m].status # "DELIVERED"
    <3>1. PICK w \in Workers : Deliver(w) /\ ow[w].m = m /\ OwnsOut(ow[w], "ADMITTED")
                               /\ OfferBinds(m)
      BY <1>1, <2>2, OnlyDeliverDelivers
    <3>2. outb[m].status = "ADMITTED" BY <3>1 DEF OwnsOut
    <3>3. /\ outb[m].body \in Resolutions
          /\ outb[m].body \notin {"none", "started", "OFFER_UNPARSABLE"}
      BY <3>1, <3>2 DEF TypeOK, OutType, BookingInv, HasResult, OfferBinds
    <3>4. OutMove(outb[m], outb'[m]) BY OutMoves
    <3>5. outb'[m].body = outb[m].body BY <3>2, <3>4 DEF OutMove
    <3>6. QED BY <3>3, <3>5 DEF Resolutions, BookingResults
  <2>3. QED BY <2>1, <2>2
<1>2. CASE offer' = offer \/ offer' = NoMsg
  <2>1. offer' # NoMsg => offer' \in ClientMsgs /\ offer' = offer BY <1>2 DEF TypeOK
  <2>2. offer' # NoMsg => outb'[offer'].status = "DELIVERED" /\ outb'[offer'].body = "OFFER_SLOTS"
    BY <1>0, <2>1 DEF OfferProvenance
  <2>3. QED BY <1>1, <1>2, <2>2 DEF OfferProvenance
<1>3. CASE offer' # offer /\ offer' # NoMsg
  <2>1. PICK w \in Workers : Deliver(w) BY <1>3, OfferChangers
  <2> DEFINE m == ow[w].m
  <2>2. m \in ClientMsgs BY <2>1 DEF Deliver, TypeOK
  <2>3. /\ offer' = Activated(m)
        /\ outb' = [outb EXCEPT ![m] = [outb[m] EXCEPT !.status = "DELIVERED", !.lease = "none"]]
    BY <1>3, <2>1 DEF Deliver
  <2>4. offer' = m /\ outb[m].body = "OFFER_SLOTS" /\ (offer = NoMsg \/ Older(offer, m))
    BY <1>3, <2>3 DEF Activated
  <2>5. /\ [outb[m] EXCEPT !.status = "DELIVERED", !.lease = "none"].status = "DELIVERED"
        /\ [outb[m] EXCEPT !.status = "DELIVERED", !.lease = "none"].body = outb[m].body
    BY <2>2 DEF TypeOK, OutType
  <2>6. outb'[m].status = "DELIVERED" /\ outb'[m].body = "OFFER_SLOTS"
    BY <2>2, <2>3, <2>4, <2>5 DEF TypeOK
  <2>7. OfferProvenance' BY <1>1, <2>4, <2>6 DEF OfferProvenance
  <2>8. QED BY <2>4, <2>7
<1>4. QED BY <1>2, <1>3

\* The active offer is a delivered OFFER_SLOTS reply, and one offer replaces
\* another only if it was computed from a later state of the dialog, in whatever
\* order the deliveries commit.
THEOREM OfferTracksDeliveryCorrect == Spec => OfferTracksDelivery
<1> DEFINE Advances == offer # NoMsg /\ offer' # NoMsg /\ offer' # offer => Older(offer, offer')
<1>1. TypeOK /\ FencingInv /\ [Next]_vars => FencingInv' BY FencingStep
<1>2. TypeOK /\ FencingInv /\ BookingInv /\ [Next]_vars => BookingInv' BY BookingStep
<1>3. TypeOK /\ BookingInv /\ OfferProvenance /\ [Next]_vars => OfferProvenance' /\ [Advances]_vars
  BY OfferStep
<1>4. Init => OfferProvenance
  <2> SUFFICES ASSUME Init PROVE OfferProvenance OBVIOUS
  <2>1. \A m \in ClientMsgs : outb[m].status = "NONE" BY DEF Init, NoOut
  <2>2. QED BY <2>1 DEF Init, OfferProvenance
<1>5. QED
  BY <1>1, <1>2, <1>3, <1>4, TypeCorrect, FencingInit, BookingInit, PTL
     DEF Spec, OfferTracksDelivery, OfferOnlyAdvances

-----------------------------------------------------------------------------
(* The dialog keeps the promise of ReplyPromise                             *)

\* Every accepted message got a plan: no consistent state of the handoff leaves it without.
Answered == \A m \in ClientMsgs : inbox[m] # 0 => plan[m].status # "NONE"

ReplyInv == TypeOK /\ FencingInv /\ SinkInv /\ Answered

\* What accepting a new message does to the rows.
LEMMA AcceptRows ==
    ASSUME TypeOK, FencingInv, NEW m \in ClientMsgs, AcceptInbound(m), ~IsDuplicate(m)
    PROVE  /\ plan'[m].status = "PENDING"
           /\ \A n \in ClientMsgs : n # m => plan'[n] = CloseOpenPlans("SUPERSEDED")[n]
           /\ outb' = CancelUnadmitted /\ conv'.ownership = conv.ownership
           /\ inbox'[m] # 0 /\ \A n \in ClientMsgs : n # m => inbox'[n] = inbox[n]
           /\ UNCHANGED <<ow, sunk>>
<1> DEFINE bumped == Bumped(conv)
           paused == EnterOrContinuePause(bumped)
<1>1. AcceptNew(m) /\ UNCHANGED <<ow, sunk>> BY DEF AcceptInbound
<1>2. conv \in ConvType /\ bumped \in ConvType /\ paused \in ConvType
  BY BumpedType, EnterOrContinuePauseType DEF TypeOK
<1>3. bumped.seq = conv.seq + 1 /\ bumped.ownership = conv.ownership BY <1>2 DEF Bumped, ConvType
<1>4. paused.ownership = conv.ownership BY <1>2, <1>3 DEF EnterOrContinuePause, ConvType
<1>5. inbox'[m] # 0 /\ \A n \in ClientMsgs : n # m => inbox'[n] = inbox[n]
  <2>1. inbox' = [inbox EXCEPT ![m] = bumped.seq] BY <1>1 DEF AcceptNew
  <2>2. bumped.seq # 0 BY <1>2, <1>3 DEF ConvType
  <2> HIDE DEF bumped
  <2>3. QED BY <2>1, <2>2 DEF TypeOK
<1>6. \A c, nb, d : NewPlan(c, nb, d).status = "PENDING" BY DEF NewPlan, NoPlan
<1>7. \/ AllowsAutomaticReply
      \/ conv.status = "HANDOFF" /\ conv.hs \in {"HUMAN_ACTIVE", "HUMAN_PAUSE"}
  BY DEF FencingInv, HandoffConsistent, AllowsAutomaticReply
<1>8. /\ \E p : p.status = "PENDING" /\ plan' = [CloseOpenPlans("SUPERSEDED") EXCEPT ![m] = p]
      /\ conv' = [bumped EXCEPT !.active = m] \/ conv' = [paused EXCEPT !.active = m]
      /\ outb' = CancelUnadmitted
  BY <1>1, <1>6, <1>7 DEF AcceptNew
<1>9. conv'.ownership = conv.ownership
  <2> HIDE DEF bumped, paused
  <2>1. QED BY <1>2, <1>3, <1>4, <1>8 DEF ConvType
<1>10. plan'[m].status = "PENDING" /\ \A n \in ClientMsgs : n # m => plan'[n] = CloseOpenPlans("SUPERSEDED")[n]
  BY <1>8 DEF CloseOpenPlans
<1>11. QED BY <1>1, <1>5, <1>8, <1>9, <1>10

LEMMA InboxChangers ==
    ASSUME [Next]_vars
    PROVE  inbox' = inbox \/ \E n \in ClientMsgs : AcceptInbound(n) /\ ~IsDuplicate(n)
  BY DEF Next, vars, AcceptInbound, ManagerMessage, ManagerTakeover,
         ExpireActiveHandoff, ExpirePausedHandoff, PlanClaim, PlanTask, PlanStale, PlanRaises,
         BookingPhase1, BookingRemote, BookingPhase2, PlanFail, DropPlanTask, OutClaim,
         OutTask, DropOutTask, Admit, AdmitRaises, OutFail, PrepareReclaimed, SinkAccepts, SinkRefuses,
         FailAdmitted, Deliver, EnqueueProjection, RepairProjection, DeadlinePasses,
         PlanDelayPasses, PlanLeaseExpires, OutDelayPasses, OutLeaseExpires

LEMMA AnsweredStep ==
    ASSUME TypeOK, FencingInv, Answered, [Next]_vars
    PROVE  Answered'
<1> SUFFICES ASSUME NEW m \in ClientMsgs, inbox'[m] # 0 PROVE plan'[m].status # "NONE"
  BY DEF Answered
<1>1. PlanMove(plan[m], plan'[m]) BY PlanMoves
<1>2. CASE inbox[m] # 0
  <2>1. plan[m].status # "NONE" BY <1>2 DEF Answered
  <2>2. QED BY <1>1, <2>1 DEF PlanMove, PlanTerminal
<1>3. CASE inbox[m] = 0
  <2>1. PICK n \in ClientMsgs : AcceptInbound(n) /\ ~IsDuplicate(n) BY <1>3, InboxChangers
  <2>2. n = m BY <1>3, <2>1, AcceptRows
  <2>3. QED BY <2>1, <2>2, AcceptRows
<1>4. QED BY <1>2, <1>3

\* Only the arbiter's admission makes a row ADMITTED.
LEMMA OnlyAdmitAdmits ==
    ASSUME TypeOK, [Next]_vars, NEW m \in ClientMsgs,
           outb[m].status # "ADMITTED", outb'[m].status = "ADMITTED"
    PROVE  \E w \in Workers : Admit(w) /\ ow[w].m = m
<1> USE MessagesAssumption
<1>0. \A n \in ClientMsgs : outb[n] \in OutType BY DEF TypeOK
<1>1. CASE outb' = outb BY <1>1
<1>2. CASE outb' = CancelUnadmitted BY <1>0, <1>2 DEF CancelUnadmitted, OutType
<1>3. ASSUME NEW w \in Workers, BookingPhase2(w) PROVE FALSE
  <2>1. \/ outb' = outb
        \/ \E b : outb' = [outb EXCEPT ![pw[w].m] = [NoOut EXCEPT !.status = "PENDING", !.body = b]]
    BY <1>3 DEF BookingPhase2
  <2>2. \A b : [NoOut EXCEPT !.status = "PENDING", !.body = b].status = "PENDING" BY DEF NoOut
  <2>3. outb' = outb \/ \E o : o.status = "PENDING" /\ outb' = [outb EXCEPT ![pw[w].m] = o]
    BY <2>1, <2>2
  <2>4. QED BY <2>3 DEF TypeOK
<1>4. ASSUME NEW w \in Workers, OutClaim(w) PROVE FALSE
  <2>1. PICK c \in ClientMsgs \cup {NoMsg} : ClaimOut(w, c) BY <1>4, OutClaimPicks
  <2>2. QED BY <1>0, <2>1 DEF ClaimOut, OutType
<1>5. ASSUME NEW w \in Workers, Admit(w) PROVE ow[w].m = m
  <2>1. outb' = outb \/ outb' = [outb EXCEPT ![ow[w].m].status = "ADMITTED"] BY <1>5 DEF Admit
  <2>2. QED BY <1>0, <2>1 DEF OutType, TypeOK
<1>6. ASSUME NEW w \in Workers, OutFail(w) PROVE FALSE
  <2>1. \/ outb' = outb
        \/ \E s \in {"DEAD", "FAILED"} : \E nb : outb' = [outb EXCEPT ![ow[w].m] =
              [outb[ow[w].m] EXCEPT !.status = s, !.nb = nb, !.lease = "none"]]
    BY <1>6 DEF OutFail
  <2>2. ow[w].m \in ClientMsgs BY <1>6 DEF OutFail, TypeOK
  <2>3. \A s, nb : [outb[ow[w].m] EXCEPT !.status = s, !.nb = nb, !.lease = "none"].status = s
    BY <1>0, <2>2 DEF OutType
  <2>4. outb' = outb \/ \E o : o.status # "ADMITTED" /\ outb' = [outb EXCEPT ![ow[w].m] = o]
    BY <2>1, <2>3
  <2>5. QED BY <2>4 DEF TypeOK
<1>7. ASSUME NEW w \in Workers, FailAdmitted(w) \/ Deliver(w) PROVE FALSE
  <2>1. \/ outb' = outb
        \/ outb[ow[w].m].status = "ADMITTED" /\ \E o : outb' = [outb EXCEPT ![ow[w].m] = o]
    BY <1>7 DEF FailAdmitted, Deliver, OwnsOut
  <2>2. QED BY <2>1 DEF TypeOK
<1>8. ASSUME NEW n \in ClientMsgs, OutDelayPasses(n) \/ OutLeaseExpires(n) PROVE FALSE
  <2>1. outb' = [outb EXCEPT ![n].nb = PAST] \/ outb' = [outb EXCEPT ![n].lease = "expired"]
    BY <1>8 DEF OutDelayPasses, OutLeaseExpires
  <2>2. QED BY <1>0, <2>1 DEF OutType, TypeOK
<1>9. QED BY <1>1, <1>2, <1>3, <1>4, <1>5, <1>6, <1>7, <1>8, OutChangers

\* A worker takes a row to the sink only while the row is ADMITTED.
LEMMA FlightsStart ==
    ASSUME TypeOK, [Next]_vars, NEW m \in ClientMsgs, InFlight(m)', ~InFlight(m)
    PROVE  outb'[m].status = "ADMITTED"
<1> USE MessagesAssumption
<1>1. PICK w \in Workers : ow'[w].ph = "admitted" /\ ow'[w].m = m BY DEF InFlight
<1>2. ow[w] \in OutClaimType /\ IdleOut.ph = "idle" BY DEF TypeOK, IdleOut
<1>3. ow'[w] # ow[w] BY <1>1 DEF InFlight
<1>4. CASE OutClaim(w)
  <2>1. PICK n \in ClientMsgs \cup {NoMsg} : ClaimOut(w, n) BY <1>4, OutClaimPicks
  <2>2. ow' = ow \/ ow'[w].ph \in {"claimed", "reclaimed"} BY <2>1 DEF ClaimOut, TypeOK
  <2>3. QED BY <1>1, <1>3, <2>2
<1>5. CASE DropOutTask(w) \/ OutFail(w) \/ FailAdmitted(w) \/ EnqueueProjection(w)
  <2>1. ow'[w] = IdleOut BY <1>5 DEF DropOutTask, OutFail, FailAdmitted, EnqueueProjection, TypeOK
  <2>2. QED BY <1>1, <1>2, <2>1
<1>6. ASSUME NEW p, ow' = [ow EXCEPT ![w].ph = p] PROVE p = "admitted" /\ ow[w].m = m
  BY <1>1, <1>2, <1>6 DEF TypeOK, OutClaimType
<1>7. ASSUME ow' = [ow EXCEPT ![w] = IdleOut] PROVE FALSE
  BY <1>1, <1>2, <1>7 DEF TypeOK
<1>8. CASE Admit(w)
  <2>1. outb' = [outb EXCEPT ![ow[w].m].status = "ADMITTED"] /\ ow[w].m = m
    BY <1>6, <1>7, <1>8 DEF Admit
  <2>2. outb[m] \in OutType /\ outb \in [ClientMsgs -> OutType] BY DEF TypeOK
  <2>3. outb' = [outb EXCEPT ![m].status = "ADMITTED"] BY <2>1
  <2>4. outb'[m] = [outb[m] EXCEPT !.status = "ADMITTED"] BY <2>2, <2>3
  <2>5. QED BY <2>2, <2>4 DEF OutType
<1>9. CASE AdmitRaises(w)
  <2>1. ow' = [ow EXCEPT ![w].ph = "denied"] BY <1>9 DEF AdmitRaises
  <2>2. "denied" = "admitted" BY <1>6, <2>1
  <2>3. QED BY <2>2
<1>10. CASE PrepareReclaimed(w)
  <2>1. CASE OwnsOut(ow[w], "ADMITTED")
    <3>1. ow'[w] = [ow[w] EXCEPT !.ph = "admitted"] /\ outb' = outb
      BY <1>10, <2>1 DEF PrepareReclaimed, TypeOK
    <3>2. ow[w].m = m BY <1>1, <1>2, <3>1 DEF OutClaimType
    <3>3. QED BY <2>1, <3>1, <3>2 DEF OwnsOut
  <2>2. CASE ~OwnsOut(ow[w], "ADMITTED") BY <1>7, <1>10, <2>2 DEF PrepareReclaimed
  <2>3. QED BY <2>1, <2>2
<1>11. CASE SinkAccepts(w) \/ SinkRefuses(w) BY <1>6, <1>11 DEF SinkAccepts, SinkRefuses
<1>12. CASE Deliver(w)
  <2>1. ow' = [ow EXCEPT ![w].ph = "delivered"] \/ ow' = [ow EXCEPT ![w] = IdleOut]
    BY <1>12 DEF Deliver
  <2>2. QED BY <1>6, <1>7, <2>1
<1>13. QED
  BY <1>3, <1>4, <1>5, <1>8, <1>9, <1>10, <1>11, <1>12, OutTaskSteps DEF OutTask

\* A reply depends on nothing but its rows, the sink and the workers that hold its admission.
LEMMA ReplyFrame ==
    ASSUME NEW m \in ClientMsgs, inbox'[m] = inbox[m], plan'[m].status = plan[m].status,
           outb'[m].status = outb[m].status, m \in sunk' <=> m \in sunk, InFlight(m)' <=> InFlight(m)
    PROVE  ReplyOf(m)' = ReplyOf(m)
  BY DEF ReplyOf

\* Closing the open plans and cancelling what is not admitted withdraws what is owed,
\* and leaves alone what is committed.
LEMMA ClosingReplies ==
    ASSUME ReplyInv, NEW s \in {"CANCELLED", "SUPERSEDED"}, NEW m \in ClientMsgs,
           plan'[m] = CloseOpenPlans(s)[m], outb'[m] = CancelUnadmitted[m], inbox'[m] = inbox[m],
           UNCHANGED <<ow, sunk>>
    PROVE  ReplyOf(m)' = IF ReplyOf(m) = "owed" THEN "closed" ELSE ReplyOf(m)
<1>0. TypeOK /\ RowsFollow /\ InFlight(m)' = InFlight(m) BY DEF ReplyInv, FencingInv, InFlight
<1>1. plan[m].status \in PlanStatuses /\ outb[m] \in OutType BY <1>0 DEF TypeOK, PlanType
<1>2. CASE ReplyOf(m) = "owed"
  <2>1. inbox[m] # 0 /\ m \notin sunk BY <1>2 DEF ReplyOf
  <2>2. plan'[m].status \notin PlanOpen BY <1>0, Closed DEF PlanOpen, PlanTerminal
  <2>3. outb'[m].status \notin OutCancellable BY <1>0, Cancelled
  <2>4. outb[m].status \in OutCancellable \/ plan[m].status \in PlanOpen BY <1>2 DEF ReplyOf
  <2>5. outb[m].status \in OutCancellable \/ outb[m].status = "NONE"
    BY <1>0, <2>4 DEF RowsFollow, PlanOpen
  <2>6. outb'[m].status \in {"CANCELLED", "NONE"} BY <1>1, <2>5 DEF CancelUnadmitted, OutType, OutCancellable
  <2>7. QED BY <1>2, <2>1, <2>2, <2>3, <2>6 DEF ReplyOf
<1>3. CASE ReplyOf(m) # "owed"
  <2>1. CASE inbox[m] = 0 \/ m \in sunk BY <1>3, <2>1 DEF ReplyOf
  <2>2. CASE ~(inbox[m] = 0 \/ m \in sunk)
    <3>1. outb[m].status \notin OutCancellable /\ plan[m].status \notin PlanOpen BY <1>3, <2>2 DEF ReplyOf
    <3>2. plan[m].status \in PlanTerminal \cup {"NONE"} BY <1>1, <3>1 DEF PlanOpen, PlanTerminal, PlanStatuses
    <3>3. plan'[m] = plan[m] BY <1>0, <3>2, Closed
    <3>4. outb'[m] = outb[m] BY <3>1 DEF CancelUnadmitted
    <3>5. ReplyOf(m)' = ReplyOf(m) BY <1>0, <3>3, <3>4, ReplyFrame
    <3>6. QED BY <1>3, <3>5
  <2>3. QED BY <2>1, <2>2
<1>4. QED BY <1>2, <1>3

\* Unless the message is new, admitted or shown to the client, a step leaves its reply as it
\* is or gives it up.
LEMMA ReplyMove ==
    ASSUME ReplyInv, FencingInv', SinkInv', [Next]_vars, NEW m \in ClientMsgs,
           inbox'[m] = inbox[m], m \in sunk' <=> m \in sunk,
           outb'[m].status = "ADMITTED" => outb[m].status = "ADMITTED"
    PROVE  \/ ReplyOf(m)' = ReplyOf(m)
           \/ ReplyOf(m) \in {"owed", "committed"} /\ ReplyOf(m)' = "closed"
<1>0. /\ TypeOK /\ FencingInv /\ SinkInv /\ RowsFollow /\ RowsFollow'
      /\ SinkFollowsAdmission /\ SinkFollowsAdmission' /\ UnadmittedIsCurrent
  BY DEF ReplyInv, FencingInv, SinkInv
<1>1. PlanMove(plan[m], plan'[m]) BY <1>0, PlanMoves
<1>2. OutMove(outb[m], outb'[m]) BY <1>0, OutMoves
<1>3. InFlight(m)' /\ ~InFlight(m) => outb'[m].status = "ADMITTED" BY <1>0, FlightsStart
<1>4. InFlight(m) => outb[m].status \in AdmittedRows BY <1>0 DEF SinkInv, SinkTasks, InFlight
<1>5. plan[m].status \in PlanStatuses /\ outb[m].status \in OutStatuses
  BY <1>0 DEF TypeOK, PlanType, OutType
<1>6. CASE inbox[m] = 0 \/ m \in sunk BY <1>6 DEF ReplyOf
<1>7. CASE ~(inbox[m] = 0 \/ m \in sunk)
  <2>1. plan[m].status # "NONE" BY <1>7 DEF ReplyInv, Answered
  <2>2. outb[m].status # "DELIVERED" /\ outb'[m].status # "DELIVERED"
    BY <1>0, <1>7 DEF SinkFollowsAdmission
  <2>3. /\ outb[m].status # "NONE" => plan[m].status = "DISPATCHED"
        /\ outb'[m].status # "NONE" => plan'[m].status = "DISPATCHED"
    BY <1>0 DEF RowsFollow
  <2>4. plan[m].status \in PlanTerminal => plan'[m].status = plan[m].status
    BY <1>1 DEF PlanMove, PlanTerminal
  <2>5. CASE outb[m].status \in OutCancellable
    <3>1. ReplyOf(m) = "owed" BY <1>7, <2>5 DEF ReplyOf
    <3>2. plan[m].status = "DISPATCHED" /\ plan'[m].status = "DISPATCHED"
      BY <2>3, <2>4, <2>5 DEF OutCancellable, PlanTerminal
    <3>3. outb'[m].status \in OutCancellable \cup {"CANCELLED", "DEAD"}
      BY <1>2, <2>5 DEF OutMove, OutCancellable
    <3>4. ~InFlight(m)'
      BY <1>3, <1>4, <2>5, <3>3 DEF OutCancellable, AdmittedRows
    <3>5. ReplyOf(m)' \in {"owed", "closed"}
      BY <1>7, <3>2, <3>3, <3>4 DEF ReplyOf, PlanOpen, OutCancellable
    <3>6. QED BY <3>1, <3>5
  <2>6. CASE plan[m].status \in PlanOpen
    <3>1. ReplyOf(m) = "owed" BY <1>7, <2>6 DEF ReplyOf
    <3>2. outb[m].status = "NONE" BY <2>3, <2>6 DEF PlanOpen
    <3>3. outb'[m].status \in {"NONE", "PENDING"} BY <1>2, <3>2 DEF OutMove, OutCancellable
    <3>4. ReplyOf(m)' \in {"owed", "closed"} BY <1>7, <3>3 DEF ReplyOf, OutCancellable
    <3>5. QED BY <3>1, <3>4
  <2>7. CASE outb[m].status \notin OutCancellable /\ plan[m].status \notin PlanOpen
    <3>1. plan'[m].status = plan[m].status
      BY <1>5, <2>1, <2>4, <2>7 DEF PlanStatuses, PlanTerminal, PlanOpen
    <3>2. CASE outb[m].status = "ADMITTED"
      <4>1. ReplyOf(m) = "committed" BY <1>7, <2>7, <3>2 DEF ReplyOf
      <4>2. outb'[m].status \in {"ADMITTED", "DEAD"} BY <1>2, <2>2, <3>2 DEF OutMove, OutCancellable
      <4>3. ReplyOf(m)' \in {"committed", "closed"} BY <1>7, <2>7, <3>1, <4>2 DEF ReplyOf, OutCancellable
      <4>4. QED BY <4>1, <4>3
    <3>3. CASE outb[m].status = "DEAD"
      <4>1. outb'[m].status = "DEAD" BY <1>2, <3>3 DEF OutMove, OutCancellable
      <4>2. InFlight(m)' => InFlight(m) BY <1>3, <4>1
      <4>3. QED BY <1>7, <2>7, <3>1, <3>3, <4>1, <4>2 DEF ReplyOf
    <3>4. CASE outb[m].status \in {"NONE", "CANCELLED"}
      <4>1. outb'[m].status = outb[m].status
        <5>1. outb'[m].status = outb[m].status \/ (outb[m].status = "NONE" /\ outb'[m].status = "PENDING")
          BY <1>2, <3>4 DEF OutMove, OutCancellable
        <5>2. ASSUME outb[m].status = "NONE", outb'[m].status # "NONE" PROVE FALSE
          <6>1. PICK w \in Workers : BookingPhase2(w) /\ pw[w].m = m BY <1>0, <5>2, OnlyPhase2Creates
          <6>2. plan[m].status = "PROCESSING" BY <6>1 DEF BookingPhase2, PlanValid, OwnsPlan
          <6>3. QED BY <2>7, <6>2 DEF PlanOpen
        <5>3. QED BY <5>1, <5>2
      <4>2. QED BY <1>7, <2>7, <3>1, <3>4, <4>1 DEF ReplyOf
    <3>5. QED BY <1>5, <2>2, <2>7, <3>2, <3>3, <3>4 DEF OutStatuses, OutCancellable
  <2>8. QED BY <2>5, <2>6, <2>7
<1>8. QED BY <1>6, <1>7

\* What ReplyPromise!GiveUp is for: no reply moves except to be given up.
LEMMA GiveUpStep ==
    ASSUME (conv'.ownership = "MANAGER") = (conv.ownership = "MANAGER"),
           \A m \in ClientMsgs :
               \/ ReplyOf(m)' = ReplyOf(m)
               \/ ReplyOf(m) \in {"owed", "committed"} /\ ReplyOf(m)' = "closed"
    PROVE  ClientPromise!Next
<1> DEFINE lost == {m \in ClientMsgs : ReplyOf(m) \in {"owed", "committed"} /\ ReplyOf(m)' = "closed"}
<1>1. \A m \in lost : Replies[m] \in {"owed", "committed"} BY DEF Replies
<1>2. Replies' = [m \in ClientMsgs |-> IF m \in lost THEN "closed" ELSE Replies[m]] BY DEF Replies
<1>3. ClientPromise!GiveUp(lost) BY <1>1, <1>2 DEF ClientPromise!GiveUp
<1>4. lost \in SUBSET ClientMsgs OBVIOUS
<1> HIDE DEF lost
<1>5. QED BY <1>3, <1>4 DEF ClientPromise!Next

\* A new message asks for a reply and outdates the one that was owed.
LEMMA AcceptAsks ==
    ASSUME ReplyInv, NEW m \in ClientMsgs, AcceptInbound(m), ~IsDuplicate(m)
    PROVE  ClientPromise!Next
<1>0. TypeOK /\ FencingInv /\ SinkInv /\ RowsFollow BY DEF ReplyInv, FencingInv
<1>1. /\ plan'[m].status = "PENDING"
      /\ \A n \in ClientMsgs : n # m => plan'[n] = CloseOpenPlans("SUPERSEDED")[n]
      /\ outb' = CancelUnadmitted /\ conv'.ownership = conv.ownership
      /\ inbox'[m] # 0 /\ \A n \in ClientMsgs : n # m => inbox'[n] = inbox[n]
      /\ UNCHANGED <<ow, sunk>>
  BY <1>0, AcceptRows
<1>2. ReplyOf(m) = "unasked" BY DEF IsDuplicate, ReplyOf
<1>3. ReplyOf(m)' = "owed"
  <2>1. outb[m].status = "NONE" BY <1>0 DEF IsDuplicate, RowsFollow
  <2>2. m \notin sunk BY <1>0, <2>1 DEF SinkInv, SinkFollowsAdmission
  <2>3. QED BY <1>1, <2>2 DEF ReplyOf, PlanOpen
<1>4. ASSUME NEW n \in ClientMsgs, n # m
      PROVE  ReplyOf(n)' = IF ReplyOf(n) = "owed" THEN "closed" ELSE ReplyOf(n)
  BY <1>1, <1>4, ClosingReplies
<1>5. Replies' = [ClientPromise!Withdrawn EXCEPT ![m] = "owed"]
  BY <1>3, <1>4 DEF Replies, ClientPromise!Withdrawn
<1>6. ClientPromise!Ask(m) BY <1>1, <1>2, <1>5 DEF ClientPromise!Ask, Replies
<1>7. QED BY <1>6 DEF ClientPromise!Next

\* An applied manager message and a takeover withdraw what is owed.
LEMMA TakingOver ==
    ASSUME ReplyInv, plan' = CloseOpenPlans("CANCELLED"), outb' = CancelUnadmitted, inbox' = inbox,
           UNCHANGED <<ow, sunk>>, conv'.ownership = "MANAGER"
    PROVE  ClientPromise!Next
<1>1. \A n \in ClientMsgs : ReplyOf(n)' = IF ReplyOf(n) = "owed" THEN "closed" ELSE ReplyOf(n)
  BY ClosingReplies
<1>2. Replies' = ClientPromise!Withdrawn BY <1>1 DEF Replies, ClientPromise!Withdrawn
<1>3. ClientPromise!TakeOver BY <1>2 DEF ClientPromise!TakeOver
<1>4. QED BY <1>3 DEF ClientPromise!Next

\* The handoff ends with nothing owed that a manager has outdated, or with the one reply the
\* pause owes.
LEMMA HandingBack ==
    ASSUME ReplyInv, ExpireActiveHandoff \/ ExpirePausedHandoff
    PROVE  ClientPromise!Next
<1>0. TypeOK /\ OpenPlanIsCurrent /\ UnadmittedIsCurrent /\ PauseOwesReply BY DEF ReplyInv, FencingInv
<1>1. conv.ownership = "MANAGER" BY DEF ExpireActiveHandoff, ExpirePausedHandoff, DueHandoff
<1>2. conv'.ownership = "BOT"
  <2>1. \E a : ReturnToBot(a)
    BY <1>0 DEF ExpireActiveHandoff, ExpirePausedHandoff, PauseOwesReply
  <2>2. QED BY <1>0, <2>1 DEF ReturnToBot, TypeOK, ConvType
<1>3. \A n \in ClientMsgs : ReplyOf(n)' = ReplyOf(n)
  <2>1. CASE ExpireActiveHandoff
    <3>1. conv.hs = "HUMAN_ACTIVE" BY <2>1 DEF ExpireActiveHandoff
    <3>2. \A n \in ClientMsgs : outb[n].status \notin OutCancellable
      BY <1>0, <1>1 DEF UnadmittedIsCurrent, AllowsAutomaticReply
    <3>3. \A n \in ClientMsgs : plan[n].status \notin PlanOpen
      BY <1>0, <3>1 DEF OpenPlanIsCurrent, OpenPlans, PlanTerminal, PlanOpen
    <3>4. \A n \in ClientMsgs : ReplyOf(n) # "owed" BY <3>2, <3>3 DEF ReplyOf
    <3>5. \A n \in ClientMsgs : ReplyOf(n)' = IF ReplyOf(n) = "owed" THEN "closed" ELSE ReplyOf(n)
      BY <2>1, ClosingReplies DEF ExpireActiveHandoff
    <3>6. QED BY <3>4, <3>5
  <2>2. CASE ExpirePausedHandoff
    BY <2>2, ReplyFrame DEF ExpirePausedHandoff, InFlight
  <2>3. QED BY <2>1, <2>2
<1>4. Replies' = Replies BY <1>3 DEF Replies
<1>5. ClientPromise!HandBack BY <1>1, <1>2, <1>4 DEF ClientPromise!HandBack
<1>6. QED BY <1>5 DEF ClientPromise!Next

\* A worker that takes another row to the sink, or has brought it there, changes nothing here.
LEMMA OtherFlights ==
    ASSUME TypeOK, NEW w \in Workers, NEW n \in ClientMsgs, NEW p, ow[w].m # n,
           ow' = [ow EXCEPT ![w].ph = p]
    PROVE  InFlight(n)' <=> InFlight(n)
<1>1. ow[w] \in OutClaimType /\ ow \in [Workers -> OutClaimType] BY DEF TypeOK
<1>2. ow'[w] = [ow[w] EXCEPT !.ph = p] /\ \A v \in Workers : v # w => ow'[v] = ow[v] BY <1>1
<1>3. ow'[w].m = ow[w].m BY <1>1, <1>2 DEF OutClaimType
<1>4. QED BY <1>2, <1>3 DEF InFlight

\* The bot commits itself to a reply it owes still, and only while it holds the dialog.
LEMMA AdmitCommits ==
    ASSUME ReplyInv, NEW w \in Workers, Admit(w), NEW m \in ClientMsgs, ow[w].m = m,
           outb[m].status # "ADMITTED", outb'[m].status = "ADMITTED"
    PROVE  ClientPromise!Next
<1>0. TypeOK /\ RowsFollow /\ SinkFollowsAdmission BY DEF ReplyInv, FencingInv, SinkInv
<1>1. /\ AllowsAutomaticReply /\ OwnsOut(ow[w], "PROCESSING")
      /\ outb' = [outb EXCEPT ![m].status = "ADMITTED"] /\ ow' = [ow EXCEPT ![w].ph = "admitted"]
      /\ UNCHANGED <<conv, inbox, plan, sunk>>
  BY DEF Admit
<1>2. outb[m].status = "PROCESSING" BY <1>1 DEF OwnsOut
<1>3. inbox[m] # 0 /\ plan[m].status = "DISPATCHED" /\ m \notin sunk
  BY <1>0, <1>2 DEF RowsFollow, SinkFollowsAdmission
<1>4. ReplyOf(m) = "owed" BY <1>2, <1>3 DEF ReplyOf, OutCancellable
<1>5. ReplyOf(m)' = "committed"
  <2>1. inbox' = inbox /\ plan' = plan /\ sunk' = sunk BY <1>1
  <2>2. QED BY <1>3, <2>1 DEF ReplyOf, OutCancellable, PlanOpen
<1>6. ASSUME NEW n \in ClientMsgs, n # m PROVE ReplyOf(n)' = ReplyOf(n)
  <2>1. outb'[n] = outb[n] BY <1>0, <1>1, <1>6 DEF TypeOK
  <2>2. InFlight(n)' <=> InFlight(n) BY <1>0, <1>1, <1>6, OtherFlights
  <2>3. QED BY <1>1, <2>1, <2>2, ReplyFrame
<1>7. Replies' = [Replies EXCEPT ![m] = "committed"] BY <1>5, <1>6 DEF Replies
<1>8. conv.ownership = "BOT" BY <1>1 DEF AllowsAutomaticReply
<1>9. ClientPromise!Commit(m) BY <1>1, <1>4, <1>7, <1>8 DEF ClientPromise!Commit, Replies
<1>10. QED BY <1>9 DEF ClientPromise!Next

\* What the sink takes was committed, also when the row was given up while the worker was
\* on its way.
LEMMA SinkShows ==
    ASSUME ReplyInv, NEW w \in Workers, SinkAccepts(w), ow[w].m \notin sunk
    PROVE  ClientPromise!Next
<1>0. TypeOK /\ RowsFollow /\ SinkFollowsAdmission /\ SinkTasks BY DEF ReplyInv, FencingInv, SinkInv
<1>1. PICK m \in ClientMsgs : m = ow[w].m BY <1>0 DEF TypeOK, SinkAccepts
<1>2. /\ ow[w].ph = "admitted" /\ sunk' = sunk \cup {m} /\ ow' = [ow EXCEPT ![w].ph = "sent"]
      /\ UNCHANGED <<conv, inbox, plan, outb>> /\ InFlight(m)
  BY <1>1 DEF SinkAccepts, InFlight
<1>3. outb[m].status \in {"ADMITTED", "DEAD"}
  BY <1>0, <1>1, <1>2 DEF SinkTasks, AdmittedRows, SinkFollowsAdmission
<1>4. inbox[m] # 0 /\ plan[m].status = "DISPATCHED" BY <1>0, <1>3 DEF RowsFollow
<1>5. ReplyOf(m) = "committed" BY <1>1, <1>2, <1>3, <1>4 DEF ReplyOf, OutCancellable, PlanOpen
<1>6. ReplyOf(m)' = "seen" BY <1>2, <1>4 DEF ReplyOf
<1>7. ASSUME NEW n \in ClientMsgs, n # m PROVE ReplyOf(n)' = ReplyOf(n)
  <2>1. InFlight(n)' <=> InFlight(n) BY <1>0, <1>1, <1>2, <1>7, OtherFlights
  <2>2. QED BY <1>2, <1>7, <2>1, ReplyFrame
<1>8. Replies' = [Replies EXCEPT ![m] = "seen"] BY <1>6, <1>7 DEF Replies
<1>9. ClientPromise!See(m) BY <1>2, <1>5, <1>8 DEF ClientPromise!See, Replies
<1>10. QED BY <1>9 DEF ClientPromise!Next

\* Only messages, managers and the end of a handoff change who holds the dialog.
LEMMA OwnershipChangers ==
    ASSUME [Next]_vars
    PROVE  \/ conv' = conv
           \/ \E n \in ClientMsgs : AcceptInbound(n) /\ ~IsDuplicate(n)
           \/ \E g \in ManagerMsgs : ManagerMessage(g)
           \/ ManagerTakeover \/ ExpireActiveHandoff \/ ExpirePausedHandoff
  BY DEF Next, vars, AcceptInbound, PlanClaim, PlanTask, PlanStale, PlanRaises,
         BookingPhase1, BookingRemote, BookingPhase2, PlanFail, DropPlanTask, OutClaim,
         OutTask, DropOutTask, Admit, AdmitRaises, OutFail, PrepareReclaimed, SinkAccepts, SinkRefuses,
         FailAdmitted, Deliver, EnqueueProjection, RepairProjection, DeadlinePasses,
         PlanDelayPasses, PlanLeaseExpires, OutDelayPasses, OutLeaseExpires

\* A manager message or a takeover that changes the conversation takes the dialog over.
LEMMA ManagersTakeOver ==
    ASSUME ReplyInv, (\E g \in ManagerMsgs : ManagerMessage(g)) \/ ManagerTakeover, conv' # conv
    PROVE  ClientPromise!Next
<1>0. conv \in ConvType BY DEF ReplyInv, TypeOK
<1>1. CASE \E g \in ManagerMsgs : ManagerMessage(g)
  <2>1. PICK g \in ManagerMsgs : ManagerMessage(g) BY <1>1
  <2>2. /\ plan' = CloseOpenPlans("CANCELLED") /\ outb' = CancelUnadmitted
        /\ conv' = ManagerApplied([conv EXCEPT !.seq = conv.seq + 1], ProviderSeq[g])
        /\ inbox' = inbox /\ UNCHANGED <<ow, sunk>>
    BY <2>1 DEF ManagerMessage
  <2>3. [conv EXCEPT !.seq = conv.seq + 1] \in ConvType BY <1>0 DEF ConvType
  <2>4. \A c \in ConvType : \A s : ManagerApplied(c, s).ownership = "MANAGER" BY DEF ManagerApplied, ConvType
  <2>5. conv'.ownership = "MANAGER" BY <2>2, <2>3, <2>4
  <2>6. QED BY <2>2, <2>5, TakingOver
<1>2. CASE ManagerTakeover
  <2>1. /\ plan' = CloseOpenPlans("CANCELLED") /\ outb' = CancelUnadmitted
        /\ inbox' = inbox /\ UNCHANGED <<ow, sunk>>
    BY <1>2 DEF ManagerTakeover
  <2>2. conv'.ownership = "MANAGER" BY <1>0, <1>2 DEF ManagerTakeover, ConvType
  <2>3. QED BY <2>1, <2>2, TakingOver
<1>3. QED BY <1>1, <1>2

LEMMA ReplyRefines ==
    ASSUME ReplyInv, FencingInv', SinkInv', [Next]_vars PROVE ClientPromise!Next
<1>0. TypeOK BY DEF ReplyInv
<1>1. CASE \E n \in ClientMsgs : AcceptInbound(n) /\ ~IsDuplicate(n) BY <1>1, AcceptAsks
<1>2. CASE ExpireActiveHandoff \/ ExpirePausedHandoff BY <1>2, HandingBack
<1>3. CASE ((\E g \in ManagerMsgs : ManagerMessage(g)) \/ ManagerTakeover) /\ conv' # conv
  BY <1>3, ManagersTakeOver
<1>4. CASE conv' = conv /\ inbox' = inbox
  <2>1. CASE \E m \in ClientMsgs : outb[m].status # "ADMITTED" /\ outb'[m].status = "ADMITTED"
    <3>1. PICK m \in ClientMsgs : outb[m].status # "ADMITTED" /\ outb'[m].status = "ADMITTED" BY <2>1
    <3>2. PICK w \in Workers : Admit(w) /\ ow[w].m = m BY <1>0, <3>1, OnlyAdmitAdmits
    <3>3. QED BY <3>1, <3>2, AdmitCommits
  <2>2. CASE \E m \in sunk' : m \notin sunk
    <3>1. PICK w \in Workers : SinkAccepts(w) /\ ow[w].m \notin sunk BY <2>2, SunkChangers
    <3>2. QED BY <3>1, SinkShows
  <2>3. CASE /\ \A m \in ClientMsgs : outb'[m].status = "ADMITTED" => outb[m].status = "ADMITTED"
             /\ \A m \in sunk' : m \in sunk
    <3>1. \A m \in ClientMsgs : m \in sunk' <=> m \in sunk BY <2>3, SunkChangers
    <3>2. \A m \in ClientMsgs :
              \/ ReplyOf(m)' = ReplyOf(m)
              \/ ReplyOf(m) \in {"owed", "committed"} /\ ReplyOf(m)' = "closed"
      BY <1>4, <2>3, <3>1, ReplyMove
    <3>3. QED BY <1>4, <3>2, GiveUpStep
  <2>4. QED BY <2>1, <2>2, <2>3
<1>5. QED BY <1>1, <1>2, <1>3, <1>4, InboxChangers, OwnershipChangers

\* For any messages, workers, crashes, lost leases and overlapping handlers the dialog
\* implements ReplyPromise: at most one reply is owed, the bot commits itself to it only while
\* it holds the dialog, and the client sees nothing that was not committed.
THEOREM ClientPromiseKept == Spec => ClientPromise!Spec
<1>1. Init => ReplyInv
  <2>1. Init => Answered BY DEF Init, Answered
  <2>2. QED BY <2>1, TypeInit, FencingInit, SinkInit DEF ReplyInv
<1>2. ReplyInv /\ [Next]_vars => ReplyInv'
  <2>1. SUFFICES ASSUME ReplyInv, [Next]_vars PROVE ReplyInv' OBVIOUS
  <2>2. TypeOK /\ FencingInv /\ SinkInv /\ Answered BY <2>1 DEF ReplyInv
  <2>3. TypeOK' /\ FencingInv' BY <2>1, <2>2, TypeStep, FencingStep
  <2>4. SinkInv' BY <2>1, <2>2, SinkStep
  <2>5. Answered' BY <2>1, <2>2, AnsweredStep
  <2>6. QED BY <2>3, <2>4, <2>5 DEF ReplyInv
<1>3. Init => ClientPromise!Init
  <2>1. SUFFICES ASSUME Init PROVE ClientPromise!Init OBVIOUS
  <2>2. \A m \in ClientMsgs : ReplyOf(m) = "unasked" BY <2>1 DEF Init, ReplyOf
  <2>3. conv.ownership = "BOT" BY <2>1 DEF Init
  <2>4. QED BY <2>2, <2>3 DEF ClientPromise!Init, Replies
<1>4. ReplyInv /\ ReplyInv' /\ [Next]_vars
        => [ClientPromise!Next]_<<Replies, conv.ownership = "MANAGER">>
  BY ReplyRefines DEF ReplyInv
<1>5. QED BY <1>1, <1>2, <1>3, <1>4, PTL DEF Spec, ClientPromise!Spec

\* The replies keep their promise, and no row takes a step its state machine does not have.
THEOREM RepliesAsPromisedCorrect == Spec => RepliesAsPromised
  BY ClientPromiseKept, NeverBackwardsCorrect, PTL DEF RepliesAsPromised
=============================================================================
