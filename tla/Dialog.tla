------------------------------ MODULE Dialog ------------------------------
(***************************************************************************)
(* The dialog core of Bot TV for one synthetic-channel conversation: the   *)
(* conversation row, the client and manager messages that move it, its     *)
(* reply plans, the outbound row each plan may produce, the handoff timer, *)
(* the reply-plan and outbound workers, and the outbox rows (amoCRM mirror *)
(* jobs, chat projections) those transactions enqueue.                     *)
(*                                                                         *)
(* Every transaction of a dialog subtree locks the conversation row FOR    *)
(* UPDATE first, and every write by a worker is a conditional UPDATE on    *)
(* (status, lease_token, lease_version), so one database transaction is    *)
(* one action.  A handler that spans several transactions keeps its claim  *)
(* in memory between them: pw (reply-plan loop) and ow (outbound loop)     *)
(* hold that claim for each worker process.                                *)
(*                                                                         *)
(* Time is not a number: what the code compares is whether an instant has  *)
(* gone by.  A handoff deadline is named by the context version current    *)
(* when it was set (every transaction that sets a finite deadline bumps    *)
(* the context version, and the pause length is fixed, so deadlines expire *)
(* in the order of their names); `passed' is the last one gone by.         *)
(***************************************************************************)
EXTENDS Integers, FiniteSets

CONSTANTS
    ClientMsgs,      \* client messages (external_message_id); each may be delivered many times
    Kind,            \* Kind[m]: "plain", "booking" (carries a booking block) or "confirm"
    ManagerMsgs,     \* manager messages (external_message_id)
    ProviderSeq,     \* ProviderSeq[g]: provider_sequence + 1, 0 for a message without one
    Workers,         \* worker processes that may overlap
    NoMsg,           \* "no message", "no plan"
    MaxAttempts,     \* max_attempts of plans and outbound rows
    MaxFaults,       \* bound: dropped tasks (crash, tick timeout) and leases that
                     \* expire under a live task
    RemoteResults    \* what the booking backend may answer

MsgKinds == {"plain", "booking", "confirm"}
BookingResults == {"OFFER_SLOTS", "OFFER_UNPARSABLE", "NO_OFFER"}

ASSUME MessagesAssumption ==
    /\ NoMsg \notin ClientMsgs
    /\ Kind \in [ClientMsgs -> MsgKinds]
    /\ ProviderSeq \in [ManagerMsgs -> Nat]
ASSUME BoundsAssumption ==
    /\ MaxAttempts \in Nat \ {0}
    /\ MaxFaults \in Nat
    /\ RemoteResults \subseteq BookingResults

VARIABLES
    conv,      \* the conversations row
    inbox,     \* inbox[m]: conversation_event_seq of the inbox row of m, 0 if there is none
    mgr,       \* mgr[g]: the manager_messages row of g: classification and event seq
    plan,      \* plan[m]: the reply plan created for client message m
    outb,      \* outb[m]: the SYNTHETIC_OUTBOUND row of the plan of m
    passed,    \* the last handoff deadline that has gone by
    pw, ow,    \* claims held by the reply-plan and the outbound task of each worker
    jobs,      \* mirror jobs and chat projections, by their unique keys
    offer,     \* the message whose delivered outbound is the active offer
    faults,    \* faults used so far
    calls,     \* history: calls of the booking backend made for the plan of m
    sunk       \* history: messages the outbound sink has accepted

vars == <<conv, inbox, mgr, plan, outb, passed, pw, ow, jobs, offer, faults, calls, sunk>>

-----------------------------------------------------------------------------
(* Rows *)

PAST == 0            \* an instant that has gone by
FUTURE == -1         \* an instant still to come, not a handoff deadline
INFINITY == -2       \* 'infinity'::timestamptz
NoDeadline == 0      \* handoff_deadline_at IS NULL

PlanStatuses == {"NONE", "PENDING", "READY", "PROCESSING", "DISPATCHED",
                 "CANCELLED", "SUPERSEDED", "FAILED", "DEAD"}
PlanTerminal == {"DISPATCHED", "CANCELLED", "SUPERSEDED", "DEAD"}
OutStatuses == {"NONE", "PENDING", "PROCESSING", "ADMITTED", "DELIVERED",
                "FAILED", "DEAD", "CANCELLED"}
OutCancellable == {"PENDING", "PROCESSING", "FAILED"}
Leases == {"none", "live", "expired"}
Resolutions == {"none", "started", "INTERRUPTED"} \cup BookingResults
MgrClasses == {"NONE", "QUARANTINED", "APPLIED", "STALE"}
PlanPhases == {"idle", "claimed", "remote", "finalize", "failing"}
OutPhases == {"idle", "claimed", "reclaimed", "admitted", "sent", "denied",
              "transient", "permanent", "delivered"}
JobKinds == {"CLIENT_MESSAGE", "MANAGER_TAKEOVER", "PLAN_DISPATCHED", "PLAN_DEAD",
             "OUTBOUND_DELIVERED", "CLIENT_PROJECTION", "BOT_PROJECTION"}

NoPlan == [status |-> "NONE", ctx |-> 0, epoch |-> 0, seq |-> 0, nb |-> PAST,
           deferred |-> FALSE, lease |-> "none", ver |-> 0, att |-> 0, res |-> "none"]
NoOut == [status |-> "NONE", nb |-> PAST, lease |-> "none", ver |-> 0, att |-> 0,
          body |-> "none"]
IdlePlan == [ph |-> "idle", m |-> NoMsg, ver |-> 0, got |-> "none"]
IdleOut == [ph |-> "idle", m |-> NoMsg, ver |-> 0]

OpenPlans == {m \in ClientMsgs : plan[m].status \notin PlanTerminal \cup {"NONE"}}

\* An instant is due: it is past, or a handoff deadline that has gone by.
Due(t) == t \in 0..passed

\* conversation_allows_automatic_reply (no code path ever closes a dialog).
AllowsAutomaticReply ==
    /\ conv.status = "OPEN"
    /\ conv.ownership = "BOT"
    /\ conv.hs = "BOT_ACTIVE"
    /\ ~conv.takeover

\* A query that returns one of its candidates, or no row: SKIP LOCKED lets a
\* worker pass over the oldest candidate, so any of them may be taken.
OrNone(candidates) == IF candidates = {} THEN {NoMsg} ELSE candidates

\* The plan's fencing columns equal the conversation's.
FencesMatch(m) ==
    /\ plan[m].ctx = conv.ctx
    /\ plan[m].epoch = conv.epoch
    /\ plan[m].seq = conv.seq

\* The claim held in memory still owns the plan's lease (an expired lease that
\* nobody took over still matches).
OwnsPlan(c) ==
    /\ plan[c.m].status = "PROCESSING"
    /\ plan[c.m].lease # "none"
    /\ plan[c.m].ver = c.ver

OwnsOut(c, status) ==
    /\ outb[c.m].status = status
    /\ outb[c.m].lease # "none"
    /\ outb[c.m].ver = c.ver

\* Mutants of CloseOpenPlans: plans a worker is processing are missed; the lease is kept.
CloseOpenPlansMissesProcessing(s) ==
    [m \in ClientMsgs |->
        IF plan[m].status \in {"PENDING", "READY"}
        THEN [plan[m] EXCEPT !.status = s, !.lease = "none"] ELSE plan[m]]
CloseOpenPlansKeepsLease(s) ==
    [m \in ClientMsgs |->
        IF m \in OpenPlans THEN [plan[m] EXCEPT !.status = s] ELSE plan[m]]

\* All non-terminal plans move to the terminal status s and lose their lease.
CloseOpenPlans(s) ==
    [m \in ClientMsgs |->
        IF m \in OpenPlans THEN [plan[m] EXCEPT !.status = s, !.lease = "none"]
                           ELSE plan[m]]

\* Mutants of CancelUnadmitted: rows being processed survive; admitted rows do not.
CancelMissesProcessing ==
    [m \in ClientMsgs |->
        IF outb[m].status \in {"PENDING", "FAILED"}
        THEN [outb[m] EXCEPT !.status = "CANCELLED", !.lease = "none"] ELSE outb[m]]
CancelTakesAdmitted ==
    [m \in ClientMsgs |->
        IF outb[m].status \in OutCancellable \cup {"ADMITTED"}
        THEN [outb[m] EXCEPT !.status = "CANCELLED", !.lease = "none"] ELSE outb[m]]

\* cancel_unadmitted_for_conversation
CancelUnadmitted ==
    [m \in ClientMsgs |->
        IF outb[m].status \in OutCancellable
        THEN [outb[m] EXCEPT !.status = "CANCELLED", !.lease = "none"]
        ELSE outb[m]]

Init ==
    /\ conv = [status |-> "OPEN", ownership |-> "BOT", hs |-> "BOT_ACTIVE",
               ctx |-> 0, epoch |-> 0, seq |-> 0, hwm |-> 0, takeover |-> FALSE,
               deadline |-> NoDeadline, anchor |-> FALSE, active |-> NoMsg,
               quarantined |-> FALSE]
    /\ inbox = [m \in ClientMsgs |-> 0]
    /\ mgr = [g \in ManagerMsgs |-> [class |-> "NONE", seq |-> 0]]
    /\ plan = [m \in ClientMsgs |-> NoPlan]
    /\ outb = [m \in ClientMsgs |-> NoOut]
    /\ passed = 0
    /\ pw = [w \in Workers |-> IdlePlan]
    /\ ow = [w \in Workers |-> IdleOut]
    /\ jobs = {}
    /\ offer = NoMsg
    /\ faults = 0
    /\ calls = [m \in ClientMsgs |-> 0]
    /\ sunk = {}

-----------------------------------------------------------------------------
(* Client messages: InboundService.accept *)

\* Mutant of IsDuplicate: a repeated delivery is taken for a new message.
NoDeduplication(m) == FALSE

IsDuplicate(m) == inbox[m] # 0

\* Mutant of NewPlan: a deferred reply is scheduled by the response delay.
NewPlanIgnoresDeadline(c, nb, deferred) ==
    [NoPlan EXCEPT !.status = "PENDING", !.ctx = c.ctx, !.epoch = c.epoch,
                   !.seq = c.seq, !.nb = FUTURE, !.deferred = deferred]

NewPlan(c, nb, deferred) ==
    [NoPlan EXCEPT !.status = "PENDING", !.ctx = c.ctx, !.epoch = c.epoch,
                   !.seq = c.seq, !.nb = nb, !.deferred = deferred]

\* Mutants of EnterOrContinuePause: no pause anchor; every message moves the deadline.
PauseWithoutAnchor(c) ==
    IF c.hs = "HUMAN_ACTIVE" THEN [c EXCEPT !.hs = "HUMAN_PAUSE", !.deadline = c.ctx] ELSE c
SlidingPause(c) == [c EXCEPT !.hs = "HUMAN_PAUSE", !.deadline = c.ctx, !.anchor = TRUE]

\* enter_or_continue_human_pause: HUMAN_ACTIVE starts a pause with a fresh
\* deadline; a pause already running keeps its deadline.
EnterOrContinuePause(c) ==
    IF c.hs = "HUMAN_ACTIVE"
    THEN [c EXCEPT !.hs = "HUMAN_PAUSE", !.deadline = c.ctx, !.anchor = TRUE]
    ELSE c

\* The conversation after the event number and the context version of a new
\* message were allocated.
Bumped(c) == [c EXCEPT !.seq = c.seq + 1, !.ctx = c.ctx + 1]

AcceptNew(m) ==
    LET bumped == Bumped(conv)
        paused == EnterOrContinuePause(bumped)
    IN  /\ inbox' = [inbox EXCEPT ![m] = bumped.seq]
        /\ outb' = CancelUnadmitted
        /\ offer' = IF Kind[m] = "confirm" THEN offer ELSE NoMsg
        /\ IF AllowsAutomaticReply
           THEN /\ plan' = [CloseOpenPlans("SUPERSEDED") EXCEPT
                                ![m] = NewPlan(bumped, FUTURE, FALSE)]
                /\ conv' = [bumped EXCEPT !.active = m]
           ELSE IF conv.status = "HANDOFF" /\ conv.hs \in {"HUMAN_ACTIVE", "HUMAN_PAUSE"}
           THEN /\ plan' = [CloseOpenPlans("SUPERSEDED") EXCEPT
                                ![m] = NewPlan(paused, paused.deadline, TRUE)]
                /\ conv' = [paused EXCEPT !.active = m]
           ELSE /\ plan' = CloseOpenPlans("SUPERSEDED")
                /\ conv' = [bumped EXCEPT !.active = NoMsg]
        /\ jobs' = jobs \cup {<<"CLIENT_MESSAGE", m>>, <<"CLIENT_PROJECTION", m>>}

\* A repeated delivery finds the inbox row and changes nothing.
AcceptInbound(m) ==
    /\ IF IsDuplicate(m) THEN UNCHANGED <<conv, inbox, plan, outb, jobs, offer>>
                         ELSE AcceptNew(m)
    /\ UNCHANGED <<mgr, passed, pw, ow, faults, calls, sunk>>

-----------------------------------------------------------------------------
(* Manager messages: apply_manager_message_in_session; manager takeover *)

\* Mutant of Classify: a late message is applied as if it were new.
ClassifyIgnoresOrder(hwm, s) == IF s = 0 THEN "QUARANTINED" ELSE "APPLIED"

\* classify_manager_sequence
Classify(hwm, s) ==
    IF s = 0 THEN "QUARANTINED" ELSE IF s > hwm THEN "APPLIED" ELSE "STALE"

\* Mutant of ManagerApplied: the epoch moves the wrong way.
ManagerAppliedBackwards(c, s) ==
    [c EXCEPT !.ownership = "MANAGER", !.status = "HANDOFF", !.hs = "HUMAN_ACTIVE",
              !.ctx = c.ctx + 1, !.epoch = c.epoch - 1, !.hwm = s, !.takeover = TRUE,
              !.deadline = c.ctx + 1, !.anchor = FALSE, !.active = NoMsg]

\* apply_chronologically_new_manager_message, after the event number was taken
ManagerApplied(c, s) ==
    [c EXCEPT !.quarantined = FALSE, !.ownership = "MANAGER", !.status = "HANDOFF",
              !.hs = "HUMAN_ACTIVE", !.ctx = c.ctx + 1, !.epoch = c.epoch + 1,
              !.hwm = s, !.takeover = TRUE, !.deadline = c.ctx + 1,
              !.anchor = FALSE, !.active = NoMsg]

TakeoverJob == {<<"MANAGER_TAKEOVER", NoMsg>>}

ManagerMessage(g) ==
    LET class == Classify(conv.hwm, ProviderSeq[g])
        numbered == [conv EXCEPT !.seq = conv.seq + 1]
    IN  /\ IF mgr[g].class # "NONE"
           THEN UNCHANGED <<mgr, conv, plan, outb, jobs>>      \* duplicate delivery
           ELSE IF class # "APPLIED"
           THEN /\ mgr' = [mgr EXCEPT ![g].class = class]
                /\ UNCHANGED <<conv, plan, outb, jobs>>
           ELSE /\ mgr' = [mgr EXCEPT ![g] = [class |-> class, seq |-> numbered.seq]]
                /\ conv' = ManagerApplied(numbered, ProviderSeq[g])
                /\ plan' = CloseOpenPlans("CANCELLED")
                /\ outb' = CancelUnadmitted
                /\ jobs' = IF conv.hs = "BOT_ACTIVE" THEN jobs \cup TakeoverJob ELSE jobs
        /\ UNCHANGED <<inbox, passed, pw, ow, offer, faults, calls, sunk>>

\* Takeover finds an active, dated handoff without a pause and leaves it alone.
AlreadyTaken ==
    /\ conv.ownership = "MANAGER"
    /\ conv.takeover
    /\ conv.status = "HANDOFF"
    /\ conv.hs = "HUMAN_ACTIVE"
    /\ conv.deadline # NoDeadline
    /\ ~conv.anchor

ManagerTakeover ==
    /\ plan' = CloseOpenPlans("CANCELLED")
    /\ IF AlreadyTaken
       THEN UNCHANGED <<conv, outb, jobs>>
       ELSE /\ conv' = [conv EXCEPT !.ownership = "MANAGER", !.status = "HANDOFF",
                            !.hs = "HUMAN_ACTIVE", !.epoch = conv.epoch + 1,
                            !.takeover = TRUE, !.deadline = INFINITY,
                            !.anchor = FALSE, !.active = NoMsg]
            /\ outb' = CancelUnadmitted
            /\ jobs' = jobs \cup TakeoverJob
    /\ UNCHANGED <<inbox, mgr, passed, pw, ow, offer, faults, calls, sunk>>

-----------------------------------------------------------------------------
(* Handoff expiry: HandoffExpiryWorker.expire_one *)

DueHandoff ==
    /\ conv.status = "HANDOFF"
    /\ conv.ownership = "MANAGER"
    /\ conv.hs \in {"HUMAN_ACTIVE", "HUMAN_PAUSE"}
    /\ conv.deadline # NoDeadline
    /\ Due(conv.deadline)
    /\ ~conv.quarantined

ReturnToBot(active) ==
    conv' = [conv EXCEPT !.status = "OPEN", !.ownership = "BOT", !.hs = "BOT_ACTIVE",
                         !.deadline = NoDeadline, !.anchor = FALSE,
                         !.takeover = FALSE, !.active = active]

\* Mutant of DeferredPlanIsCurrent: a plan already marked READY is not recognised.
DeferredPlanStillPending ==
    /\ conv.active \in ClientMsgs
    /\ plan[conv.active].status = "PENDING"
    /\ FencesMatch(conv.active)
    /\ plan[conv.active].nb = conv.deadline
    /\ plan[conv.active].deferred

\* _lock_current_deferred_plan finds the reply the pause owes the client.
DeferredPlanIsCurrent ==
    /\ conv.active \in ClientMsgs
    /\ plan[conv.active].status \in {"PENDING", "READY"}
    /\ FencesMatch(conv.active)
    /\ plan[conv.active].nb = conv.deadline
    /\ plan[conv.active].deferred

ExpireActiveHandoff ==
    /\ DueHandoff
    /\ conv.hs = "HUMAN_ACTIVE"
    /\ plan' = CloseOpenPlans("CANCELLED")
    /\ outb' = CancelUnadmitted
    /\ ReturnToBot(NoMsg)
    /\ UNCHANGED <<inbox, mgr, passed, pw, ow, jobs, offer, faults, calls, sunk>>

ExpirePausedHandoff ==
    /\ DueHandoff
    /\ conv.hs = "HUMAN_PAUSE"
    /\ IF DeferredPlanIsCurrent
       THEN ReturnToBot(conv.active)
       ELSE conv' = [conv EXCEPT !.quarantined = TRUE]
    /\ UNCHANGED <<inbox, mgr, plan, outb, passed, pw, ow, jobs, offer, faults, calls, sunk>>

-----------------------------------------------------------------------------
(* Reply-plan worker: claim, dispatch, fail *)

\* Mutants: an expired final attempt is never found; found but not mirrored.
NoExhaustedPlans == {}
NoRecoveryJob(r) == {}

\* find_exhausted_lease: an expired final attempt
ExhaustedPlans ==
    {m \in ClientMsgs : /\ plan[m].status = "PROCESSING"
                        /\ plan[m].lease = "expired"
                        /\ plan[m].att >= MaxAttempts}

\* Recovery mirrors the same DEAD fact as an explicit final failure.
RecoveryJob(r) == IF r = NoMsg THEN {} ELSE {<<"PLAN_DEAD", r>>}

\* mark_ready_due_plans
Readied(m) == IF plan[m].status = "PENDING" /\ Due(plan[m].nb) THEN "READY" ELSE plan[m].status

Claimable(m) ==
    /\ plan[m].att < MaxAttempts
    /\ Due(plan[m].nb)
    /\ conv.status = "OPEN" /\ conv.ownership = "BOT" /\ conv.hs = "BOT_ACTIVE"
    /\ FencesMatch(m)
    /\ \/ Readied(m) \in {"READY", "FAILED"}
       \/ plan[m].status = "PROCESSING" /\ plan[m].lease = "expired"

\* One transaction of claim_one: terminalise an exhausted plan r if there is
\* one, mark due plans READY, and claim a plan c if one is claimable.
ClaimPlan(w, r, c) ==
    /\ plan' = [m \in ClientMsgs |->
          IF m = r THEN [plan[m] EXCEPT !.status = "DEAD", !.lease = "none"]
          ELSE IF m = c THEN [plan[m] EXCEPT !.status = "PROCESSING", !.lease = "live",
                                  !.ver = plan[m].ver + 1, !.att = plan[m].att + 1]
          ELSE [plan[m] EXCEPT !.status = Readied(m)]]
    /\ pw' = IF c = NoMsg THEN pw
             ELSE [pw EXCEPT ![w] = [ph |-> "claimed", m |-> c,
                                     ver |-> plan[c].ver + 1, got |-> "none"]]
    /\ jobs' = jobs \cup RecoveryJob(r)

PlanClaim(w) ==
    /\ pw[w].ph = "idle"
    /\ \E r \in OrNone(ExhaustedPlans), c \in OrNone({m \in ClientMsgs : Claimable(m)}) :
          ClaimPlan(w, r, c)
    /\ UNCHANGED <<conv, inbox, mgr, outb, passed, ow, offer, faults, calls, sunk>>

\* _lock_and_validate
PlanValid(c) ==
    /\ FencesMatch(c.m)
    /\ conv.ownership = "BOT"
    /\ conv.hs = "BOT_ACTIVE"
    /\ ~conv.takeover
    /\ OwnsPlan(c)

\* A stale claim is abandoned without touching the row.
PlanStale(w) ==
    /\ pw[w].ph \in {"claimed", "finalize"}
    /\ ~PlanValid(pw[w])
    /\ pw' = [pw EXCEPT ![w] = IdlePlan]
    /\ UNCHANGED <<conv, inbox, mgr, plan, outb, passed, ow, jobs, offer, faults, calls, sunk>>

\* Any other exception sends the task to fail_claimed.  A plan without a
\* booking block always ends here: no text can be rendered for it.
PlanRaises(w) ==
    /\ pw[w].ph \in {"claimed", "remote", "finalize"}
    /\ pw' = [pw EXCEPT ![w].ph = "failing"]
    /\ UNCHANGED <<conv, inbox, mgr, plan, outb, passed, ow, jobs, offer, faults, calls, sunk>>

\* The plan of c leaves PROCESSING for DISPATCHED (complete_dispatched_with_lease).
Dispatched(p) == [p EXCEPT !.status = "DISPATCHED", !.lease = "none"]

HasResult(p) == p.res \notin {"none", "started"}

\* Mutant of MarkStarted: the durable marker is not written.
MarkForgotten(p) == p

\* try_mark_booking_resolution_started
MarkStarted(p) == [p EXCEPT !.res = "started"]

\* _booking_phase1_prepare
BookingPhase1(w) ==
    LET c == pw[w]
    IN  /\ c.ph = "claimed"
        /\ Kind[c.m] = "booking"
        /\ PlanValid(c)
        /\ IF outb[c.m].status # "NONE"
           THEN /\ plan' = [plan EXCEPT ![c.m] = Dispatched(plan[c.m])]
                /\ jobs' = jobs \cup {<<"PLAN_DISPATCHED", c.m>>}
                /\ pw' = [pw EXCEPT ![w] = IdlePlan]
           ELSE /\ plan' = IF plan[c.m].res = "none"
                           THEN [plan EXCEPT ![c.m] = MarkStarted(plan[c.m])] ELSE plan
                /\ pw' = [pw EXCEPT ![w] =
                            IF plan[c.m].res = "none"
                            THEN [c EXCEPT !.ph = "remote"]
                            ELSE [c EXCEPT !.ph = "finalize",
                                    !.got = IF HasResult(plan[c.m]) THEN plan[c.m].res
                                                                     ELSE "INTERRUPTED"]]
                /\ UNCHANGED jobs
        /\ UNCHANGED <<conv, inbox, mgr, outb, passed, ow, offer, faults, calls, sunk>>

\* _resolve_booking_off_transaction: the backend is called outside a transaction
BookingRemote(w) ==
    /\ pw[w].ph = "remote"
    /\ \E r \in RemoteResults : pw' = [pw EXCEPT ![w] = [@ EXCEPT !.ph = "finalize", !.got = r]]
    /\ calls' = [calls EXCEPT ![pw[w].m] = calls[pw[w].m] + 1]
    /\ UNCHANGED <<conv, inbox, mgr, plan, outb, passed, ow, jobs, offer, faults, sunk>>

\* _booking_phase2_finalize: the stored result wins over the one in memory
BookingPhase2(w) ==
    LET c == pw[w]
        res == IF HasResult(plan[c.m]) THEN plan[c.m].res ELSE c.got
    IN  /\ c.ph = "finalize"
        /\ PlanValid(c)
        /\ IF outb[c.m].status # "NONE"
           THEN /\ plan' = [plan EXCEPT ![c.m] = Dispatched(plan[c.m])]
                /\ UNCHANGED outb
           ELSE /\ plan' = [plan EXCEPT ![c.m] = [Dispatched(plan[c.m]) EXCEPT !.res = res]]
                /\ outb' = [outb EXCEPT ![c.m] =
                              [NoOut EXCEPT !.status = "PENDING", !.body = res]]
        /\ jobs' = jobs \cup {<<"PLAN_DISPATCHED", c.m>>}
        /\ pw' = [pw EXCEPT ![w] = IdlePlan]
        /\ UNCHANGED <<conv, inbox, mgr, passed, ow, offer, faults, calls, sunk>>

\* fail_claimed: checks the lease only; DEAD is mirrored
PlanFail(w) ==
    LET c == pw[w]
        dead == plan[c.m].att >= MaxAttempts
    IN  /\ c.ph = "failing"
        /\ IF OwnsPlan(c)
           THEN /\ plan' = [plan EXCEPT ![c.m] =
                              [@ EXCEPT !.status = IF dead THEN "DEAD" ELSE "FAILED",
                                        !.nb = IF dead THEN plan[c.m].nb ELSE FUTURE,
                                        !.lease = "none"]]
                /\ jobs' = IF dead THEN jobs \cup {<<"PLAN_DEAD", c.m>>} ELSE jobs
           ELSE UNCHANGED <<plan, jobs>>
        /\ pw' = [pw EXCEPT ![w] = IdlePlan]
        /\ UNCHANGED <<conv, inbox, mgr, outb, passed, ow, offer, faults, calls, sunk>>

-----------------------------------------------------------------------------
(* Outbound worker and arbiter: claim, admit, deliver *)

\* Mutant of ExhaustedOut: an expired final attempt is never found.
NeverExhausted(m) == FALSE

\* recover_exhausted_leases
ExhaustedOut(m) ==
    /\ outb[m].status = "PROCESSING"
    /\ outb[m].lease = "expired"
    /\ outb[m].att >= MaxAttempts

OutClaimable(m) ==
    /\ outb[m].status = "ADMITTED" \/ outb[m].att < MaxAttempts
    /\ Due(outb[m].nb)
    /\ \/ outb[m].status \in {"PENDING", "FAILED"}
       \/ outb[m].status = "PROCESSING" /\ outb[m].lease = "expired"
       \/ outb[m].status = "ADMITTED" /\ outb[m].lease # "live"

\* claim_next: terminalise exhausted rows and claim a row c if one is
\* claimable; an admitted row keeps its status.
ClaimOut(w, c) ==
    /\ outb' = [m \in ClientMsgs |->
          IF ExhaustedOut(m) THEN [outb[m] EXCEPT !.status = "DEAD", !.lease = "none"]
          ELSE IF m = c
          THEN [outb[m] EXCEPT
                  !.status = IF outb[m].status = "ADMITTED" THEN "ADMITTED" ELSE "PROCESSING",
                  !.lease = "live", !.ver = outb[m].ver + 1, !.att = outb[m].att + 1]
          ELSE outb[m]]
    /\ ow' = IF c = NoMsg THEN ow
             ELSE [ow EXCEPT ![w] =
                     [ph |-> IF outb[c].status = "ADMITTED" THEN "reclaimed" ELSE "claimed",
                      m |-> c, ver |-> outb[c].ver + 1]]

OutClaim(w) ==
    /\ ow[w].ph = "idle"
    /\ \E c \in OrNone({m \in ClientMsgs : OutClaimable(m)}) : ClaimOut(w, c)
    /\ UNCHANGED <<conv, inbox, mgr, plan, passed, pw, jobs, offer, faults, calls, sunk>>

\* The checks _admit_in_session makes after it has re-read the leased row.
OutboundCurrent(m) ==
    /\ Due(outb[m].nb)
    /\ FencesMatch(m)
    /\ plan[m].status = "DISPATCHED"

\* admit_claimed up to the admission commit.  The conversation is checked
\* before the lease, so a manager-owned dialog denies even a stale claim.
Admit(w) ==
    LET c == ow[w]
    IN  /\ c.ph = "claimed"
        /\ IF ~AllowsAutomaticReply
           THEN ow' = [ow EXCEPT ![w].ph = "denied"] /\ UNCHANGED outb
           ELSE IF ~OwnsOut(c, "PROCESSING")
           THEN ow' = [ow EXCEPT ![w] = IdleOut] /\ UNCHANGED outb
           ELSE IF ~OutboundCurrent(c.m)
           THEN ow' = [ow EXCEPT ![w].ph = "denied"] /\ UNCHANGED outb
           ELSE /\ outb' = [outb EXCEPT ![c.m].status = "ADMITTED"]
                /\ ow' = [ow EXCEPT ![w].ph = "admitted"]
        /\ UNCHANGED <<conv, inbox, mgr, plan, passed, pw, jobs, offer, faults, calls, sunk>>

\* Any exception inside the admission transaction also leads to _fail_claim.
AdmitRaises(w) ==
    /\ ow[w].ph = "claimed"
    /\ ow' = [ow EXCEPT ![w].ph = "denied"]
    /\ UNCHANGED <<conv, inbox, mgr, plan, outb, passed, pw, jobs, offer, faults, calls, sunk>>

\* _fail_claim (fail_with_lease); a stale lease is ignored
OutFail(w) ==
    LET c == ow[w]
        dead == outb[c.m].att >= MaxAttempts
    IN  /\ c.ph = "denied"
        /\ outb' = IF OwnsOut(c, "PROCESSING")
                   THEN [outb EXCEPT ![c.m] =
                           [@ EXCEPT !.status = IF dead THEN "DEAD" ELSE "FAILED",
                                     !.nb = IF dead THEN outb[c.m].nb ELSE FUTURE,
                                     !.lease = "none"]]
                   ELSE outb
        /\ ow' = [ow EXCEPT ![w] = IdleOut]
        /\ UNCHANGED <<conv, inbox, mgr, plan, passed, pw, jobs, offer, faults, calls, sunk>>

\* _prepare_reclaimed_admission
PrepareReclaimed(w) ==
    /\ ow[w].ph = "reclaimed"
    /\ ow' = [ow EXCEPT ![w] = IF OwnsOut(ow[w], "ADMITTED")
                               THEN [ow[w] EXCEPT !.ph = "admitted"] ELSE IdleOut]
    /\ UNCHANGED <<conv, inbox, mgr, plan, outb, passed, pw, jobs, offer, faults, calls, sunk>>

\* The sink runs outside every transaction.
SinkAccepts(w) ==
    /\ ow[w].ph = "admitted"
    /\ sunk' = sunk \cup {ow[w].m}
    /\ ow' = [ow EXCEPT ![w].ph = "sent"]
    /\ UNCHANGED <<conv, inbox, mgr, plan, outb, passed, pw, jobs, offer, faults, calls>>

SinkRefuses(w) ==
    /\ ow[w].ph = "admitted"
    /\ \E e \in {"transient", "permanent"} : ow' = [ow EXCEPT ![w].ph = e]
    /\ UNCHANGED <<conv, inbox, mgr, plan, outb, passed, pw, jobs, offer, faults, calls, sunk>>

\* _fail_admitted_delivery: never back across ADMITTED; a stale lease is ignored
FailAdmitted(w) ==
    LET c == ow[w]
        dead == c.ph = "permanent" \/ outb[c.m].att >= MaxAttempts
    IN  /\ c.ph \in {"transient", "permanent"}
        /\ outb' = IF OwnsOut(c, "ADMITTED")
                   THEN [outb EXCEPT ![c.m] =
                           [@ EXCEPT !.status = IF dead THEN "DEAD" ELSE "ADMITTED",
                                     !.nb = IF dead THEN outb[c.m].nb ELSE FUTURE,
                                     !.lease = "none"]]
                   ELSE outb
        /\ ow' = [ow EXCEPT ![w] = IdleOut]
        /\ UNCHANGED <<conv, inbox, mgr, plan, passed, pw, jobs, offer, faults, calls, sunk>>

\* The fence of message a is older than the fence of b: (epoch, ctx, seq) compared
\* as a tuple.
Older(a, b) ==
    \/ plan[a].epoch < plan[b].epoch
    \/ plan[a].epoch = plan[b].epoch /\ plan[a].ctx < plan[b].ctx
    \/ plan[a].epoch = plan[b].epoch /\ plan[a].ctx = plan[b].ctx /\ plan[a].seq < plan[b].seq

\* Mutant of OfferBinds: a bind failure is swallowed.
BindFailureSwallowed(m) == TRUE

\* An offer whose slot ids parse_bot_slot_id rejects cannot be bound.
OfferBinds(m) == outb[m].body # "OFFER_UNPARSABLE"

\* Mutant of Activated: a late offer wins.
LastDeliveryWins(m) == IF outb[m].body = "OFFER_SLOTS" THEN m ELSE offer

\* activate_from_delivered_outbound: only an older offer is replaced
Activated(m) ==
    IF outb[m].body = "OFFER_SLOTS" /\ (offer = NoMsg \/ Older(offer, m)) THEN m ELSE offer

\* Delivery commits together with the active offer and the mirror job.  A stale
\* lease, and an offer whose slots do not parse, roll the transaction back.
Deliver(w) ==
    LET c == ow[w]
    IN  /\ c.ph = "sent"
        /\ IF OwnsOut(c, "ADMITTED") /\ OfferBinds(c.m)
           THEN /\ outb' = [outb EXCEPT ![c.m] = [@ EXCEPT !.status = "DELIVERED",
                                                           !.lease = "none"]]
                /\ offer' = Activated(c.m)
                /\ jobs' = jobs \cup {<<"OUTBOUND_DELIVERED", c.m>>}
                /\ ow' = [ow EXCEPT ![w].ph = "delivered"]
           ELSE /\ ow' = [ow EXCEPT ![w] = IdleOut]
                /\ UNCHANGED <<outb, offer, jobs>>
        /\ UNCHANGED <<conv, inbox, mgr, plan, passed, pw, faults, calls, sunk>>

\* The chat projection is enqueued in a transaction of its own; its failure is
\* logged and swallowed.
EnqueueProjection(w) ==
    /\ ow[w].ph = "delivered"
    /\ \/ jobs' = jobs \cup {<<"BOT_PROJECTION", ow[w].m>>}
       \/ UNCHANGED jobs
    /\ ow' = [ow EXCEPT ![w] = IdleOut]
    /\ UNCHANGED <<conv, inbox, mgr, plan, outb, passed, pw, offer, faults, calls, sunk>>

\* repair_bot_outbound_projection, run by an operator for one outbound row
RepairProjection(m) ==
    /\ outb[m].status = "DELIVERED"
    /\ jobs' = jobs \cup {<<"BOT_PROJECTION", m>>}
    /\ UNCHANGED <<conv, inbox, mgr, plan, outb, passed, pw, ow, offer, faults, calls, sunk>>

-----------------------------------------------------------------------------
(* Time and faults *)

DeadlinePasses ==
    /\ conv.deadline > passed
    /\ passed' = conv.deadline
    /\ UNCHANGED <<conv, inbox, mgr, plan, outb, pw, ow, jobs, offer, faults, calls, sunk>>

PlanDelayPasses(m) ==
    /\ m \in OpenPlans
    /\ plan[m].nb = FUTURE
    /\ plan' = [plan EXCEPT ![m].nb = PAST]
    /\ UNCHANGED <<conv, inbox, mgr, outb, passed, pw, ow, jobs, offer, faults, calls, sunk>>

OutDelayPasses(m) ==
    /\ outb[m].status \in {"FAILED", "ADMITTED"}
    /\ outb[m].nb = FUTURE
    /\ outb' = [outb EXCEPT ![m].nb = PAST]
    /\ UNCHANGED <<conv, inbox, mgr, plan, passed, pw, ow, jobs, offer, faults, calls, sunk>>

\* A lease that runs out under the task that holds it is a fault; after the
\* task is gone it always runs out.
FaultIf(b) ==
    IF b THEN faults < MaxFaults /\ faults' = faults + 1 ELSE UNCHANGED faults

PlanLeaseExpires(m) ==
    /\ plan[m].lease = "live"
    /\ plan' = [plan EXCEPT ![m].lease = "expired"]
    /\ FaultIf(\E w \in Workers : pw[w].m = m /\ pw[w].ver = plan[m].ver)
    /\ UNCHANGED <<conv, inbox, mgr, outb, passed, pw, ow, jobs, offer, calls, sunk>>

OutLeaseExpires(m) ==
    /\ outb[m].lease = "live"
    /\ outb' = [outb EXCEPT ![m].lease = "expired"]
    /\ FaultIf(\E w \in Workers : ow[w].m = m /\ ow[w].ver = outb[m].ver)
    /\ UNCHANGED <<conv, inbox, mgr, plan, passed, pw, ow, jobs, offer, calls, sunk>>

\* A crash or a tick timeout drops what a task holds in memory.
DropPlanTask(w) ==
    /\ pw[w].ph # "idle"
    /\ FaultIf(TRUE)
    /\ pw' = [pw EXCEPT ![w] = IdlePlan]
    /\ UNCHANGED <<conv, inbox, mgr, plan, outb, passed, ow, jobs, offer, calls, sunk>>

DropOutTask(w) ==
    /\ ow[w].ph # "idle"
    /\ FaultIf(TRUE)
    /\ ow' = [ow EXCEPT ![w] = IdleOut]
    /\ UNCHANGED <<conv, inbox, mgr, plan, outb, passed, pw, jobs, offer, calls, sunk>>

-----------------------------------------------------------------------------

PlanTask(w) ==
    PlanStale(w) \/ PlanRaises(w) \/ BookingPhase1(w) \/ BookingRemote(w)
        \/ BookingPhase2(w) \/ PlanFail(w)

OutTask(w) ==
    Admit(w) \/ AdmitRaises(w) \/ OutFail(w) \/ PrepareReclaimed(w) \/ SinkAccepts(w)
        \/ SinkRefuses(w) \/ FailAdmitted(w) \/ Deliver(w) \/ EnqueueProjection(w)

Next ==
    \/ \E m \in ClientMsgs : AcceptInbound(m)
    \/ \E g \in ManagerMsgs : ManagerMessage(g)
    \/ ManagerTakeover
    \/ ExpireActiveHandoff
    \/ ExpirePausedHandoff
    \/ \E w \in Workers : PlanClaim(w) \/ PlanTask(w) \/ DropPlanTask(w)
    \/ \E w \in Workers : OutClaim(w) \/ OutTask(w) \/ DropOutTask(w)
    \/ \E m \in ClientMsgs : RepairProjection(m)
    \/ DeadlinePasses
    \/ \E m \in ClientMsgs : PlanDelayPasses(m) \/ OutDelayPasses(m)
                              \/ PlanLeaseExpires(m) \/ OutLeaseExpires(m)

Spec == Init /\ [][Next]_vars

\* Fairness: the worker loops tick for ever (worker_runtime), a handler that is
\* running finishes its next step, and time passes.  Nothing is assumed of
\* clients, managers, operators or faults.
Fairness ==
    /\ \A w \in Workers : WF_vars(PlanClaim(w)) /\ WF_vars(PlanTask(w))
                          /\ WF_vars(OutClaim(w)) /\ WF_vars(OutTask(w))
    /\ WF_vars(ExpireActiveHandoff) /\ WF_vars(ExpirePausedHandoff)
    /\ WF_vars(DeadlinePasses)
    /\ \A m \in ClientMsgs : WF_vars(PlanDelayPasses(m)) /\ WF_vars(OutDelayPasses(m))
                             /\ WF_vars(PlanLeaseExpires(m)) /\ WF_vars(OutLeaseExpires(m))

FairSpec == Spec /\ Fairness

-----------------------------------------------------------------------------
(* Type invariant *)

ConvType ==
    [status : {"OPEN", "HANDOFF"}, ownership : {"BOT", "MANAGER"},
     hs : {"BOT_ACTIVE", "HUMAN_ACTIVE", "HUMAN_PAUSE"},
     ctx : Nat, epoch : Nat, seq : Nat, hwm : Nat, takeover : BOOLEAN,
     deadline : Nat \cup {INFINITY}, anchor : BOOLEAN,
     active : ClientMsgs \cup {NoMsg}, quarantined : BOOLEAN]
PlanType ==
    [status : PlanStatuses, ctx : Nat, epoch : Nat, seq : Nat,
     nb : Nat \cup {FUTURE, INFINITY}, deferred : BOOLEAN, lease : Leases,
     ver : Nat, att : Nat, res : Resolutions]
OutType ==
    [status : OutStatuses, nb : {PAST, FUTURE}, lease : Leases, ver : Nat, att : Nat,
     body : Resolutions]
PlanClaimType ==
    [ph : PlanPhases, m : ClientMsgs \cup {NoMsg}, ver : Nat, got : Resolutions]
OutClaimType == [ph : OutPhases, m : ClientMsgs \cup {NoMsg}, ver : Nat]

\* Every column and every claim held in memory keeps its type; a task that is
\* not idle holds a claim of an existing message.
TypeOK ==
    /\ conv \in ConvType
    /\ inbox \in [ClientMsgs -> Nat]
    /\ mgr \in [ManagerMsgs -> [class : MgrClasses, seq : Nat]]
    /\ plan \in [ClientMsgs -> PlanType]
    /\ outb \in [ClientMsgs -> OutType]
    /\ passed \in Nat
    /\ pw \in [Workers -> PlanClaimType]
    /\ ow \in [Workers -> OutClaimType]
    /\ \A w \in Workers : /\ pw[w].ph # "idle" => pw[w].m \in ClientMsgs
                          /\ ow[w].ph # "idle" => ow[w].m \in ClientMsgs
    /\ jobs \subseteq JobKinds \X (ClientMsgs \cup {NoMsg})
    /\ offer \in ClientMsgs \cup {NoMsg}
    /\ faults \in 0..MaxFaults
    /\ calls \in [ClientMsgs -> Nat]
    /\ sunk \subseteq ClientMsgs

-----------------------------------------------------------------------------
(* Safety *)

\* ck_conversations_handoff_consistency: status, ownership, handoff state,
\* deadline, pause anchor and takeover mark always agree, so no transaction is
\* aborted by the CHECK constraint.
HandoffConsistent ==
    \/ /\ conv.status = "OPEN" /\ conv.ownership = "BOT" /\ conv.hs = "BOT_ACTIVE"
       /\ conv.deadline = NoDeadline /\ ~conv.anchor /\ ~conv.takeover
    \/ /\ conv.status = "HANDOFF" /\ conv.ownership = "MANAGER"
       /\ conv.deadline # NoDeadline /\ conv.takeover
       /\ conv.hs \in {"HUMAN_ACTIVE", "HUMAN_PAUSE"}
       /\ conv.anchor <=> conv.hs = "HUMAN_PAUSE"

\* There is never more than one open reply plan, and it answers the last event
\* of the dialog: it is the conversation's active plan and carries the current
\* context version, manager epoch and event number.  While a manager is active
\* there is none.
OpenPlanIsCurrent ==
    \A m \in OpenPlans :
        m = conv.active /\ FencesMatch(m) /\ conv.hs # "HUMAN_ACTIVE"

\* A client who wrote during a handoff is owed exactly one reply: while the
\* pause runs, the deferred plan is open, current and scheduled for the very
\* deadline that ends the pause, so expiry never has to quarantine the dialog.
PauseOwesReply ==
    /\ conv.hs = "HUMAN_PAUSE" => DeferredPlanIsCurrent
    /\ ~conv.quarantined

\* An outbound row that can still be admitted belongs to a dispatched plan, was
\* computed from the current state of the dialog, and the bot still owns the
\* dialog: whatever a new client or manager message outdates is cancelled in
\* the same transaction.
UnadmittedIsCurrent ==
    \A m \in ClientMsgs : outb[m].status \in OutCancellable =>
        plan[m].status = "DISPATCHED" /\ FencesMatch(m) /\ AllowsAutomaticReply

\* The sink has only seen rows whose admission was committed, none of them was
\* cancelled afterwards, and a row is DELIVERED only if the sink accepted it.
SinkFollowsAdmission ==
    \A m \in ClientMsgs :
        /\ m \in sunk => outb[m].status \in {"ADMITTED", "DELIVERED", "DEAD"}
        /\ outb[m].status = "DELIVERED" => m \in sunk

\* ck_outbox_* and the plan lifecycle: exactly the rows being processed hold a
\* lease (an admitted row may hold one), and attempts stay within max_attempts
\* until admission.
LeaseDiscipline ==
    \A m \in ClientMsgs :
        /\ plan[m].lease # "none" <=> plan[m].status = "PROCESSING"
        /\ plan[m].att <= MaxAttempts
        /\ outb[m].status = "PROCESSING" => outb[m].lease # "none"
        /\ outb[m].lease # "none" => outb[m].status \in {"PROCESSING", "ADMITTED"}
        /\ outb[m].status \in OutCancellable => outb[m].att <= MaxAttempts

\* The booking backend is called at most once for a plan, whatever crashes,
\* timeouts and overlapping workers do, and the outbound row carries the result
\* stored with the plan.
BookingResolvedOnce ==
    \A m \in ClientMsgs :
        /\ calls[m] <= 1
        /\ outb[m].status # "NONE" => HasResult(plan[m]) /\ outb[m].body = plan[m].res

\* The transactional outbox is exact: a mirror job exists if and only if its
\* domain fact was committed.
MirrorExact ==
    /\ \A m \in ClientMsgs :
        /\ <<"CLIENT_MESSAGE", m>> \in jobs <=> inbox[m] # 0
        /\ <<"PLAN_DISPATCHED", m>> \in jobs <=> plan[m].status = "DISPATCHED"
        /\ <<"PLAN_DEAD", m>> \in jobs <=> plan[m].status = "DEAD"
        /\ <<"OUTBOUND_DELIVERED", m>> \in jobs <=> outb[m].status = "DELIVERED"
        /\ <<"BOT_PROJECTION", m>> \in jobs => outb[m].status = "DELIVERED"
    /\ <<"MANAGER_TAKEOVER", NoMsg>> \in jobs <=> conv.epoch > 0

Numbered == {m \in ClientMsgs : inbox[m] # 0}
Applied == {g \in ManagerMsgs : mgr[g].class = "APPLIED"}

\* The dialog's events are numbered 1, 2, 3, ... without gap or repetition,
\* and later events have later context versions: reply plans never collide on
\* uq_reply_plans_conversation_context_version.
TimelineDense ==
    /\ {inbox[m] : m \in Numbered} \cup {mgr[g].seq : g \in Applied} = 1..conv.seq
    /\ Cardinality(Numbered) + Cardinality(Applied) = conv.seq
    /\ \A m, n \in ClientMsgs :
        plan[m].status # "NONE" /\ plan[n].status # "NONE" /\ inbox[m] < inbox[n]
            => plan[m].ctx < plan[n].ctx

\* Manager messages take effect in the provider's order although they arrive in
\* any order, and the high-water mark is the last one applied.
ManagerOrder ==
    /\ \A g, h \in Applied : mgr[g].seq < mgr[h].seq => ProviderSeq[g] < ProviderSeq[h]
    /\ \A g \in Applied : ProviderSeq[g] <= conv.hwm
    /\ conv.hwm # 0 => \E g \in Applied : ProviderSeq[g] = conv.hwm

\* The active offer is always a delivered OFFER_SLOTS reply, and no reply whose
\* slots could not be bound counts as delivered.
OfferProvenance ==
    /\ offer # NoMsg => outb[offer].status = "DELIVERED" /\ outb[offer].body = "OFFER_SLOTS"
    /\ \A m \in ClientMsgs :
          outb[m].status = "DELIVERED" => outb[m].body \in {"OFFER_SLOTS", "NO_OFFER", "INTERRUPTED"}

-----------------------------------------------------------------------------
(* Action properties *)

\* REPLY_PLAN_TRANSITIONS
PlanTransitions ==
    ({"PENDING"} \X {"READY", "PROCESSING", "CANCELLED", "SUPERSEDED"})
    \cup ({"READY"} \X {"PROCESSING", "CANCELLED", "SUPERSEDED"})
    \cup ({"PROCESSING"} \X {"DISPATCHED", "FAILED", "DEAD", "CANCELLED", "SUPERSEDED"})
    \cup ({"FAILED"} \X {"PROCESSING", "DEAD", "CANCELLED", "SUPERSEDED"})
    \cup {<<"NONE", "PENDING">>}

\* OUTBOUND_TRANSITIONS
OutTransitions ==
    ({"PENDING"} \X {"PROCESSING", "CANCELLED"})
    \cup ({"PROCESSING"} \X {"ADMITTED", "FAILED", "DEAD", "CANCELLED"})
    \cup ({"ADMITTED"} \X {"DELIVERED", "DEAD"})
    \cup ({"FAILED"} \X {"PROCESSING", "DEAD", "CANCELLED"})
    \cup {<<"NONE", "PENDING">>}

\* Plans and outbound rows move along their transition tables only: terminal
\* states are final, and an admitted row is never cancelled or sent back.
LegalTransitions ==
    [][\A m \in ClientMsgs :
        /\ plan[m].status = plan'[m].status
           \/ <<plan[m].status, plan'[m].status>> \in PlanTransitions
        /\ outb[m].status = outb'[m].status
           \/ <<outb[m].status, outb'[m].status>> \in OutTransitions]_vars

\* A pause never slides: however often the client writes, the deadline of a
\* running pause stays where the first message put it.
PauseNeverSlides ==
    [][conv.hs = "HUMAN_PAUSE" /\ conv'.hs = "HUMAN_PAUSE"
        => conv'.deadline = conv.deadline]_vars

\* One offer replaces another only if it was computed from a later state of the
\* dialog.
OfferOnlyAdvances ==
    [][offer # NoMsg /\ offer' # NoMsg /\ offer' # offer
        => Older(offer, offer')]_vars

-----------------------------------------------------------------------------
(* Liveness *)

\* Every reply plan is eventually dispatched, cancelled, superseded or dead.
RepliesResolve == \A m \in ClientMsgs : m \in OpenPlans ~> m \notin OpenPlans

\* A handoff with a finite deadline eventually gives the dialog back to the bot
\* (unless an explicit takeover makes it indefinite).
HandoffEnds ==
    conv.hs # "BOT_ACTIVE" /\ conv.deadline # INFINITY
        ~> conv.hs = "BOT_ACTIVE" \/ conv.deadline = INFINITY

\* An admitted message is eventually delivered or given up, and an outbound row
\* never stays undecided.
OutboundSettles ==
    \A m \in ClientMsgs :
        outb[m].status \in OutCancellable \cup {"ADMITTED"}
            ~> outb[m].status \in {"DELIVERED", "DEAD", "CANCELLED"}

\* What the fences of the dialog are for: whatever messages, takeovers and
\* expiries overlap, only a current reply is open or can still be admitted, and
\* a pause owes exactly one.
RepliesAreCurrent ==
  /\ HandoffConsistent
  /\ OpenPlanIsCurrent
  /\ PauseOwesReply
  /\ UnadmittedIsCurrent

\* A worker acts only under its lease, and the sink gets only what was
\* admitted, however leases expire under running handlers.
OutboundDiscipline ==
  /\ SinkFollowsAdmission
  /\ LeaseDiscipline

\* What the dialog leaves behind is exact: one mirror job per fact, a timeline
\* without gaps, managers in provider order.
RecordExact ==
  /\ MirrorExact
  /\ TimelineDense
  /\ ManagerOrder

\* Rows move only along their state machines, and a client who keeps writing
\* does not push the end of a pause away.
NeverBackwards ==
  /\ LegalTransitions
  /\ PauseNeverSlides

\* A worker holds the admission of m and is on its way to the sink.
InFlight(m) == \E w \in Workers : ow[w].ph = "admitted" /\ ow[w].m = m

PlanOpen == {"PENDING", "READY", "PROCESSING", "FAILED"}

\* What became of the reply to m, as the client sees it.  A row that was given
\* up while a worker still holds its admission may yet reach the client.
ReplyOf(m) ==
    IF inbox[m] = 0 THEN "unasked"
    ELSE IF m \in sunk THEN "seen"
    ELSE IF outb[m].status \in OutCancellable \/ plan[m].status \in PlanOpen THEN "owed"
    ELSE IF outb[m].status = "ADMITTED" \/ (outb[m].status = "DEAD" /\ InFlight(m))
    THEN "committed" ELSE "closed"

Replies == [m \in ClientMsgs |-> ReplyOf(m)]

ClientPromise == INSTANCE ReplyPromise
    WITH Msgs <- ClientMsgs, reply <- Replies, manager <- conv.ownership = "MANAGER"

\* The dialog does what ReplyPromise says, through plans, outbound rows, leases
\* and workers that crash and overlap: one reply is owed at a time, to the last
\* message; the bot commits itself only while it holds the dialog and nobody
\* has written since; the client sees what was committed.  And no row takes a
\* step its state machine does not have.
RepliesAsPromised ==
  /\ ClientPromise!Spec
  /\ NeverBackwards

\* The active offer is one that was delivered, and a late delivery of an older
\* one does not replace it.
OfferTracksDelivery ==
  /\ []OfferProvenance
  /\ OfferOnlyAdvances

\* Plans, finite handoffs and outbound rows all come to an end.
DialogSettles ==
  /\ RepliesResolve
  /\ HandoffEnds
  /\ OutboundSettles

-----------------------------------------------------------------------------
(* Claims of the comments and the docs that do not hold *)

\* "confirm preserves active offer; any other new inbound clears it": no
\* message other than a confirmation is newer than the active offer.
OtherInboundClearsOffer ==
    offer # NoMsg => \A m \in ClientMsgs : inbox[m] > plan[offer].seq => Kind[m] = "confirm"
=============================================================================
