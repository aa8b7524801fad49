--------------------------- MODULE WorkersProofs ---------------------------
(***************************************************************************)
(* Theorems about the background workers, for any numbers of processes,    *)
(* loops, callers and faults: the worker runtime, the control-plane cache, *)
(* the OAuth tokens and the analytics worker.  They share no state; each   *)
(* section is about one component and its own specification.               *)
(***************************************************************************)
EXTENDS WorkerRuntime, ControlPlane, OAuthTokens, LeadAnalytics, FiniteSetTheorems, WellFoundedInduction, TLAPS

-----------------------------------------------------------------------------
(* The worker runtime *)

LockStates == {"new", "locked", "running", "stopping", "ending", "exited"}
Holding == {"locked", "running", "stopping", "ending"}
TaskType == [at : {"poll", "tick", "tick_due", "ended", "raised", "fatal"}, fails : Nat, fresh : BOOLEAN,
             errs : Nat, hid : BOOLEAN]
BeatType == [gen : WorkerProcs \cup {NoProc}, ok : WorkerProcs \cup {NoProc}, fails : Nat]

RuntimeTypes ==
  /\ lockOwner \in WorkerProcs \cup {NoProc}
  /\ procs \in [WorkerProcs -> LockStates]
  /\ tasks \in [WorkerProcs -> [RuntimeLoops -> TaskType]]
  /\ beats \in [RuntimeLoops -> BeatType]
  /\ lockLost \in BOOLEAN /\ rtFaults \in Nat

\* From the acquisition to the release a process is the lock's owner, as long as
\* no session was lost; its tasks run only in between.
LockInv ==
  /\ lockLost \/ \A p \in WorkerProcs : procs[p] \in Holding => lockOwner = p
  /\ \A p \in WorkerProcs : procs[p] \in {"new", "locked", "exited"} =>
        \A l \in RuntimeLoops : tasks[p][l].at \in Over

\* The rows belong to one generation, and a success in them is its own.
BeatInv ==
  /\ \A l, k \in RuntimeLoops : beats[l].gen = beats[k].gen
  /\ \A l \in RuntimeLoops : beats[l].ok # NoProc => beats[l].ok = beats[l].gen

\* A task that owns its row knows the row's count, and the count is of failures
\* since its last good tick, unless a rate-limited tick hid one from the row.
CountOf(p, l) ==
  /\ tasks[p][l].at \notin Over /\ beats[l].gen = p /\ ~tasks[p][l].hid =>
        tasks[p][l].fails = beats[l].fails /\ beats[l].fails <= tasks[p][l].errs
  /\ tasks[p][l].at = "fatal" => tasks[p][l].errs >= MaxConsecutive \/ tasks[p][l].hid

CountInv == \A p \in WorkerProcs, l \in RuntimeLoops : CountOf(p, l)

RuntimeInv == RuntimeTypes /\ LockInv /\ BeatInv /\ CountInv

LEMMA TaskTypes == NewTask \in TaskType /\ EndedTask \in TaskType /\ Raised \in TaskType
                   /\ EndedTask.at = "ended" /\ Raised.at = "raised"
  BY DEF NewTask, EndedTask, Raised, TaskType

LEMMA RuntimeInitially == RuntimeInit => RuntimeInv
<1> SUFFICES ASSUME RuntimeInit PROVE RuntimeInv OBVIOUS
<1>1. NoBeat \in BeatType BY DEF NoBeat, BeatType
<1>2. RuntimeTypes BY <1>1, TaskTypes DEF RuntimeInit, RuntimeTypes, LockStates
<1>3. LockInv BY TaskTypes DEF RuntimeInit, LockInv, Over, Holding
<1>4. BeatInv BY DEF RuntimeInit, BeatInv, NoBeat
<1>5. CountInv BY TaskTypes DEF RuntimeInit, CountInv, CountOf, Over
<1>6. QED BY <1>2, <1>3, <1>4, <1>5 DEF RuntimeInv

\* SetTask replaces one task.
LEMMA OneTaskSet ==
  ASSUME RuntimeTypes, NEW p \in WorkerProcs, NEW l \in RuntimeLoops, NEW t \in TaskType, SetTask(p, l, t)
  PROVE  /\ tasks' \in [WorkerProcs -> [RuntimeLoops -> TaskType]] /\ tasks'[p][l] = t
         /\ \A q \in WorkerProcs, k \in RuntimeLoops : q # p \/ k # l => tasks'[q][k] = tasks[q][k]
  BY DEF SetTask, RuntimeTypes

\* A step of one task of a process that has started its tasks: what is left to show
\* is about this task and its row.
LEMMA TaskStep ==
  ASSUME RuntimeInv, NEW p \in WorkerProcs, NEW l \in RuntimeLoops, NEW t \in TaskType, SetTask(p, l, t),
         procs[p] \notin {"new", "locked", "exited"} \/ t.at \in Over,
         UNCHANGED <<lockOwner, procs, lockLost>>, rtFaults' \in Nat, NEW b \in BeatType,
         beats' = [beats EXCEPT ![l] = b], b.gen = beats[l].gen, b.ok # NoProc => b.ok = b.gen,
         b # beats[l] => b.gen = p,
         t.at \notin Over /\ b.gen = p /\ ~t.hid => t.fails = b.fails /\ b.fails <= t.errs,
         t.at = "fatal" => t.errs >= MaxConsecutive \/ t.hid
  PROVE  RuntimeInv'
<1> USE DEF RuntimeInv
<1>1. /\ tasks' \in [WorkerProcs -> [RuntimeLoops -> TaskType]] /\ tasks'[p][l] = t
      /\ \A q \in WorkerProcs, k \in RuntimeLoops : q # p \/ k # l => tasks'[q][k] = tasks[q][k]
  BY OneTaskSet
<1>2. /\ beats' \in [RuntimeLoops -> BeatType] /\ beats'[l] = b
      /\ \A k \in RuntimeLoops : k # l => beats'[k] = beats[k]
  BY DEF RuntimeTypes
<1>3. RuntimeTypes' BY <1>1, <1>2 DEF RuntimeTypes
<1>4. LockInv' BY <1>1 DEF LockInv
<1>5. BeatInv' BY <1>2 DEF BeatInv
<1>6. CountInv'
  <2>1. SUFFICES ASSUME NEW q \in WorkerProcs, NEW k \in RuntimeLoops PROVE CountOf(q, k)' BY DEF CountInv
  <2>2. CASE q = p /\ k = l BY <1>1, <1>2, <2>2 DEF CountOf
  <2>3. CASE q # p \/ k # l
    <3>1. tasks'[q][k] = tasks[q][k] BY <1>1, <2>3
    <3>2. beats'[k] = beats[k] \/ beats'[k].gen # q BY <1>2, <2>3
    <3>3. CountOf(q, k) BY DEF CountInv
    <3>4. QED BY <3>1, <3>2, <3>3 DEF CountOf
  <2>4. QED BY <2>2, <2>3
<1>7. QED BY <1>3, <1>4, <1>5, <1>6

\* The same when the row is left alone.
LEMMA TaskOnlyStep ==
  ASSUME RuntimeInv, NEW p \in WorkerProcs, NEW l \in RuntimeLoops, NEW t \in TaskType, SetTask(p, l, t),
         procs[p] \notin {"new", "locked", "exited"} \/ t.at \in Over,
         UNCHANGED <<lockOwner, procs, lockLost, beats>>, rtFaults' \in Nat,
         t.at \notin Over /\ beats[l].gen = p /\ ~t.hid => t.fails = beats[l].fails /\ beats[l].fails <= t.errs,
         t.at # "fatal"
  PROVE  RuntimeInv'
<1>1. beats \in [RuntimeLoops -> BeatType] BY DEF RuntimeInv, RuntimeTypes
<1>2. PICK b \in BeatType : b = beats[l] BY <1>1
<1>3. beats' = [beats EXCEPT ![l] = b] BY <1>1, <1>2
<1>4. b.ok # NoProc => b.ok = b.gen BY <1>2 DEF RuntimeInv, BeatInv
<1>5. t.at \notin Over /\ b.gen = p /\ ~t.hid => t.fails = b.fails /\ b.fails <= t.errs BY <1>2
<1>6. /\ UNCHANGED <<lockOwner, procs, lockLost>>
      /\ b.gen = beats[l].gen /\ (b # beats[l] => b.gen = p)
      /\ t.at = "fatal" => t.errs >= MaxConsecutive \/ t.hid
  BY <1>2
<1>7. QED BY <1>3, <1>4, <1>5, <1>6, TaskStep

LEMMA FaultCounted == ASSUME RuntimeTypes, RuntimeFault PROVE rtFaults' \in Nat
  BY DEF RuntimeTypes, RuntimeFault

\* A task that ends by raising, or is cancelled, upsets nothing.
LEMMA TaskEnds ==
  ASSUME RuntimeInv, NEW p \in WorkerProcs, NEW l \in RuntimeLoops, NEW t \in {Raised, EndedTask},
         SetTask(p, l, t), UNCHANGED <<lockOwner, procs, lockLost, beats>>, rtFaults' \in Nat
  PROVE  RuntimeInv'
<1>1. t \in TaskType /\ t.at \in Over /\ t.at # "fatal" BY TaskTypes DEF Over
<1>2. QED BY <1>1, TaskOnlyStep

\* What the invariant says of a task in its loop and of its row.
LEMMA TaskFacts ==
  ASSUME RuntimeInv, NEW p \in WorkerProcs, NEW l \in RuntimeLoops
  PROVE  /\ tasks[p][l] \in TaskType /\ beats[l] \in BeatType
         /\ tasks[p][l].at \notin Over => procs[p] \notin {"new", "locked", "exited"}
         /\ tasks[p][l].at \notin Over /\ beats[l].gen = p /\ ~tasks[p][l].hid =>
               tasks[p][l].fails = beats[l].fails /\ beats[l].fails <= tasks[p][l].errs
         /\ beats[l].ok # NoProc => beats[l].ok = beats[l].gen
         /\ rtFaults \in Nat
  BY DEF RuntimeInv, RuntimeTypes, LockInv, CountInv, CountOf, BeatInv

LEMMA LoopTurnsKeeps ==
  ASSUME RuntimeInv, NEW p \in WorkerProcs, NEW l \in RuntimeLoops, LoopTurns(p, l)
  PROVE  RuntimeInv'
<1> DEFINE t == tasks[p][l]
<1>1. UNCHANGED <<lockOwner, procs, lockLost, beats>> /\ t.at = "poll" BY DEF LoopTurns
<1>2. rtFaults' \in Nat BY FaultCounted, TaskFacts DEF LoopTurns, RuntimeInv
<1>3. CASE SetTask(p, l, EndedTask) \/ SetTask(p, l, Raised) BY <1>1, <1>2, <1>3, TaskEnds
<1>4. ASSUME NEW a \in InTick, SetTask(p, l, [t EXCEPT !.at = a]) PROVE RuntimeInv'
  <2>1. t \in TaskType /\ t.at \notin Over BY <1>1, TaskFacts DEF Over
  <2>2. PICK u \in TaskType : u = [t EXCEPT !.at = a] BY <2>1 DEF TaskType, InTick
  <2>3. u.at # "fatal" /\ u.fails = t.fails /\ u.errs = t.errs /\ u.hid = t.hid BY <2>1, <2>2 DEF TaskType, InTick
  <2>4. u.at \notin Over /\ beats[l].gen = p /\ ~u.hid => u.fails = beats[l].fails /\ beats[l].fails <= u.errs
    BY <2>1, <2>3, TaskFacts
  <2>5. procs[p] \notin {"new", "locked", "exited"} BY <2>1, TaskFacts
  <2>6. SetTask(p, l, u) BY <1>4, <2>2
  <2>7. QED BY <1>1, <1>2, <2>3, <2>4, <2>5, <2>6, TaskOnlyStep
<1>5. QED BY <1>3, <1>4 DEF LoopTurns, InTick

LEMMA ComesDueKeeps ==
  ASSUME RuntimeInv, NEW p \in WorkerProcs, NEW l \in RuntimeLoops, HeartbeatComesDue(p, l)
  PROVE  RuntimeInv'
<1> DEFINE t == tasks[p][l]
<1>1. UNCHANGED <<lockOwner, procs, lockLost, beats, rtFaults>> /\ t.at \notin Over BY DEF HeartbeatComesDue
<1>2. PICK u \in TaskType : u = [t EXCEPT !.fresh = FALSE] BY TaskFacts DEF TaskType
<1>3. u.at = t.at /\ u.fails = t.fails /\ u.errs = t.errs /\ u.hid = t.hid BY <1>2, TaskFacts DEF TaskType
<1>4. u.at \notin Over /\ beats[l].gen = p /\ ~u.hid => u.fails = beats[l].fails /\ beats[l].fails <= u.errs
  BY <1>3, TaskFacts
<1>5. procs[p] \notin {"new", "locked", "exited"} /\ u.at # "fatal" /\ rtFaults' \in Nat
  BY <1>1, <1>3, TaskFacts DEF Over
<1>6. SetTask(p, l, u) BY <1>2 DEF HeartbeatComesDue
<1>7. QED BY <1>1, <1>4, <1>5, <1>6, TaskOnlyStep

\* The row after tick_succeeded.
LEMMA SuccessWritten ==
  ASSUME RuntimeInv, NEW p \in WorkerProcs, NEW l \in RuntimeLoops
  PROVE  \E b \in BeatType : /\ BeatSucceeds(p, l) = [beats EXCEPT ![l] = b]
                             /\ b.gen = beats[l].gen /\ b.ok = p /\ b.fails = 0
<1>1. [beats[l] EXCEPT !.ok = p, !.fails = 0] \in BeatType BY TaskFacts DEF BeatType
<1>2. BeatSucceeds(p, l) = [beats EXCEPT ![l] = [beats[l] EXCEPT !.ok = p, !.fails = 0]] BY DEF BeatSucceeds
<1>3. /\ [beats[l] EXCEPT !.ok = p, !.fails = 0].gen = beats[l].gen
      /\ [beats[l] EXCEPT !.ok = p, !.fails = 0].ok = p /\ [beats[l] EXCEPT !.ok = p, !.fails = 0].fails = 0
  BY TaskFacts DEF BeatType
<1>4. QED BY <1>1, <1>2, <1>3

\* A tick that ended without an error and polls again: the row was written and is
\* the task's own, or was not and the task counted no failure the row does not show.
LEMMA GoodTick ==
  ASSUME RuntimeInv, NEW p \in WorkerProcs, NEW l \in RuntimeLoops, NEW u \in TaskType, SetTask(p, l, u),
         procs[p] \in Serving, tasks[p][l].at \in InTick, u.at = "poll", u.fails = 0,
         UNCHANGED <<lockOwner, procs, lockLost, rtFaults>>,
         \/ beats' = BeatSucceeds(p, l) /\ OwnsBeat(p, l)
         \/ beats' = beats /\ (~u.hid => tasks[p][l].fails = 0 /\ ~tasks[p][l].hid)
  PROVE  RuntimeInv'
<1>1. procs[p] \notin {"new", "locked", "exited"} /\ u.at # "fatal" /\ rtFaults' \in Nat
  BY TaskFacts DEF Serving
<1>2. CASE beats' = BeatSucceeds(p, l) /\ OwnsBeat(p, l)
  <2>1. PICK b \in BeatType : /\ BeatSucceeds(p, l) = [beats EXCEPT ![l] = b]
                              /\ b.gen = beats[l].gen /\ b.ok = p /\ b.fails = 0
    BY SuccessWritten
  <2>2. b.gen = p /\ b.ok = b.gen /\ beats' = [beats EXCEPT ![l] = b] BY <1>2, <2>1 DEF OwnsBeat
  <2>3. u.fails = b.fails /\ b.fails <= u.errs BY <2>1 DEF TaskType
  <2>4. QED BY <1>1, <2>1, <2>2, <2>3, TaskStep
<1>3. CASE beats' = beats /\ (~u.hid => tasks[p][l].fails = 0 /\ ~tasks[p][l].hid)
  <2>1. tasks[p][l].at \notin Over BY DEF InTick, Over
  <2>2. beats[l].gen = p /\ ~u.hid => u.fails = beats[l].fails /\ beats[l].fails <= u.errs
    BY <1>3, <2>1, TaskFacts DEF TaskType
  <2>3. UNCHANGED <<lockOwner, procs, lockLost, beats>> BY <1>3
  <2>4. QED BY <1>1, <2>2, <2>3, TaskOnlyStep
<1>4. QED BY <1>2, <1>3

LEMMA PollsType ==
  ASSUME NEW t \in TaskType, NEW w \in BOOLEAN
  PROVE  /\ Polls(t, w) \in TaskType /\ Polls(t, w).at = "poll" /\ Polls(t, w).fails = 0
         /\ Polls(t, w).hid = (t.hid /\ ~w)
  BY DEF Polls, TaskType

LEMMA TickSucceedsKeeps ==
  ASSUME RuntimeInv, NEW p \in WorkerProcs, NEW l \in RuntimeLoops, TickSucceeds(p, l)
  PROVE  RuntimeInv'
<1> DEFINE t == tasks[p][l]
           w == RecordsSuccess(t)
<1>1. /\ UNCHANGED <<lockOwner, procs, lockLost, rtFaults>> /\ procs[p] \in Serving /\ t.at \in InTick
      /\ t \in TaskType /\ rtFaults' \in Nat /\ w \in BOOLEAN
  BY TaskFacts DEF TickSucceeds, RecordsSuccess
<1>2. CASE w /\ ~OwnsBeat(p, l)
  <2>1. SetTask(p, l, Raised) /\ UNCHANGED beats BY <1>2 DEF TickSucceeds
  <2>2. QED BY <1>1, <2>1, TaskEnds
<1>3. CASE ~(w /\ ~OwnsBeat(p, l))
  <2>1. PICK v \in TaskType : v = Polls(t, w) /\ v.at = "poll" /\ v.fails = 0 /\ (~v.hid => w \/ ~t.hid)
    BY <1>1, PollsType
  <2>2. PICK u \in TaskType : u = [v EXCEPT !.errs = 0] BY DEF TaskType
  <2>3. u.at = "poll" /\ u.fails = 0 /\ u.hid = v.hid BY <2>1, <2>2 DEF TaskType
  <2>4. SetTask(p, l, u) BY <1>3, <2>1, <2>2 DEF TickSucceeds
  <2>5. CASE w
    <3>1. beats' = BeatSucceeds(p, l) /\ OwnsBeat(p, l) BY <1>3, <2>5 DEF TickSucceeds
    <3>2. QED BY <1>1, <2>3, <2>4, <3>1, GoodTick
  <2>6. CASE ~w
    <3>1. beats' = beats BY <1>3, <2>6 DEF TickSucceeds
    <3>2. t.fails = 0 BY <1>1, <2>6 DEF RecordsSuccess, TaskType
    <3>3. ~u.hid => t.fails = 0 /\ ~t.hid BY <2>1, <2>3, <2>6, <3>2
    <3>4. QED BY <1>1, <2>3, <2>4, <3>1, <3>3, GoodTick
  <2>7. QED BY <2>5, <2>6
<1>4. QED BY <1>2, <1>3

LEMMA TickRateLimitedKeeps ==
  ASSUME RuntimeInv, NEW p \in WorkerProcs, NEW l \in RuntimeLoops, TickRateLimited(p, l)
  PROVE  RuntimeInv'
<1> DEFINE t == tasks[p][l]
           due == t.at = "tick_due"
<1>1. /\ UNCHANGED <<lockOwner, procs, lockLost, rtFaults>> /\ procs[p] \in Serving /\ t.at \in InTick
      /\ t \in TaskType /\ rtFaults' \in Nat
  BY TaskFacts DEF TickRateLimited
<1>2. CASE due /\ ~OwnsBeat(p, l)
  <2>1. SetTask(p, l, Raised) /\ UNCHANGED beats BY <1>2 DEF TickRateLimited
  <2>2. QED BY <1>1, <2>1, TaskEnds
<1>3. CASE ~(due /\ ~OwnsBeat(p, l))
  <2>1. PICK v \in TaskType : v = Polls(t, due) /\ v.at = "poll" /\ v.fails = 0 BY <1>1, PollsType
  <2> DEFINE h == (t.hid \/ t.fails > 0) /\ ~due
  <2>2. h \in BOOLEAN OBVIOUS
  <2>3. SetTask(p, l, [v EXCEPT !.hid = h]) BY <1>3, <2>1 DEF TickRateLimited
  <2>4. ~h /\ ~due => t.fails = 0 /\ ~t.hid BY <1>1 DEF TaskType
  <2> HIDE DEF h
  <2>5. PICK u \in TaskType : u = [v EXCEPT !.hid = h] BY <2>2 DEF TaskType
  <2>6. u.at = "poll" /\ u.fails = 0 /\ u.hid = h BY <2>1, <2>5 DEF TaskType
  <2>7. SetTask(p, l, u) BY <2>3, <2>5
  <2>8. CASE due
    <3>1. beats' = BeatSucceeds(p, l) /\ OwnsBeat(p, l) BY <1>3, <2>8 DEF TickRateLimited
    <3>2. QED BY <1>1, <2>6, <2>7, <3>1, GoodTick
  <2>9. CASE ~due
    <3>1. beats' = beats BY <1>3, <2>9 DEF TickRateLimited
    <3>2. ~u.hid => t.fails = 0 /\ ~t.hid BY <2>4, <2>6, <2>9
    <3>3. QED BY <1>1, <2>6, <2>7, <3>1, <3>2, GoodTick
  <2>10. QED BY <2>8, <2>9
<1>4. QED BY <1>2, <1>3

LEMMA TickFailsKeeps ==
  ASSUME RuntimeInv, NEW p \in WorkerProcs, NEW l \in RuntimeLoops, TickFails(p, l)
  PROVE  RuntimeInv'
<1> DEFINE t == tasks[p][l]
           n == FailCount(l)
<1>1. /\ UNCHANGED <<lockOwner, procs, lockLost, rtFaults>> /\ procs[p] \in Serving /\ t.at \in InTick
      /\ t \in TaskType /\ beats[l] \in BeatType /\ rtFaults' \in Nat
  BY TaskFacts DEF TickFails
<1>2. CASE ~OwnsBeat(p, l)
  <2>1. SetTask(p, l, Raised) /\ UNCHANGED beats BY <1>2 DEF TickFails
  <2>2. QED BY <1>1, <2>1, TaskEnds
<1>3. CASE OwnsBeat(p, l)
  <2> DEFINE a == IF n >= MaxConsecutive THEN "fatal" ELSE "poll"
             e == IF t.errs < MaxConsecutive THEN t.errs + 1 ELSE t.errs
  <2>1. n \in Nat /\ n = beats[l].fails + 1 BY <1>1 DEF FailCount, BeatType
  <2>2. e \in Nat /\ a \in {"fatal", "poll"} BY <1>1 DEF TaskType
  <2>3. t.at \notin Over BY <1>1 DEF InTick, Over
  <2>4. ~t.hid => t.fails = beats[l].fails /\ beats[l].fails <= t.errs
    BY <1>3, <2>3, TaskFacts DEF OwnsBeat
  <2>5. /\ ~t.hid /\ a = "poll" => n <= e
        /\ a = "fatal" => e >= MaxConsecutive \/ t.hid
    BY <1>1, <2>1, <2>4, RuntimeConstants DEF TaskType, BeatType
  <2>6. SetTask(p, l, [t EXCEPT !.at = a, !.fails = n, !.fresh = TRUE, !.errs = e])
    BY <1>3 DEF TickFails
  <2>7. beats' = [beats EXCEPT ![l] = [beats[l] EXCEPT !.fails = n]] BY <1>3 DEF TickFails
  <2> HIDE DEF n, a, e
  <2>8. PICK u \in TaskType : u = [t EXCEPT !.at = a, !.fails = n, !.fresh = TRUE, !.errs = e]
    BY <1>1, <2>1, <2>2 DEF TaskType
  <2>9. u.at = a /\ u.fails = n /\ u.errs = e /\ u.hid = t.hid BY <1>1, <2>8 DEF TaskType
  <2>10. PICK b \in BeatType : b = [beats[l] EXCEPT !.fails = n] BY <1>1, <2>1 DEF BeatType
  <2>11. b.gen = beats[l].gen /\ b.ok = beats[l].ok /\ b.fails = n BY <1>1, <2>10 DEF BeatType
  <2>12. b.gen = p /\ (b.ok # NoProc => b.ok = b.gen) BY <1>3, <2>11, TaskFacts DEF OwnsBeat
  <2>13. u.at \notin Over /\ ~u.hid => u.fails = b.fails /\ b.fails <= u.errs
    BY <2>2, <2>5, <2>9, <2>11 DEF Over
  <2>14. u.at = "fatal" => u.errs >= MaxConsecutive \/ u.hid BY <2>5, <2>9
  <2>15. SetTask(p, l, u) /\ beats' = [beats EXCEPT ![l] = b] BY <2>6, <2>7, <2>8, <2>10
  <2>16. procs[p] \notin {"new", "locked", "exited"} BY <1>1 DEF Serving
  <2>17. QED BY <1>1, <2>11, <2>12, <2>13, <2>14, <2>15, <2>16, TaskStep
<1>4. QED BY <1>2, <1>3

\* The steps of a process as a whole leave the rows, the counters and the tasks that
\* run alone, or end the tasks.
LEMMA ProcKeeps ==
  ASSUME RuntimeInv, NEW p \in WorkerProcs, lockOwner' \in WorkerProcs \cup {NoProc},
         procs' \in [WorkerProcs -> LockStates], LockInv',
         tasks' \in [WorkerProcs -> [RuntimeLoops -> TaskType]], beats' = beats, lockLost' \in BOOLEAN,
         rtFaults' \in Nat,
         \A q \in WorkerProcs, l \in RuntimeLoops : tasks'[q][l] = tasks[q][l] \/ tasks'[q][l] = EndedTask
  PROVE  RuntimeInv'
<1>1. RuntimeTypes' BY DEF RuntimeInv, RuntimeTypes
<1>2. BeatInv' BY DEF RuntimeInv, BeatInv
<1>3. CountInv' BY TaskTypes DEF RuntimeInv, CountInv, CountOf, Over
<1>4. QED BY <1>1, <1>2, <1>3 DEF RuntimeInv

LEMMA ProcessStep ==
  ASSUME RuntimeInv, NEW p \in WorkerProcs,
         AcquireLock(p) \/ RegisterGeneration(p) \/ RunReturns(p) \/ ReleaseLock(p) \/ StopSignal(p)
           \/ LockSessionLost(p) \/ ProcessDies(p)
  PROVE  RuntimeInv'
<1> USE RuntimeConstants DEF LockStates
<1>0. RuntimeTypes BY DEF RuntimeInv
<1>1. CASE AcquireLock(p)
  <2>1. UNCHANGED <<tasks, beats, lockLost, rtFaults>> BY <1>1 DEF AcquireLock
  <2>2. lockOwner' \in WorkerProcs \cup {NoProc} /\ procs' \in [WorkerProcs -> LockStates]
    BY <1>0, <1>1 DEF AcquireLock, RuntimeTypes
  <2>3. LockInv'
    <3>1. CASE lockOwner = NoProc
      <4>1. lockOwner' = p /\ procs' = [procs EXCEPT ![p] = "locked"] BY <1>1, <3>1 DEF AcquireLock
      <4>2. lockLost \/ \A q \in WorkerProcs : procs[q] \notin Holding BY <3>1 DEF RuntimeInv, LockInv
      <4>3. procs[p] = "new" BY <1>1 DEF AcquireLock
      <4>4. QED BY <1>0, <2>1, <4>1, <4>2, <4>3 DEF RuntimeInv, LockInv, RuntimeTypes
    <3>2. CASE lockOwner # NoProc
      <4>1. lockOwner' = lockOwner /\ procs' = [procs EXCEPT ![p] = "exited"] /\ procs[p] = "new"
        BY <1>1, <3>2 DEF AcquireLock
      <4>2. QED BY <1>0, <2>1, <4>1 DEF RuntimeInv, LockInv, RuntimeTypes, Holding
    <3>3. QED BY <3>1, <3>2
  <2>4. QED BY <1>0, <2>1, <2>2, <2>3, ProcKeeps DEF RuntimeTypes
<1>2. CASE RegisterGeneration(p)
  <2>1. UNCHANGED <<lockOwner, lockLost>> /\ procs[p] = "locked" BY <1>2 DEF RegisterGeneration
  <2>2. ASSUME beats' = [l \in RuntimeLoops |-> RegisteredBeat(l, p)],
               tasks' = [tasks EXCEPT ![p] = [l \in RuntimeLoops |-> NewTask]],
               procs' = [procs EXCEPT ![p] = "running"], UNCHANGED rtFaults
        PROVE  RuntimeInv'
    <3>1. [gen |-> p, ok |-> NoProc, fails |-> 0] \in BeatType BY DEF BeatType
    <3>2. /\ beats' \in [RuntimeLoops -> BeatType]
          /\ \A l \in RuntimeLoops : beats'[l].gen = p /\ beats'[l].ok = NoProc /\ beats'[l].fails = 0
      BY <2>2, <3>1 DEF RegisteredBeat
    <3>3. /\ tasks' \in [WorkerProcs -> [RuntimeLoops -> TaskType]]
          /\ \A l \in RuntimeLoops : tasks'[p][l] = NewTask
          /\ \A q \in WorkerProcs, l \in RuntimeLoops : q # p => tasks'[q][l] = tasks[q][l]
      BY <1>0, <2>2, TaskTypes DEF RuntimeTypes
    <3>4. RuntimeTypes' BY <1>0, <2>1, <2>2, <3>2, <3>3 DEF RuntimeTypes
    <3>5. LockInv' BY <1>0, <2>1, <2>2, <3>3 DEF RuntimeInv, LockInv, RuntimeTypes, Holding
    <3>6. BeatInv' BY <3>2 DEF BeatInv
    <3>7. CountInv'
      <4>1. SUFFICES ASSUME NEW q \in WorkerProcs, NEW k \in RuntimeLoops PROVE CountOf(q, k)' BY DEF CountInv
      <4>2. CASE q = p BY <3>2, <3>3, <4>2 DEF CountOf, NewTask
      <4>3. CASE q # p BY <3>2, <3>3, <4>3 DEF CountOf, RuntimeInv, CountInv
      <4>4. QED BY <4>2, <4>3
    <3>8. QED BY <3>4, <3>5, <3>6, <3>7 DEF RuntimeInv
  <2>3. ASSUME RuntimeFault, procs' = [procs EXCEPT ![p] = "ending"], UNCHANGED <<beats, tasks>>
        PROVE  RuntimeInv'
    <3>1. LockInv' BY <1>0, <2>1, <2>3 DEF RuntimeInv, LockInv, RuntimeTypes, Holding
    <3>2. procs' \in [WorkerProcs -> LockStates] /\ rtFaults' \in Nat BY <1>0, <2>3, FaultCounted DEF RuntimeTypes
    <3>3. QED BY <1>0, <2>1, <2>3, <3>1, <3>2, ProcKeeps DEF RuntimeTypes
  <2>4. QED BY <1>2, <2>2, <2>3 DEF RegisterGeneration
<1>3. CASE RunReturns(p) \/ StopSignal(p)
  <2>1. UNCHANGED <<lockOwner, tasks, beats, lockLost, rtFaults>> /\ procs[p] \in Serving
        /\ (procs' = [procs EXCEPT ![p] = "ending"] \/ procs' = [procs EXCEPT ![p] = "stopping"])
    BY <1>3 DEF RunReturns, StopSignal, Serving
  <2>2. procs' \in [WorkerProcs -> LockStates] BY <1>0, <2>1 DEF RuntimeTypes
  <2>3. LockInv' BY <1>0, <2>1 DEF RuntimeInv, LockInv, RuntimeTypes, Holding, Serving
  <2>4. QED BY <1>0, <2>1, <2>2, <2>3, ProcKeeps DEF RuntimeTypes
<1>4. CASE ReleaseLock(p) \/ ProcessDies(p)
  <2>1. UNCHANGED <<beats, lockLost>> /\ procs' = [procs EXCEPT ![p] = "exited"]
        /\ lockOwner' = IF lockOwner = p THEN NoProc ELSE lockOwner
    BY <1>4 DEF ReleaseLock, ProcessDies
  <2>2. tasks' = [tasks EXCEPT ![p] = [l \in RuntimeLoops |-> EndedTask]]
    <3>1. CASE ProcessDies(p) BY <3>1 DEF ProcessDies
    <3>2. CASE ReleaseLock(p)
      <4>1. \A l \in RuntimeLoops : tasks[p][l].at \in Over BY <3>2 DEF ReleaseLock, AllTasksOver
      <4>2. tasks' = [tasks EXCEPT ![p] = [l \in RuntimeLoops |->
                                             IF tasks[p][l].at \in Over THEN EndedTask ELSE tasks[p][l]]]
        BY <3>2 DEF ReleaseLock
      <4>3. [l \in RuntimeLoops |-> IF tasks[p][l].at \in Over THEN EndedTask ELSE tasks[p][l]]
              = [l \in RuntimeLoops |-> EndedTask]
        BY <4>1
      <4>4. QED BY <4>2, <4>3
    <3>3. QED BY <1>4, <3>1, <3>2
  <2>3. /\ tasks' \in [WorkerProcs -> [RuntimeLoops -> TaskType]]
        /\ \A l \in RuntimeLoops : tasks'[p][l] = EndedTask
        /\ \A q \in WorkerProcs, l \in RuntimeLoops : q # p => tasks'[q][l] = tasks[q][l]
    BY <1>0, <2>2, TaskTypes DEF RuntimeTypes
  <2>4. procs' \in [WorkerProcs -> LockStates] /\ lockOwner' \in WorkerProcs \cup {NoProc}
    BY <1>0, <2>1 DEF RuntimeTypes
  <2>5. rtFaults' \in Nat BY <1>0, <1>4, FaultCounted DEF ReleaseLock, ProcessDies, RuntimeTypes
  <2>6. LockInv' BY <1>0, <2>1, <2>3, TaskTypes DEF RuntimeInv, LockInv, RuntimeTypes, Holding, Over
  <2>7. QED BY <1>0, <2>1, <2>3, <2>4, <2>5, <2>6, ProcKeeps DEF RuntimeTypes
<1>5. CASE LockSessionLost(p)
  <2>1. UNCHANGED <<procs, tasks, beats>> /\ lockOwner' = NoProc /\ lockLost' = TRUE
    BY <1>5 DEF LockSessionLost
  <2>2. rtFaults' \in Nat BY <1>0, <1>5, FaultCounted DEF LockSessionLost
  <2>3. LockInv' BY <2>1 DEF RuntimeInv, LockInv
  <2>4. QED BY <1>0, <2>1, <2>2, <2>3, ProcKeeps DEF RuntimeTypes
<1>6. QED BY <1>1, <1>2, <1>3, <1>4, <1>5

LEMMA RuntimeInductive ==
  ASSUME RuntimeInv, [RuntimeNext]_runtimeVars
  PROVE  RuntimeInv'
<1>1. ASSUME NEW p \in WorkerProcs, NEW l \in RuntimeLoops, TaskCancelled(p, l) \/ HeartbeatLost(p, l)
      PROVE  RuntimeInv'
  <2>1. UNCHANGED <<lockOwner, procs, beats, lockLost>> BY <1>1 DEF TaskCancelled, HeartbeatLost
  <2>2. rtFaults' \in Nat BY <1>1, FaultCounted DEF TaskCancelled, HeartbeatLost, RuntimeInv, RuntimeTypes
  <2>3. SetTask(p, l, EndedTask) \/ SetTask(p, l, Raised) BY <1>1 DEF TaskCancelled, HeartbeatLost, SetTask
  <2>4. QED BY <2>1, <2>2, <2>3, TaskEnds
<1>2. CASE UNCHANGED runtimeVars
  <2>1. UNCHANGED <<lockOwner, procs, tasks, beats, lockLost, rtFaults>> BY <1>2 DEF runtimeVars
  <2>2. QED BY <2>1 DEF RuntimeInv, RuntimeTypes, LockInv, BeatInv, CountInv, CountOf
<1>3. QED BY <1>1, <1>2, ProcessStep, LoopTurnsKeeps, TickSucceedsKeeps, TickRateLimitedKeeps, TickFailsKeeps,
             ComesDueKeeps
        DEF RuntimeNext

\* However worker processes start, stop, fail and die: without a lost lock session
\* the tasks of two of them never run at once, the heartbeat rows look healthy only
\* when every loop of one generation reported a tick itself, and a process gives up
\* only after MaxConsecutive failures in a row.
THEOREM OneHonestWorkerCorrect == RuntimeSpec => []OneHonestWorker
<1>1. ASSUME RuntimeInv PROVE OneHonestWorker
  <2> USE <1>1 DEF RuntimeInv
  <2>1. OneWorker
    <3> DEFINE Active == {p \in WorkerProcs : \E l \in RuntimeLoops : tasks[p][l].at \notin Over}
    <3>1. SUFFICES ASSUME ~lockLost PROVE Cardinality(Active) <= 1 BY DEF OneWorker
    <3>2. \A p \in Active : p \in WorkerProcs /\ procs[p] \in Holding
      BY DEF LockInv, RuntimeTypes, LockStates, Holding
    <3>3. \A p \in Active : p = lockOwner BY <3>1, <3>2 DEF LockInv
    <3>4. Active = {} \/ Active = {lockOwner} BY <3>3
    <3>5. Cardinality({}) = 0 /\ Cardinality({lockOwner}) = 1 BY FS_EmptySet, FS_Singleton
    <3> HIDE DEF Active
    <3>6. QED BY <3>4, <3>5
  <2>2. HealthyIsCurrent
    <3>1. SUFFICES ASSUME Healthy PROVE \E p \in WorkerProcs : \A l \in RuntimeLoops : beats[l].gen = p /\ beats[l].ok = p
      BY DEF HealthyIsCurrent
    <3>2. PICK k \in RuntimeLoops : TRUE BY RuntimeConstants
    <3>3. \A l \in RuntimeLoops : beats[l].ok # NoProc /\ beats[l].ok = beats[l].gen /\ beats[l].gen = beats[k].gen
      BY <3>1 DEF Healthy, BeatInv
    <3>4. beats[k].gen \in WorkerProcs BY <3>2, <3>3 DEF RuntimeTypes, BeatType
    <3>5. QED BY <3>3, <3>4
  <2>3. FatalIsEarned BY DEF FatalIsEarned, CountInv, CountOf
  <2>4. QED BY <2>1, <2>2, <2>3 DEF OneHonestWorker
<1>2. RuntimeInv /\ [RuntimeNext]_runtimeVars => RuntimeInv' BY RuntimeInductive
<1>3. QED BY <1>1, <1>2, RuntimeInitially, PTL DEF RuntimeSpec

-----------------------------------------------------------------------------
(* The control-plane cache *)

CpRowType == [st : {"none", "usable", "unusable"}, age : {"new", "grace", "expired"}, parses : BOOLEAN]
CpTxType == [ph : {"idle", "held", "applied"}, write : {"none", "verify", "withdraw", "corrupt"},
             refused : BOOLEAN]
Readiness == {"NOT_READY", "READY_STALE", "READY_FRESH"}
BuildType == [ph : {"idle", "loaded", "read", "decide", "done"}, st : Readiness, given : BOOLEAN,
              draft : BOOLEAN, raced : BOOLEAN, ahead : BOOLEAN, lapsed : BOOLEAN, unreached : BOOLEAN]

CpTypes ==
  /\ cpRow \in CpRowType /\ cpMem \in Readiness
  /\ cpTx \in [CpProcs -> CpTxType] /\ ctxBuild \in BuildType
  /\ withdrawn \in BOOLEAN /\ lapsed \in BOOLEAN /\ unreached \in BOOLEAN
  /\ ahead \in BOOLEAN /\ overtaken \in BOOLEAN
  /\ cpFaults \in Nat

\* What a transaction will write: a refusal withdraws, and a state that runs
\* ahead of the worker's own transaction rests on its verification.
TxInv ==
  /\ \A p \in CpProcs : cpTx[p].refused => cpTx[p].write = "withdraw"
  /\ cpTx["worker"].ph = "applied" /\ ahead => cpTx["worker"].write = "verify"

\* A withdrawn row is not usable until it is verified again, and a row that was
\* past its grace stays so.
RowInv ==
  /\ withdrawn => cpRow.st # "usable"
  /\ lapsed => cpRow.st # "usable" \/ cpRow.age = "expired"

Servable == Loadable(cpRow) /\ WithinGrace(cpRow)

\* What the worker remembers: after a lapsed refresh nothing usable, after a
\* refresh that did not reach the remote nothing fresh, and then nothing at all
\* only if the row cannot be served either.
MemInv ==
  /\ lapsed /\ cpMem \in Usable => ahead \/ overtaken
  /\ unreached /\ cpMem = "READY_FRESH" => overtaken
  /\ unreached /\ cpMem \notin Usable => overtaken \/ ~Servable

\* A cache load under way that no refresh has overtaken knows no more than the
\* row gives: without a verification since, a row only gets worse.
LoadInv ==
  ctxBuild.ph = "loaded" =>
    /\ lapsed /\ ctxBuild.st \in Usable => ctxBuild.raced
    /\ unreached /\ ctxBuild.st = "READY_FRESH" => ctxBuild.raced \/ overtaken
    /\ unreached /\ ctxBuild.st \notin Usable => ctxBuild.raced \/ ~Servable
    /\ ctxBuild.lapsed => ctxBuild.st \notin Usable

\* The state a build goes on with is as good as what the worker knew when it began.
BuildInv ==
  /\ ctxBuild.ph = "read" /\ ctxBuild.lapsed /\ ctxBuild.st \in Usable => ctxBuild.ahead \/ overtaken
  /\ ctxBuild.ph \in {"loaded", "read", "decide"} /\ ctxBuild.unreached /\ ctxBuild.st = "READY_FRESH"
        => overtaken

CpInv == CpTypes /\ TxInv /\ RowInv /\ MemInv /\ LoadInv /\ BuildInv

LEMMA CpInitial == ControlPlaneInit => CpInv
<1> SUFFICES ASSUME ControlPlaneInit PROVE CpInv
  OBVIOUS
<1> USE DEF ControlPlaneInit
<1>1. CpTypes
  BY DEF CpTypes, NoSnapshot, IdleRefresh, IdleBuild, CpRowType, CpTxType, Readiness, BuildType
<1>2. TxInv
  BY DEF TxInv, IdleRefresh, CpProcs
<1>3. RowInv /\ MemInv
  BY DEF RowInv, MemInv
<1>4. LoadInv /\ BuildInv
  BY DEF LoadInv, BuildInv, IdleBuild
<1> QED
  BY <1>1, <1>2, <1>3, <1>4 DEF CpInv

\* A refresh of the worker, applied or skipped, renews what is remembered and
\* marks a load under way as overtaken.
LEMMA RemembersKeeps ==
  ASSUME CpInv, NEW st \in Readiness, NEW verified \in BOOLEAN, Remembers(st, verified),
         UNCHANGED <<cpRow, withdrawn, overtaken>>,
         lapsed' \in BOOLEAN, unreached' \in BOOLEAN,
         lapsed' => cpRow.st # "usable" \/ cpRow.age = "expired",
         lapsed' /\ st \in Usable => verified,
         unreached' => st # "READY_FRESH" /\ (st \notin Usable => ~Servable)
  PROVE  /\ cpMem' \in Readiness /\ ahead' \in BOOLEAN /\ ctxBuild' \in BuildType
         /\ RowInv' /\ MemInv' /\ LoadInv' /\ BuildInv'
<1>1. /\ ctxBuild' \in BuildType
      /\ \A f \in {"ph", "st", "given", "draft", "ahead", "lapsed", "unreached"} : ctxBuild'[f] = ctxBuild[f]
      /\ ctxBuild'.raced = (ctxBuild.ph = "loaded")
  BY DEF Remembers, CpInv, CpTypes, BuildType
<1>2. Servable' = Servable
  BY DEF Servable, Loadable, WithinGrace
<1>3. RowInv' /\ MemInv'
  BY <1>2 DEF Remembers, CpInv, RowInv, MemInv
<1>4. LoadInv'
  BY <1>1, <1>2 DEF CpInv, LoadInv
<1>5. BuildInv'
  BY <1>1 DEF CpInv, BuildInv
<1> QED
  BY <1>1, <1>3, <1>4, <1>5 DEF Remembers

\* A row that was not verified anew can be served only if it could be before.
LEMMA RowGetsWorse ==
  ASSUME CpInv, UNCHANGED <<cpMem, ctxBuild, ahead, overtaken>>,
         cpRow' \in CpRowType, lapsed' \in BOOLEAN, unreached' \in BOOLEAN, withdrawn' \in BOOLEAN,
         Servable' => Servable \/ ~unreached',
         lapsed' => lapsed, unreached' => unreached, RowInv'
  PROVE  MemInv' /\ LoadInv' /\ BuildInv'
<1>1. MemInv'
  BY DEF CpInv, MemInv
<1>2. LoadInv'
  BY DEF CpInv, LoadInv
<1>3. BuildInv'
  BY DEF CpInv, BuildInv
<1> QED
  BY <1>1, <1>2, <1>3

LEMMA CpStep == CpInv /\ [ControlPlaneNext]_cpVars => CpInv'
<1> SUFFICES ASSUME CpInv, [ControlPlaneNext]_cpVars PROVE CpInv'
  OBVIOUS
<1>t. CpTypes /\ TxInv /\ RowInv /\ MemInv /\ LoadInv /\ BuildInv
  BY DEF CpInv
<1>w. "worker" \in CpProcs
  BY DEF CpProcs
<1>1. CASE \E p \in CpProcs : RefreshBegins(p)
  <2>1. PICK p \in CpProcs : RefreshBegins(p)
    BY <1>1
  <2>2. /\ cpTx' \in [CpProcs -> CpTxType]
        /\ \A q \in CpProcs : cpTx'[q].refused = cpTx[q].refused /\ cpTx'[q].write = cpTx[q].write
        /\ \A q \in CpProcs : cpTx'[q].ph = "applied" => cpTx[q].ph = "applied"
    BY <2>1, <1>t DEF RefreshBegins, CpTypes, CpTxType
  <2>3. TxInv'
    BY <2>1, <2>2, <1>t, <1>w DEF TxInv, RefreshBegins
  <2> QED
    BY <2>1, <2>2, <2>3, <1>t
    DEF CpInv, CpTypes, RowInv, MemInv, LoadInv, BuildInv, RefreshBegins, Servable
<1>2. CASE RefreshSkips
  <2>1. CachedReadiness \in Readiness /\ (CachedReadiness \in Usable => Servable)
        /\ (CachedReadiness \notin Usable => ~Servable)
    BY DEF CachedReadiness, Readiness, Servable, Usable, WithinGrace
  <2>2. /\ Remembers(CachedReadiness, FALSE) /\ UNCHANGED <<cpRow, cpTx, withdrawn, overtaken, cpFaults>>
        /\ lapsed' = (lapsed \/ PastGrace)
        /\ unreached' = (unreached /\ CachedReadiness # "READY_FRESH")
    BY <1>2 DEF RefreshSkips
  <2>3. lapsed' \in BOOLEAN /\ unreached' \in BOOLEAN
    BY <2>2, <1>t DEF CpTypes
  <2>4. lapsed' => cpRow.st # "usable" \/ cpRow.age = "expired"
    BY <2>2, <1>t DEF RowInv, PastGrace
  <2>5. /\ cpMem' \in Readiness /\ ahead' \in BOOLEAN /\ ctxBuild' \in BuildType
        /\ RowInv' /\ MemInv' /\ LoadInv' /\ BuildInv'
    <3>1. lapsed' /\ CachedReadiness \in Usable => FALSE
      BY <2>1, <2>4 DEF Servable, Loadable, WithinGrace
    <3> HIDE DEF CachedReadiness
    <3> QED
      BY <2>1, <2>2, <2>3, <2>4, <3>1, RemembersKeeps
  <2>6. TxInv'
    BY <2>2, <1>t DEF TxInv, Remembers
  <2> QED
    BY <2>2, <2>3, <2>5, <2>6, <1>t DEF CpInv, CpTypes
<1>3. CASE \E p \in CpProcs, answer \in FetchCodes : RefreshApplies(p, answer)
  <2>1. PICK p \in CpProcs, answer \in FetchCodes : RefreshApplies(p, answer)
    BY <1>3
  <2>2. UNCHANGED <<cpRow, withdrawn, overtaken, cpFaults>>
    BY <2>1 DEF RefreshApplies
  <2>3. AppliedWrite(answer) \in {"none", "verify", "withdraw", "corrupt"}
    BY DEF AppliedWrite
  <2>4. /\ cpTx' \in [CpProcs -> CpTxType]
        /\ cpTx'[p].ph = "applied" /\ cpTx'[p].write = AppliedWrite(answer)
        /\ cpTx'[p].refused = (answer \notin {"OK", "UNAVAILABLE"})
        /\ \A q \in CpProcs : q # p => cpTx'[q] = cpTx[q]
    BY <2>1, <2>3, <1>t DEF RefreshApplies, CpTypes, CpTxType
  <2>5. answer \notin {"OK", "UNAVAILABLE"} => AppliedWrite(answer) = "withdraw"
    BY DEF AppliedWrite, Withdraws, FetchCodes
  <2>6. answer = "OK" => AppliedWrite(answer) = "verify"
    BY DEF AppliedWrite, Withdraws
  <2>7. \A q \in CpProcs : cpTx'[q].refused => cpTx'[q].write = "withdraw"
    BY <2>4, <2>5, <1>t DEF TxInv
  <2>8. CASE p # "worker"
    <3>1. UNCHANGED <<cpMem, ahead, ctxBuild, lapsed, unreached>>
      BY <2>1, <2>8 DEF RefreshApplies
    <3>2. TxInv'
      BY <2>4, <2>7, <2>8, <3>1, <1>t, <1>w DEF TxInv
    <3> QED
      BY <2>2, <2>4, <3>1, <3>2, <1>t DEF CpInv, CpTypes, RowInv, MemInv, LoadInv, BuildInv, Servable
  <2>9. CASE p = "worker"
    <3>1. /\ Remembers(AppliedReadiness(answer), answer = "OK")
          /\ lapsed' = (lapsed \/ (PastGrace /\ answer # "OK"))
          /\ unreached' = (answer = "UNAVAILABLE")
      BY <2>1, <2>9 DEF RefreshApplies
    <3>2. AppliedReadiness(answer) \in Readiness
      BY DEF AppliedReadiness, Readiness
    <3>3. answer # "OK" /\ AppliedReadiness(answer) \in Usable => Servable
      BY DEF AppliedReadiness, Usable, Servable
    <3>4. answer = "UNAVAILABLE" => /\ AppliedReadiness(answer) # "READY_FRESH"
                                    /\ AppliedReadiness(answer) \notin Usable => ~Servable
      BY DEF AppliedReadiness, Usable, Servable, Withdraws
    <3>5. lapsed' \in BOOLEAN /\ unreached' \in BOOLEAN
      BY <3>1, <1>t DEF CpTypes
    <3>6. lapsed' => cpRow.st # "usable" \/ cpRow.age = "expired"
      BY <3>1, <1>t DEF RowInv, PastGrace
    <3>7. lapsed' /\ AppliedReadiness(answer) \in Usable => answer = "OK"
      BY <3>3, <3>6 DEF Servable, Loadable, WithinGrace
    <3>8. /\ cpMem' \in Readiness /\ ahead' \in BOOLEAN /\ ctxBuild' \in BuildType
          /\ RowInv' /\ MemInv' /\ LoadInv' /\ BuildInv'
      <4> HIDE DEF AppliedReadiness
      <4>1. (answer = "OK") \in BOOLEAN
        OBVIOUS
      <4> QED
        BY <4>1, <2>2, <3>1, <3>2, <3>4, <3>5, <3>6, <3>7, RemembersKeeps
    <3>9. TxInv'
      BY <2>4, <2>6, <2>7, <2>9, <3>1 DEF TxInv, Remembers
    <3> QED
      BY <2>2, <2>4, <3>5, <3>8, <3>9, <1>t DEF CpInv, CpTypes
  <2> QED
    BY <2>8, <2>9
<1>4. CASE \E p \in CpProcs : RefreshCommits(p)
  <2>1. PICK p \in CpProcs : RefreshCommits(p)
    BY <1>4
  <2> DEFINE w == cpTx[p].write
  <2>2. /\ cpTx[p].ph = "applied" /\ cpTx' = [cpTx EXCEPT ![p] = IdleRefresh] /\ cpRow' = RowAfter(w)
        /\ withdrawn' = ((withdrawn \/ cpTx[p].refused) /\ w # "verify")
        /\ lapsed' = (lapsed /\ w # "verify") /\ unreached' = (unreached /\ w # "verify")
        /\ ahead' = (ahead /\ p # "worker")
        /\ UNCHANGED <<cpMem, ctxBuild, overtaken, cpFaults>>
    BY <2>1 DEF RefreshCommits
  <2>3. /\ cpTx' \in [CpProcs -> CpTxType] /\ cpTx'[p] = IdleRefresh
        /\ \A q \in CpProcs : q # p => cpTx'[q] = cpTx[q]
    BY <2>2, <1>t DEF CpTypes, CpTxType, IdleRefresh
  <2>4. /\ withdrawn' \in BOOLEAN /\ lapsed' \in BOOLEAN /\ unreached' \in BOOLEAN /\ ahead' \in BOOLEAN
    BY <2>2, <1>t DEF CpTypes
  <2>5. cpRow' \in CpRowType /\ (w # "verify" => cpRow' = cpRow \/ cpRow'.st = "unusable")
        /\ (w = "withdraw" => cpRow'.st # "usable")
    BY <2>2, <1>t DEF CpTypes, RowAfter, CpRowType, VerifiedRow, UnusableRow, NoSnapshot
  <2>6. Servable' => Servable \/ ~unreached'
    BY <2>2, <2>5 DEF Servable, Loadable, WithinGrace
  <2>7. RowInv'
    BY <2>2, <2>5, <1>t DEF RowInv, TxInv
  <2>8. TxInv'
    BY <2>2, <2>3, <1>t, <1>w DEF TxInv, IdleRefresh
  <2>9. ahead /\ lapsed' => ahead'
    BY <2>2, <1>t DEF TxInv
  <2>10. MemInv'
    BY <2>2, <2>6, <2>9, <1>t DEF MemInv
  <2>11. LoadInv' /\ BuildInv'
    BY <2>2, <2>6, <1>t DEF LoadInv, BuildInv
  <2> QED
    BY <2>2, <2>3, <2>4, <2>5, <2>7, <2>8, <2>10, <2>11, <1>t DEF CpInv, CpTypes
<1>5. CASE \E p \in CpProcs : RefreshRollsBack(p)
  <2>1. PICK p \in CpProcs : RefreshRollsBack(p)
    BY <1>5
  <2>2. /\ cpTx' \in [CpProcs -> CpTxType] /\ cpTx'[p] = IdleRefresh
        /\ \A q \in CpProcs : q # p => cpTx'[q] = cpTx[q]
    BY <2>1, <1>t DEF RefreshRollsBack, CpTypes, CpTxType, IdleRefresh
  <2>3. TxInv'
    BY <2>1, <2>2, <1>t, <1>w DEF TxInv, IdleRefresh, RefreshRollsBack
  <2> QED
    BY <2>1, <2>2, <2>3, <1>t
    DEF CpInv, CpTypes, RowInv, MemInv, LoadInv, BuildInv, RefreshRollsBack, CpFault, Servable
<1>6. CASE \E otherUsable \in BOOLEAN : BuildBegins(otherUsable)
  <2>1. PICK otherUsable \in BOOLEAN : BuildBegins(otherUsable)
    BY <1>6
  <2> DEFINE remembered == cpMem \in Usable \/ otherUsable
  <2>2. UNCHANGED <<cpRow, cpMem, cpTx, withdrawn, lapsed, unreached, ahead, overtaken, cpFaults>>
    BY <2>1 DEF BuildBegins
  <2>3. CachedReadiness \in Readiness /\ (CachedReadiness \in Usable <=> Servable)
    BY DEF CachedReadiness, Readiness, Servable, Usable, WithinGrace
  <2>4. /\ ctxBuild' \in BuildType /\ ctxBuild'.ph = (IF remembered THEN "read" ELSE "loaded")
        /\ ctxBuild'.st = (IF remembered THEN cpMem ELSE CachedReadiness)
        /\ ctxBuild'.ahead = ahead /\ ctxBuild'.lapsed = lapsed /\ ctxBuild'.unreached = unreached
    <3> DEFINE ph == IF remembered THEN "read" ELSE "loaded"
               st == IF remembered THEN cpMem ELSE CachedReadiness
    <3>1. ph \in {"read", "loaded"} /\ st \in Readiness
      BY <2>3, <1>t DEF CpTypes
    <3>2. ctxBuild' = [IdleBuild EXCEPT !.ph = ph, !.st = st, !.ahead = ahead, !.lapsed = lapsed,
                                        !.unreached = unreached]
      BY <2>1 DEF BuildBegins
    <3> HIDE DEF ph, st
    <3>3. ctxBuild' = [ph |-> ph, st |-> st, given |-> FALSE, draft |-> FALSE, raced |-> FALSE,
                       ahead |-> ahead, lapsed |-> lapsed, unreached |-> unreached]
      BY <3>2 DEF IdleBuild
    <3>4. ctxBuild' \in BuildType
      BY <3>1, <3>3, <1>t DEF BuildType, CpTypes
    <3> QED
      BY <3>3, <3>4 DEF ph, st
  <2>5. RowInv' /\ MemInv' /\ TxInv'
    BY <2>2, <1>t DEF RowInv, MemInv, TxInv, Servable, Loadable, WithinGrace
  <2>6. LoadInv'
    BY <2>2, <2>3, <2>4, <1>t DEF LoadInv, MemInv, RowInv, Servable, Loadable, WithinGrace, Usable
  <2>7. BuildInv'
    BY <2>2, <2>3, <2>4, <1>t DEF BuildInv, MemInv, RowInv, Servable, Loadable, WithinGrace, Usable
  <2> QED
    BY <2>2, <2>4, <2>5, <2>6, <2>7, <1>t DEF CpInv, CpTypes
<1>7. CASE BuildRemembers
  <2>1. /\ ctxBuild' \in BuildType /\ ctxBuild.ph = "loaded" /\ ctxBuild'.ph = "read"
        /\ ctxBuild'.st = ctxBuild.st /\ ctxBuild'.lapsed = ctxBuild.lapsed
        /\ ctxBuild'.unreached = ctxBuild.unreached
    BY <1>7, <1>t DEF BuildRemembers, CpTypes, BuildType
  <2>2. /\ UNCHANGED <<cpRow, cpTx, withdrawn, lapsed, unreached, cpFaults>>
        /\ cpMem' = ctxBuild.st /\ ahead' = FALSE /\ overtaken' = (overtaken \/ ctxBuild.raced)
    BY <1>7 DEF BuildRemembers
  <2>3. cpMem' \in Readiness /\ overtaken' \in BOOLEAN /\ ahead' \in BOOLEAN
    BY <2>2, <1>t DEF CpTypes, BuildType
  <2>4. RowInv' /\ TxInv'
    BY <2>2, <1>t DEF RowInv, TxInv
  <2>5. MemInv'
    BY <2>1, <2>2, <1>t DEF MemInv, LoadInv, Servable
  <2>6. LoadInv' /\ BuildInv'
    BY <2>1, <2>2, <1>t DEF LoadInv, BuildInv
  <2> QED
    BY <2>1, <2>2, <2>3, <2>4, <2>5, <2>6, <1>t DEF CpInv, CpTypes
<1>8. CASE BuildReads
  <2>1. /\ ctxBuild' \in BuildType /\ ctxBuild.ph = "read" /\ ctxBuild'.ph = "decide"
        /\ ctxBuild'.st = ctxBuild.st /\ ctxBuild'.unreached = ctxBuild.unreached
    BY <1>8, <1>t DEF BuildReads, CpTypes, BuildType, IdleBuild, LoadsRow, Loadable
  <2>2. LoadInv' /\ BuildInv'
    BY <1>8, <2>1, <1>t DEF LoadInv, BuildInv, BuildReads
  <2> QED
    BY <1>8, <2>1, <2>2, <1>t DEF CpInv, CpTypes, RowInv, MemInv, TxInv, BuildReads, Servable
<1>9. CASE \E others, locked, override, generated \in BOOLEAN : BuildDecides(others, locked, override, generated)
  <2>1. PICK others, locked, override, generated \in BOOLEAN : BuildDecides(others, locked, override, generated)
    BY <1>9
  <2>2. ctxBuild' \in BuildType /\ ctxBuild'.ph = "done"
    BY <2>1, <1>t DEF BuildDecides, CpTypes, BuildType, IdleBuild, Readiness, GateAllows, ReadinessUsable
  <2>3. LoadInv' /\ BuildInv'
    BY <2>2 DEF LoadInv, BuildInv
  <2> QED
    BY <2>1, <2>2, <2>3, <1>t DEF CpInv, CpTypes, RowInv, MemInv, TxInv, BuildDecides, Servable
<1>10. CASE DraftStored
  <2>1. ctxBuild' \in BuildType /\ ctxBuild'.ph = "idle"
    BY <1>10 DEF DraftStored, IdleBuild, BuildType, Readiness
  <2>2. LoadInv' /\ BuildInv'
    BY <2>1 DEF LoadInv, BuildInv
  <2> QED
    BY <1>10, <2>1, <2>2, <1>t DEF CpInv, CpTypes, RowInv, MemInv, TxInv, DraftStored, Servable
<1>11. CASE RowAges
  <2>1. /\ cpRow' \in CpRowType /\ cpRow'.st = cpRow.st /\ cpRow'.parses = cpRow.parses
        /\ cpRow.age # "expired"
    BY <1>11, <1>t DEF RowAges, CpTypes, CpRowType
  <2>2. RowInv' /\ TxInv' /\ (Servable' => Servable)
    BY <1>11, <2>1, <1>t DEF RowAges, RowInv, TxInv, Servable, Loadable, WithinGrace
  <2>3. UNCHANGED <<cpMem, cpTx, ctxBuild, withdrawn, lapsed, unreached, ahead, overtaken, cpFaults>>
    BY <1>11 DEF RowAges
  <2>4. MemInv' /\ LoadInv' /\ BuildInv'
    BY <2>1, <2>2, <2>3, <1>t, RowGetsWorse DEF CpTypes
  <2> QED
    BY <2>1, <2>2, <2>3, <2>4, <1>t DEF CpInv, CpTypes
<1>12. CASE RowDamaged
  <2>1. cpRow' \in CpRowType /\ cpRow'.st = cpRow.st /\ cpRow'.age = cpRow.age /\ ~cpRow'.parses
    BY <1>12, <1>t DEF RowDamaged, CpTypes, CpRowType
  <2>2. UNCHANGED <<cpMem, cpTx, ctxBuild, withdrawn, lapsed, unreached, ahead, overtaken>> /\ cpFaults' \in Nat
    BY <1>12, <1>t DEF RowDamaged, CpFault, CpTypes
  <2>3. RowInv' /\ TxInv' /\ ~Servable'
    BY <2>1, <2>2, <1>t DEF RowInv, TxInv, Servable, Loadable
  <2>4. MemInv' /\ LoadInv' /\ BuildInv'
    BY <2>1, <2>2, <2>3, <1>t, RowGetsWorse DEF CpTypes
  <2> QED
    BY <2>1, <2>2, <2>3, <2>4, <1>t DEF CpInv, CpTypes
<1>13. CASE WorkerRestarts
  <2>1. /\ cpTx' \in [CpProcs -> CpTxType] /\ cpTx'["worker"] = IdleRefresh
        /\ \A q \in CpProcs : q # "worker" => cpTx'[q] = cpTx[q]
    BY <1>13, <1>t, <1>w DEF WorkerRestarts, CpTypes, CpTxType, IdleRefresh
  <2>2. ctxBuild' \in BuildType /\ ctxBuild'.ph = "idle"
    BY <1>13 DEF WorkerRestarts, IdleBuild, BuildType, Readiness
  <2>3. TxInv'
    BY <2>1, <1>t, <1>w DEF TxInv, IdleRefresh
  <2>4. RowInv' /\ MemInv'
    BY <1>13, <1>t DEF WorkerRestarts, RowInv, MemInv
  <2>5. LoadInv' /\ BuildInv'
    BY <2>2 DEF LoadInv, BuildInv
  <2>6. /\ cpMem' \in Readiness /\ UNCHANGED <<cpRow, withdrawn>>
        /\ lapsed' = FALSE /\ unreached' = FALSE /\ ahead' = FALSE /\ overtaken' = FALSE
    BY <1>13 DEF WorkerRestarts, Readiness
  <2>8. cpFaults' \in Nat
    BY <1>13, <1>t DEF WorkerRestarts, CpFault, CpTypes
  <2>7. CpTypes'
    BY <2>1, <2>2, <2>6, <2>8, <1>t DEF CpTypes
  <2> QED
    BY <2>3, <2>4, <2>5, <2>7 DEF CpInv
<1>14. CASE UNCHANGED cpVars
  BY <1>14, <1>t DEF cpVars, CpInv, CpTypes, TxInv, RowInv, MemInv, LoadInv, BuildInv, Servable, Loadable, WithinGrace
<1> QED
  BY <1>1, <1>2, <1>3, <1>4, <1>5, <1>6, <1>7, <1>8, <1>9, <1>10, <1>11, <1>12, <1>13, <1>14
  DEF ControlPlaneNext

\* The invariant of the cache holds in every behaviour.
LEMMA CpInvariant == ControlPlaneSpec => []CpInv
  BY CpInitial, CpStep, PTL DEF ControlPlaneSpec

\* A context is given a document only by the read of the row, and a draft only by the gate.
LEMMA OnlyReadsGive ==
  ASSUME CpInv, [ControlPlaneNext]_cpVars
  PROVE  /\ Gives => BuildReads /\ ctxBuild.st \in Usable /\ Loadable(cpRow)
         /\ ~ctxBuild.draft /\ ctxBuild'.draft => /\ ctxBuild.ph = "decide" /\ ctxBuild.st = "READY_FRESH"
                                                  /\ UNCHANGED overtaken
<1>t. ctxBuild \in BuildType
  BY DEF CpInv, CpTypes
<1>k. ASSUME ctxBuild'.given = ctxBuild.given \/ ctxBuild'.given = FALSE,
             ctxBuild'.draft = ctxBuild.draft \/ ctxBuild'.draft = FALSE
      PROVE  ~Gives /\ ~(~ctxBuild.draft /\ ctxBuild'.draft)
  BY <1>k DEF Gives
<1>m. ASSUME NEW st, NEW verified, Remembers(st, verified)
      PROVE  ctxBuild'.given = ctxBuild.given /\ ctxBuild'.draft = ctxBuild.draft
  BY <1>m, <1>t DEF Remembers, BuildType
<1>1. CASE \E p \in CpProcs : RefreshBegins(p) \/ RefreshCommits(p) \/ RefreshRollsBack(p)
  BY <1>1, <1>k DEF RefreshBegins, RefreshCommits, RefreshRollsBack
<1>2. CASE RefreshSkips
  BY <1>2, <1>k, <1>m DEF RefreshSkips
<1>3. CASE \E p \in CpProcs, answer \in FetchCodes : RefreshApplies(p, answer)
  <2>1. PICK p \in CpProcs, answer \in FetchCodes : RefreshApplies(p, answer)
    BY <1>3
  <2>2. Remembers(AppliedReadiness(answer), answer = "OK") \/ UNCHANGED ctxBuild
    BY <2>1 DEF RefreshApplies
  <2> QED
    BY <2>2, <1>k, <1>m
<1>4. CASE \E otherUsable \in BOOLEAN : BuildBegins(otherUsable)
  <2>1. ctxBuild'.given = FALSE /\ ctxBuild'.draft = FALSE
    BY <1>4 DEF BuildBegins, IdleBuild
  <2> QED
    BY <2>1, <1>k
<1>5. CASE BuildRemembers
  <2>1. ctxBuild'.given = ctxBuild.given /\ ctxBuild'.draft = ctxBuild.draft
    BY <1>5, <1>t DEF BuildRemembers, BuildType
  <2> QED
    BY <2>1, <1>k
<1>6. CASE BuildReads
  <2>1. ctxBuild'.given = (ctxBuild.st \in Usable /\ LoadsRow) /\ ctxBuild'.draft = FALSE
    BY <1>6 DEF BuildReads, IdleBuild
  <2> QED
    BY <1>6, <2>1 DEF Gives, LoadsRow
<1>7. CASE \E others, locked, override, generated \in BOOLEAN : BuildDecides(others, locked, override, generated)
  <2>1. PICK others, locked, override, generated \in BOOLEAN : BuildDecides(others, locked, override, generated)
    BY <1>7
  <2>2. /\ ctxBuild'.given = ctxBuild.given /\ ctxBuild.ph = "decide" /\ UNCHANGED overtaken
        /\ ctxBuild'.draft = (GateAllows(others, locked, override) /\ generated)
    BY <2>1 DEF BuildDecides, IdleBuild
  <2> QED
    BY <2>2 DEF Gives, GateAllows, ReadinessUsable
<1>8. CASE DraftStored \/ WorkerRestarts
  <2>1. ctxBuild'.given = FALSE /\ ctxBuild'.draft = FALSE
    BY <1>8 DEF DraftStored, WorkerRestarts, IdleBuild
  <2> QED
    BY <2>1, <1>k
<1>9. CASE RowAges \/ RowDamaged \/ UNCHANGED cpVars
  BY <1>9, <1>k DEF RowAges, RowDamaged, cpVars
<1> QED
  BY <1>1, <1>2, <1>3, <1>4, <1>5, <1>6, <1>7, <1>8, <1>9 DEF ControlPlaneNext

\* Whatever the interleaving of the refreshes of two processes with their commits, rollbacks and restarts, with ageing
\* and damaged rows and with builds under way: no context uses a publication whose withdrawal is committed, nor one that
\* a refresh of the worker found past its grace, and no draft is made from one that its last refresh could not fetch.
THEOREM PublicationCorrect == ControlPlaneSpec => PublicationCurrent
<1> DEFINE Body1 == Gives => ~withdrawn
           Body2 == Gives /\ ctxBuild.lapsed /\ lapsed => ctxBuild.ahead \/ overtaken
           Body3 == ~ctxBuild.draft /\ ctxBuild'.draft => overtaken \/ ~(ctxBuild.unreached /\ unreached)
<1>1. CpInv /\ [ControlPlaneNext]_cpVars => [Body1]_cpVars
  BY OnlyReadsGive DEF CpInv, RowInv, Loadable
<1>2. CpInv /\ [ControlPlaneNext]_cpVars => [Body2]_cpVars
  BY OnlyReadsGive DEF CpInv, BuildInv, BuildReads
<1>3. CpInv /\ [ControlPlaneNext]_cpVars => [Body3]_cpVars
  BY OnlyReadsGive DEF CpInv, BuildInv
<1> QED
  BY <1>1, <1>2, <1>3, CpInvariant, PTL
  DEF ControlPlaneSpec, PublicationCurrent, WithdrawnNotUsed, ExpiredNotServed, UnreachedNotDrafted

-----------------------------------------------------------------------------
(* The OAuth tokens *)

OauthAts == AtRest \cup {"rejected", "contend", "post", "release", "persist"}
OauthOpType == [at : OauthAts, why : {"none", "proactive", "reactive", "forced"},
                seen : Nat, snap : Nat, new : Nat, left : Nat]
OauthRowType == [pair : Nat, due : BOOLEAN, owner : OauthCallers \cup {NoCaller}, fresh : BOOLEAN]

OauthTypes ==
  /\ oauthRow \in OauthRowType /\ oauthIssued \in Nat
  /\ oauthOps \in [OauthCallers -> OauthOpType]
  /\ oauthLoss \in BOOLEAN /\ oauthFaults \in Nat

\* What the refresh o of caller c knows when the row is r and amoCRM issued n pairs:
\* a pair to be stored is the live one while the row still holds its predecessor, or
\* both are behind; a token about to be spent is the live one only if the row holds it
\* and it is due or an operator wants it; a rejected one likewise; and a lease that is
\* the caller's own covers the pair it saw.
OpKnows(c, o, r, n) ==
  /\ o.at = "persist" =>
       /\ o.left >= 1 /\ o.snap < o.new
       /\ \/ o.new = n /\ r.pair = o.snap
          \/ o.new < n /\ o.new < r.pair
  /\ o.at = "post" =>
       /\ o.snap <= n
       /\ o.snap = n => r.pair = n /\ (r.due \/ o.why = "forced")
  /\ o.at = "rejected" =>
       /\ c # Lifecycle /\ o.seen <= n
       /\ o.seen = n => r.pair = n /\ r.due
  /\ o.at \in {"post", "persist"} /\ r.owner = c => r.pair = o.snap

RotationInv ==
  /\ OauthTypes
  /\ oauthRow.pair <= oauthIssued
  /\ \A c \in OauthCallers : OpKnows(c, oauthOps[c], oauthRow, oauthIssued)
  /\ \A c, d \in OauthCallers :
       oauthOps[c].at = "persist" /\ oauthOps[d].at = "persist" /\ oauthOps[c].new = oauthOps[d].new => c = d
  /\ RotatedPairKept
LEMMA OauthInitial == OauthInit => RotationInv
<1> SUFFICES ASSUME OauthInit PROVE RotationInv
  OBVIOUS
<1>1. OauthTypes
  BY DEF OauthInit, OauthTypes, OauthRowType, OauthOpType, OauthAts, AtRest, NoOauthOp, RefreshOp
<1>2. \A c \in OauthCallers : oauthOps[c].at = "idle"
  BY DEF OauthInit, NoOauthOp, RefreshOp
<1>3. \A c \in OauthCallers : OpKnows(c, oauthOps[c], oauthRow, oauthIssued)
  BY <1>2 DEF OpKnows
<1>4. oauthRow.pair = 0 /\ oauthIssued = 0
  BY DEF OauthInit
<1> QED
  BY <1>1, <1>2, <1>3, <1>4 DEF RotationInv, RotatedPairKept

\* An operation at rest, contending or releasing knows nothing that could be wrong.
LEMMA IdleKnows ==
  ASSUME NEW c, NEW o, NEW r, NEW n, o.at \in AtRest \cup {"contend", "release"}
  PROVE  OpKnows(c, o, r, n)
  BY DEF OpKnows, AtRest

\* What the others know outlives a step: one that leaves the pair, a new grant, a
\* rotation of the live token, and the storing of the live pair by another caller.
LEMMA KnowsOnSamePair ==
  ASSUME NEW c \in OauthCallers, NEW o \in OauthOpType, NEW r \in OauthRowType, NEW s \in OauthRowType,
         NEW n \in Nat, OpKnows(c, o, r, n),
         s.pair = r.pair, r.due => s.due, s.owner = c => r.owner = c
  PROVE  OpKnows(c, o, s, n)
  BY DEF OpKnows, OauthOpType, OauthRowType

LEMMA KnowsOnGrant ==
  ASSUME NEW c \in OauthCallers, NEW o \in OauthOpType, NEW r \in OauthRowType, NEW s \in OauthRowType,
         NEW n \in Nat, OpKnows(c, o, r, n), s.pair = n + 1, s.owner = NoCaller
  PROVE  OpKnows(c, o, s, n + 1)
  BY OauthConstants DEF OpKnows, OauthOpType, OauthRowType

LEMMA KnowsOnRotation ==
  ASSUME NEW c \in OauthCallers, NEW o \in OauthOpType, NEW r \in OauthRowType,
         NEW n \in Nat, OpKnows(c, o, r, n), r.pair = n
  PROVE  OpKnows(c, o, r, n + 1)
  BY DEF OpKnows, OauthOpType, OauthRowType

LEMMA KnowsOnStore ==
  ASSUME NEW c \in OauthCallers, NEW o \in OauthOpType, NEW r \in OauthRowType, NEW s \in OauthRowType,
         NEW n \in Nat, OpKnows(c, o, r, n), r.pair # n, s.pair = n, s.owner = NoCaller,
         o.at = "persist" => o.new # n
  PROVE  OpKnows(c, o, s, n)
  BY OauthConstants DEF OpKnows, OauthOpType, OauthRowType

\* The rows the steps write.
LEMMA ReleasedRow ==
  ASSUME NEW r \in OauthRowType
  PROVE  /\ ReleasedLease(r) \in OauthRowType
         /\ ReleasedLease(r).pair = r.pair /\ ReleasedLease(r).due = r.due
         /\ ReleasedLease(r).owner = NoCaller /\ ReleasedLease(r).fresh = FALSE
  BY DEF ReleasedLease, OauthRowType

LEMMA StoredRow ==
  ASSUME NEW r \in OauthRowType, NEW n \in Nat
  PROVE  /\ StoredPair(r, n) \in OauthRowType
         /\ StoredPair(r, n).pair = n /\ StoredPair(r, n).due = FALSE
         /\ StoredPair(r, n).owner = NoCaller
  BY ReleasedRow DEF StoredPair, OauthRowType

\* A step of one caller that is not about to store a pair, on a row whose pair and due stay.
LEMMA OneCallerMoves ==
  ASSUME RotationInv, NEW c \in OauthCallers, NEW o \in OauthOpType, NEW s \in OauthRowType,
         oauthOps' = [oauthOps EXCEPT ![c] = o], oauthRow' = s,
         UNCHANGED oauthIssued, oauthLoss' \in BOOLEAN, oauthFaults' \in Nat,
         s.pair = oauthRow.pair, oauthRow.due => s.due,
         \A d \in OauthCallers : d # c /\ s.owner = d => oauthRow.owner = d,
         OpKnows(c, o, s, oauthIssued),
         oauthLoss => oauthLoss',
         o.at = "persist" => oauthOps[c].at = "persist" /\ o.new = oauthOps[c].new,
         oauthOps[c].at = "persist" /\ oauthOps[c].new = oauthIssued => o.at = "persist" \/ oauthLoss'
  PROVE  RotationInv'
<1>1. oauthRow \in OauthRowType /\ oauthIssued \in Nat /\ oauthOps \in [OauthCallers -> OauthOpType]
  BY DEF RotationInv, OauthTypes
<1>2. oauthOps' \in [OauthCallers -> OauthOpType] /\ oauthOps'[c] = o
      /\ \A d \in OauthCallers : d # c => oauthOps'[d] = oauthOps[d]
  BY <1>1
<1>3. OauthTypes'
  BY <1>1, <1>2 DEF OauthTypes
<1>4. \A d \in OauthCallers : OpKnows(d, oauthOps[d], oauthRow, oauthIssued)
  BY DEF RotationInv
<1>5. ASSUME NEW d \in OauthCallers PROVE OpKnows(d, oauthOps'[d], oauthRow', oauthIssued')
  <2>1. CASE d = c
    BY <2>1, <1>2
  <2>2. CASE d # c
    <3>1. s.owner = d => oauthRow.owner = d
      BY <2>2
    <3> QED
      BY <2>2, <3>1, <1>1, <1>2, <1>4, KnowsOnSamePair
  <2> QED
    BY <2>1, <2>2
<1>6. \A d, e \in OauthCallers :
        oauthOps'[d].at = "persist" /\ oauthOps'[e].at = "persist" /\ oauthOps'[d].new = oauthOps'[e].new => d = e
  BY <1>2 DEF RotationInv
<1>7. RotatedPairKept'
  BY <1>2 DEF RotationInv, RotatedPairKept
<1>8. oauthRow'.pair <= oauthIssued'
  BY DEF RotationInv
<1> QED
  BY <1>3, <1>5, <1>6, <1>7, <1>8 DEF RotationInv

\* The operation of a caller after its step.
LEMMA OpOfKind ==
  ASSUME NEW at \in OauthAts, NEW why \in {"none", "proactive", "reactive", "forced"},
         NEW seen \in Nat, NEW snap \in Nat, NEW o, o = RefreshOp(at, why, seen, snap)
  PROVE  o \in OauthOpType /\ o.at = at /\ o.why = why /\ o.seen = seen /\ o.snap = snap
  BY DEF RefreshOp, OauthOpType

LEMMA OpWithPair ==
  ASSUME NEW o \in OauthOpType, NEW n \in Nat, NEW k, k = Answered(o, n)
  PROVE  /\ k \in OauthOpType
         /\ k.at = "persist" /\ k.new = n /\ k.left = PersistTries /\ k.snap = o.snap
<1>1. PersistTries \in Nat
  BY OauthConstants
<1>2. k = [at |-> "persist", why |-> o.why, seen |-> o.seen, snap |-> o.snap, new |-> n, left |-> PersistTries]
  BY DEF Answered, OauthOpType
<1> QED
  BY <1>1, <1>2 DEF OauthOpType, OauthAts

\* A caller that is not storing a pair may rest, contend or release.
LEMMA CallerRests ==
  ASSUME RotationInv, NEW c \in OauthCallers, NEW o \in OauthOpType, o.at \in AtRest \cup {"contend", "release"},
         NEW s \in OauthRowType, s.pair = oauthRow.pair, s.due = oauthRow.due,
         s.owner = oauthRow.owner \/ s.owner = NoCaller,
         oauthOps' = [oauthOps EXCEPT ![c] = o], oauthRow' = s,
         UNCHANGED oauthIssued, oauthLoss' \in BOOLEAN, oauthFaults' \in Nat, oauthLoss => oauthLoss',
         oauthOps[c].at = "persist" /\ oauthOps[c].new = oauthIssued => oauthLoss'
  PROVE  RotationInv'
<1>1. OpKnows(c, o, s, oauthIssued)
  BY IdleKnows
<1>2. \A d \in OauthCallers : d # c /\ s.owner = d => oauthRow.owner = d
  BY OauthConstants
<1>3. o.at # "persist"
  BY DEF AtRest
<1> QED
  BY <1>1, <1>2, <1>3, OneCallerMoves

\* The claim under the lease, of any kind of refresh.
LEMMA ClaimKeeps ==
  ASSUME RotationInv, NEW c \in OauthCallers, NEW why \in {"proactive", "reactive", "forced"}, NEW seen,
         why = "reactive" => oauthOps[c].at = "rejected" /\ seen = oauthOps[c].seen,
         oauthOps[c].at \in AtRest \cup {"rejected"},
         ClaimRefresh(c, why, seen), UNCHANGED <<oauthIssued, oauthLoss, oauthFaults>>
  PROVE  RotationInv'
<1>1. /\ oauthRow \in OauthRowType /\ oauthIssued \in Nat /\ oauthOps \in [OauthCallers -> OauthOpType]
      /\ oauthLoss' \in BOOLEAN /\ oauthFaults' \in Nat
  BY DEF RotationInv, OauthTypes
<1>2. oauthOps[c].at # "persist"
  BY DEF AtRest
<1>3. CASE LeaseHeld /\ UNCHANGED oauthRow
           /\ oauthOps' = [oauthOps EXCEPT ![c] =
                RefreshOp(IF why = "proactive" THEN "contend" ELSE "failed", why, 0, 0)]
  <2> DEFINE at == IF why = "proactive" THEN "contend" ELSE "failed"
             o == RefreshOp(at, why, 0, 0)
  <2>1. at \in OauthAts /\ at \in AtRest \cup {"contend", "release"}
    BY DEF OauthAts, AtRest
  <2>2. oauthOps' = [oauthOps EXCEPT ![c] = o]
    BY <1>3
  <2> HIDE DEF at
  <2>3. o \in OauthOpType /\ o.at = at
    BY <2>1, OpOfKind
  <2> HIDE DEF o
  <2> QED
    BY <1>1, <1>2, <1>3, <2>1, <2>2, <2>3, CallerRests
<1>4. CASE /\ ~LeaseHeld /\ ~StillNeeded(why, seen) /\ oauthRow' = ReleasedLease(oauthRow)
           /\ oauthOps' = [oauthOps EXCEPT ![c] = RefreshOp("ok", why, 0, 0)]
  <2> DEFINE o == RefreshOp("ok", why, 0, 0)
             s == ReleasedLease(oauthRow)
  <2>1. o \in OauthOpType /\ o.at = "ok"
    BY OpOfKind DEF OauthAts, AtRest
  <2>2. s \in OauthRowType /\ s.pair = oauthRow.pair /\ s.due = oauthRow.due /\ s.owner = NoCaller
    BY <1>1, ReleasedRow
  <2>3. oauthOps' = [oauthOps EXCEPT ![c] = o] /\ oauthRow' = s
    BY <1>4
  <2>4. o.at \in AtRest \cup {"contend", "release"}
    BY <2>1 DEF AtRest
  <2> HIDE DEF o, s
  <2> QED
    BY <1>1, <1>2, <2>1, <2>2, <2>3, <2>4, CallerRests
<1>5. CASE /\ ~LeaseHeld /\ StillNeeded(why, seen) /\ oauthRow' = [oauthRow EXCEPT !.owner = c, !.fresh = TRUE]
           /\ oauthOps' = [oauthOps EXCEPT ![c] = RefreshOp("post", why, 0, oauthRow.pair)]
  <2> DEFINE o == RefreshOp("post", why, 0, oauthRow.pair)
             s == [oauthRow EXCEPT !.owner = c, !.fresh = TRUE]
  <2>1. s \in OauthRowType /\ s.pair = oauthRow.pair /\ s.due = oauthRow.due /\ s.owner = c
    BY <1>1 DEF OauthRowType
  <2>2. oauthRow.pair \in Nat /\ oauthRow.pair <= oauthIssued
    BY <1>1 DEF OauthRowType, RotationInv
  <2>3. o \in OauthOpType /\ o.at = "post" /\ o.why = why /\ o.snap = oauthRow.pair
    <3>1. "post" \in OauthAts
      BY DEF OauthAts
    <3> QED
      BY <2>2, <3>1, OpOfKind
  <2>4. oauthOps' = [oauthOps EXCEPT ![c] = o] /\ oauthRow' = s
    BY <1>5
  <2> HIDE DEF o, s
  <2>5. oauthRow.pair = oauthIssued => oauthRow.due \/ why = "forced"
    <3>1. OpKnows(c, oauthOps[c], oauthRow, oauthIssued)
      BY DEF RotationInv
    <3> QED
      BY <1>5, <3>1 DEF StillNeeded, OpKnows
  <2>6. OpKnows(c, o, s, oauthIssued)
    BY <2>1, <2>2, <2>3, <2>5 DEF OpKnows
  <2>7. \A d \in OauthCallers : d # c /\ s.owner = d => oauthRow.owner = d
    BY <2>1
  <2> QED
    BY <1>1, <1>2, <2>1, <2>3, <2>4, <2>6, <2>7, OneCallerMoves
<1> QED
  BY <1>3, <1>4, <1>5 DEF ClaimRefresh

\* How one caller's refresh ends.
LEMMA OpRestsSo ==
  ASSUME RotationInv, NEW c \in OauthCallers, NEW how \in AtRest
  PROVE  OpRests(c, how) \in OauthOpType /\ OpRests(c, how).at = how
<1>1. oauthOps[c].why \in {"none", "proactive", "reactive", "forced"}
  BY DEF RotationInv, OauthTypes, OauthOpType
<1>2. how \in OauthAts
  BY DEF OauthAts
<1> QED
  BY <1>1, <1>2, OpOfKind DEF OpRests

\* An attempt to store the pair that failed: another follows, or the pair is lost.
LEMMA PersistAgainKeeps ==
  ASSUME RotationInv, NEW c \in OauthCallers, oauthOps[c].at = "persist", PersistAgain(c),
         UNCHANGED <<oauthRow, oauthIssued>>, oauthLoss' \in BOOLEAN, oauthFaults' \in Nat, oauthLoss => oauthLoss',
         oauthOps[c].left = 1 /\ oauthOps[c].new = oauthIssued => oauthLoss'
  PROVE  RotationInv'
<1>t. oauthRow \in OauthRowType /\ oauthIssued \in Nat /\ oauthOps \in [OauthCallers -> OauthOpType]
  BY DEF RotationInv, OauthTypes
<1>k. OpKnows(c, oauthOps[c], oauthRow, oauthIssued)
  BY DEF RotationInv
<1>o. oauthOps[c] \in OauthOpType /\ oauthOps[c].left \in Nat /\ oauthOps[c].left >= 1
  BY <1>t, <1>k DEF OauthOpType, OpKnows
<1>1. CASE oauthOps[c].left > 1
  <2> DEFINE o == [oauthOps[c] EXCEPT !.left = @ - 1]
  <2>1. /\ o \in OauthOpType /\ o.at = "persist" /\ o.new = oauthOps[c].new /\ o.snap = oauthOps[c].snap
        /\ o.left = oauthOps[c].left - 1
    BY <1>1, <1>o DEF OauthOpType
  <2>2. oauthOps' = [oauthOps EXCEPT ![c] = o]
    BY <1>1 DEF PersistAgain
  <2> HIDE DEF o
  <2>3. OpKnows(c, o, oauthRow, oauthIssued)
    BY <1>1, <2>1, <1>k, <1>o DEF OpKnows
  <2> QED
    BY <2>1, <2>2, <2>3, <1>t, OneCallerMoves
<1>2. CASE ~(oauthOps[c].left > 1)
  <2> DEFINE o == OpRests(c, "failed")
  <2>1. o \in OauthOpType /\ o.at = "failed" /\ o.at \in AtRest \cup {"contend", "release"}
    BY OpRestsSo DEF AtRest
  <2>2. oauthOps' = [oauthOps EXCEPT ![c] = o]
    BY <1>2 DEF PersistAgain, OauthOpEnds
  <2>3. oauthOps[c].left = 1
    BY <1>2, <1>o
  <2> HIDE DEF o
  <2> QED
    BY <2>1, <2>2, <2>3, <1>t, CallerRests
<1> QED
  BY <1>1, <1>2

LEMMA OauthStepKeeps == RotationInv /\ [OauthNext]_oauthVars => RotationInv'
<1> SUFFICES ASSUME RotationInv, [OauthNext]_oauthVars PROVE RotationInv'
  OBVIOUS
<1>t. /\ oauthRow \in OauthRowType /\ oauthIssued \in Nat /\ oauthOps \in [OauthCallers -> OauthOpType]
      /\ oauthLoss \in BOOLEAN /\ oauthFaults \in Nat
  BY DEF RotationInv, OauthTypes
<1>k. \A c \in OauthCallers : OpKnows(c, oauthOps[c], oauthRow, oauthIssued)
  BY DEF RotationInv
<1>p. oauthRow.pair \in Nat /\ oauthRow.pair <= oauthIssued
  BY <1>t DEF OauthRowType, RotationInv
<1>o. \A c \in OauthCallers : oauthOps[c] \in OauthOpType /\ oauthOps[c].new \in Nat /\ oauthOps[c].snap \in Nat
                              /\ oauthOps[c].left \in Nat
  BY <1>t DEF OauthOpType
<1>l. Lifecycle \in OauthCallers
  BY OauthConstants
<1>1. CASE BootstrapOauth \/ ReseedOauth
  <2> DEFINE s == StoredPair(oauthRow, oauthIssued + 1)
  <2>1. oauthRow' = s /\ oauthIssued' = oauthIssued + 1 /\ UNCHANGED <<oauthOps, oauthFaults>>
        /\ oauthLoss' \in BOOLEAN
    BY <1>1, <1>t DEF BootstrapOauth, ReseedOauth
  <2>2. s \in OauthRowType /\ s.pair = oauthIssued + 1 /\ s.owner = NoCaller
    <3>1. oauthIssued + 1 \in Nat
      BY <1>t
    <3> QED
      BY <1>t, <3>1, StoredRow
  <2> HIDE DEF s
  <2>3. \A c \in OauthCallers : OpKnows(c, oauthOps'[c], oauthRow', oauthIssued')
    BY <2>1, <2>2, <1>t, <1>k, <1>o, KnowsOnGrant
  <2>4. OauthTypes'
    BY <2>1, <2>2, <1>t DEF OauthTypes
  <2>5. RotatedPairKept' /\ oauthRow'.pair <= oauthIssued'
    BY <2>1, <2>2, <1>t DEF RotatedPairKept
  <2> QED
    BY <2>1, <2>3, <2>4, <2>5 DEF RotationInv
<1>2. CASE \E c \in OauthCallers : CallRejected(c)
  <2>1. PICK c \in OauthCallers : CallRejected(c)
    BY <1>2
  <2> DEFINE o == RefreshOp("rejected", "reactive", oauthRow.pair, 0)
  <2>2. o \in OauthOpType /\ o.at = "rejected" /\ o.seen = oauthRow.pair
    <3>1. "rejected" \in OauthAts
      BY DEF OauthAts
    <3> QED
      BY <1>p, <3>1, OpOfKind
  <2>3. /\ oauthOps' = [oauthOps EXCEPT ![c] = o] /\ UNCHANGED <<oauthRow, oauthIssued, oauthLoss, oauthFaults>>
        /\ c # Lifecycle /\ oauthOps[c].at # "persist" /\ (oauthRow.due \/ oauthRow.pair # oauthIssued)
    BY <2>1 DEF CallRejected, AtRest
  <2> HIDE DEF o
  <2>4. OpKnows(c, o, oauthRow, oauthIssued)
    BY <2>2, <2>3, <1>p DEF OpKnows
  <2> QED
    BY <2>2, <2>3, <2>4, <1>t, OneCallerMoves
<1>3. CASE LifecycleTick
  BY <1>3, <1>l, ClaimKeeps DEF LifecycleTick
<1>4. CASE \E c \in OauthCallers : ReactiveRefresh(c)
  BY <1>4, ClaimKeeps DEF ReactiveRefresh
<1>5. CASE \E c \in OauthCallers : ForcedRefresh(c)
  BY <1>5, ClaimKeeps DEF ForcedRefresh
<1>6. CASE LifecyclePolls
  <2>1. PICK how \in AtRest : oauthOps' = [oauthOps EXCEPT ![Lifecycle] = OpRests(Lifecycle, how)]
    BY <1>6 DEF LifecyclePolls, ContentionEnd, OauthOpEnds, AtRest
  <2>2. UNCHANGED <<oauthRow, oauthIssued, oauthLoss, oauthFaults>> /\ oauthOps[Lifecycle].at # "persist"
    BY <1>6 DEF LifecyclePolls
  <2>3. OpRests(Lifecycle, how) \in OauthOpType /\ OpRests(Lifecycle, how).at = how
    BY <1>l, OpRestsSo
  <2> DEFINE o == OpRests(Lifecycle, how)
  <2>4. o \in OauthOpType /\ o.at \in AtRest \cup {"contend", "release"}
    BY <2>3
  <2>5. oauthOps' = [oauthOps EXCEPT ![Lifecycle] = o]
    BY <2>1
  <2> HIDE DEF o
  <2> QED
    BY <2>2, <2>4, <2>5, <1>l, <1>t, CallerRests
<1>7. CASE \E c \in OauthCallers : RefreshLands(c)
  <2>1. PICK c \in OauthCallers : RefreshLands(c)
    BY <1>7
  <2>2. /\ oauthOps[c].at = "post" /\ oauthOps[c].snap = oauthIssued
        /\ oauthIssued' = oauthIssued + 1 /\ UNCHANGED oauthRow
    BY <2>1 DEF RefreshLands
  <2>3. OpKnows(c, oauthOps[c], oauthRow, oauthIssued)
    BY <1>k
  <2>4. oauthRow.pair = oauthIssued
    BY <2>2, <2>3 DEF OpKnows
  <2>5. \A d \in OauthCallers : OpKnows(d, oauthOps[d], oauthRow, oauthIssued + 1)
    BY <2>4, <1>t, <1>k, <1>o, KnowsOnRotation
  <2>6. \A d \in OauthCallers : oauthOps[d].at = "persist" => oauthOps[d].new <= oauthIssued
    BY <1>t, <1>k, <1>o DEF OpKnows
  <2>7. CASE /\ oauthOps' = [oauthOps EXCEPT ![c] = Answered(@, oauthIssued')]
             /\ UNCHANGED <<oauthLoss, oauthFaults>>
    <3>1. /\ oauthOps' \in [OauthCallers -> OauthOpType]
          /\ oauthOps'[c].at = "persist" /\ oauthOps'[c].new = oauthIssued + 1
          /\ oauthOps'[c].left = PersistTries /\ oauthOps'[c].snap = oauthIssued
          /\ \A d \in OauthCallers : d # c => oauthOps'[d] = oauthOps[d]
      <4>2. oauthIssued' \in Nat
        BY <2>2, <1>t
      <4> DEFINE o == Answered(oauthOps[c], oauthIssued')
      <4>3. oauthOps' = [oauthOps EXCEPT ![c] = o]
        BY <2>7
      <4>4. o \in OauthOpType /\ o.at = "persist" /\ o.new = oauthIssued' /\ o.left = PersistTries
            /\ o.snap = oauthOps[c].snap
        BY <4>2, <1>o, OpWithPair
      <4> HIDE DEF o
      <4> QED
        BY <2>2, <4>3, <4>4, <1>t
    <3>2. OpKnows(c, oauthOps'[c], oauthRow, oauthIssued + 1)
      BY <3>1, <2>4, <1>t, OauthConstants DEF OpKnows
    <3>3. \A d \in OauthCallers : OpKnows(d, oauthOps'[d], oauthRow', oauthIssued')
      BY <2>2, <2>5, <3>1, <3>2
    <3>4. \A d, e \in OauthCallers :
        oauthOps'[d].at = "persist" /\ oauthOps'[e].at = "persist" /\ oauthOps'[d].new = oauthOps'[e].new => d = e
      BY <2>6, <3>1, <1>t, <1>o DEF RotationInv
    <3>5. RotatedPairKept'
      BY <2>2, <3>1 DEF RotatedPairKept
    <3>6. OauthTypes' /\ oauthRow'.pair <= oauthIssued'
      BY <2>2, <2>4, <2>7, <3>1, <1>t DEF OauthTypes
    <3> QED
      BY <3>3, <3>4, <3>5, <3>6 DEF RotationInv
  <2>8. CASE OauthFault /\ oauthLoss' = TRUE /\ oauthOps' = [oauthOps EXCEPT ![c].at = "release"]
    <3>1. /\ oauthOps' \in [OauthCallers -> OauthOpType] /\ oauthOps'[c].at = "release"
          /\ \A d \in OauthCallers : d # c => oauthOps'[d] = oauthOps[d]
      BY <2>8, <1>t DEF OauthOpType, OauthAts
    <3>2. OpKnows(c, oauthOps'[c], oauthRow, oauthIssued + 1)
      BY <3>1, IdleKnows
    <3>3. \A d \in OauthCallers : OpKnows(d, oauthOps'[d], oauthRow', oauthIssued')
      BY <2>2, <2>5, <3>1, <3>2
    <3>4. \A d, e \in OauthCallers :
        oauthOps'[d].at = "persist" /\ oauthOps'[e].at = "persist" /\ oauthOps'[d].new = oauthOps'[e].new => d = e
      BY <3>1 DEF RotationInv
    <3>5. RotatedPairKept'
      BY <2>8 DEF RotatedPairKept
    <3>6. oauthFaults' \in Nat
      BY <2>8, <1>t DEF OauthFault
    <3>7. OauthTypes' /\ oauthRow'.pair <= oauthIssued'
      BY <2>2, <2>4, <2>8, <3>1, <3>6, <1>t DEF OauthTypes
    <3> QED
      BY <3>3, <3>4, <3>5, <3>7 DEF RotationInv
  <2> QED
    BY <2>1, <2>7, <2>8 DEF RefreshLands
<1>8. CASE \E c \in OauthCallers : RefreshRefused(c)
  <2>1. PICK c \in OauthCallers : RefreshRefused(c)
    BY <1>8
  <2> DEFINE o == [oauthOps[c] EXCEPT !.at = "release"]
  <2>2. o \in OauthOpType /\ o.at = "release"
    BY <1>o DEF OauthOpType, OauthAts
  <2>3. /\ oauthOps' = [oauthOps EXCEPT ![c] = o] /\ UNCHANGED <<oauthRow, oauthIssued, oauthLoss>>
        /\ oauthOps[c].at = "post"
    BY <2>1 DEF RefreshRefused
  <2>4. oauthFaults' \in Nat
    BY <2>1, <1>t DEF RefreshRefused, OauthFault
  <2> HIDE DEF o
  <2>5. o.at \in AtRest \cup {"contend", "release"}
    BY <2>2
  <2> QED
    BY <2>2, <2>3, <2>4, <2>5, <1>t, CallerRests
<1>9. CASE \E c \in OauthCallers : ReleaseLease(c)
  <2>1. PICK c \in OauthCallers : ReleaseLease(c)
    BY <1>9
  <2> DEFINE o == OpRests(c, "failed")
             s == IF oauthRow.owner = c THEN ReleasedLease(oauthRow) ELSE oauthRow
  <2>2. o \in OauthOpType /\ o.at = "failed"
    BY OpRestsSo DEF AtRest
  <2>3. s \in OauthRowType /\ s.pair = oauthRow.pair /\ s.due = oauthRow.due
        /\ (s.owner = oauthRow.owner \/ s.owner = NoCaller)
    BY <1>t, ReleasedRow
  <2>4. /\ oauthOps' = [oauthOps EXCEPT ![c] = o] /\ oauthRow' = s
        /\ UNCHANGED <<oauthIssued, oauthLoss, oauthFaults>> /\ oauthOps[c].at = "release"
    BY <2>1 DEF ReleaseLease, OauthOpEnds
  <2>5. o.at \in AtRest \cup {"contend", "release"}
    BY <2>2 DEF AtRest
  <2> HIDE DEF o, s
  <2> QED
    BY <2>2, <2>3, <2>4, <2>5, <1>t, CallerRests
<1>10. CASE \E c \in OauthCallers : PersistPair(c)
  <2>1. PICK c \in OauthCallers : PersistPair(c)
    BY <1>10
  <2>2. oauthOps[c].at = "persist" /\ UNCHANGED <<oauthIssued, oauthFaults>>
    BY <2>1 DEF PersistPair
  <2>3. OpKnows(c, oauthOps[c], oauthRow, oauthIssued)
    BY <1>k
  <2>4. RotateFenced(c) => ~Superseded(c)
    BY <2>2, <2>3 DEF OpKnows, RotateFenced, Superseded
  <2>5. ~Superseded(c) => oauthOps[c].new = oauthIssued
    BY <2>2, <2>3, <1>o, <1>p, <1>t DEF OpKnows, Superseded
  <2>6. Superseded(c) => oauthOps[c].new # oauthIssued
    BY <2>2, <2>3, <1>o, <1>p, <1>t DEF OpKnows, Superseded
  <2> DEFINE o == OpRests(c, "failed")
  <2>7. o \in OauthOpType /\ o.at = "failed" /\ o.at \in AtRest \cup {"contend", "release"}
    BY OpRestsSo DEF AtRest
  <2>8. CASE /\ RotateFenced(c) \/ (~Superseded(c) /\ Recoverable(c))
             /\ oauthRow' = StoredPair(oauthRow, oauthOps[c].new)
             /\ OauthOpEnds(c, "ok") /\ UNCHANGED oauthLoss
    <3> DEFINE r == OpRests(c, "ok")
               s == StoredPair(oauthRow, oauthOps[c].new)
    <3>1. r \in OauthOpType /\ r.at = "ok"
      BY OpRestsSo DEF AtRest
    <3>2. s \in OauthRowType /\ s.pair = oauthOps[c].new /\ s.owner = NoCaller
        BY <1>t, <1>o, StoredRow
    <3>3. oauthOps' = [oauthOps EXCEPT ![c] = r] /\ oauthRow' = s
      BY <2>8 DEF OauthOpEnds
    <3> HIDE DEF r, s
    <3>4. /\ oauthOps' \in [OauthCallers -> OauthOpType] /\ oauthOps'[c] = r
          /\ \A d \in OauthCallers : d # c => oauthOps'[d] = oauthOps[d]
      BY <3>1, <3>3, <1>t
    <3>5. oauthOps[c].new = oauthIssued /\ oauthRow.pair # oauthIssued
      <4>1. ~Superseded(c)
        BY <2>4, <2>8
      <4> QED
        BY <4>1, <2>2, <2>3, <2>5, <1>o, <1>p DEF OpKnows, Superseded
    <3>6. ASSUME NEW d \in OauthCallers PROVE OpKnows(d, oauthOps'[d], oauthRow', oauthIssued')
      <4>1. CASE d = c
        <5>1. r.at \in AtRest \cup {"contend", "release"}
          BY <3>1 DEF AtRest
        <5> QED
          BY <4>1, <5>1, <3>4, IdleKnows
      <4>2. CASE d # c
        <5>1. oauthOps[d].at = "persist" => oauthOps[d].new # oauthIssued
          BY <4>2, <2>2, <3>5 DEF RotationInv
        <5>2. OpKnows(d, oauthOps[d], s, oauthIssued)
          BY <5>1, <3>2, <3>5, <1>k, <1>t, <1>o, KnowsOnStore
        <5> QED
          BY <4>2, <5>2, <3>3, <3>4, <2>2
      <4> QED
        BY <4>1, <4>2
    <3>7. \A d, e \in OauthCallers :
        oauthOps'[d].at = "persist" /\ oauthOps'[e].at = "persist" /\ oauthOps'[d].new = oauthOps'[e].new => d = e
      BY <3>1, <3>4 DEF RotationInv
    <3>8. RotatedPairKept' /\ oauthRow'.pair <= oauthIssued'
      BY <2>2, <3>2, <3>3, <3>5, <1>t DEF RotatedPairKept
    <3>9. OauthTypes'
      BY <2>2, <2>8, <3>2, <3>3, <3>4, <1>t DEF OauthTypes
    <3> QED
      BY <3>6, <3>7, <3>8, <3>9 DEF RotationInv
  <2>9. CASE /\ ~RotateFenced(c) /\ Superseded(c) /\ OauthOpEnds(c, "failed")
             /\ UNCHANGED <<oauthRow, oauthLoss>>
    <3>1. oauthOps' = [oauthOps EXCEPT ![c] = o] /\ oauthOps[c].new # oauthIssued
      BY <2>9, <2>6 DEF OauthOpEnds
    <3> HIDE DEF o
    <3> QED
      BY <2>2, <2>7, <2>9, <3>1, <1>t, CallerRests
  <2>10. CASE /\ ~RotateFenced(c) /\ ~Superseded(c) /\ ~Recoverable(c) /\ PersistAgain(c)
              /\ oauthLoss' = (oauthLoss \/ (oauthOps[c].left = 1 /\ LeaseHeld)) /\ UNCHANGED oauthRow
    <3>1. LeaseHeld
      BY <2>10 DEF Recoverable
    <3> QED
      BY <2>2, <2>10, <3>1, <1>t, PersistAgainKeeps
  <2> QED
    BY <2>1, <2>8, <2>9, <2>10 DEF PersistPair
<1>11. CASE \E c \in OauthCallers : PersistFails(c)
  <2>1. PICK c \in OauthCallers : PersistFails(c)
    BY <1>11
  <2>2. oauthFaults' \in Nat
    BY <2>1, <1>t DEF PersistFails, OauthFault
  <2> QED
    BY <2>1, <2>2, <1>t, PersistAgainKeeps DEF PersistFails
<1>12. CASE AccessFallsDue \/ RefreshLeaseLapses
  <2>1. /\ oauthRow' \in OauthRowType /\ oauthRow'.pair = oauthRow.pair /\ oauthRow'.owner = oauthRow.owner
        /\ (oauthRow.due => oauthRow'.due)
    BY <1>12, <1>t DEF AccessFallsDue, RefreshLeaseLapses, OauthRowType
  <2>2. UNCHANGED <<oauthIssued, oauthOps, oauthLoss, oauthFaults>>
    BY <1>12 DEF AccessFallsDue, RefreshLeaseLapses
  <2>3. \A c \in OauthCallers : OpKnows(c, oauthOps'[c], oauthRow', oauthIssued')
    <3>1. ASSUME NEW c \in OauthCallers PROVE OpKnows(c, oauthOps[c], oauthRow', oauthIssued)
      BY <2>1, <1>t, <1>o, <1>k, KnowsOnSamePair
    <3> QED
      BY <3>1, <2>2
  <2>4. OauthTypes' /\ RotatedPairKept'
    BY <2>1, <2>2, <1>t DEF OauthTypes, RotationInv, RotatedPairKept
  <2> QED
    BY <2>1, <2>2, <2>3, <2>4 DEF RotationInv
<1>13. CASE \E c \in OauthCallers : CallerDies(c)
  <2>1. PICK c \in OauthCallers : CallerDies(c)
    BY <1>13
  <2> DEFINE o == OpRests(c, "failed")
  <2>2. o \in OauthOpType /\ o.at = "failed" /\ o.at \in AtRest \cup {"contend", "release"}
    BY OpRestsSo DEF AtRest
  <2>3. /\ oauthOps' = [oauthOps EXCEPT ![c] = o] /\ UNCHANGED <<oauthRow, oauthIssued>>
        /\ oauthLoss' = (oauthLoss \/ (oauthOps[c].at = "persist" /\ oauthOps[c].new = oauthIssued))
    BY <2>1 DEF CallerDies, OauthOpEnds
  <2>4. oauthFaults' \in Nat
    BY <2>1, <1>t DEF CallerDies, OauthFault
  <2>5. oauthLoss' \in BOOLEAN
    BY <2>3, <1>t
  <2> HIDE DEF o
  <2> QED
    BY <2>2, <2>3, <2>4, <2>5, <1>t, CallerRests
<1>14. CASE UNCHANGED oauthVars
  BY <1>14 DEF oauthVars, RotationInv, OauthTypes, RotatedPairKept
<1> QED
  BY <1>1, <1>2, <1>3, <1>4, <1>5, <1>6, <1>7, <1>8, <1>9, <1>10, <1>11, <1>12, <1>13, <1>14 DEF OauthNext

\* The invariant of the token pair holds in every behaviour.
LEMMA RotationInvariant == OauthSpec => []RotationInv
  BY OauthInitial, OauthStepKeeps, PTL DEF OauthSpec

\* A caller's place in its refresh after a step of its own or of another.
LEMMA OpAfter ==
  ASSUME RotationInv, NEW c \in OauthCallers, NEW d \in OauthCallers, NEW o,
         oauthOps' = [oauthOps EXCEPT ![d] = o]
  PROVE  oauthOps'[c] = (IF c = d THEN o ELSE oauthOps[c])
  BY DEF RotationInv, OauthTypes

\* Only the answer to its POST brings a caller from the call to the storing of a pair.
LEMMA OnlyLandsStore ==
  ASSUME RotationInv, [OauthNext]_oauthVars, NEW c \in OauthCallers,
         oauthOps[c].at = "post", oauthOps'[c].at = "persist"
  PROVE  oauthOps[c].snap = oauthIssued
<1>1. CASE BootstrapOauth \/ ReseedOauth \/ AccessFallsDue \/ RefreshLeaseLapses \/ UNCHANGED oauthVars
  BY <1>1 DEF BootstrapOauth, ReseedOauth, AccessFallsDue, RefreshLeaseLapses, oauthVars
<1>2. ASSUME NEW d \in OauthCallers, NEW o, oauthOps' = [oauthOps EXCEPT ![d] = o], o.at # "persist"
      PROVE  FALSE
  <2>1. oauthOps'[c] = (IF c = d THEN o ELSE oauthOps[c])
    BY <1>2, OpAfter
  <2> QED
    BY <2>1, <1>2
<1>3. ASSUME NEW d \in OauthCallers, NEW how \in AtRest, OauthOpEnds(d, how)
      PROVE  FALSE
  <2>1. OpRests(d, how).at # "persist"
    BY <1>3 DEF OpRests, RefreshOp, AtRest
  <2> QED
    BY <1>2, <1>3, <2>1 DEF OauthOpEnds
<1>4. CASE \E d \in OauthCallers : CallRejected(d)
  <2>1. RefreshOp("rejected", "reactive", oauthRow.pair, 0).at # "persist"
    BY DEF RefreshOp
  <2> QED
    BY <1>2, <1>4, <2>1 DEF CallRejected
<1>5. ASSUME NEW d \in OauthCallers, NEW why, NEW seen, ClaimRefresh(d, why, seen)
      PROVE  FALSE
  <2>1. /\ RefreshOp(IF why = "proactive" THEN "contend" ELSE "failed", why, 0, 0).at # "persist"
        /\ RefreshOp("ok", why, 0, 0).at # "persist" /\ RefreshOp("post", why, 0, oauthRow.pair).at # "persist"
    BY DEF RefreshOp
  <2> QED
    BY <1>2, <1>5, <2>1 DEF ClaimRefresh
<1>6. CASE LifecycleTick
  BY <1>5, <1>6, OauthConstants DEF LifecycleTick
<1>7. CASE \E d \in OauthCallers : ReactiveRefresh(d)
  BY <1>5, <1>7 DEF ReactiveRefresh
<1>8. CASE \E d \in OauthCallers : ForcedRefresh(d)
  BY <1>5, <1>8 DEF ForcedRefresh
<1>9. CASE LifecyclePolls
  <2>1. PICK how \in AtRest : OauthOpEnds(Lifecycle, how)
    BY <1>9 DEF LifecyclePolls, ContentionEnd, AtRest
  <2> QED
    BY <2>1, <1>3, OauthConstants
<1>10. CASE \E d \in OauthCallers : RefreshLands(d)
  <2>1. PICK d \in OauthCallers : RefreshLands(d)
    BY <1>10
  <2>2. PICK o : oauthOps' = [oauthOps EXCEPT ![d] = o]
    BY <2>1 DEF RefreshLands
  <2>3. c = d
    BY <2>2, OpAfter
  <2> QED
    BY <2>1, <2>3 DEF RefreshLands
<1>11. CASE \E d \in OauthCallers : RefreshRefused(d)
  <2>1. PICK d \in OauthCallers : RefreshRefused(d)
    BY <1>11
  <2>2. oauthOps[d] \in OauthOpType
    BY DEF RotationInv, OauthTypes
  <2>3. [oauthOps[d] EXCEPT !.at = "release"].at # "persist"
    BY <2>2 DEF OauthOpType
  <2>4. oauthOps' = [oauthOps EXCEPT ![d] = [oauthOps[d] EXCEPT !.at = "release"]]
    BY <2>1 DEF RefreshRefused
  <2> QED
    BY <1>2, <2>3, <2>4
<1>12. CASE \E d \in OauthCallers : ReleaseLease(d) \/ CallerDies(d)
  BY <1>3, <1>12 DEF ReleaseLease, CallerDies, AtRest
<1>13. CASE \E d \in OauthCallers : PersistPair(d) \/ PersistFails(d)
  <2>1. PICK d \in OauthCallers : PersistPair(d) \/ PersistFails(d)
    BY <1>13
  <2>2. oauthOps[d].at = "persist" /\ (PersistAgain(d) \/ \E how \in AtRest : OauthOpEnds(d, how))
    BY <2>1 DEF PersistPair, PersistFails, AtRest
  <2>3. PICK o : oauthOps' = [oauthOps EXCEPT ![d] = o]
    BY <2>2 DEF PersistAgain, OauthOpEnds
  <2>4. c # d
    BY <2>2
  <2> QED
    BY <2>3, <2>4, OpAfter
<1> QED
  BY <1>1, <1>4, <1>6, <1>7, <1>8, <1>9, <1>10, <1>11, <1>12, <1>13 DEF OauthNext

\* The lifecycle worker's tick succeeds by a check of the row or by a pair it stores.
LEMMA TickEndsFresh ==
  ASSUME RotationInv, [OauthNext]_oauthVars,
         oauthOps[Lifecycle].at # "ok", oauthOps'[Lifecycle].at = "ok"
  PROVE  ~oauthRow'.due
<1>l. Lifecycle \in OauthCallers
  BY OauthConstants
<1>t. oauthRow \in OauthRowType /\ oauthOps \in [OauthCallers -> OauthOpType]
  BY DEF RotationInv, OauthTypes
<1>1. CASE BootstrapOauth \/ ReseedOauth \/ AccessFallsDue \/ RefreshLeaseLapses \/ UNCHANGED oauthVars
  BY <1>1 DEF BootstrapOauth, ReseedOauth, AccessFallsDue, RefreshLeaseLapses, oauthVars
<1>2. ASSUME NEW d \in OauthCallers, NEW o, oauthOps' = [oauthOps EXCEPT ![d] = o], d # Lifecycle \/ o.at # "ok"
      PROVE  FALSE
  <2>1. oauthOps'[Lifecycle] = (IF Lifecycle = d THEN o ELSE oauthOps[Lifecycle])
    BY <1>2, <1>l, OpAfter
  <2> QED
    BY <2>1, <1>2
<1>3. ASSUME NEW d \in OauthCallers, OauthOpEnds(d, "failed")
      PROVE  FALSE
  <2>1. OpRests(d, "failed").at # "ok"
    BY DEF OpRests, RefreshOp
  <2> QED
    BY <1>2, <1>3, <2>1 DEF OauthOpEnds
<1>4. CASE \E d \in OauthCallers : CallRejected(d)
  BY <1>2, <1>4 DEF CallRejected
<1>5. ASSUME NEW d \in OauthCallers, NEW why, NEW seen, ClaimRefresh(d, why, seen), d # Lifecycle
      PROVE  FALSE
  BY <1>2, <1>5 DEF ClaimRefresh
<1>6. CASE LifecycleTick
  <2>1. ClaimRefresh(Lifecycle, "proactive", 0)
    BY <1>6 DEF LifecycleTick
  <2>2. RefreshOp("contend", "proactive", 0, 0).at # "ok" /\ RefreshOp("post", "proactive", 0, oauthRow.pair).at # "ok"
    BY DEF RefreshOp
  <2>3. oauthRow' = ReleasedLease(oauthRow) /\ ~StillNeeded("proactive", 0)
    BY <1>2, <1>l, <2>1, <2>2 DEF ClaimRefresh
  <2> QED
    BY <2>3, <1>t, ReleasedRow DEF StillNeeded
<1>7. CASE \E d \in OauthCallers : ReactiveRefresh(d)
  <2>1. PICK d \in OauthCallers : ReactiveRefresh(d)
    BY <1>7
  <2>2. d # Lifecycle
    BY <2>1 DEF ReactiveRefresh, RotationInv, OpKnows
  <2> QED
    BY <2>1, <2>2, <1>5 DEF ReactiveRefresh
<1>8. CASE \E d \in OauthCallers : ForcedRefresh(d)
  BY <1>5, <1>8 DEF ForcedRefresh
<1>9. CASE LifecyclePolls
  <2>1. UNCHANGED oauthRow /\ \E how \in ContentionEnd : OauthOpEnds(Lifecycle, how)
    BY <1>9 DEF LifecyclePolls
  <2> QED
    BY <2>1, <1>3, <1>l DEF ContentionEnd
<1>10. CASE \E d \in OauthCallers : RefreshLands(d)
  <2>1. PICK d \in OauthCallers : RefreshLands(d)
    BY <1>10
  <2>2. oauthOps[d] \in OauthOpType /\ oauthIssued' \in Nat
    BY <2>1 DEF RotationInv, OauthTypes, RefreshLands
  <2>3. [oauthOps[d] EXCEPT !.at = "release"].at # "ok"
    BY <2>2 DEF OauthOpType
  <2>4. Answered(oauthOps[d], oauthIssued').at # "ok"
    BY <2>2, OpWithPair
  <2>5. \/ oauthOps' = [oauthOps EXCEPT ![d] = [oauthOps[d] EXCEPT !.at = "release"]]
        \/ oauthOps' = [oauthOps EXCEPT ![d] = Answered(oauthOps[d], oauthIssued')]
    BY <2>1 DEF RefreshLands
  <2> QED
    BY <1>2, <2>3, <2>4, <2>5
<1>11. CASE \E d \in OauthCallers : RefreshRefused(d)
  <2>1. PICK d \in OauthCallers : RefreshRefused(d)
    BY <1>11
  <2>2. oauthOps[d] \in OauthOpType
    BY DEF RotationInv, OauthTypes
  <2>3. [oauthOps[d] EXCEPT !.at = "release"].at # "ok"
    BY <2>2 DEF OauthOpType
  <2>4. oauthOps' = [oauthOps EXCEPT ![d] = [oauthOps[d] EXCEPT !.at = "release"]]
    BY <2>1 DEF RefreshRefused
  <2> QED
    BY <1>2, <2>3, <2>4
<1>12. CASE \E d \in OauthCallers : ReleaseLease(d) \/ CallerDies(d)
  BY <1>3, <1>12 DEF ReleaseLease, CallerDies
<1>13. CASE \E d \in OauthCallers : PersistPair(d) \/ PersistFails(d)
  <2>1. PICK d \in OauthCallers : PersistPair(d) \/ PersistFails(d)
    BY <1>13
  <2>2. CASE PersistAgain(d)
    <3>1. oauthOps[d] \in OauthOpType /\ oauthOps[d].at = "persist"
      BY <2>1, <1>t DEF PersistPair, PersistFails
    <3>2. [oauthOps[d] EXCEPT !.left = @ - 1].at # "ok"
      BY <3>1 DEF OauthOpType
    <3>3. oauthOps' = [oauthOps EXCEPT ![d] = [oauthOps[d] EXCEPT !.left = @ - 1]] \/ OauthOpEnds(d, "failed")
      BY <2>2 DEF PersistAgain
    <3> QED
      BY <1>2, <1>3, <3>2, <3>3
  <2>3. CASE ~PersistAgain(d)
    <3>1. oauthRow' = StoredPair(oauthRow, oauthOps[d].new)
      BY <2>1, <2>3, <1>3 DEF PersistPair, PersistFails
    <3>2. oauthOps[d].new \in Nat
      BY <1>t DEF OauthOpType
    <3> QED
      BY <3>1, <3>2, <1>t, StoredRow
  <2> QED
    BY <2>2, <2>3
<1> QED
  BY <1>1, <1>4, <1>6, <1>7, <1>8, <1>9, <1>10, <1>11, <1>12, <1>13 DEF OauthNext

\* For any number of callers, pairs, attempts and faults: the live pair is the durable one or in the hands of the caller
\* that is about to store it, unless a fault lost it; a pair is rotated only when due or on an operator's order; and a
\* lifecycle tick that ends well leaves a pair that is not due.
THEOREM RotationCorrect == OauthSpec => RotationExact
<1> DEFINE Body1 == \A c \in OauthCallers :
                      (oauthOps[c].at = "post" /\ oauthOps'[c].at = "persist")
                        => oauthRow.due \/ oauthOps[c].why = "forced"
           Body2 == (oauthOps[Lifecycle].at # "ok" /\ oauthOps'[Lifecycle].at = "ok") => ~oauthRow'.due
<1>1. RotationInv => RotatedPairKept
  BY DEF RotationInv
<1>2. RotationInv /\ [OauthNext]_oauthVars => [Body1]_oauthVars
  BY OnlyLandsStore DEF RotationInv, OpKnows
<1>3. RotationInv /\ [OauthNext]_oauthVars => [Body2]_oauthVars
  BY TickEndsFresh
<1> QED
  BY <1>1, <1>2, <1>3, RotationInvariant, PTL DEF OauthSpec, RotationExact, NoNeedlessRotation, TickTellsTruth

-----------------------------------------------------------------------------
(* The analytics workers *)

AnaRowType == [st : {"none", "open"} \cup SettledStates, tries : Nat, due : BOOLEAN]
Working == {"before", "patch", "verify", "post"}
AnaTxType == [at : {"idle", "ingest", "ready", "picked"} \cup Working, item : Nat, from : Nat, upto : Nat,
              refreshed : BOOLEAN, lasting : BOOLEAN, raced : BOOLEAN]

AnaTypes ==
  /\ feedLen \in 0..MaxFeed /\ anaCursor \in 0..MaxFeed /\ anaField \in 0..Manual
  /\ anaRows \in [FeedItems -> AnaRowType] /\ anaTx \in [AnaWorkers -> AnaTxType]
  /\ anaLanded \in [FeedItems -> Nat] /\ anaFaults \in Nat

\* A row that is not settled has an attempt left, and DONE stands for a filled field.
RowRight(r) ==
  /\ r.st \in {"none", "open"} => r.tries < MaxAnaAttempts
  /\ r.st = "done" => anaField # 0

\* What a worker's transaction t may rely on: its page follows rows that exist, its item is
\* one of the feed, and with the PATCH before it nothing of the item has landed and a field
\* that was filled since the read has marked it.
TxRight(t) ==
  /\ t.at = "ingest" => t.upto <= MaxFeed /\ \A i \in FeedItems : i <= t.from => anaRows[i].st # "none"
  /\ t.at \in Working \cup {"picked"} => t.item \in FeedItems
  /\ t.at = "patch" => anaLanded[t.item] = 0 /\ (anaField # 0 => t.raced)

\* The row lock: one transaction works on an item.
Exclusive ==
  \A v, w \in AnaWorkers :
    anaTx[v].at \in Working /\ anaTx[w].at \in Working /\ anaTx[v].item = anaTx[w].item => v = w

LandedInv == PatchLandsOnce /\ (anaField = 0 => \A i \in FeedItems : anaLanded[i] = 0)

AnaInv ==
  /\ AnaTypes /\ EveryItemAdmitted /\ LandedInv /\ Exclusive
  /\ \A i \in FeedItems : RowRight(anaRows[i])
  /\ \A w \in AnaWorkers : TxRight(anaTx[w])

LEMMA AnaConsts ==
  /\ MaxFeed \in Nat /\ MaxFeed > 0 /\ FeedLimit \in Nat /\ MaxAnaAttempts \in Nat /\ MaxAnaAttempts > 0
  /\ FeedItems \subseteq Nat \ {0} /\ Manual = MaxFeed + 1
  BY AnalyticsConstants DEF FeedItems, Manual

LEMMA AnaInitial == AnaInit => AnaInv
<1> SUFFICES ASSUME AnaInit PROVE AnaInv
  OBVIOUS
<1>1. AnaTypes
  BY AnaConsts DEF AnaInit, AnaTypes, AnaRowType, AnaTxType, NoAnaRow, NoAnaTx
<1>2. \A w \in AnaWorkers : anaTx[w].at = "idle"
  BY DEF AnaInit, NoAnaTx
<1>3. \A i \in FeedItems : anaRows[i].st = "none" /\ anaRows[i].tries = 0 /\ anaLanded[i] = 0
  BY DEF AnaInit, NoAnaRow
<1>4. EveryItemAdmitted
  BY DEF AnaInit, EveryItemAdmitted
<1>5. LandedInv /\ Exclusive
  BY <1>2, <1>3 DEF LandedInv, PatchLandsOnce, Exclusive, Working
<1>6. \A i \in FeedItems : RowRight(anaRows[i])
  BY <1>3, AnaConsts DEF RowRight
<1>7. \A w \in AnaWorkers : TxRight(anaTx[w])
  BY <1>2 DEF TxRight, Working
<1> QED
  BY <1>1, <1>4, <1>5, <1>6, <1>7 DEF AnaInv

\* Decisions: where they lead, and which end DONE.
Decisions == {"applied", "already", "conflict", "manual", "transient", "skipped", "review", "retry"}

LEMMA DecisionMaps ==
  ASSUME NEW d \in Decisions
  PROVE  /\ MethodMaps[d] \in SettledStates \cup {"retry"} /\ SourceMaps[d] \in SettledStates \cup {"retry"}
         /\ MethodMaps[d] = "done" => d \in {"applied", "already", "conflict"}
         /\ SourceMaps[d] = "done" => d \in {"applied", "already", "conflict"}
<1>1. MethodMaps = SourceMaps
  BY DEF MethodMaps, SourceMaps
<1>2. CASE d \in {"applied", "already", "conflict"}
  BY <1>1, <1>2 DEF MethodMaps, SettledStates
<1>3. CASE d \in {"manual", "transient", "skipped", "review", "retry"}
  <2>1. MethodMaps[d] \in {"review", "retry", "skipped"}
    BY <1>3 DEF MethodMaps
  <2> QED
    BY <1>1, <2>1 DEF SettledStates
<1> QED
  BY <1>2, <1>3 DEF Decisions

\* The row a decision leaves: settled, or open with an attempt left.
LEMMA SettledRowRight ==
  ASSUME NEW r \in AnaRowType, NEW d \in Decisions
  PROVE  /\ SettledRow(r, d) \in AnaRowType /\ SettledRow(r, d).st # "none"
         /\ SettledRow(r, d).st = "open" => SettledRow(r, d).tries < MaxAnaAttempts
         /\ SettledRow(r, d).st = "done" => d \in {"applied", "already", "conflict"}
<1> DEFINE k == r.tries + 1
<1>1. k \in Nat
  BY DEF AnaRowType
<1> HIDE DEF k
<1>2. ASSUME NEW q, q \in {MethodRetry(k), SourceRetry(k)}
      PROVE  q \in AnaRowType /\ q.st \in {"open", "review"} /\ (q.st = "open" => q.tries < MaxAnaAttempts)
  <2>1. q = IF k >= MaxAnaAttempts THEN [st |-> "review", tries |-> k, due |-> FALSE]
            ELSE [st |-> "open", tries |-> k, due |-> FALSE]
    BY <1>2 DEF MethodRetry, SourceRetry
  <2>2. CASE k >= MaxAnaAttempts /\ q = [st |-> "review", tries |-> k, due |-> FALSE]
    BY <1>1, <2>2 DEF AnaRowType, SettledStates
  <2>3. CASE ~(k >= MaxAnaAttempts) /\ q = [st |-> "open", tries |-> k, due |-> FALSE]
    BY <1>1, <2>3, AnaConsts DEF AnaRowType
  <2> QED
    BY <2>1, <2>2, <2>3
<1>3. ASSUME NEW s \in SettledStates, NEW q, q \in {MethodTerminal(k, s), SourceTerminal(k, s)}
      PROVE  q \in AnaRowType /\ q.st = s
  <2>1. q = [st |-> s, tries |-> k, due |-> FALSE]
    BY <1>3 DEF MethodTerminal, SourceTerminal
  <2> QED
    BY <1>1, <2>1 DEF AnaRowType
<1>4. PICK s \in SettledStates \cup {"retry"} :
         /\ s = "done" => d \in {"applied", "already", "conflict"}
         /\ \/ s = "retry" /\ SettledRow(r, d) \in {MethodRetry(k), SourceRetry(k)}
            \/ s \in SettledStates /\ SettledRow(r, d) \in {MethodTerminal(k, s), SourceTerminal(k, s)}
  <2> DEFINE s == IF anaKind = "method" THEN MethodMaps[d] ELSE SourceMaps[d]
  <2>1. s \in SettledStates \cup {"retry"} /\ (s = "done" => d \in {"applied", "already", "conflict"})
    BY DecisionMaps
  <2>2. SettledRow(r, d) = IF anaKind = "method"
                           THEN IF s = "retry" THEN MethodRetry(k) ELSE MethodTerminal(k, s)
                           ELSE IF s = "retry" THEN SourceRetry(k) ELSE SourceTerminal(k, s)
    BY DEF SettledRow, k
  <2> HIDE DEF s
  <2> QED
    BY <2>1, <2>2
<1>5. CASE s = "retry" /\ SettledRow(r, d) \in {MethodRetry(k), SourceRetry(k)}
  BY <1>2, <1>5
<1>6. CASE s \in SettledStates /\ SettledRow(r, d) \in {MethodTerminal(k, s), SourceTerminal(k, s)}
  <2>1. SettledRow(r, d) \in AnaRowType /\ SettledRow(r, d).st = s
    BY <1>3, <1>6
  <2> QED
    BY <2>1, <1>4, <1>6 DEF SettledStates
<1> QED
  BY <1>4, <1>5, <1>6

\* expire_exhausted and the upsert: a row keeps its type, is never absent again and keeps DONE.
LEMMA ExpireRight ==
  ASSUME AnaInv, NEW i \in FeedItems
  PROVE  /\ ExpireExhausted(anaRows)[i] \in AnaRowType /\ RowRight(ExpireExhausted(anaRows)[i])
         /\ ExpireExhausted(anaRows)[i].st = "none" => anaRows[i].st = "none"
<1>1. anaRows[i] \in AnaRowType /\ RowRight(anaRows[i])
  BY DEF AnaInv, AnaTypes
<1>2. ExpireExhausted(anaRows)[i] = anaRows[i] \/ ExpireExhausted(anaRows)[i] = [anaRows[i] EXCEPT !.st = "review"]
  BY DEF ExpireExhausted
<1>3. [anaRows[i] EXCEPT !.st = "review"] \in AnaRowType /\ [anaRows[i] EXCEPT !.st = "review"].st = "review"
  BY <1>1 DEF AnaRowType, SettledStates
<1> QED
  BY <1>1, <1>2, <1>3 DEF RowRight

LEMMA UpsertRight ==
  ASSUME AnaInv, NEW i \in FeedItems
  PROVE  UpsertDiscovered(anaRows[i]) \in AnaRowType /\ RowRight(UpsertDiscovered(anaRows[i]))
         /\ UpsertDiscovered(anaRows[i]).st # "none"
<1>1. anaRows[i] \in AnaRowType /\ RowRight(anaRows[i])
  BY DEF AnaInv, AnaTypes
<1>2. UpsertDiscovered(anaRows[i]) \in {anaRows[i], MethodDiscovered, SourceDiscovered}
      /\ (UpsertDiscovered(anaRows[i]) = anaRows[i] => anaRows[i].st # "none")
  BY DEF UpsertDiscovered, MethodDiscovered, SourceDiscovered
<1>3. ASSUME NEW q \in {MethodDiscovered, SourceDiscovered}
      PROVE  q \in AnaRowType /\ RowRight(q) /\ q.st = "open"
  <2>1. q = [st |-> "open", tries |-> 0, due |-> TRUE]
    BY <1>3 DEF MethodDiscovered, SourceDiscovered
  <2> QED
    BY <2>1, AnaConsts DEF AnaRowType, RowRight
<1> QED
  BY <1>1, <1>2, <1>3

\* A step of one worker that leaves the field and what landed.
LEMMA OneWorkerMoves ==
  ASSUME AnaInv, NEW w \in AnaWorkers, NEW t \in AnaTxType, anaTx' = [anaTx EXCEPT ![w] = t],
         UNCHANGED <<feedLen, anaField, anaLanded>>, anaFaults' \in Nat, anaCursor' \in 0..MaxFeed,
         anaRows' \in [FeedItems -> AnaRowType], \A i \in FeedItems : RowRight(anaRows'[i]),
         \A i \in FeedItems : anaRows'[i].st = "none" => anaRows[i].st = "none",
         EveryItemAdmitted', TxRight(t),
         t.at \in Working => \A v \in AnaWorkers \ {w} : ~(anaTx[v].at \in Working /\ anaTx[v].item = t.item)
  PROVE  AnaInv'
<1>1. /\ anaTx' \in [AnaWorkers -> AnaTxType] /\ anaTx'[w] = t
      /\ \A v \in AnaWorkers : v # w => anaTx'[v] = anaTx[v]
  BY DEF AnaInv, AnaTypes
<1>2. AnaTypes'
  BY <1>1 DEF AnaInv, AnaTypes
<1>3. LandedInv'
  BY DEF AnaInv, LandedInv, PatchLandsOnce
<1>4. Exclusive'
  BY <1>1 DEF AnaInv, Exclusive
<1>5. ASSUME NEW i \in FeedItems PROVE RowRight(anaRows[i])'
  <2>1. RowRight(anaRows'[i])
    OBVIOUS
  <2> QED
    BY <2>1 DEF RowRight
<1>6. ASSUME NEW v \in AnaWorkers PROVE TxRight(anaTx[v])'
  <2>1. TxRight(anaTx'[v])
    BY <1>1 DEF AnaInv
  <2> QED
    BY <2>1 DEF TxRight
<1> QED
  BY <1>2, <1>3, <1>4, <1>5, <1>6 DEF AnaInv

LEMMA NoAnaTxRight == NoAnaTx \in AnaTxType /\ NoAnaTx.at = "idle" /\ TxRight(NoAnaTx)
<1>1. NoAnaTx \in AnaTxType /\ NoAnaTx.at = "idle"
  BY DEF NoAnaTx, AnaTxType
<1> QED
  BY <1>1 DEF TxRight, Working

\* The commit of a decision; DONE is decided only on a filled field.
LEMMA CommitsKeeps ==
  ASSUME AnaInv, NEW w \in AnaWorkers, anaTx[w].at \in Working \cup {"picked"}, NEW d \in Decisions, Commits(w, d),
         d \in {"applied", "already", "conflict"} => anaField # 0,
         UNCHANGED <<feedLen, anaCursor, anaField, anaLanded>>
  PROVE  AnaInv'
<1> DEFINE i == anaTx[w].item
           r == SettledRow(anaRows[i], d)
<1>1. i \in FeedItems
  BY DEF AnaInv, TxRight
<1>2. anaRows \in [FeedItems -> AnaRowType] /\ anaRows[i] \in AnaRowType
  BY <1>1 DEF AnaInv, AnaTypes
<1>3. /\ r \in AnaRowType /\ r.st # "none" /\ (r.st = "open" => r.tries < MaxAnaAttempts)
      /\ (r.st = "done" => anaField # 0)
  BY <1>2, SettledRowRight
<1>4. RowRight(r)
  BY <1>3 DEF RowRight
<1>5. anaRows' = [anaRows EXCEPT ![i] = r] /\ anaTx' = [anaTx EXCEPT ![w] = NoAnaTx] /\ UNCHANGED anaFaults
  BY DEF Commits
<1> HIDE DEF i, r
<1>6. anaRows' \in [FeedItems -> AnaRowType] /\ anaRows'[i] = r
      /\ \A j \in FeedItems : j # i => anaRows'[j] = anaRows[j]
  BY <1>1, <1>2, <1>3, <1>5
<1>7. \A j \in FeedItems : RowRight(anaRows'[j])
  BY <1>4, <1>6 DEF AnaInv
<1>8. \A j \in FeedItems : anaRows'[j].st = "none" => anaRows[j].st = "none"
  BY <1>3, <1>6
<1>9. EveryItemAdmitted'
  <2>1. \A j \in 1..anaCursor : j \in FeedItems /\ anaRows[j].st # "none"
    BY AnaConsts DEF AnaInv, AnaTypes, EveryItemAdmitted, FeedItems
  <2> QED
    BY <2>1, <1>8 DEF EveryItemAdmitted
<1>10. anaFaults' \in Nat /\ anaCursor' \in 0..MaxFeed
  BY <1>5 DEF AnaInv, AnaTypes
<1>11. NoAnaTx.at \notin Working
  BY NoAnaTxRight DEF Working
<1> QED
  BY <1>5, <1>6, <1>7, <1>8, <1>9, <1>10, <1>11, NoAnaTxRight, OneWorkerMoves

\* A step of one worker that leaves the rows, too.
LEMMA OnlyTxMoves ==
  ASSUME AnaInv, NEW w \in AnaWorkers, NEW t \in AnaTxType, anaTx' = [anaTx EXCEPT ![w] = t],
         UNCHANGED <<feedLen, anaCursor, anaRows, anaField, anaLanded>>, anaFaults' \in Nat, TxRight(t),
         t.at \in Working => \A v \in AnaWorkers \ {w} : ~(anaTx[v].at \in Working /\ anaTx[v].item = t.item)
  PROVE  AnaInv'
<1>1. /\ anaRows' \in [FeedItems -> AnaRowType] /\ \A i \in FeedItems : RowRight(anaRows'[i])
      /\ \A i \in FeedItems : anaRows'[i].st = "none" => anaRows[i].st = "none"
      /\ EveryItemAdmitted' /\ anaCursor' \in 0..MaxFeed
  BY DEF AnaInv, AnaTypes, EveryItemAdmitted
<1> QED
  BY <1>1, OneWorkerMoves

\* While a worker works on its item nobody else does.
LEMMA AloneOnItem ==
  ASSUME AnaInv, NEW w \in AnaWorkers, anaTx[w].at \in Working
  PROVE  \A v \in AnaWorkers \ {w} : ~(anaTx[v].at \in Working /\ anaTx[v].item = anaTx[w].item)
  BY DEF AnaInv, Exclusive

\* What the settling of a receipt does, also when it starts over with a new token.
LEMMA DecidesKeeps ==
  ASSUME AnaInv, NEW w \in AnaWorkers, anaTx[w].at \in Working, NEW d \in Decisions \cup {"unauthorized"}, Decides(w, d),
         d \in {"applied", "already", "conflict"} => anaField # 0,
         UNCHANGED <<feedLen, anaCursor, anaField, anaLanded>>
  PROVE  AnaInv'
<1>1. CASE d \in Decisions /\ Commits(w, d)
  BY <1>1, CommitsKeeps
<1>2. CASE Commits(w, "manual")
  BY <1>2, CommitsKeeps DEF Decisions
<1>3. CASE anaTx' = RestartsAtRead(w) /\ UNCHANGED <<anaRows, anaFaults>>
  <2> DEFINE t == [anaTx[w] EXCEPT !.at = "before", !.refreshed = TRUE, !.raced = FALSE]
  <2>1. anaTx[w] \in AnaTxType
    BY DEF AnaInv, AnaTypes
  <2>2. t \in AnaTxType /\ t.at = "before" /\ t.item = anaTx[w].item
    BY <2>1 DEF AnaTxType, Working
  <2>3. anaTx' = [anaTx EXCEPT ![w] = t]
    BY <1>3 DEF RestartsAtRead
  <2> HIDE DEF t
  <2>4. anaTx[w].item \in FeedItems
    BY DEF AnaInv, TxRight
  <2>5. TxRight(t)
    BY <2>2, <2>4 DEF TxRight
  <2>6. t.at \in Working => \A v \in AnaWorkers \ {w} : ~(anaTx[v].at \in Working /\ anaTx[v].item = t.item)
    BY <2>2, AloneOnItem
  <2>7. anaFaults' \in Nat
    BY <1>3 DEF AnaInv, AnaTypes
  <2> QED
    BY <1>3, <2>2, <2>3, <2>5, <2>6, <2>7, OnlyTxMoves
<1> QED
  BY <1>1, <1>2, <1>3 DEF Decides, Decisions

\* What the reads of the field decide.
LEMMA ReadDecides ==
  ASSUME AnaInv, NEW i \in FeedItems, NEW seen \in ReadAnswers(i), NEW lasting \in BOOLEAN
  PROVE  /\ BeforeDecision(seen) = "patch" => anaField = 0
         /\ BeforeDecision(seen) # "patch" => BeforeDecision(seen) \in Decisions \cup {"unauthorized"}
         /\ VerifyDecision(seen, lasting) \in Decisions \cup {"unauthorized"}
         /\ PostDecision(seen) \in Decisions \cup {"unauthorized"}
         /\ \A d \in {BeforeDecision(seen), VerifyDecision(seen, lasting), PostDecision(seen)} :
              d \in {"applied", "already", "conflict"} => anaField # 0
<1>1. CASE seen \in ReadFailures
  <2>1. ReadFailureDecision[seen] \in {"unauthorized", "manual", "transient"}
    BY <1>1 DEF ReadFailures, ReadFailureDecision
  <2>2. BeforeDecision(seen) = ReadFailureDecision[seen] /\ PostDecision(seen) = ReadFailureDecision[seen]
    BY <1>1 DEF BeforeDecision, PostDecision, ReadFailures
  <2>3. VerifyDecision(seen, lasting) \in {"unauthorized", "manual", "transient"}
    BY <1>1 DEF VerifyDecision, ReadFailures
  <2> QED
    BY <2>1, <2>2, <2>3 DEF Decisions
<1>2. CASE seen = "empty" /\ anaField = 0
  <2>1. BeforeDecision(seen) = "patch" /\ PostDecision(seen) = "transient"
    BY <1>2 DEF BeforeDecision, PostDecision, ReadFailures
  <2>2. VerifyDecision(seen, lasting) \in {"manual", "transient"}
    BY <1>2 DEF VerifyDecision
  <2> QED
    BY <1>2, <2>1, <2>2 DEF Decisions
<1>3. CASE seen \in {"own", "other"} /\ anaField # 0
  <2>1. BeforeDecision(seen) \in {"already", "conflict"} /\ PostDecision(seen) \in {"applied", "conflict"}
    BY <1>3 DEF BeforeDecision, PostDecision, ReadFailures
  <2>2. VerifyDecision(seen, lasting) \in {"applied", "conflict"}
    BY <1>3 DEF VerifyDecision
  <2> QED
    BY <1>3, <2>1, <2>2 DEF Decisions
<1> QED
  BY <1>1, <1>2, <1>3, AnaConsts DEF ReadAnswers, FieldAsRead

\* What a claimed row may come to before the field is read.
LEMMA ResolvesTo ==
  /\ MethodResolves \subseteq {"go", "skipped", "review", "retry"}
  /\ SourceResolves \subseteq {"go", "skipped", "review", "retry"}
<1>1. ASSUME NEW a PROVE /\ MethodContextLeads(a) \in {"go", "skipped", "review", "retry"}
                         /\ SourceContextLeads(a) \in {"go", "skipped", "review", "retry"}
  <2>1. MethodContextLeads(a) \in {"go", "skipped", "review", "retry"}
    BY DEF MethodContextLeads, MethodSkipCodes
  <2>2. SourceContextLeads(a) \in {"go", "skipped", "review", "retry"}
    BY DEF SourceContextLeads, SourceSkipCodes
  <2> QED
    BY <2>1, <2>2
<1>2. ASSUME NEW l, NEW f PROVE DiscoverDeal(l, f) \in {"go", "none", "review", "retry"}
  BY DEF DiscoverDeal
<1>3. AnaDiscovered \subseteq {"go", "none", "review", "retry"}
  BY <1>2 DEF AnaDiscovered
<1>4. \A d \in AnaDiscovered : /\ MethodDiscoveryLeads(d) \in {"go", "skipped", "review", "retry"}
                               /\ SourceDiscoveryLeads(d) \in {"go", "skipped", "review", "retry"}
  BY <1>3 DEF MethodDiscoveryLeads, SourceDiscoveryLeads
<1>5. MethodResolves \subseteq {"go", "skipped", "review", "retry"}
  BY <1>1, <1>4 DEF MethodResolves, ApplyGate
<1>6. SourceResolves \subseteq {"go", "skipped", "review", "retry"}
  BY <1>1, <1>4 DEF SourceResolves, ApplyGate
<1> QED
  BY <1>5, <1>6

\* claim_one finds the oldest free row: every nonempty set of items has a first one.
LEMMA FirstItem ==
  ASSUME NEW S, S \subseteq FeedItems, S # {}
  PROVE  (CHOOSE i \in S : \A j \in S : i <= j) \in S
<1> DEFINE R == OpToRel(<, Nat)
<1>1. S \subseteq Nat
  BY AnaConsts
<1>2. IsWellFoundedOn(R, Nat)
  BY NatLessThanWellFounded, Zenon
<1>3. \A j, i \in Nat : j < i => <<j, i>> \in R
  BY Zenon DEF OpToRel
<1> HIDE DEF R
<1>4. PICK i \in S : \A j \in S : ~(<<j, i>> \in R)
  BY <1>1, <1>2, WFMin, Zenon
<1>5. ASSUME NEW j \in S PROVE i <= j
  <2>1. i \in Nat /\ j \in Nat
    BY <1>1
  <2>2. ~(j < i)
    BY <2>1, <1>3, <1>4, Zenon
  <2> QED
    BY <2>1, <2>2
<1> QED
  BY <1>5, Zenon

\* The feed page a worker has read, and a step that leaves the rows' states.
LEMMA RowsMonotone ==
  ASSUME AnaInv, \A i \in FeedItems : anaRows'[i].st = "none" => anaRows[i].st = "none", UNCHANGED anaCursor
  PROVE  EveryItemAdmitted'
<1>1. \A j \in 1..anaCursor : j \in FeedItems /\ anaRows[j].st # "none"
  BY AnaConsts DEF AnaInv, AnaTypes, EveryItemAdmitted, FeedItems
<1> QED
  BY <1>1 DEF EveryItemAdmitted

LEMMA ExpiredRows ==
  ASSUME AnaInv, anaRows' = ExpireExhausted(anaRows), UNCHANGED anaCursor
  PROVE  /\ anaRows' \in [FeedItems -> AnaRowType] /\ \A i \in FeedItems : RowRight(anaRows'[i])
         /\ \A i \in FeedItems : anaRows'[i].st = "none" => anaRows[i].st = "none"
         /\ EveryItemAdmitted' /\ anaCursor' \in 0..MaxFeed
<1>1. \A i \in FeedItems : /\ anaRows'[i] \in AnaRowType /\ RowRight(anaRows'[i])
                           /\ anaRows'[i].st = "none" => anaRows[i].st = "none"
  BY ExpireRight
<1>2. anaRows' = [i \in FeedItems |-> anaRows'[i]]
  BY DEF ExpireExhausted
<1>3. anaCursor' \in 0..MaxFeed
  BY DEF AnaInv, AnaTypes
<1> QED
  BY <1>1, <1>2, <1>3, RowsMonotone

LEMMA IngestFetchesKeeps ==
  ASSUME AnaInv, NEW w \in AnaWorkers, IngestFetches(w)
  PROVE  AnaInv'
<1>t. anaTx[w] \in AnaTxType /\ anaCursor \in 0..MaxFeed /\ feedLen \in 0..MaxFeed /\ anaFaults \in Nat
  BY DEF AnaInv, AnaTypes
<1>u. UNCHANGED <<feedLen, anaCursor, anaField, anaLanded>>
  BY DEF IngestFetches, ElseUnchanged
<1>1. CASE /\ anaTx' = [anaTx EXCEPT ![w] =
                [NoAnaTx EXCEPT !.at = "ingest", !.from = anaCursor,
                   !.upto = IF anaCursor + FeedLimit < feedLen THEN anaCursor + FeedLimit ELSE feedLen]]
           /\ UNCHANGED <<anaRows, anaFaults>>
  <2> DEFINE u == IF anaCursor + FeedLimit < feedLen THEN anaCursor + FeedLimit ELSE feedLen
             t == [NoAnaTx EXCEPT !.at = "ingest", !.from = anaCursor, !.upto = u]
  <2>1. u \in Nat /\ u <= MaxFeed /\ anaCursor \in Nat
    BY <1>t, AnaConsts
  <2>2. anaTx' = [anaTx EXCEPT ![w] = t]
    BY <1>1
  <2> HIDE DEF u
  <2>3. t \in AnaTxType /\ t.at = "ingest" /\ t.upto = u /\ t.from = anaCursor
    BY <2>1, NoAnaTxRight DEF AnaTxType
  <2> HIDE DEF t
  <2>4. \A i \in FeedItems : i <= anaCursor => anaRows[i].st # "none"
    BY <1>t DEF AnaInv, EveryItemAdmitted, FeedItems
  <2>5. TxRight(t)
    BY <2>1, <2>3, <2>4 DEF TxRight, Working
  <2> QED
    BY <1>1, <1>t, <1>u, <2>2, <2>3, <2>5, OnlyTxMoves DEF Working
<1>2. CASE anaRows' = ExpireExhausted(anaRows) /\ anaTx' = [anaTx EXCEPT ![w].at = "ready"] /\ UNCHANGED anaFaults
  <2> DEFINE t == [anaTx[w] EXCEPT !.at = "ready"]
  <2>1. t \in AnaTxType /\ t.at = "ready"
    BY <1>t DEF AnaTxType
  <2>2. anaTx' = [anaTx EXCEPT ![w] = t]
    BY <1>2
  <2> HIDE DEF t
  <2>3. TxRight(t) /\ t.at \notin Working
    BY <2>1 DEF TxRight, Working
  <2> QED
    BY <1>2, <1>t, <1>u, <2>1, <2>2, <2>3, ExpiredRows, OneWorkerMoves
<1>3. CASE anaFaults' = anaFaults + 1 /\ UNCHANGED <<anaRows, anaTx>>
  <2>1. anaTx' = [anaTx EXCEPT ![w] = anaTx[w]] /\ anaFaults' \in Nat
    BY <1>3, <1>t DEF AnaInv, AnaTypes
  <2>2. TxRight(anaTx[w])
    BY DEF AnaInv
  <2> QED
    BY <1>3, <1>t, <1>u, <2>1, <2>2, OnlyTxMoves, AloneOnItem
<1> QED
  BY <1>1, <1>2, <1>3 DEF IngestFetches

\* The commit of a page: the rows it names exist with it, the rows before it did already.
LEMMA IngestCommitsKeeps ==
  ASSUME AnaInv, NEW w \in AnaWorkers, IngestCommits(w)
  PROVE  AnaInv'
<1> DEFINE f == anaTx[w].from
           u == anaTx[w].upto
           t == [NoAnaTx EXCEPT !.at = "ready"]
<1>1. /\ anaTx[w] \in AnaTxType /\ f \in Nat /\ u \in Nat /\ u <= MaxFeed
      /\ \A i \in FeedItems : i <= f => anaRows[i].st # "none"
  <2>1. anaTx[w] \in AnaTxType /\ TxRight(anaTx[w]) /\ anaTx[w].at = "ingest"
    BY DEF AnaInv, AnaTypes, IngestCommits
  <2> QED
    BY <2>1 DEF TxRight, AnaTxType
<1>2. /\ anaRows' = [i \in FeedItems |-> IF i \in f + 1 .. u THEN UpsertDiscovered(anaRows[i])
                                         ELSE ExpireExhausted(anaRows)[i]]
      /\ anaTx' = [anaTx EXCEPT ![w] = t] /\ UNCHANGED <<feedLen, anaField, anaLanded, anaFaults>>
      /\ anaCursor' = IF u > f THEN u ELSE anaCursor
  BY DEF IngestCommits, CursorAfter, ElseUnchanged
<1>3. t \in AnaTxType /\ t.at = "ready"
  BY NoAnaTxRight DEF AnaTxType
<1> HIDE DEF f, u, t
<1>4. ASSUME NEW i \in FeedItems
      PROVE  /\ anaRows'[i] \in AnaRowType /\ RowRight(anaRows'[i])
             /\ anaRows'[i].st = "none" => anaRows[i].st = "none" /\ i \notin f + 1 .. u
  BY <1>2, ExpireRight, UpsertRight
<1>5. anaRows' \in [FeedItems -> AnaRowType]
  <2>1. anaRows' = [i \in FeedItems |-> anaRows'[i]]
    BY <1>2
  <2> QED
    BY <2>1, <1>4
<1>6. anaCursor' \in 0..MaxFeed /\ anaFaults' \in Nat
  BY <1>1, <1>2 DEF AnaInv, AnaTypes
<1>7. EveryItemAdmitted'
  <2>1. CASE u > f
    <3>1. ASSUME NEW i \in 1..u PROVE anaRows'[i].st # "none"
      <4>1. i \in FeedItems /\ i \in Nat
        BY <1>1, AnaConsts DEF FeedItems
      <4>2. i <= f \/ i \in f + 1 .. u
        BY <4>1, <1>1
      <4> QED
        BY <4>1, <4>2, <1>1, <1>4
    <3> QED
      BY <2>1, <3>1, <1>2 DEF EveryItemAdmitted
  <2>2. CASE ~(u > f)
    BY <2>2, <1>2, <1>4, RowsMonotone
  <2> QED
    BY <2>1, <2>2
<1>8. TxRight(t) /\ t.at \notin Working
  BY <1>3 DEF TxRight, Working
<1> QED
  BY <1>2, <1>3, <1>4, <1>5, <1>6, <1>7, <1>8, OneWorkerMoves

LEMMA ClaimOneKeeps ==
  ASSUME AnaInv, NEW w \in AnaWorkers, ClaimOne(w)
  PROVE  AnaInv'
<1>t. anaFaults' \in Nat /\ UNCHANGED <<feedLen, anaCursor, anaField, anaLanded>> /\ anaRows' = ExpireExhausted(anaRows)
  BY DEF AnaInv, AnaTypes, ClaimOne, ElseUnchanged
<1>1. PICK t : /\ anaTx' = [anaTx EXCEPT ![w] = t]
               /\ t = NoAnaTx \/ \E i \in FeedItems : t = [NoAnaTx EXCEPT !.at = "picked", !.item = i]
  <2> DEFINE free == {i \in FeedItems : ClaimableRow(ExpireExhausted(anaRows)[i]) /\ ~LockedRow(w, i)}
             first == CHOOSE i \in free : \A j \in free : i <= j
  <2>1. anaTx' = [anaTx EXCEPT ![w] = IF free = {} THEN NoAnaTx
                                      ELSE [NoAnaTx EXCEPT !.at = "picked", !.item = first]]
    BY DEF ClaimOne
  <2>2. free \subseteq FeedItems
    OBVIOUS
  <2> HIDE DEF free
  <2>3. free # {} => first \in free
    BY <2>2, FirstItem
  <2> HIDE DEF first
  <2> QED
    BY <2>1, <2>2, <2>3
<1>2. t \in AnaTxType /\ t.at \in {"idle", "picked"} /\ (t.at = "picked" => t.item \in FeedItems)
  <2>1. CASE t = NoAnaTx
    BY <2>1, NoAnaTxRight
  <2>2. ASSUME NEW i \in FeedItems, t = [NoAnaTx EXCEPT !.at = "picked", !.item = i]
        PROVE  t \in AnaTxType /\ t.at = "picked" /\ t.item = i
    BY <2>2, NoAnaTxRight, AnaConsts DEF AnaTxType
  <2> QED
    BY <2>1, <2>2, <1>1
<1>3. TxRight(t) /\ t.at \notin Working
  BY <1>2 DEF TxRight, Working
<1> QED
  BY <1>1, <1>2, <1>3, <1>t, ExpiredRows, OneWorkerMoves

LEMMA ProcessRowKeeps ==
  ASSUME AnaInv, NEW w \in AnaWorkers, ProcessRow(w)
  PROVE  AnaInv'
<1>t. /\ anaTx[w] \in AnaTxType /\ anaTx[w].at = "picked" /\ anaTx[w].item \in FeedItems /\ anaFaults \in Nat
      /\ UNCHANGED <<feedLen, anaCursor, anaField, anaLanded>>
  BY DEF AnaInv, AnaTypes, TxRight, ProcessRow, ElseUnchanged
<1>1. CASE anaTx' = [anaTx EXCEPT ![w] = NoAnaTx] /\ UNCHANGED <<anaRows, anaFaults>>
  BY <1>1, <1>t, NoAnaTxRight, OnlyTxMoves DEF Working
<1>2. CASE anaTx' = [anaTx EXCEPT ![w].at = "before"] /\ UNCHANGED <<anaRows, anaFaults>>
  <2> DEFINE t == [anaTx[w] EXCEPT !.at = "before"]
  <2>1. t \in AnaTxType /\ t.at = "before" /\ t.item = anaTx[w].item
    BY <1>t DEF AnaTxType, Working
  <2>2. anaTx' = [anaTx EXCEPT ![w] = t]
    BY <1>2
  <2> HIDE DEF t
  <2>3. TxRight(t)
    BY <2>1, <1>t DEF TxRight
  <2>4. \A v \in AnaWorkers \ {w} : ~(anaTx[v].at \in Working /\ anaTx[v].item = t.item)
    BY <2>1 DEF ProcessRow, LockedRow, Working
  <2> QED
    BY <1>2, <1>t, <2>1, <2>2, <2>3, <2>4, OnlyTxMoves
<1>3. ASSUME NEW r \in {"skipped", "review", "retry"}, Commits(w, r) PROVE AnaInv'
  BY <1>3, <1>t, CommitsKeeps DEF Decisions
<1> QED
  BY <1>1, <1>2, <1>3, ResolvesTo DEF ProcessRow

LEMMA BeforeReadKeeps ==
  ASSUME AnaInv, NEW w \in AnaWorkers, BeforeRead(w)
  PROVE  AnaInv'
<1>t. /\ anaTx[w] \in AnaTxType /\ anaTx[w].at = "before" /\ anaTx[w].at \in Working
      /\ anaTx[w].item \in FeedItems /\ anaFaults \in Nat
      /\ UNCHANGED <<feedLen, anaCursor, anaField, anaLanded>>
  BY DEF AnaInv, AnaTypes, TxRight, BeforeRead, ElseUnchanged, Working
<1>1. PICK seen \in ReadAnswers(anaTx[w].item) :
         IF BeforeDecision(seen) = "patch"
         THEN anaTx' = [anaTx EXCEPT ![w].at = "patch"] /\ UNCHANGED <<anaRows, anaFaults>>
         ELSE Decides(w, BeforeDecision(seen))
  BY DEF BeforeRead
<1>2. CASE BeforeDecision(seen) = "patch"
  <2> DEFINE t == [anaTx[w] EXCEPT !.at = "patch"]
  <2>1. t \in AnaTxType /\ t.at = "patch" /\ t.item = anaTx[w].item
    BY <1>t DEF AnaTxType, Working
  <2>2. anaTx' = [anaTx EXCEPT ![w] = t] /\ UNCHANGED <<anaRows, anaFaults>>
    BY <1>1, <1>2
  <2> HIDE DEF t
  <2>3. anaField = 0
    BY <1>2, <1>t, ReadDecides
  <2>4. TxRight(t)
    BY <2>1, <2>3, <1>t DEF TxRight, AnaInv, LandedInv
  <2>5. \A v \in AnaWorkers \ {w} : ~(anaTx[v].at \in Working /\ anaTx[v].item = t.item)
    BY <2>1, <1>t, AloneOnItem
  <2> QED
    BY <1>t, <2>1, <2>2, <2>4, <2>5, OnlyTxMoves
<1>3. CASE BeforeDecision(seen) # "patch"
  <2>1. /\ BeforeDecision(seen) \in Decisions \cup {"unauthorized"} /\ Decides(w, BeforeDecision(seen))
        /\ BeforeDecision(seen) \in {"applied", "already", "conflict"} => anaField # 0
    BY <1>1, <1>3, <1>t, ReadDecides
  <2> QED
    BY <2>1, <1>t, DecidesKeeps
<1> QED
  BY <1>2, <1>3

LEMMA ReadsKeep ==
  ASSUME AnaInv, NEW w \in AnaWorkers, VerifyRead(w) \/ PostcheckRead(w)
  PROVE  AnaInv'
<1>t. /\ anaTx[w] \in AnaTxType /\ anaTx[w].at \in Working
      /\ UNCHANGED <<feedLen, anaCursor, anaField, anaLanded>>
  BY DEF AnaInv, AnaTypes, VerifyRead, PostcheckRead, ElseUnchanged, Working
<1>i. anaTx[w].item \in FeedItems /\ anaTx[w].lasting \in BOOLEAN
  BY <1>t DEF AnaInv, TxRight, AnaTxType
<1>1. PICK seen \in ReadAnswers(anaTx[w].item) :
         Decides(w, VerifyDecision(seen, anaTx[w].lasting)) \/ Decides(w, PostDecision(seen))
  BY DEF VerifyRead, PostcheckRead
<1>2. ASSUME NEW d \in {VerifyDecision(seen, anaTx[w].lasting), PostDecision(seen)}
      PROVE  d \in Decisions \cup {"unauthorized"} /\ (d \in {"applied", "already", "conflict"} => anaField # 0)
  BY <1>i, ReadDecides
<1> QED
  BY <1>t, <1>1, <1>2, DecidesKeeps

\* The PATCH.  When it lands the field is filled with the item of the one worker on it, and
\* every other worker that has read the field empty is marked.
LEMMA PatchFieldKeeps ==
  ASSUME AnaInv, NEW w \in AnaWorkers, PatchField(w)
  PROVE  AnaInv'
<1> DEFINE x == anaTx[w].item
<1>t. /\ anaTx[w] \in AnaTxType /\ anaTx[w].at = "patch" /\ anaTx[w].at \in Working /\ anaFaults \in Nat
      /\ UNCHANGED <<feedLen, anaCursor>>
  BY DEF AnaInv, AnaTypes, PatchField, ElseUnchanged, Working
<1>i. x \in FeedItems /\ anaLanded[x] = 0 /\ TxRight(anaTx[w])
  BY <1>t DEF AnaInv, TxRight
<1>a. \A v \in AnaWorkers \ {w} : ~(anaTx[v].at \in Working /\ anaTx[v].item = x)
  BY <1>t, AloneOnItem
<1>1. ASSUME FieldLands(w), UNCHANGED <<anaRows, anaFaults>>, NEW at \in {"post", "verify"},
             anaTx' = OthersRaced(w, [anaTx[w] EXCEPT !.at = at, !.raced = FALSE])
      PROVE  AnaInv'
  <2> DEFINE t == [anaTx[w] EXCEPT !.at = at, !.raced = FALSE]
  <2>1. t \in AnaTxType /\ t.at = at /\ t.item = x
    BY <1>t DEF AnaTxType, Working
  <2> HIDE DEF t
  <2>2. anaField' = x /\ x \in 1..MaxFeed /\ anaLanded' = [anaLanded EXCEPT ![x] = anaLanded[x] + 1]
    BY <1>1, <1>i DEF FieldLands, FeedItems
  <2> HIDE DEF x
  <2>3. anaTx' = [v \in AnaWorkers |-> IF v = w THEN t
           ELSE [anaTx[v] EXCEPT !.raced = @ \/ (anaTx[v].at = "patch" /\ anaField' # anaField)]]
    BY <1>1 DEF OthersRaced, t
  <2>4. anaTx'[w] = t
    BY <2>3
  <2>5. ASSUME NEW v \in AnaWorkers, v # w
        PROVE  /\ anaTx'[v] \in AnaTxType /\ anaTx'[v].at = anaTx[v].at /\ anaTx'[v].item = anaTx[v].item
               /\ anaTx'[v].from = anaTx[v].from /\ anaTx'[v].upto = anaTx[v].upto
               /\ anaTx'[v].raced = (anaTx[v].raced \/ (anaTx[v].at = "patch" /\ anaField' # anaField))
    <3> DEFINE b == anaTx[v].raced \/ (anaTx[v].at = "patch" /\ anaField' # anaField)
    <3>1. anaTx[v] \in AnaTxType /\ b \in BOOLEAN
      BY DEF AnaInv, AnaTypes
    <3>2. anaTx'[v] = [anaTx[v] EXCEPT !.raced = b]
      BY <2>3, <2>5
    <3> HIDE DEF b
    <3>3. /\ anaTx'[v] \in AnaTxType /\ anaTx'[v].at = anaTx[v].at /\ anaTx'[v].item = anaTx[v].item
          /\ anaTx'[v].from = anaTx[v].from /\ anaTx'[v].upto = anaTx[v].upto /\ anaTx'[v].raced = b
      BY <3>1, <3>2 DEF AnaTxType
    <3> QED
      BY <3>3 DEF b
  <2>6. /\ anaLanded' \in [FeedItems -> Nat] /\ anaLanded'[x] = 1
        /\ \A i \in FeedItems : i # x => anaLanded'[i] = anaLanded[i]
    BY <2>2, <1>i DEF AnaInv, AnaTypes, x
  <2>7. anaTx' \in [AnaWorkers -> AnaTxType]
    <3>1. \A v \in AnaWorkers : anaTx'[v] \in AnaTxType
      BY <2>1, <2>4, <2>5
    <3>2. anaTx' = [v \in AnaWorkers |-> anaTx'[v]]
      BY <2>3
    <3> QED
      BY <3>1, <3>2
  <2>8. AnaTypes'
    BY <1>1, <1>t, <2>2, <2>6, <2>7, AnaConsts DEF AnaInv, AnaTypes
  <2>9. EveryItemAdmitted'
    BY <1>1, <1>t DEF AnaInv, EveryItemAdmitted
  <2>10. LandedInv'
    BY <2>2, <2>6 DEF AnaInv, LandedInv, PatchLandsOnce
  <2>11. Exclusive'
    BY <2>1, <2>4, <2>5, <1>a DEF AnaInv, Exclusive
  <2>12. ASSUME NEW i \in FeedItems PROVE RowRight(anaRows[i])'
    <3>1. anaField' # 0 /\ RowRight(anaRows[i])
      BY <2>2 DEF AnaInv
    <3> QED
      BY <3>1, <1>1 DEF RowRight
  <2>13. TxRight(anaTx[w])'
    BY <2>1, <2>4, <1>i DEF TxRight, Working, x
  <2>14. ASSUME NEW v \in AnaWorkers, v # w PROVE TxRight(anaTx[v])'
    <3>1. TxRight(anaTx[v])
      BY DEF AnaInv
    <3>2. anaTx[v].at = "patch" => anaLanded'[anaTx[v].item] = 0
      <4>1. anaTx[v].at = "patch" => anaTx[v].item # x /\ anaTx[v].item \in FeedItems /\ anaLanded[anaTx[v].item] = 0
        BY <1>a, <2>14, <3>1 DEF TxRight, Working
      <4> QED
        BY <4>1, <2>6
    <3>3. anaTx[v].at = "patch" => anaTx'[v].raced
      <4>1. CASE anaField' # anaField
        BY <4>1, <2>5, <2>14
      <4>2. CASE anaField' = anaField
        <5>1. anaField # 0
          BY <4>2, <2>2
        <5>2. anaTx[v].at = "patch" => anaTx[v].raced
          BY <5>1, <3>1 DEF TxRight
        <5> QED
          BY <5>2, <2>5, <2>14
      <4> QED
        BY <4>1, <4>2
    <3> QED
      BY <3>1, <3>2, <3>3, <2>5, <2>14, <1>1 DEF TxRight
  <2> QED
    BY <2>8, <2>9, <2>10, <2>11, <2>12, <2>13, <2>14 DEF AnaInv
<1>2. ASSUME FieldStays, UNCHANGED <<anaRows, anaFaults>>, NEW t \in AnaTxType, t.at \in {"post", "verify"}, t.item = x,
             anaTx' = [anaTx EXCEPT ![w] = t]
      PROVE  AnaInv'
  <2>1. TxRight(t)
    BY <1>2, <1>i DEF TxRight, Working
  <2> QED
    BY <1>2, <1>t, <1>a, <2>1, OnlyTxMoves DEF FieldStays
<1>3. CASE FieldStays /\ anaTx' = [anaTx EXCEPT ![w].at = "post", ![w].raced = FALSE] /\ UNCHANGED <<anaRows, anaFaults>>
  <2> DEFINE t == [anaTx[w] EXCEPT !.at = "post", !.raced = FALSE]
  <2>1. t \in AnaTxType /\ t.at = "post" /\ t.item = x
    BY <1>t DEF AnaTxType, Working
  <2>2. anaTx' = [anaTx EXCEPT ![w] = t]
    BY <1>3
  <2> HIDE DEF t
  <2> QED
    BY <1>2, <1>3, <2>1, <2>2
<1>4. ASSUME FieldStays, UNCHANGED <<anaRows, anaFaults>>, NEW lasting \in BOOLEAN,
             anaTx' = [anaTx EXCEPT ![w].at = "verify", ![w].lasting = lasting, ![w].raced = FALSE]
      PROVE  AnaInv'
  <2> DEFINE t == [anaTx[w] EXCEPT !.at = "verify", !.lasting = lasting, !.raced = FALSE]
  <2>1. t \in AnaTxType /\ t.at = "verify" /\ t.item = x
    BY <1>t DEF AnaTxType, Working
  <2>2. anaTx' = [anaTx EXCEPT ![w] = t]
    BY <1>4
  <2> HIDE DEF t
  <2> QED
    BY <1>2, <1>4, <2>1, <2>2
<1>5. CASE FieldStays /\ Decides(w, "unauthorized")
  BY <1>5, <1>t, DecidesKeeps DEF FieldStays
<1> QED
  BY <1>1, <1>3, <1>4, <1>5 DEF PatchField

\* A manager fills the empty field: every worker that has read it empty is marked.
LEMMA ManagerFillsKeeps ==
  ASSUME AnaInv, ManagerFillsField
  PROVE  AnaInv'
<1>1. anaField = 0 /\ anaField' = Manual /\ UNCHANGED <<feedLen, anaCursor, anaRows, anaLanded, anaFaults>>
  BY DEF ManagerFillsField
<1>2. ASSUME NEW v \in AnaWorkers
      PROVE  /\ anaTx'[v] \in AnaTxType /\ anaTx'[v].at = anaTx[v].at /\ anaTx'[v].item = anaTx[v].item
             /\ anaTx'[v].from = anaTx[v].from /\ anaTx'[v].upto = anaTx[v].upto
             /\ anaTx'[v].raced = (anaTx[v].raced \/ anaTx[v].at = "patch")
  <2> DEFINE b == anaTx[v].raced \/ anaTx[v].at = "patch"
  <2>1. anaTx[v] \in AnaTxType /\ b \in BOOLEAN
    BY DEF AnaInv, AnaTypes
  <2>2. anaTx'[v] = [anaTx[v] EXCEPT !.raced = b]
    BY DEF ManagerFillsField
  <2> HIDE DEF b
  <2>3. /\ anaTx'[v] \in AnaTxType /\ anaTx'[v].at = anaTx[v].at /\ anaTx'[v].item = anaTx[v].item
        /\ anaTx'[v].from = anaTx[v].from /\ anaTx'[v].upto = anaTx[v].upto /\ anaTx'[v].raced = b
    BY <2>1, <2>2 DEF AnaTxType
  <2> QED
    BY <2>3 DEF b
<1>3. anaTx' \in [AnaWorkers -> AnaTxType]
  <2>1. anaTx' = [v \in AnaWorkers |-> anaTx'[v]]
    BY DEF ManagerFillsField
  <2> QED
    BY <1>2, <2>1
<1>4. AnaTypes'
  BY <1>1, <1>3, AnaConsts DEF AnaInv, AnaTypes
<1>5. EveryItemAdmitted' /\ LandedInv'
  BY <1>1, AnaConsts DEF AnaInv, EveryItemAdmitted, LandedInv, PatchLandsOnce
<1>6. Exclusive'
  BY <1>2 DEF AnaInv, Exclusive
<1>7. ASSUME NEW i \in FeedItems PROVE RowRight(anaRows[i])'
  <2>1. anaField' # 0 /\ RowRight(anaRows[i])
    BY <1>1, AnaConsts DEF AnaInv
  <2> QED
    BY <2>1, <1>1 DEF RowRight
<1>8. ASSUME NEW v \in AnaWorkers PROVE TxRight(anaTx[v])'
  <2>1. TxRight(anaTx[v])
    BY DEF AnaInv
  <2> QED
    BY <2>1, <1>1, <1>2 DEF TxRight
<1> QED
  BY <1>4, <1>5, <1>6, <1>7, <1>8 DEF AnaInv

LEMMA AnaStepKeeps == AnaInv /\ [AnaNext]_anaVars => AnaInv'
<1> SUFFICES ASSUME AnaInv, [AnaNext]_anaVars PROVE AnaInv'
  OBVIOUS
<1>1. ASSUME UNCHANGED <<anaCursor, anaRows, anaField, anaTx, anaLanded, anaFaults>>, feedLen' \in 0..MaxFeed PROVE AnaInv'
  BY <1>1 DEF AnaInv, AnaTypes, EveryItemAdmitted, LandedInv, PatchLandsOnce, Exclusive, RowRight, TxRight
<1>2. CASE UNCHANGED anaVars
  BY <1>1, <1>2 DEF anaVars, AnaInv, AnaTypes
<1>3. ASSUME NEW kind, WorkerBoots(kind) PROVE AnaInv'
  BY <1>1, <1>3 DEF WorkerBoots, AnaInv, AnaTypes
<1>4. CASE ItemListed
  BY <1>1, <1>4, AnaConsts DEF ItemListed, AnaInv, AnaTypes
<1>5. CASE ManagerFillsField
  BY <1>5, ManagerFillsKeeps
<1>6. ASSUME NEW i \in FeedItems, RetryComesDue(i) PROVE AnaInv'
  <2> DEFINE r == [anaRows[i] EXCEPT !.due = TRUE]
  <2>1. anaRows[i] \in AnaRowType /\ RowRight(anaRows[i])
    BY DEF AnaInv, AnaTypes
  <2>2. r \in AnaRowType /\ r.st = anaRows[i].st /\ r.tries = anaRows[i].tries
    BY <2>1 DEF AnaRowType
  <2>3. anaRows' = [anaRows EXCEPT ![i] = r] /\ UNCHANGED <<feedLen, anaCursor, anaField, anaTx, anaLanded, anaFaults>>
    BY <1>6 DEF RetryComesDue
  <2> HIDE DEF r
  <2>4. /\ anaRows' \in [FeedItems -> AnaRowType]
        /\ \A j \in FeedItems : anaRows'[j].st = anaRows[j].st /\ anaRows'[j].tries = anaRows[j].tries
    BY <2>2, <2>3 DEF AnaInv, AnaTypes
  <2>5. AnaTypes' /\ LandedInv' /\ Exclusive'
    BY <2>3, <2>4 DEF AnaInv, AnaTypes, LandedInv, PatchLandsOnce, Exclusive
  <2>6. EveryItemAdmitted'
    BY <2>3, <2>4, RowsMonotone
  <2>7. \A j \in FeedItems : RowRight(anaRows[j])'
    BY <2>3, <2>4 DEF AnaInv, RowRight
  <2>8. ASSUME NEW v \in AnaWorkers PROVE TxRight(anaTx[v])'
    <3>1. TxRight(anaTx[v])
      BY DEF AnaInv
    <3> QED
      BY <3>1, <2>3, <2>4 DEF TxRight
  <2> QED
    BY <2>5, <2>6, <2>7, <2>8 DEF AnaInv
<1>7. ASSUME NEW w \in AnaWorkers, AnaWorkerDies(w) PROVE AnaInv'
  <2>1. /\ anaTx' = [anaTx EXCEPT ![w] = NoAnaTx] /\ anaFaults' \in Nat
        /\ UNCHANGED <<feedLen, anaCursor, anaRows, anaField, anaLanded>>
    BY <1>7 DEF AnaWorkerDies, ElseUnchanged, AnaInv, AnaTypes
  <2> QED
    BY <2>1, NoAnaTxRight, OnlyTxMoves DEF Working
<1> QED
  BY <1>2, <1>3, <1>4, <1>5, <1>6, <1>7, IngestFetchesKeeps, IngestCommitsKeeps, ClaimOneKeeps, ProcessRowKeeps,
     BeforeReadKeeps, ReadsKeep, PatchFieldKeeps DEF AnaNext

\* The only step that changes a filled field is the PATCH of a worker on it.
LEMMA OverwriteSeen ==
  ASSUME AnaInv, [AnaNext]_anaVars, anaField # 0, anaField' # anaField
  PROVE  \E w \in AnaWorkers : anaTx[w].at = "patch" /\ anaTx[w].raced
<1>1. PICK w \in AnaWorkers : PatchField(w)
  BY DEF AnaNext, anaVars, WorkerBoots, ItemListed, ManagerFillsField, RetryComesDue, IngestFetches, IngestCommits,
         ClaimOne, ProcessRow, BeforeRead, VerifyRead, PostcheckRead, AnaWorkerDies
<1> QED
  BY <1>1 DEF PatchField, AnaInv, TxRight

\* For any feed, page size, number of workers, attempts and faults: every item the cursor passed has its row, a row out of
\* attempts is settled, DONE stands for a filled field, an item's PATCH lands at most once, and a value is lost only to a
\* worker that had read the field empty before the value was written.
THEOREM LeadFilledCorrect == AnaSpec => LeadFilledOnce
<1> DEFINE Body == (anaField # 0 /\ anaField' # anaField)
                     => \E w \in AnaWorkers : anaTx[w].at = "patch" /\ anaTx[w].raced
<1>1. AnaInv => EveryItemAdmitted /\ ExhaustedIsReviewed
  <2>1. AnaInv => \A i \in FeedItems : /\ anaRows[i].st \in {"none", "open"} \cup SettledStates /\ anaRows[i].tries \in Nat
                                       /\ anaRows[i].st \in {"none", "open"} => anaRows[i].tries < MaxAnaAttempts
    BY DEF AnaInv, AnaTypes, AnaRowType, RowRight
  <2> QED
    BY <2>1, AnaConsts DEF AnaInv, ExhaustedIsReviewed
<1>2. AnaInv => DoneMeansFilled /\ PatchLandsOnce
  BY DEF AnaInv, LandedInv, RowRight, DoneMeansFilled
<1>3. AnaInv /\ [AnaNext]_anaVars => [Body]_anaVars
  BY OverwriteSeen
<1> QED
  BY <1>1, <1>2, <1>3, AnaInitial, AnaStepKeeps, PTL DEF AnaSpec, LeadFilledOnce, OverwriteOnlyInWindow
=============================================================================
