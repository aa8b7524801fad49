---------------------------- MODULE WorkerRuntime ----------------------------
(***************************************************************************)
(* The worker process: a session advisory lock keeps a second process out, *)
(* one task per loop calls the loop's tick, and a heartbeat row per loop   *)
(* tells the health check how the loop fares.  Each process registers a    *)
(* generation (the process stands for it) on every row, and its heartbeats *)
(* only update rows of its own generation.  The first task that raises     *)
(* takes the process down: the others are cancelled and awaited, then the  *)
(* lock is released.                                                       *)
(*                                                                         *)
(* A tick ends well, rate limited or with an error (a timeout is an error);*)
(* what the loops do in it is the subject of the other modules.  A task's  *)
(* last heartbeat is fresh until time makes it due.  Of the health check   *)
(* the missing and failed loops are modelled; stale and stuck depend on    *)
(* the age of a row alone and can only turn healthy into unhealthy.        *)
(***************************************************************************)
EXTENDS Naturals, FiniteSets

CONSTANTS WorkerProcs,     \* worker processes, each started once
          NoProc,          \* no process
          RuntimeLoops,    \* REQUIRED_WORKER_LOOPS
          MaxConsecutive,  \* worker_max_consecutive_failures
          MaxRuntimeFaults \* lost lock sessions, crashes and failing heartbeat writes

ASSUME RuntimeConstants ==
  /\ NoProc \notin WorkerProcs /\ RuntimeLoops # {}
  /\ MaxConsecutive \in Nat \ {0} /\ MaxRuntimeFaults \in Nat

VARIABLES lockOwner,  \* the process whose session holds the advisory lock
          procs,      \* where each process is
          tasks,      \* the loop tasks of each process
          beats,      \* worker_heartbeats
          lockLost,   \* a server dropped a lock session under a live process (history)
          rtFaults

runtimeVars == <<lockOwner, procs, tasks, beats, lockLost, rtFaults>>

(***************************************************************************)
(* A task waits for its next poll, or is in a tick whose heartbeat is due  *)
(* or not.  fails is its local consecutive_failures, fresh says that its   *)
(* last heartbeat is younger than the interval.  History: errs counts the  *)
(* failed ticks since the last one that ended well, hid says that a        *)
(* rate-limited tick cleared fails without clearing the row.               *)
(* A row: ok names the process that reported its last success, NoProc      *)
(* when last_succeeded_at is null.                                         *)
(***************************************************************************)
NewTask == [at |-> "poll", fails |-> 0, fresh |-> FALSE, errs |-> 0, hid |-> FALSE]
EndedTask == [NewTask EXCEPT !.at = "ended"]
NoBeat == [gen |-> NoProc, ok |-> NoProc, fails |-> 0]

RuntimeInit ==
  /\ lockOwner = NoProc
  /\ procs = [p \in WorkerProcs |-> "new"]
  /\ tasks = [p \in WorkerProcs |-> [l \in RuntimeLoops |-> EndedTask]]
  /\ beats = [l \in RuntimeLoops |-> NoBeat]
  /\ lockLost = FALSE /\ rtFaults = 0

RuntimeFault == rtFaults < MaxRuntimeFaults /\ rtFaults' = rtFaults + 1

Over == {"ended", "raised", "fatal"}
InTick == {"tick", "tick_due"}
Serving == {"running", "stopping"}

-----------------------------------------------------------------------------
(* Heartbeat rows.                                                          *)

\* Mutant: the previous generation's success survives the registration.
RegisteredBeatKeepsSuccess(l, p) == [beats[l] EXCEPT !.gen = p, !.fails = 0]

\* register_generation: insert, or overwrite every column on conflict.
RegisteredBeat(l, p) == [gen |-> p, ok |-> NoProc, fails |-> 0]

\* Mutant: the update is not restricted to the writer's generation.
OwnsBeatAny(p, l) == TRUE

\* WHERE generation_id = ...; otherwise StaleWorkerGenerationError.
OwnsBeat(p, l) == beats[l].gen = p

BeatSucceeds(p, l) == [beats EXCEPT ![l].ok = p, ![l].fails = 0]

\* Mutant: the counter does not accumulate.
FailCountOne(l) == 1

FailCount(l) == beats[l].fails + 1

\* assess_worker_health: no loop missing and none failed.
Healthy == \A l \in RuntimeLoops : beats[l].ok # NoProc /\ beats[l].fails = 0

-----------------------------------------------------------------------------
(* The process: run_worker, worker_singleton_lock, WorkerRuntime.run        *)

\* pg_try_advisory_lock; WorkerAlreadyRunningError when another session has it.
AcquireLock(p) ==
  /\ procs[p] = "new"
  /\ IF lockOwner = NoProc
     THEN lockOwner' = p /\ procs' = [procs EXCEPT ![p] = "locked"]
     ELSE procs' = [procs EXCEPT ![p] = "exited"] /\ UNCHANGED lockOwner
  /\ UNCHANGED <<tasks, beats, lockLost, rtFaults>>

\* register commits all rows together, then every loop gets its task.
RegisterGeneration(p) ==
  /\ procs[p] = "locked"
  /\ \/ /\ beats' = [l \in RuntimeLoops |-> RegisteredBeat(l, p)]
        /\ tasks' = [tasks EXCEPT ![p] = [l \in RuntimeLoops |-> NewTask]]
        /\ procs' = [procs EXCEPT ![p] = "running"]
        /\ UNCHANGED rtFaults
     \/ /\ RuntimeFault
        /\ procs' = [procs EXCEPT ![p] = "ending"]
        /\ UNCHANGED <<beats, tasks>>
  /\ UNCHANGED <<lockOwner, lockLost>>

\* asyncio.wait returns: a task raised, or all have returned after a stop.
RunReturns(p) ==
  /\ procs[p] \in Serving
  /\ \/ \E l \in RuntimeLoops : tasks[p][l].at \in {"raised", "fatal"}
     \/ \A l \in RuntimeLoops : tasks[p][l].at = "ended"
  /\ procs' = [procs EXCEPT ![p] = "ending"]
  /\ UNCHANGED <<lockOwner, tasks, beats, lockLost, rtFaults>>

\* A pending task receives its CancelledError.
TaskCancelled(p, l) ==
  /\ procs[p] = "ending" /\ tasks[p][l].at \notin Over
  /\ tasks' = [tasks EXCEPT ![p][l] = EndedTask]
  /\ UNCHANGED <<lockOwner, procs, beats, lockLost, rtFaults>>

\* Mutant: the lock is released without awaiting the cancelled tasks.
AllTasksOverAssumed(p) == TRUE

\* gather() of the cancelled tasks has returned.
AllTasksOver(p) == \A l \in RuntimeLoops : tasks[p][l].at \in Over

\* pg_advisory_unlock frees nothing when the session was lost before.
ReleaseLock(p) ==
  /\ procs[p] = "ending" /\ AllTasksOver(p)
  /\ lockOwner' = IF lockOwner = p THEN NoProc ELSE lockOwner
  /\ procs' = [procs EXCEPT ![p] = "exited"]
  /\ tasks' = [tasks EXCEPT ![p] = [l \in RuntimeLoops |-> IF @[l].at \in Over THEN EndedTask ELSE @[l]]]
  /\ UNCHANGED <<beats, lockLost, rtFaults>>

\* SIGTERM or SIGINT sets stop_event.
StopSignal(p) ==
  /\ procs[p] = "running"
  /\ procs' = [procs EXCEPT ![p] = "stopping"]
  /\ UNCHANGED <<lockOwner, tasks, beats, lockLost, rtFaults>>

\* The database ends the idle lock session; nothing tells the process.
LockSessionLost(p) ==
  /\ RuntimeFault
  /\ lockOwner = p
  /\ lockOwner' = NoProc /\ lockLost' = TRUE
  /\ UNCHANGED <<procs, tasks, beats>>

ProcessDies(p) ==
  /\ RuntimeFault
  /\ procs[p] \notin {"new", "exited"}
  /\ procs' = [procs EXCEPT ![p] = "exited"]
  /\ tasks' = [tasks EXCEPT ![p] = [l \in RuntimeLoops |-> EndedTask]]
  /\ lockOwner' = IF lockOwner = p THEN NoProc ELSE lockOwner
  /\ UNCHANGED <<beats, lockLost>>

-----------------------------------------------------------------------------
(* One loop: WorkerRuntime._run_loop                                        *)

SetTask(p, l, t) == tasks' = [tasks EXCEPT ![p][l] = t]
Raised == [EndedTask EXCEPT !.at = "raised"]

\* The poll wait ends and the loop condition is tested; a due heartbeat is written before the tick, outside its try.
LoopTurns(p, l) ==
  LET t == tasks[p][l] IN
  /\ t.at = "poll"
  /\ \/ procs[p] = "stopping" /\ SetTask(p, l, EndedTask) /\ UNCHANGED rtFaults
     \/ procs[p] = "running" /\ t.fresh /\ SetTask(p, l, [t EXCEPT !.at = "tick"]) /\ UNCHANGED rtFaults
     \/ /\ procs[p] = "running" /\ ~t.fresh
        /\ \/ /\ SetTask(p, l, IF OwnsBeat(p, l) THEN [t EXCEPT !.at = "tick_due"] ELSE Raised)
              /\ UNCHANGED rtFaults
           \/ RuntimeFault /\ SetTask(p, l, Raised)
  /\ UNCHANGED <<lockOwner, procs, beats, lockLost>>

\* Mutant: only a due heartbeat records a success.
RecordsSuccessWhenDue(t) == t.at = "tick_due"

\* heartbeat_due or consecutive_failures > 0
RecordsSuccess(t) == t.at = "tick_due" \/ t.fails > 0

\* The task after a tick that did not fail; written says that the row was updated.
Polls(t, written) ==
  [t EXCEPT !.at = "poll", !.fails = 0, !.fresh = t.fresh \/ written, !.hid = t.hid /\ ~written]

TickSucceeds(p, l) ==
  LET t == tasks[p][l] IN
  /\ procs[p] \in Serving /\ t.at \in InTick
  /\ IF RecordsSuccess(t) /\ ~OwnsBeat(p, l)
     THEN SetTask(p, l, Raised) /\ UNCHANGED beats
     ELSE /\ SetTask(p, l, [Polls(t, RecordsSuccess(t)) EXCEPT !.errs = 0])
          /\ beats' = IF RecordsSuccess(t) THEN BeatSucceeds(p, l) ELSE beats
  /\ UNCHANGED <<lockOwner, procs, lockLost, rtFaults>>

\* is_expected_s2s_rate_limited: the local count is cleared, the row's only when a heartbeat is due.
TickRateLimited(p, l) ==
  LET t == tasks[p][l]
      due == t.at = "tick_due"
  IN
  /\ procs[p] \in Serving /\ t.at \in InTick
  /\ IF due /\ ~OwnsBeat(p, l)
     THEN SetTask(p, l, Raised) /\ UNCHANGED beats
     ELSE /\ SetTask(p, l, [Polls(t, due) EXCEPT !.hid = (t.hid \/ t.fails > 0) /\ ~due])
          /\ beats' = IF due THEN BeatSucceeds(p, l) ELSE beats
  /\ UNCHANGED <<lockOwner, procs, lockLost, rtFaults>>

\* tick_failed returns the row's new count; at the limit the task raises WorkerRuntimeFatal.
TickFails(p, l) ==
  LET t == tasks[p][l]
      n == FailCount(l)
  IN
  /\ procs[p] \in Serving /\ t.at \in InTick
  /\ IF OwnsBeat(p, l)
     THEN /\ beats' = [beats EXCEPT ![l].fails = n]
          /\ SetTask(p, l, [t EXCEPT !.at = IF n >= MaxConsecutive THEN "fatal" ELSE "poll",
                                     !.fails = n, !.fresh = TRUE,
                                     !.errs = IF @ < MaxConsecutive THEN @ + 1 ELSE @])
     ELSE SetTask(p, l, Raised) /\ UNCHANGED beats
  /\ UNCHANGED <<lockOwner, procs, lockLost, rtFaults>>

\* The heartbeat transaction after the tick fails: the exception leaves the loop.
HeartbeatLost(p, l) ==
  /\ RuntimeFault
  /\ procs[p] \in Serving /\ tasks[p][l].at \in InTick
  /\ SetTask(p, l, Raised)
  /\ UNCHANGED <<lockOwner, procs, beats, lockLost>>

\* worker_heartbeat_interval_seconds pass.
HeartbeatComesDue(p, l) ==
  /\ tasks[p][l].at \notin Over /\ tasks[p][l].fresh
  /\ SetTask(p, l, [tasks[p][l] EXCEPT !.fresh = FALSE])
  /\ UNCHANGED <<lockOwner, procs, beats, lockLost, rtFaults>>

-----------------------------------------------------------------------------
TickEnds(p, l) == TickSucceeds(p, l) \/ TickRateLimited(p, l) \/ TickFails(p, l)

LoopStep(p, l) == LoopTurns(p, l) \/ TickEnds(p, l) \/ TaskCancelled(p, l)

ProcStep(p) == RunReturns(p) \/ ReleaseLock(p)

RuntimeNext ==
  \/ \E p \in WorkerProcs : AcquireLock(p)
  \/ \E p \in WorkerProcs : RegisterGeneration(p)
  \/ \E p \in WorkerProcs : RunReturns(p)
  \/ \E p \in WorkerProcs : ReleaseLock(p)
  \/ \E p \in WorkerProcs : StopSignal(p)
  \/ \E p \in WorkerProcs : LockSessionLost(p)
  \/ \E p \in WorkerProcs : ProcessDies(p)
  \/ \E p \in WorkerProcs, l \in RuntimeLoops : TaskCancelled(p, l)
  \/ \E p \in WorkerProcs, l \in RuntimeLoops : LoopTurns(p, l)
  \/ \E p \in WorkerProcs, l \in RuntimeLoops : TickSucceeds(p, l)
  \/ \E p \in WorkerProcs, l \in RuntimeLoops : TickRateLimited(p, l)
  \/ \E p \in WorkerProcs, l \in RuntimeLoops : TickFails(p, l)
  \/ \E p \in WorkerProcs, l \in RuntimeLoops : HeartbeatLost(p, l)
  \/ \E p \in WorkerProcs, l \in RuntimeLoops : HeartbeatComesDue(p, l)

RuntimeSpec == RuntimeInit /\ [][RuntimeNext]_runtimeVars

-----------------------------------------------------------------------------
(* Properties.                                                              *)

\* "only one active worker" (README): tasks of two processes never run at once, however processes start, stop,
\* fail and die, unless the database dropped the lock session of a live process.
OneWorker ==
  lockLost \/ Cardinality({p \in WorkerProcs : \E l \in RuntimeLoops : tasks[p][l].at \notin Over}) <= 1

\* The health check says healthy only of one generation, each of whose loops has itself reported a tick since it registered.
HealthyIsCurrent ==
  Healthy => \E p \in WorkerProcs : \A l \in RuntimeLoops : beats[l].gen = p /\ beats[l].ok = p

\* A process gives up only after MaxConsecutive failed ticks of one loop with none that ended well in between; the
\* exception the code makes is a success hidden by a rate-limited tick that cleared the local count and not the row's.
FatalIsEarned ==
  \A p \in WorkerProcs, l \in RuntimeLoops :
    tasks[p][l].at = "fatal" => tasks[p][l].errs >= MaxConsecutive \/ tasks[p][l].hid

\* A process whose rows another generation took over (its lock session was lost) stops.
SupersededStops ==
  \A p \in WorkerProcs : \A l \in RuntimeLoops :
    (procs[p] \in Serving /\ beats[l].gen # p) ~> (procs[p] = "exited")

\* A loop whose ticks all fail from some point on takes its process down.
SickLoopStops ==
  \A p \in WorkerProcs : \A l \in RuntimeLoops :
    ~<>[](procs[p] = "running" /\ tasks[p][l].fails > 0)

\* One worker runs, healthy means healthy now, and a process gives up only for a
\* cause.
OneHonestWorker ==
  /\ OneWorker
  /\ HealthyIsCurrent
  /\ FatalIsEarned

\* A superseded process and one whose loop keeps failing both end.
BadProcessStops ==
  /\ SupersededStops
  /\ SickLoopStops
=============================================================================
