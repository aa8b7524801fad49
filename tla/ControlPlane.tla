---------------------------- MODULE ControlPlane ----------------------------
(***************************************************************************)
(* The cache of a published document (the settings or the knowledge of the *)
(* bot) and the shadow drafts made from it.  A worker process refreshes    *)
(* the cache under a transaction-scoped advisory lock, remembers the       *)
(* readiness it computed (_last_state), and after each client message      *)
(* builds a runtime context: it takes the remembered readiness, reads the  *)
(* row again and asks the gate whether a draft may be generated.  A peer   *)
(* process refreshes the same row.  The remembered state is set before the *)
(* transaction commits, does not age, and may be overwritten by a cache    *)
(* load that began before it.                                              *)
(*                                                                         *)
(* Abstractions: the code treats the two kinds of documents alike; one is  *)
(* followed, and what the other contributes is an input (whether anything  *)
(* of it is usable, whether it allows a draft), as are the live facts, the *)
(* conversation and the settings of the process.  An answer is its         *)
(* ControlPlaneFetchCode.  The row's age is "new" (below one second),      *)
(* "grace" or "expired" (above max_stale_seconds).                         *)
(***************************************************************************)
EXTENDS Naturals

CONSTANT MaxCpFaults  \* bound: failed transactions, restarts and damaged rows

ASSUME CpConstants == MaxCpFaults \in Nat

VARIABLES cpRow,      \* the kind's row of control_plane_snapshots
          cpMem,      \* _last_state of the worker: the kind's readiness
          cpTx,       \* refresh transactions: phase, uncommitted write, and (history) a refusal of the remote
          ctxBuild,   \* the context build under way
          withdrawn,  \* history: the last committed verdict was a withdrawal
          lapsed,     \* history: a refresh of the worker ended with the row past its grace
          unreached,  \* history: the worker's last refresh could not fetch the document
          ahead,      \* history: the worker's state rests on a verification that is not committed
          overtaken,  \* history: a cache load replaced the state of a later refresh
          cpFaults

cpVars == <<cpRow, cpMem, cpTx, ctxBuild, withdrawn, lapsed, unreached, ahead, overtaken, cpFaults>>

CpProcs == {"worker", "peer"}
FetchCodes == {"OK", "NOT_PUBLISHED", "INVALID", "AUTH_ERROR", "RESPONSE_INVALID", "UNAVAILABLE"}
Usable == {"READY_FRESH", "READY_STALE"}

NoSnapshot == [st |-> "none", age |-> "new", parses |-> TRUE]
VerifiedRow == [NoSnapshot EXCEPT !.st = "usable"]
UnusableRow == [NoSnapshot EXCEPT !.st = "unusable"]
IdleRefresh == [ph |-> "idle", write |-> "none", refused |-> FALSE]
IdleBuild == [ph |-> "idle", st |-> "NOT_READY", given |-> FALSE, draft |-> FALSE,
              raced |-> FALSE, ahead |-> FALSE, lapsed |-> FALSE, unreached |-> FALSE]

ControlPlaneInit ==
  /\ cpRow = NoSnapshot /\ cpMem = "NOT_READY"
  /\ cpTx = [p \in CpProcs |-> IdleRefresh] /\ ctxBuild = IdleBuild
  /\ withdrawn = FALSE /\ lapsed = FALSE /\ unreached = FALSE
  /\ ahead = FALSE /\ overtaken = FALSE /\ cpFaults = 0

CpFault == cpFaults < MaxCpFaults /\ cpFaults' = cpFaults + 1

-----------------------------------------------------------------------------
(* Verdicts.                                                               *)

\* Mutant: a rejected token counts as a fetch that failed.
WithdrawsExceptAuth(a) == a \in {"NOT_PUBLISHED", "INVALID", "RESPONSE_INVALID"}

\* The answers after which the cached publication must not be used.
Withdraws(a) == a \in {"NOT_PUBLISHED", "INVALID", "AUTH_ERROR", "RESPONSE_INVALID"}

Loadable(row) == row.st = "usable" /\ row.parses

\* Mutant: the grace has no end.
WithinGraceAlways(row) == TRUE

\* verified_at at most max_stale_seconds ago
WithinGrace(row) == row.age # "expired"

\* _apply_settings_result, _apply_knowledge_result, _stale_or_not_ready: the readiness.
AppliedReadiness(a) ==
  CASE a = "OK" -> "READY_FRESH"
    [] a # "OK" /\ ~Withdraws(a) /\ Loadable(cpRow) /\ WithinGrace(cpRow) -> "READY_STALE"
    [] OTHER -> "NOT_READY"

\* What the same calls write: a row that does not parse is marked too (CACHE_CORRUPT).
AppliedWrite(a) ==
  CASE a = "OK" -> "verify"
    [] Withdraws(a) -> "withdraw"
    [] OTHER -> IF cpRow.st = "usable" /\ ~cpRow.parses THEN "corrupt" ELSE "none"

\* Mutant: the cache is trusted at any age.
CachedReadinessAnyAge ==
  CASE ~Loadable(cpRow) -> "NOT_READY"
    [] Loadable(cpRow) /\ cpRow.age = "new" -> "READY_FRESH"
    [] OTHER -> "READY_STALE"

\* _kind_from_cache_row: a row of age zero counts as fresh.
CachedReadiness ==
  CASE ~(Loadable(cpRow) /\ WithinGrace(cpRow)) -> "NOT_READY"
    [] Loadable(cpRow) /\ cpRow.age = "new" -> "READY_FRESH"
    [] OTHER -> "READY_STALE"

PastGrace == cpRow.st = "usable" /\ cpRow.age = "expired"

-----------------------------------------------------------------------------
(* refresh                                                                 *)

\* The worker's remembered state changes; a cache load under way is then older than it.
Remembers(st, verified) ==
  /\ cpMem' = st /\ ahead' = verified
  /\ ctxBuild' = [ctxBuild EXCEPT !.raced = ctxBuild.ph = "loaded"]

\* try_acquire_refresh_lock succeeds.
RefreshBegins(p) ==
  /\ \A q \in CpProcs : cpTx[q].ph = "idle"
  /\ cpTx' = [cpTx EXCEPT ![p].ph = "held"]
  /\ UNCHANGED <<cpRow, cpMem, ctxBuild, withdrawn, lapsed, unreached, ahead, overtaken, cpFaults>>

\* The lock is taken: _state_unlocked_from_cache.
RefreshSkips ==
  /\ cpTx["worker"].ph = "idle" /\ cpTx["peer"].ph # "idle"
  /\ Remembers(CachedReadiness, FALSE)
  /\ lapsed' = (lapsed \/ PastGrace)
  /\ unreached' = (unreached /\ CachedReadiness # "READY_FRESH")
  /\ UNCHANGED <<cpRow, cpTx, withdrawn, overtaken, cpFaults>>

\* The publication is fetched, the result applied, and the state remembered before the commit.
RefreshApplies(p, answer) ==
  /\ cpTx[p].ph = "held"
  /\ cpTx' = [cpTx EXCEPT ![p] = [ph |-> "applied", write |-> AppliedWrite(answer),
                                   refused |-> answer \notin {"OK", "UNAVAILABLE"}]]
  /\ IF p = "worker"
       THEN /\ Remembers(AppliedReadiness(answer), answer = "OK")
            /\ lapsed' = (lapsed \/ (PastGrace /\ answer # "OK"))
            /\ unreached' = (answer = "UNAVAILABLE")
       ELSE UNCHANGED <<cpMem, ahead, ctxBuild, lapsed, unreached>>
  /\ UNCHANGED <<cpRow, withdrawn, overtaken, cpFaults>>

\* upsert_verified, mark_unusable (an update, so an absent row stays absent).
RowAfter(w) ==
  CASE w = "verify" -> VerifiedRow
    [] w \in {"withdraw", "corrupt"} /\ cpRow.st # "none" -> UnusableRow
    [] OTHER -> cpRow

RefreshCommits(p) ==
  LET w == cpTx[p].write IN
  /\ cpTx[p].ph = "applied"
  /\ cpTx' = [cpTx EXCEPT ![p] = IdleRefresh]
  /\ cpRow' = RowAfter(w)
  /\ withdrawn' = ((withdrawn \/ cpTx[p].refused) /\ w # "verify")
  /\ lapsed' = (lapsed /\ w # "verify")
  /\ unreached' = (unreached /\ w # "verify")
  /\ ahead' = (ahead /\ p # "worker")
  /\ UNCHANGED <<cpMem, ctxBuild, overtaken, cpFaults>>

\* The transaction fails, before or after the state was remembered; the row stays as it was.
RefreshRollsBack(p) ==
  /\ CpFault
  /\ cpTx[p].ph # "idle"
  /\ cpTx' = [cpTx EXCEPT ![p] = IdleRefresh]
  /\ UNCHANGED <<cpRow, cpMem, ctxBuild, withdrawn, lapsed, unreached, ahead, overtaken>>

-----------------------------------------------------------------------------
(* RuntimeContextBuilder.build_for_conversation                            *)

\* _load_cp_state: the remembered state when anything in it is usable; otherwise the cache is read (load_state_from_cache).
BuildBegins(otherUsable) ==
  LET remembered == cpMem \in Usable \/ otherUsable IN
  /\ ctxBuild.ph = "idle"
  /\ ctxBuild' = [IdleBuild EXCEPT !.ph = IF remembered THEN "read" ELSE "loaded",
                                   !.st = IF remembered THEN cpMem ELSE CachedReadiness,
                                   !.ahead = ahead, !.lapsed = lapsed, !.unreached = unreached]
  /\ UNCHANGED <<cpRow, cpMem, cpTx, withdrawn, lapsed, unreached, ahead, overtaken, cpFaults>>

\* load_state_from_cache stores the state it computed, whatever was stored meanwhile.
BuildRemembers ==
  /\ ctxBuild.ph = "loaded"
  /\ ctxBuild' = [ctxBuild EXCEPT !.ph = "read", !.ahead = FALSE, !.raced = FALSE]
  /\ cpMem' = ctxBuild.st /\ ahead' = FALSE
  /\ overtaken' = (overtaken \/ ctxBuild.raced)
  /\ UNCHANGED <<cpRow, cpTx, withdrawn, lapsed, unreached, cpFaults>>

\* Mutant: the row is parsed without looking at usable.
LoadsRowUnchecked == cpRow.st # "none" /\ cpRow.parses

\* load_settings_from_row, load_knowledge_from_row
LoadsRow == Loadable(cpRow)

\* _load_settings_publication, _load_knowledge_publication, in a session of their own.
BuildReads ==
  /\ ctxBuild.ph = "read"
  /\ ctxBuild' = [IdleBuild EXCEPT !.ph = "decide", !.given = ctxBuild.st \in Usable /\ LoadsRow,
                                   !.st = ctxBuild.st, !.unreached = ctxBuild.unreached]
  /\ UNCHANGED <<cpRow, cpMem, cpTx, withdrawn, lapsed, unreached, ahead, overtaken, cpFaults>>

\* Mutant: the gate accepts the stale grace.
ReadinessUsableStale(r) == r \in Usable

\* _readiness_usable of the gate: a draft needs more than the grace.
ReadinessUsable(r) == r = "READY_FRESH"

\* The build allows generation, or the emergency lock is its only obstacle and the override is on; the gate asks for
\* the documents and their readiness again.
GateAllows(others, locked, override) ==
  /\ others /\ (locked => override)
  /\ ctxBuild.given /\ ReadinessUsable(ctxBuild.st)

\* The context is assembled and judged.  others: the live facts, the history, a conversation that is the bot's and the
\* other document allow a draft; generated: the prompt fits and the provider answers.
BuildDecides(others, locked, override, generated) ==
  /\ ctxBuild.ph = "decide"
  /\ ctxBuild' = [IdleBuild EXCEPT !.ph = "done", !.given = ctxBuild.given,
                                   !.draft = GateAllows(others, locked, override) /\ generated]
  /\ UNCHANGED <<cpRow, cpMem, cpTx, withdrawn, lapsed, unreached, ahead, overtaken, cpFaults>>

\* The draft, or its denial, is stored for review; a failed insert is only logged.
DraftStored ==
  /\ ctxBuild.ph = "done" /\ ctxBuild' = IdleBuild
  /\ UNCHANGED <<cpRow, cpMem, cpTx, withdrawn, lapsed, unreached, ahead, overtaken, cpFaults>>

-----------------------------------------------------------------------------
(* Time and faults.                                                        *)

RowAges ==
  /\ cpRow.st = "usable" /\ cpRow.age # "expired"
  /\ cpRow' = [cpRow EXCEPT !.age = IF @ = "new" THEN "grace" ELSE "expired"]
  /\ UNCHANGED <<cpMem, cpTx, ctxBuild, withdrawn, lapsed, unreached, ahead, overtaken, cpFaults>>

\* The stored payload no longer satisfies the parser (another version of the code, a damaged value).
RowDamaged ==
  /\ CpFault
  /\ Loadable(cpRow)
  /\ cpRow' = [cpRow EXCEPT !.parses = FALSE]
  /\ UNCHANGED <<cpMem, cpTx, ctxBuild, withdrawn, lapsed, unreached, ahead, overtaken>>

WorkerRestarts ==
  /\ CpFault
  /\ cpMem' = "NOT_READY" /\ ctxBuild' = IdleBuild
  /\ cpTx' = [cpTx EXCEPT !["worker"] = IdleRefresh]
  /\ lapsed' = FALSE /\ unreached' = FALSE
  /\ ahead' = FALSE /\ overtaken' = FALSE
  /\ UNCHANGED <<cpRow, withdrawn>>

ControlPlaneNext ==
  \/ \E p \in CpProcs : RefreshBegins(p)
  \/ RefreshSkips
  \/ \E p \in CpProcs, answer \in FetchCodes : RefreshApplies(p, answer)
  \/ \E p \in CpProcs : RefreshCommits(p)
  \/ \E p \in CpProcs : RefreshRollsBack(p)
  \/ \E otherUsable \in BOOLEAN : BuildBegins(otherUsable)
  \/ BuildRemembers
  \/ BuildReads
  \/ \E others, locked, override, generated \in BOOLEAN : BuildDecides(others, locked, override, generated)
  \/ DraftStored
  \/ RowAges
  \/ RowDamaged
  \/ WorkerRestarts

\* A build under way, and the refresh loop of the worker (for fairness).
BuildGoesOn ==
  \/ BuildRemembers \/ BuildReads \/ DraftStored
  \/ \E others, locked, override, generated \in BOOLEAN : BuildDecides(others, locked, override, generated)

WorkerRefreshes ==
  \/ RefreshBegins("worker") \/ RefreshSkips \/ RefreshCommits("worker")
  \/ \E answer \in FetchCodes : RefreshApplies("worker", answer)

ControlPlaneSpec == ControlPlaneInit /\ [][ControlPlaneNext]_cpVars

-----------------------------------------------------------------------------
(* Properties.                                                             *)

Gives == ~ctxBuild.given /\ ctxBuild'.given

\* Once the withdrawal of a publication (404, 409, 401, 403 or an answer that does not parse) is committed, by the worker
\* or by the peer, no context uses it until it is verified again, whatever readiness the worker still remembers.
WithdrawnNotUsed == [][Gives => ~withdrawn]_cpVars

\* "fail-closed": when a refresh of the worker has ended with a publication past its grace, no later context uses it,
\* unless it was verified since.  The code has two exceptions: a state remembered from a verification that is not, or
\* never, committed, and a cache load that replaced the state of a later refresh.
ExpiredNotServed ==
  [][Gives /\ ctxBuild.lapsed /\ lapsed => ctxBuild.ahead \/ overtaken]_cpVars

\* "Shadow generation requires fresh LKG only": no draft is generated from a publication that the worker's last refresh
\* could not fetch; a cache load that replaced the state of a later refresh is the exception.
UnreachedNotDrafted ==
  [][~ctxBuild.draft /\ ctxBuild'.draft => overtaken \/ ~(ctxBuild.unreached /\ unreached)]_cpVars

\* A publication that is used again and again is verified again and again: the remembered state does not age, yet the
\* grace of an unreachable control plane ends.
GraceEnds == []<>(ctxBuild.given) => []<>(cpRow = VerifiedRow)

\* A withdrawn, expired or unreached publication is not used.
PublicationCurrent ==
  /\ WithdrawnNotUsed
  /\ ExpiredNotServed
  /\ UnreachedNotDrafted
=============================================================================
