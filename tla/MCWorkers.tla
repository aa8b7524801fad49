----------------------------- MODULE MCWorkers -----------------------------
(***************************************************************************)
(* The instances of the background workers whose progress is checked, in   *)
(* one run: each behaviour exercises the component named by focus, and the *)
(* others rest in their initial states.                                    *)
(***************************************************************************)
EXTENDS AttachmentSpool, LeadAnalytics, OAuthTokens, WorkerRuntime, ControlPlane, TLC

VARIABLE focus  \* the component this behaviour exercises

allVars == <<focus, spoolVars, anaVars, oauthVars, runtimeVars, cpVars>>

OnlySpool == UNCHANGED <<focus, anaVars, oauthVars, runtimeVars, cpVars>>
OnlyAnalytics == UNCHANGED <<focus, spoolVars, oauthVars, runtimeVars, cpVars>>
OnlyOauth == UNCHANGED <<focus, spoolVars, anaVars, runtimeVars, cpVars>>
OnlyRuntime == UNCHANGED <<focus, spoolVars, anaVars, oauthVars, cpVars>>
OnlyControl == UNCHANGED <<focus, spoolVars, anaVars, oauthVars, runtimeVars>>

MCWorkersInit ==
  /\ focus \in {"spool", "analytics", "oauth", "runtime", "control"}
  /\ SpoolInit
  /\ AnaInit
  /\ OauthInit
  /\ RuntimeInit
  /\ ControlPlaneInit

\* New processes are alike: this one starts first.
FirstProc == CHOOSE p \in WorkerProcs : TRUE
InOrder == procs[FirstProc] = "new" => \A p \in WorkerProcs : procs[p] = "new"

MCWorkersNext ==
  \/ focus = "spool" /\ SpoolNext /\ OnlySpool
  \/ focus = "analytics" /\ AnaNext /\ OnlyAnalytics
  \/ focus = "oauth" /\ OauthNext /\ OnlyOauth
  \/ focus = "runtime" /\ RuntimeNext /\ InOrder' /\ OnlyRuntime
  \/ focus = "control" /\ ControlPlaneNext /\ OnlyControl

(***************************************************************************)
(* Fairness: worker loops run for ever and time passes; nothing is assumed *)
(* of people, of remote answers or of faults.                              *)
(***************************************************************************)

SpoolFairness ==
  /\ \A o \in Objects :
       /\ WF_allVars(focus = "spool" /\ WriterStep(o) /\ OnlySpool)
       /\ WF_allVars(focus = "spool" /\ RowGrowsStale(o) /\ OnlySpool)
       /\ WF_allVars(focus = "spool" /\ FileAges(o) /\ OnlySpool)
       /\ WF_allVars(focus = "spool" /\ ObjectExpires(o) /\ OnlySpool)
       /\ WF_allVars(focus = "spool" /\ ReadLeaseExpires(o) /\ OnlySpool)
  /\ WF_allVars(focus = "spool" /\ MaintStep /\ OnlySpool)

AnalyticsFairness ==
  /\ \A w \in AnaWorkers : WF_allVars(focus = "analytics" /\ AnaStep(w) /\ OnlyAnalytics)
  /\ \A i \in FeedItems : WF_allVars(focus = "analytics" /\ RetryComesDue(i) /\ OnlyAnalytics)

OauthFairness ==
  /\ \A c \in OauthCallers : WF_allVars(focus = "oauth" /\ OauthStep(c) /\ OnlyOauth)
  /\ WF_allVars(focus = "oauth" /\ LifecycleTick /\ OnlyOauth)
  /\ WF_allVars(focus = "oauth" /\ LifecyclePolls /\ OnlyOauth)
  /\ WF_allVars(focus = "oauth" /\ RefreshLeaseLapses /\ OnlyOauth)

RuntimeFairness ==
  /\ \A p \in WorkerProcs : WF_allVars(focus = "runtime" /\ ProcStep(p) /\ OnlyRuntime)
  /\ \A p \in WorkerProcs, l \in RuntimeLoops :
       /\ WF_allVars(focus = "runtime" /\ LoopStep(p, l) /\ OnlyRuntime)
       /\ WF_allVars(focus = "runtime" /\ HeartbeatComesDue(p, l) /\ OnlyRuntime)

ControlFairness ==
  /\ WF_allVars(focus = "control" /\ WorkerRefreshes /\ OnlyControl)
  /\ WF_allVars(focus = "control" /\ BuildGoesOn /\ OnlyControl)
  /\ WF_allVars(focus = "control" /\ RowAges /\ OnlyControl)

MCWorkersSpec ==
  /\ MCWorkersInit /\ [][MCWorkersNext]_allVars
  /\ SpoolFairness /\ AnalyticsFairness /\ OauthFairness /\ RuntimeFairness /\ ControlFairness
=============================================================================
