----------------------------- MODULE MCServices -----------------------------
(***************************************************************************)
(* The safety instances of the components that share no state, explored by *)
(* one run: each behaviour exercises the component named by focus, and the *)
(* others rest in their initial states.  The result is the union of the    *)
(* components' own state spaces, so every property is checked exactly as   *)
(* on the component alone.  The mirror drives the deal, so a behaviour of  *)
(* the mirror moves both.                                                  *)
(***************************************************************************)
EXTENDS MasterCommands, IdentityGraph, BuyerCard, TeyaRequests, SelfBooking, EphemeralPii, LeadAnalytics, AttachmentSpool, WorkerRuntime, ControlPlane, TechnicalDeal, MirrorQueue, TLC

VARIABLE focus  \* the component this behaviour exercises

allVars == <<focus, masterVars, graphVars, cardVars, teyaVars, bookVars, piiVars, anaVars, spoolVars, runtimeVars, cpVars, vars, mirrorVars>>

OnlyMaster == UNCHANGED <<focus, graphVars, cardVars, teyaVars, bookVars, piiVars, anaVars, spoolVars, runtimeVars, cpVars, vars, mirrorVars>>
OnlyGraph == UNCHANGED <<focus, masterVars, cardVars, teyaVars, bookVars, piiVars, anaVars, spoolVars, runtimeVars, cpVars, vars, mirrorVars>>
OnlyCard == UNCHANGED <<focus, masterVars, graphVars, teyaVars, bookVars, piiVars, anaVars, spoolVars, runtimeVars, cpVars, vars, mirrorVars>>
OnlyTeya == UNCHANGED <<focus, masterVars, graphVars, cardVars, bookVars, piiVars, anaVars, spoolVars, runtimeVars, cpVars, vars, mirrorVars>>
OnlyBook == UNCHANGED <<focus, masterVars, graphVars, cardVars, teyaVars, piiVars, anaVars, spoolVars, runtimeVars, cpVars, vars, mirrorVars>>
OnlyPii == UNCHANGED <<focus, masterVars, graphVars, cardVars, teyaVars, bookVars, anaVars, spoolVars, runtimeVars, cpVars, vars, mirrorVars>>
OnlyAnalytics == UNCHANGED <<focus, masterVars, graphVars, cardVars, teyaVars, bookVars, piiVars, spoolVars, runtimeVars, cpVars, vars, mirrorVars>>
OnlySpool == UNCHANGED <<focus, masterVars, graphVars, cardVars, teyaVars, bookVars, piiVars, anaVars, runtimeVars, cpVars, vars, mirrorVars>>
OnlyRuntime == UNCHANGED <<focus, masterVars, graphVars, cardVars, teyaVars, bookVars, piiVars, anaVars, spoolVars, cpVars, vars, mirrorVars>>
OnlyControl == UNCHANGED <<focus, masterVars, graphVars, cardVars, teyaVars, bookVars, piiVars, anaVars, spoolVars, runtimeVars, vars, mirrorVars>>
OnlyDeal == UNCHANGED <<focus, masterVars, graphVars, cardVars, teyaVars, bookVars, piiVars, anaVars, spoolVars, runtimeVars, cpVars, mirrorVars>>
OnlyMirror == UNCHANGED <<focus, masterVars, graphVars, cardVars, teyaVars, bookVars, piiVars, anaVars, spoolVars, runtimeVars, cpVars>>

MCServicesInit ==
  /\ focus \in {"master", "graph", "card", "teya", "book", "pii", "analytics", "spool", "runtime", "control", "deal", "mirror"}
  /\ MasterInit
  /\ GraphInit
  /\ CardInit
  /\ TeyaInit
  /\ SelfBookingInit
  /\ PiiInit
  /\ AnaInit
  /\ SpoolInit
  /\ RuntimeInit
  /\ ControlPlaneInit
  /\ Init
  /\ MirrorInit
  /\ focus # "master" => bound = NoMaster

MCServicesNext ==
  \/ focus = "master" /\ MasterNext /\ OnlyMaster
  \/ focus = "graph" /\ GraphNext /\ OnlyGraph
  \/ focus = "card" /\ CardNext /\ OnlyCard
  \/ focus = "teya" /\ TeyaNext /\ OnlyTeya
  \/ focus = "book" /\ SelfBookingNext /\ OnlyBook
  \/ focus = "pii" /\ PiiNext /\ OnlyPii
  \/ focus = "analytics" /\ AnaNext /\ OnlyAnalytics
  \/ focus = "spool" /\ SpoolNext /\ OnlySpool
  \/ focus = "runtime" /\ RuntimeNext /\ OnlyRuntime
  \/ focus = "control" /\ ControlPlaneNext /\ OnlyControl
  \/ focus = "deal" /\ Next /\ OnlyDeal
  \/ focus = "mirror" /\ MirrorNext /\ OnlyMirror

\* A state is told apart by its focus and the variables its focus moves: the
\* rest are as they were initially.
ServicesView ==
  <<focus, CASE focus = "master" -> masterVars
             [] focus = "graph" -> graphVars
             [] focus = "card" -> cardVars
             [] focus = "teya" -> teyaVars
             [] focus = "book" -> bookVars
             [] focus = "pii" -> piiVars
             [] focus = "analytics" -> anaVars
             [] focus = "spool" -> spoolVars
             [] focus = "runtime" -> runtimeVars
             [] focus = "control" -> cpVars
             [] focus = "deal" -> vars
             [] focus = "mirror" -> <<vars, mirrorVars>> >>

MCServicesSpec == MCServicesInit /\ [][MCServicesNext]_allVars

\* The types of the components whose rows carry CHECK constraints, each for the
\* behaviours that move it: what their row writers store always has a legal
\* status, a lease exactly where the status demands one, and counters in range.
ServicesTypeOK ==
  /\ focus \in {"deal", "mirror"} => TypeOK
  /\ focus = "master" => MasterTypeOK
  /\ focus = "teya" => TeyaTypeOK
  /\ focus = "book" => SelfBookingTypeOK
  /\ focus = "spool" => SpoolTypeOK
=============================================================================
