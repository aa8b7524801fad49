-------------------------- MODULE ServicesProofs ---------------------------
(***************************************************************************)
(* The composition MCServices: every behaviour of it is a behaviour of     *)
(* each component, so what is proved of a component alone holds of the     *)
(* composition that the services run explores, for all values of the       *)
(* constants.                                                              *)
(***************************************************************************)
EXTENDS MCServices, TechnicalDealProofs, RequestsProofs, SelfBookingProofs

\* A step of the composition is a step of one component; the others rest.
LEMMA RequestSteps ==
    ASSUME [MCServicesNext]_allVars
    PROVE  /\ [MasterNext]_masterVars /\ [GraphNext]_graphVars
           /\ [CardNext]_cardVars /\ [TeyaNext]_teyaVars
  BY DEF MCServicesNext, allVars, OnlyMaster, OnlyGraph, OnlyCard, OnlyTeya, OnlyBook, OnlyPii,
         OnlyAnalytics, OnlySpool, OnlyRuntime, OnlyControl, OnlyDeal, OnlyMirror

LEMMA StoreSteps ==
    ASSUME [MCServicesNext]_allVars
    PROVE  /\ [SelfBookingNext]_bookVars /\ [PiiNext]_piiVars /\ [SpoolNext]_spoolVars
  BY DEF MCServicesNext, allVars, OnlyMaster, OnlyGraph, OnlyCard, OnlyTeya, OnlyBook, OnlyPii,
         OnlyAnalytics, OnlySpool, OnlyRuntime, OnlyControl, OnlyDeal, OnlyMirror

LEMMA WorkerSteps ==
    ASSUME [MCServicesNext]_allVars
    PROVE  /\ [AnaNext]_anaVars /\ [RuntimeNext]_runtimeVars /\ [ControlPlaneNext]_cpVars
  BY DEF MCServicesNext, allVars, OnlyMaster, OnlyGraph, OnlyCard, OnlyTeya, OnlyBook, OnlyPii,
         OnlyAnalytics, OnlySpool, OnlyRuntime, OnlyControl, OnlyDeal, OnlyMirror

\* The mirror's steps are the deal's as well.
LEMMA DealSteps ==
    ASSUME [MCServicesNext]_allVars
    PROVE  [Next]_vars
<1>1. \/ Next \/ UNCHANGED vars
      \/ [MirrorNext]_<<vars, mirrorVars>>
  BY DEF MCServicesNext, allVars, OnlyMaster, OnlyGraph, OnlyCard, OnlyTeya, OnlyBook, OnlyPii,
         OnlyAnalytics, OnlySpool, OnlyRuntime, OnlyControl, OnlyDeal, OnlyMirror
<1>2. QED BY <1>1, MirrorMakesDealSteps

\* The composition implements every component it is made of.
THEOREM ServicesCompose ==
    MCServicesSpec => /\ MasterSpec /\ GraphSpec /\ CardSpec /\ TeyaSpec
                      /\ SelfBookingSpec /\ PiiSpec /\ SpoolSpec
                      /\ AnaSpec /\ RuntimeSpec /\ ControlPlaneSpec /\ Spec
<1>1. MCServicesInit => /\ MasterInit /\ GraphInit /\ CardInit /\ TeyaInit
                        /\ SelfBookingInit /\ PiiInit /\ SpoolInit
                        /\ AnaInit /\ RuntimeInit /\ ControlPlaneInit /\ Init
  BY DEF MCServicesInit
<1>2. [MCServicesNext]_allVars => /\ [MasterNext]_masterVars /\ [GraphNext]_graphVars
                                  /\ [CardNext]_cardVars /\ [TeyaNext]_teyaVars
  BY RequestSteps
<1>3. [MCServicesNext]_allVars => /\ [SelfBookingNext]_bookVars /\ [PiiNext]_piiVars
                                  /\ [SpoolNext]_spoolVars
  BY StoreSteps
<1>4. [MCServicesNext]_allVars => /\ [AnaNext]_anaVars /\ [RuntimeNext]_runtimeVars
                                  /\ [ControlPlaneNext]_cpVars
  BY WorkerSteps
<1>5. [MCServicesNext]_allVars => [Next]_vars BY DealSteps
<1>6. QED
  BY <1>1, <1>2, <1>3, <1>4, <1>5, PTL
     DEF MCServicesSpec, MasterSpec, GraphSpec, CardSpec, TeyaSpec, SelfBookingSpec, PiiSpec,
         SpoolSpec, AnaSpec, RuntimeSpec, ControlPlaneSpec, Spec

\* What the row writers of the composed components store always has a legal status, a lease
\* exactly where the status demands one, and counters in range.
THEOREM ServicesTypesCorrect == MCServicesSpec => []ServicesTypeOK
<1>1. TypeOK /\ MasterTypeOK /\ TeyaTypeOK /\ SelfBookingTypeOK /\ SpoolTypeOK => ServicesTypeOK
  BY DEF ServicesTypeOK
<1>2. QED
  BY <1>1, ServicesCompose, TypeCorrect, MasterTypeCorrect, TeyaTypeCorrect,
     SelfBookingTypeCorrect, SpoolTypeCorrect, PTL
=============================================================================
