------------------------- MODULE MCChatProjection -------------------------
(***************************************************************************)
(* Small instances of ChatProjection and ManagerEcho for TLC.  A behaviour *)
(* has one focus: the projections alone ("copies"), one projection and the *)
(* webhook that echoes it ("echo"), or a person's webhook and the binding  *)
(* ("people").                                                             *)
(***************************************************************************)
EXTENDS ManagerEcho

CONSTANTS Echoed,      \* the projections that take part in "echo"
          EchoHandler  \* the ingress worker of "echo"

VARIABLE focus

mcVars == <<focus, vars, echoVars>>

MCInit ==
    /\ focus \in {"copies", "echo", "people"}
    /\ EchoInit \/ (Init /\ focus = "copies" /\ bound /\ hook = [e \in Hooks |-> NoHook] /\ seed = NoSeed
                     /\ hw = [i \in HookWorkers |-> IdleHw] /\ chat = [active |-> FALSE, integ |-> 0] /\ heard = {})
    /\ focus = "copies" => ~chat.active

EchoPart ==
    /\ \A p \in Projections \ Echoed : row'[p] = row[p]
    /\ \A e \in Hooks \ Echoed : hook'[e] = hook[e]
    /\ \A i \in HookWorkers \ {EchoHandler} : hw'[i] = hw[i]

PeoplePart ==
    /\ \A p \in Projections : row'[p] = row[p]
    /\ \A e \in Projections : hook'[e] = hook[e]

MCNext ==
    /\ \/ focus = "copies" /\ Next /\ UNCHANGED echoVars
       \/ focus = "echo" /\ EchoNext /\ EchoPart
       \/ focus = "people" /\ EchoNext /\ PeoplePart
    /\ UNCHANGED focus

MCFairSpec == MCInit /\ [][MCNext]_mcVars /\ Fairness
=============================================================================
