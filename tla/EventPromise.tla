---------------------------- MODULE EventPromise ----------------------------
(***************************************************************************)
(* What the durable ingress promises its callers: an event that was        *)
(* acknowledged is decided once, and the dialog moves only with a decision. *)
(***************************************************************************)
EXTENDS Naturals

CONSTANT Events

VARIABLES state,    \* what became of each event
          version   \* how many business effects the dialog has seen

Init ==
    /\ state = [e \in Events |-> "absent"]
    /\ version = 0

Acknowledge(e) ==
    /\ state[e] = "absent"
    /\ state' = [state EXCEPT ![e] = "open"]
    /\ UNCHANGED version

Decide(e) ==
    /\ state[e] = "open"
    /\ state' = [state EXCEPT ![e] = "done"]

Apply(e) == Decide(e) /\ version' = version + 1
Ignore(e) == Decide(e) /\ UNCHANGED version

\* Events whose attempts are used up are given up, several at a time.
Drop(lost) ==
    /\ \A e \in lost : state[e] = "open"
    /\ state' = [e \in Events |-> IF e \in lost THEN "dead" ELSE state[e]]
    /\ UNCHANGED version

Next ==
    \/ \E e \in Events : Acknowledge(e) \/ Apply(e) \/ Ignore(e)
    \/ \E lost \in SUBSET Events : Drop(lost)

Spec == Init /\ [][Next]_<<state, version>>
=============================================================================
