---------------------------- MODULE ReplyPromise ----------------------------
(***************************************************************************)
(* What the dialog promises the client and the manager, without versions,  *)
(* leases, workers or queues.  At most one reply is owed: that to the      *)
(* last message, and only until a manager speaks.  The bot commits itself  *)
(* to a reply while it holds the dialog and owes that reply still; what it *)
(* is not committed to is withdrawn by the next message, and the client    *)
(* sees nothing else.                                                      *)
(***************************************************************************)
CONSTANT Msgs

VARIABLES reply,    \* what became of the reply to each client message
          manager   \* a manager holds the dialog

Init ==
    /\ reply = [m \in Msgs |-> "unasked"]
    /\ manager = FALSE

Withdrawn == [m \in Msgs |-> IF reply[m] = "owed" THEN "closed" ELSE reply[m]]

\* The client writes: every other reply that is owed is outdated.
Ask(m) ==
    /\ reply[m] = "unasked"
    /\ reply' = [Withdrawn EXCEPT ![m] = "owed"]
    /\ UNCHANGED manager

TakeOver ==
    /\ manager' = TRUE
    /\ reply' = Withdrawn

HandBack ==
    /\ manager /\ manager' = FALSE
    /\ UNCHANGED reply

Commit(m) ==
    /\ reply[m] = "owed" /\ ~manager
    /\ reply' = [reply EXCEPT ![m] = "committed"]
    /\ UNCHANGED manager

See(m) ==
    /\ reply[m] = "committed"
    /\ reply' = [reply EXCEPT ![m] = "seen"]
    /\ UNCHANGED manager

\* Attempts are used up.
GiveUp(lost) ==
    /\ UNCHANGED manager
    /\ \A m \in lost : reply[m] \in {"owed", "committed"}
    /\ reply' = [m \in Msgs |-> IF m \in lost THEN "closed" ELSE reply[m]]

Next ==
    \/ \E lost \in SUBSET Msgs : GiveUp(lost)
    \/ \E m \in Msgs : Ask(m) \/ Commit(m) \/ See(m)
    \/ TakeOver
    \/ HandBack

Spec == Init /\ [][Next]_<<reply, manager>>
=============================================================================
