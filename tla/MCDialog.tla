----------------------------- MODULE MCDialog -----------------------------
(* Instances of Dialog for TLC. *)
EXTENDS Dialog, TLC

CONSTANTS m1, m2, m3, g1, g2, g3, w1, w2

BookingThenPlain == m1 :> "booking" @@ m2 :> "plain"
OneBooking == m1 :> "booking"
TwoBookingsAndConfirm == m1 :> "booking" @@ m2 :> "booking" @@ m3 :> "confirm"

\* messages that may arrive in either order, and one without a sequence
TwoManagerMsgs == g1 :> 1 @@ g2 :> 2
NumberedAndNot == g1 :> 1 @@ g3 :> 0
NoManagerMsgs == [g \in {} |-> 0]

\* Bounds of the offers run.  An offer that cannot be bound is redelivered
\* without end: two claims of a row show the redelivery.  One takeover gives
\* offers of two manager epochs.
ClaimBound == (\A m \in ClientMsgs : outb[m].ver <= 2) /\ conv.epoch <= 1

\* Bound of the core run: takeovers and applied manager messages.  Two messages
\* and four epochs are a handoff before, between and after every step of both.
EpochBound == conv.epoch <= 4

\* worker processes are interchangeable
WorkerSymmetry == Permutations(Workers)
=============================================================================
