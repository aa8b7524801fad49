----------------------------- MODULE OAuthTokens -----------------------------
(***************************************************************************)
(* The amoCRM OAuth token pair of bot-TV: one durable row per connection   *)
(* scope, refreshed by whoever needs it (the lifecycle worker ahead of the *)
(* expiry, any amoCRM client after a 401, an operator's tool without a     *)
(* condition) under a lease in that row.  amoCRM rotates: a refresh token  *)
(* is good once, and the pair the answer carries is the only live one, so  *)
(* a pair that is answered and not stored is a connection lost.            *)
(*                                                                         *)
(* A pair is the number of its issue; the row's ciphertexts are the pair   *)
(* they hold, since a row that does not decrypt ends a refresh without a   *)
(* write.  The lease's token, version and owner name one claim, so "the    *)
(* row still carries my claim" is owner = the caller; lease_until is the   *)
(* flag fresh, and time may end it at any moment.  due says that the       *)
(* stored access token is within PROACTIVE_REFRESH_WINDOW of its end or    *)
(* past it: from then on amoCRM may answer 401 to it.                      *)
(***************************************************************************)
EXTENDS Integers

CONSTANTS OauthCallers,   \* processes and clients that may refresh
          Lifecycle,      \* the one that is the lifecycle worker
          NoCaller,       \* lease_owner IS NULL
          MaxPairs,       \* pairs amoCRM ever issues
          PersistTries,   \* _POST_200_PERSIST_ATTEMPTS
          MaxOauthFaults  \* crashes, lost calls and failed writes

ASSUME OauthConstants ==
  /\ Lifecycle \in OauthCallers /\ NoCaller \notin OauthCallers
  /\ {MaxPairs, PersistTries} \subseteq Nat \ {0} /\ MaxOauthFaults \in Nat

VARIABLES oauthRow,    \* the durable row; pair 0 when there is none
          oauthIssued, \* the last pair amoCRM issued, the only live one
          oauthOps,    \* each caller's refresh
          oauthLoss,   \* the live pair was lost by a fault (history)
          oauthFaults

oauthVars == <<oauthRow, oauthIssued, oauthOps, oauthLoss, oauthFaults>>

AtRest == {"idle", "ok", "failed"}
RefreshOp(at, why, seen, snap) ==
  [at |-> at, why |-> why, seen |-> seen, snap |-> snap, new |-> 0, left |-> 0]
NoOauthOp == RefreshOp("idle", "none", 0, 0)
ReleasedLease(row) == [row EXCEPT !.owner = NoCaller, !.fresh = FALSE]

\* Mutant: a lease that ran out still counts.
LeaseHeldForever == oauthRow.owner # NoCaller
LeaseHeld == oauthRow.owner # NoCaller /\ oauthRow.fresh

OauthInit ==
  /\ oauthRow = [pair |-> 0, due |-> FALSE, owner |-> NoCaller, fresh |-> FALSE]
  /\ oauthIssued = 0
  /\ oauthOps = [c \in OauthCallers |-> NoOauthOp]
  /\ oauthLoss = FALSE
  /\ oauthFaults = 0

OpRests(c, how) == RefreshOp(how, oauthOps[c].why, 0, 0)
OauthOpEnds(c, how) == oauthOps' = [oauthOps EXCEPT ![c] = OpRests(c, how)]
OauthFault == oauthFaults < MaxOauthFaults /\ oauthFaults' = oauthFaults + 1

(***************************************************************************)
(* The operator's tool.                                                    *)
(***************************************************************************)
StoredPair(row, pair) == [ReleasedLease(row) EXCEPT !.pair = pair, !.due = FALSE]

BootstrapOauth ==
  /\ oauthRow.pair = 0
  /\ oauthIssued' = oauthIssued + 1
  /\ oauthRow' = StoredPair(oauthRow, oauthIssued')
  /\ UNCHANGED <<oauthOps, oauthLoss, oauthFaults>>

\* reseed_oauth: a pair from a new grant, stored under the refresh lease in
\* one transaction; refused while somebody holds that lease.
ReseedOauth ==
  /\ oauthRow.pair # 0 /\ ~LeaseHeld /\ oauthIssued < MaxPairs
  /\ oauthIssued' = oauthIssued + 1
  /\ oauthRow' = StoredPair(oauthRow, oauthIssued')
  /\ oauthLoss' = FALSE
  /\ UNCHANGED <<oauthOps, oauthFaults>>

(***************************************************************************)
(* refresh_tokens: the transaction that claims, checks and renews.         *)
(***************************************************************************)
\* A client's call with the stored access token is answered with 401.
CallRejected(c) ==
  /\ c # Lifecycle /\ oauthOps[c].at \in AtRest
  /\ oauthRow.pair # 0 /\ (oauthRow.due \/ oauthRow.pair # oauthIssued)
  /\ oauthOps' = [oauthOps EXCEPT ![c] = RefreshOp("rejected", "reactive", oauthRow.pair, 0)]
  /\ UNCHANGED <<oauthRow, oauthIssued, oauthLoss, oauthFaults>>

\* Mutant: the rejected token is not compared with the stored one.
StillNeededAlways(why, seen) == why # "proactive" \/ oauthRow.due
\* The checks under the lease: not refreshed since, or by somebody else.
StillNeeded(why, seen) ==
  /\ why = "proactive" => oauthRow.due
  /\ why = "reactive" => oauthRow.pair = seen

ClaimRefresh(c, why, seen) ==
  \/ /\ LeaseHeld
     /\ oauthOps' = [oauthOps EXCEPT ![c] =
          RefreshOp(IF why = "proactive" THEN "contend" ELSE "failed", why, 0, 0)]
     /\ UNCHANGED oauthRow
  \/ /\ ~LeaseHeld /\ ~StillNeeded(why, seen)
     /\ oauthRow' = ReleasedLease(oauthRow)
     /\ oauthOps' = [oauthOps EXCEPT ![c] = RefreshOp("ok", why, 0, 0)]
  \/ /\ ~LeaseHeld /\ StillNeeded(why, seen)
     /\ oauthRow' = [oauthRow EXCEPT !.owner = c, !.fresh = TRUE]
     /\ oauthOps' = [oauthOps EXCEPT ![c] = RefreshOp("post", why, 0, oauthRow.pair)]

LifecycleTick ==
  /\ oauthOps[Lifecycle].at \in AtRest /\ oauthRow.pair # 0
  /\ ClaimRefresh(Lifecycle, "proactive", 0)
  /\ UNCHANGED <<oauthIssued, oauthLoss, oauthFaults>>

ReactiveRefresh(c) ==
  /\ oauthOps[c].at = "rejected"
  /\ ClaimRefresh(c, "reactive", oauthOps[c].seen)
  /\ UNCHANGED <<oauthIssued, oauthLoss, oauthFaults>>

ForcedRefresh(c) ==
  /\ c # Lifecycle /\ oauthOps[c].at \in AtRest
  /\ oauthRow.pair # 0 /\ oauthIssued < MaxPairs
  /\ ClaimRefresh(c, "forced", 0)
  /\ UNCHANGED <<oauthIssued, oauthLoss, oauthFaults>>

\* Mutant: a contention nobody resolves is taken for a success.
ContentionEndTrusts ==
  IF ~oauthRow.due THEN {"ok"} ELSE IF LeaseHeld THEN {"failed"} ELSE {"ok"}
\* The lifecycle tick that met a held lease polls: the pair is fresh, the
\* lease is gone without that, or the deadline passes.
ContentionEnd == IF ~oauthRow.due THEN {"ok"} ELSE {"failed"}

LifecyclePolls ==
  /\ oauthOps[Lifecycle].at = "contend"
  /\ \E how \in ContentionEnd : OauthOpEnds(Lifecycle, how)
  /\ UNCHANGED <<oauthRow, oauthIssued, oauthLoss, oauthFaults>>

(***************************************************************************)
(* The POST, and what its answer leads to.                                 *)
(***************************************************************************)
Answered(o, pair) == [o EXCEPT !.at = "persist", !.new = pair, !.left = PersistTries]

\* amoCRM rotates the pair if the token is the live one.  The answer may be
\* lost on the way, or its body may not parse.
RefreshLands(c) ==
  /\ oauthOps[c].at = "post" /\ oauthOps[c].snap = oauthIssued
  /\ oauthIssued' = oauthIssued + 1
  /\ \/ /\ oauthOps' = [oauthOps EXCEPT ![c] = Answered(@, oauthIssued')]
        /\ UNCHANGED <<oauthLoss, oauthFaults>>
     \/ /\ OauthFault
        /\ oauthLoss' = TRUE
        /\ oauthOps' = [oauthOps EXCEPT ![c].at = "release"]
  /\ UNCHANGED oauthRow

\* A used token is answered with 400; a call may also never get there.
RefreshRefused(c) ==
  /\ oauthOps[c].at = "post"
  /\ \/ oauthOps[c].snap # oauthIssued /\ UNCHANGED oauthFaults
     \/ oauthOps[c].snap = oauthIssued /\ OauthFault
  /\ oauthOps' = [oauthOps EXCEPT ![c].at = "release"]
  /\ UNCHANGED <<oauthRow, oauthIssued, oauthLoss>>

ReleaseLease(c) ==
  /\ oauthOps[c].at = "release"
  /\ oauthRow' = IF oauthRow.owner = c THEN ReleasedLease(oauthRow) ELSE oauthRow
  /\ OauthOpEnds(c, "failed")
  /\ UNCHANGED <<oauthIssued, oauthLoss, oauthFaults>>

(***************************************************************************)
(* _persist_rotated_tokens_after_200: the fenced write, or the guarded     *)
(* recovery of a lease that ran out, a bounded number of times.            *)
(***************************************************************************)
RotateFenced(c) == oauthRow.owner = c /\ oauthRow.fresh

Superseded(c) == oauthRow.pair # oauthOps[c].snap

\* Mutant: a lease that ran out is never recovered.
RecoverableNever(c) == FALSE
\* No live lease, or the caller's own: the recovery claims or renews it.
Recoverable(c) == ~LeaseHeld \/ oauthRow.owner = c

PersistAgain(c) ==
  IF oauthOps[c].left > 1
  THEN oauthOps' = [oauthOps EXCEPT ![c].left = @ - 1]
  ELSE OauthOpEnds(c, "failed")

PersistPair(c) ==
  /\ oauthOps[c].at = "persist"
  /\ \/ /\ RotateFenced(c) \/ (~Superseded(c) /\ Recoverable(c))
        /\ oauthRow' = StoredPair(oauthRow, oauthOps[c].new)
        /\ OauthOpEnds(c, "ok")
        /\ UNCHANGED oauthLoss
     \/ /\ ~RotateFenced(c) /\ Superseded(c)
        /\ OauthOpEnds(c, "failed")
        /\ UNCHANGED <<oauthRow, oauthLoss>>
     \/ /\ ~RotateFenced(c) /\ ~Superseded(c) /\ ~Recoverable(c)
        /\ PersistAgain(c)
        /\ oauthLoss' = (oauthLoss \/ (oauthOps[c].left = 1 /\ LeaseHeld))
        /\ UNCHANGED oauthRow
  /\ UNCHANGED <<oauthIssued, oauthFaults>>

\* The write fails: no key, no database.
PersistFails(c) ==
  /\ oauthOps[c].at = "persist" /\ OauthFault
  /\ PersistAgain(c)
  /\ oauthLoss' = (oauthLoss \/ (oauthOps[c].left = 1 /\ oauthOps[c].new = oauthIssued))
  /\ UNCHANGED <<oauthRow, oauthIssued>>

(***************************************************************************)
(* Time and crashes.                                                       *)
(***************************************************************************)
AccessFallsDue ==
  /\ oauthRow.pair # 0 /\ ~oauthRow.due /\ oauthIssued < MaxPairs
  /\ oauthRow' = [oauthRow EXCEPT !.due = TRUE]
  /\ UNCHANGED <<oauthIssued, oauthOps, oauthLoss, oauthFaults>>

RefreshLeaseLapses ==
  /\ LeaseHeld
  /\ oauthRow' = [oauthRow EXCEPT !.fresh = FALSE]
  /\ UNCHANGED <<oauthIssued, oauthOps, oauthLoss, oauthFaults>>

CallerDies(c) ==
  /\ oauthOps[c].at \notin AtRest /\ OauthFault
  /\ OauthOpEnds(c, "failed")
  /\ oauthLoss' = (oauthLoss \/ (oauthOps[c].at = "persist" /\ oauthOps[c].new = oauthIssued))
  /\ UNCHANGED <<oauthRow, oauthIssued>>

OauthStep(c) == \/ ReactiveRefresh(c) \/ RefreshLands(c) \/ RefreshRefused(c)
                \/ ReleaseLease(c) \/ PersistPair(c)

OauthNext ==
  \/ BootstrapOauth
  \/ ReseedOauth
  \/ \E c \in OauthCallers : CallRejected(c)
  \/ LifecycleTick
  \/ \E c \in OauthCallers : ReactiveRefresh(c)
  \/ \E c \in OauthCallers : ForcedRefresh(c)
  \/ LifecyclePolls
  \/ \E c \in OauthCallers : RefreshLands(c)
  \/ \E c \in OauthCallers : RefreshRefused(c)
  \/ \E c \in OauthCallers : ReleaseLease(c)
  \/ \E c \in OauthCallers : PersistPair(c)
  \/ \E c \in OauthCallers : PersistFails(c)
  \/ AccessFallsDue
  \/ RefreshLeaseLapses
  \/ \E c \in OauthCallers : CallerDies(c)

OauthSpec == OauthInit /\ [][OauthNext]_oauthVars

(***************************************************************************)
(* Properties.                                                             *)
(***************************************************************************)
\* The durable pair is the live one, or the caller that holds the live one
\* is about to store it: only a crash, a lost answer, failed writes, or a
\* rival's lease on top of one that ran out, lose the connection.  A lease
\* that merely ran out during the POST does not, and neither a late refresh
\* nor one an operator's reseed has overtaken puts an older pair back.
RotatedPairKept ==
  oauthRow.pair # oauthIssued =>
    \/ oauthLoss
    \/ \E c \in OauthCallers : oauthOps[c].at = "persist" /\ oauthOps[c].new = oauthIssued

\* A pair is rotated only when its access token is due, or on an operator's
\* order: clients that were rejected together rotate it once between them.
NoNeedlessRotation ==
  [][\A c \in OauthCallers :
       (oauthOps[c].at = "post" /\ oauthOps'[c].at = "persist")
         => oauthRow.due \/ oauthOps[c].why = "forced"]_oauthVars

\* A lifecycle tick that ends without an error leaves a pair that is not
\* due, also when it met somebody else's refresh and waited for its end.
TickTellsTruth ==
  [][(oauthOps[Lifecycle].at # "ok" /\ oauthOps'[Lifecycle].at = "ok")
       => ~oauthRow'.due]_oauthVars

\* A due access token is refreshed, unless the connection was lost.
DueIsRefreshed == oauthRow.due ~> (~oauthRow.due \/ oauthLoss)

\* The one-time refresh tokens are rotated only when needed, the new pair is kept,
\* and the tick reports what it left.
RotationExact ==
  /\ []RotatedPairKept
  /\ NoNeedlessRotation
  /\ TickTellsTruth
=============================================================================
