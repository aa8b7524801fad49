---------------------------- MODULE MirrorQueue ----------------------------
(***************************************************************************)
(* The amoCRM mirror of one conversation: the jobs of amocrm_mirror_jobs,  *)
(* the workers that drain them under a lease, and the technical deal their *)
(* adapter ensures.  A worker validates its claim and the dialog in one    *)
(* transaction, lets go of the locks, runs ensure_technical_deal (the      *)
(* steps of TechnicalDeal), and settles the job in another transaction:    *)
(* the lease may be lost in between.                                       *)
(*                                                                         *)
(* Abstractions: a claim is its lease_version (the token changes with it); *)
(* of the four job types only whether it reports a fact or an action of    *)
(* the bot matters; a reply plan or an outbound row reaches its final      *)
(* status in the transaction that enqueues the job, so its subject does    *)
(* not change again.  Time is a lease that is live or not and a retry that *)
(* is due or not.  Creating deals is enabled.                              *)
(***************************************************************************)
EXTENDS TechnicalDeal

CONSTANTS MirrorJobs,         \* mirror keys
          MaxMirrorAttempts,  \* max_attempts
          MaxMoves,           \* bound: changes of the dialog's context
          MaxMirrorFaults     \* bound: crashes and failed transactions

ASSUME MirrorConstants ==
    /\ MaxMirrorAttempts \in Nat \ {0} /\ MaxMoves \in Nat /\ MaxMirrorFaults \in Nat

VARIABLES mjobs,   \* amocrm_mirror_jobs
          mwork,   \* what each worker is doing with its claim
          dialog,  \* context_version, and whether a manager has taken over
          mfaults

mirrorVars == <<mjobs, mwork, dialog, mfaults>>

MirrorSettled == {"MIRRORED", "SKIPPED", "DEAD"}

(***************************************************************************)
(* A job: bot tells an action of the bot from a fact, ctx is its           *)
(* context_version, ver its lease_version.  History: late says that the    *)
(* context had moved on when it was last claimed.  A worker: History: saw  *)
(* says that it met an ACTIVE link of the deal during its call.            *)
(***************************************************************************)
NoJob == [st |-> "none", bot |-> FALSE, ctx |-> 0, att |-> 0, ver |-> 0,
          live |-> FALSE, due |-> FALSE, late |-> FALSE]
NoClaim == [ph |-> "idle", job |-> CHOOSE j \in MirrorJobs : TRUE, ver |-> 0, saw |-> FALSE]

MirrorInit ==
    /\ Init
    /\ mjobs = [j \in MirrorJobs |-> NoJob]
    /\ mwork = [w \in Workers |-> NoClaim]
    /\ dialog = [ctx |-> 0, taken |-> FALSE]
    /\ mfaults = 0

MirrorFault == mfaults < MaxMirrorFaults /\ mfaults' = mfaults + 1
LetsGo(w) == mwork' = [mwork EXCEPT ![w] = NoClaim]
MirrorGoto(w, ph) == mwork' = [mwork EXCEPT ![w].ph = ph]

-----------------------------------------------------------------------------
(* The dialog and its jobs                                                  *)

\* enqueue_if_absent, in the transaction of the event.  A bot's action carries the version its plan was made for, which
\* may be an old one: an admitted reply is delivered, and reported, after the dialog has moved on.
MirrorEnqueued(j, bot, ctx) ==
    /\ mjobs[j].st = "none" /\ ctx <= dialog.ctx
    /\ mjobs' = [mjobs EXCEPT ![j] = [NoJob EXCEPT !.st = "PENDING", !.bot = bot, !.ctx = ctx]]
    /\ UNCHANGED <<vars, mwork, dialog, mfaults>>

\* A client message, or a manager's.
ContextMoves ==
    /\ dialog.ctx < MaxMoves
    /\ dialog' = [dialog EXCEPT !.ctx = @ + 1]
    /\ UNCHANGED <<vars, mjobs, mwork, mfaults>>

\* A manager takes over, or the handoff ends.
OwnerChanges ==
    /\ dialog' = [dialog EXCEPT !.taken = ~@]
    /\ UNCHANGED <<vars, mjobs, mwork, mfaults>>

-----------------------------------------------------------------------------
(* Claims and leases                                                        *)

MirrorExhausted(job) == job.st = "PROCESSING" /\ ~job.live /\ job.att >= MaxMirrorAttempts

\* recover_exhausted_leases, the first statement of every claim_next.
Recovered == [j \in MirrorJobs |-> IF MirrorExhausted(mjobs[j]) THEN [mjobs[j] EXCEPT !.st = "DEAD"] ELSE mjobs[j]]

MirrorClaimable(job) ==
    /\ job.att < MaxMirrorAttempts
    /\ \/ job.st = "PENDING"
       \/ job.st = "FAILED" /\ job.due
       \/ job.st = "PROCESSING" /\ ~job.live

MirrorClaims(w, j) ==
    LET job == Recovered[j] IN
    /\ mwork[w].ph = "idle" /\ MirrorClaimable(job)
    /\ mjobs' = [Recovered EXCEPT ![j] = [job EXCEPT !.st = "PROCESSING", !.att = @ + 1, !.ver = @ + 1,
                                            !.live = TRUE, !.due = FALSE, !.late = dialog.ctx # job.ctx]]
    /\ mwork' = [mwork EXCEPT ![w] = [NoClaim EXCEPT !.ph = "claimed", !.job = j, !.ver = job.ver + 1]]
    /\ UNCHANGED <<vars, dialog, mfaults>>

\* A claim_next that finds nothing to claim still recovers.
MirrorRecovers(w) ==
    /\ mwork[w].ph = "idle" /\ Recovered # mjobs
    /\ \A j \in MirrorJobs : ~MirrorClaimable(Recovered[j])
    /\ mjobs' = Recovered
    /\ UNCHANGED <<vars, mwork, dialog, mfaults>>

MirrorLeaseLapses(j) ==
    /\ mjobs[j].live
    /\ mjobs' = [mjobs EXCEPT ![j].live = FALSE]
    /\ UNCHANGED <<vars, mwork, dialog, mfaults>>

MirrorRetryDue(j) ==
    /\ mjobs[j].st = "FAILED" /\ ~mjobs[j].due
    /\ mjobs' = [mjobs EXCEPT ![j].due = TRUE]
    /\ UNCHANGED <<vars, mwork, dialog, mfaults>>

-----------------------------------------------------------------------------
(* process_claimed                                                          *)

\* Mutant: any worker that holds a claim may settle the job.
OwnsJobAny(w) == TRUE

\* The fence of every write: PROCESSING under this claim; the lease's end is not looked at.
OwnsJob(w) == LET job == mjobs[mwork[w].job] IN job.st = "PROCESSING" /\ job.ver = mwork[w].ver

\* Mutant: facts are held to the context as well.
OutdatedAnyKind(job) == dialog.taken \/ job.ctx # dialog.ctx

\* Mutant: only the owner is looked at.
OutdatedByOwner(job) == job.bot /\ dialog.taken

\* _revalidate: MANAGER_TAKEOVER or STALE_CONTEXT.
Outdated(job) == job.bot /\ (dialog.taken \/ job.ctx # dialog.ctx)

JobSettles(w, st) ==
    mjobs' = [mjobs EXCEPT ![mwork[w].job] = [@ EXCEPT !.st = st, !.live = FALSE]]

\* The first transaction: conversation lock, lease, revalidation.
MirrorFences(w) ==
    /\ mwork[w].ph = "claimed"
    /\ \/ ~OwnsJob(w) /\ LetsGo(w) /\ UNCHANGED mjobs
       \/ OwnsJob(w) /\ Outdated(mjobs[mwork[w].job]) /\ JobSettles(w, "SKIPPED") /\ LetsGo(w)
       \/ OwnsJob(w) /\ ~Outdated(mjobs[mwork[w].job]) /\ MirrorGoto(w, "call") /\ UNCHANGED mjobs
    /\ UNCHANGED <<vars, dialog, mfaults>>

Meets(w) == mwork[w].saw \/ link.status = "ACTIVE" \/ link'.status = "ACTIVE"

\* The adapter calls ensure_technical_deal.
AdapterCalls(w) ==
    /\ mwork[w].ph = "call" /\ Snapshot(w)
    /\ mwork' = [mwork EXCEPT ![w].ph = "deal", ![w].saw = Meets(w)]
    /\ UNCHANGED <<mjobs, dialog, mfaults>>

\* There is no access token, or the link is RECONCILE_REQUIRED.
AdapterRefuses(w) ==
    /\ mwork[w].ph = "call" /\ MirrorGoto(w, "bad")
    /\ UNCHANGED <<vars, mjobs, dialog, mfaults>>

\* Mutant: a reservation somebody else holds counts as success.
EnsuredOrBusy(w) ==
    \/ wk[w].ph = "get" /\ wk[w].seen \in deals
    \/ wk[w].ph = "reserve" /\ link.status \in {"ACTIVE", "RESERVED"}
    \/ wk[w].ph = "created" /\ link'.status = "ACTIVE" /\ link'.ext = wk[w].token

\* The call's last step may be an ENSURED: the deal was found, another worker's link is ACTIVE, or the created deal is linked.
Ensured(w) ==
    \/ wk[w].ph = "get" /\ wk[w].seen \in deals
    \/ wk[w].ph = "reserve" /\ link.status = "ACTIVE"
    \/ wk[w].ph = "created" /\ link'.status = "ACTIVE" /\ link'.ext = wk[w].token

DealStep(w) ==
    \/ GetLead(w) \/ RevokeActive(w)
    \/ Reserve(w) \/ ReserveUnsubmitted(w) \/ ReserveRefused(w)
    \/ PostCreated(w) \/ PostAmbiguous(w) \/ PostRefused(w)
    \/ CompleteToActive(w) \/ MarkReconcile(w) \/ ReleaseForRetry(w)

\* A found deal is still a failure when the contact could not be attached, or when the answer was not the deal.
AdapterProceeds(w) ==
    /\ mwork[w].ph = "deal" /\ DealStep(w)
    /\ \E ph \in {"deal", "ok", "bad"} :
         /\ (ph = "deal") = (wk'[w].ph # "idle")
         /\ ph = "ok" => Ensured(w)
         /\ ph = "bad" => ~(Ensured(w) /\ wk[w].ph # "get")
         /\ mwork' = [mwork EXCEPT ![w].ph = ph, ![w].saw = Meets(w)]
    /\ UNCHANGED <<mjobs, dialog, mfaults>>

\* complete_with_lease, or the stale lease is reported and the claim dropped.
MirrorCompletes(w) ==
    /\ mwork[w].ph = "ok"
    /\ IF OwnsJob(w) THEN JobSettles(w, "MIRRORED") ELSE UNCHANGED mjobs
    /\ LetsGo(w)
    /\ UNCHANGED <<vars, dialog, mfaults>>

\* fail_claimed: FAILED with a retry, or DEAD after the last attempt.
MirrorFails(w) ==
    /\ mwork[w].ph = "bad"
    /\ IF OwnsJob(w)
       THEN JobSettles(w, IF mjobs[mwork[w].job].att >= MaxMirrorAttempts THEN "DEAD" ELSE "FAILED")
       ELSE UNCHANGED mjobs
    /\ LetsGo(w)
    /\ UNCHANGED <<vars, dialog, mfaults>>

\* A transaction of process_claimed fails with any other error; fail_claimed follows.
MirrorTxFails(w) ==
    /\ MirrorFault
    /\ mwork[w].ph \in {"claimed", "ok"} /\ MirrorGoto(w, "bad")
    /\ UNCHANGED <<vars, mjobs, dialog>>

\* The process dies, also in the middle of the adapter's call.
MirrorDies(w) ==
    /\ MirrorFault
    /\ mwork[w].ph # "idle" /\ LetsGo(w)
    /\ IF wk[w].ph = "idle" THEN UNCHANGED vars ELSE Crash(w)
    /\ UNCHANGED <<mjobs, dialog>>

\* The deal's own surroundings: the operator, people in the CRM, late POSTs and the reservation's lease.
DealSurroundings ==
    /\ \/ \E d \in deals : OperatorConfirms(d)
       \/ ActivateReconcileRequired
       \/ \E t \in wire : DealLands(t)
       \/ \E d \in deals : DealDeleted(d)
       \/ LeaseExpires
    /\ UNCHANGED mirrorVars

MirrorNext ==
    \/ \E j \in MirrorJobs, bot \in BOOLEAN, ctx \in 0..MaxMoves : MirrorEnqueued(j, bot, ctx)
    \/ ContextMoves
    \/ OwnerChanges
    \/ \E w \in Workers, j \in MirrorJobs : MirrorClaims(w, j)
    \/ \E w \in Workers : MirrorRecovers(w)
    \/ \E j \in MirrorJobs : MirrorLeaseLapses(j)
    \/ \E j \in MirrorJobs : MirrorRetryDue(j)
    \/ \E w \in Workers : MirrorFences(w)
    \/ \E w \in Workers : AdapterCalls(w)
    \/ \E w \in Workers : AdapterRefuses(w)
    \/ \E w \in Workers : AdapterProceeds(w)
    \/ \E w \in Workers : MirrorCompletes(w)
    \/ \E w \in Workers : MirrorFails(w)
    \/ \E w \in Workers : MirrorTxFails(w)
    \/ \E w \in Workers : MirrorDies(w)
    \/ DealSurroundings

MirrorSpec == MirrorInit /\ [][MirrorNext]_<<vars, mirrorVars>>

-----------------------------------------------------------------------------
(* Properties                                                               *)

\* "MIRRORED means required amoCRM entity state for this mirror job converged": the worker that settles a job so met an
\* ACTIVE link during its call; a reservation of somebody else, a lost lease and an unknown outcome never count.
MirroredHadDeal ==
    [][\A j \in MirrorJobs : mjobs[j].st # "MIRRORED" /\ mjobs'[j].st = "MIRRORED" =>
         \E w \in Workers : mwork[w].job = j /\ mwork[w].ver = mjobs[j].ver /\ mwork[w].saw]_<<vars, mirrorVars>>

\* A settled job stays as it is, whatever a worker that lost its lease still does with it.
SettledOnce ==
    [][\A j \in MirrorJobs : mjobs[j].st \in MirrorSettled => mjobs'[j].st = mjobs[j].st]_<<vars, mirrorVars>>

\* An action of the bot that a later client message had overtaken when the job was last claimed is not mirrored; a fact (a
\* client message, a takeover) is never skipped.
OutdatedNotMirrored ==
    \A j \in MirrorJobs :
      /\ mjobs[j].st = "MIRRORED" /\ mjobs[j].bot => ~mjobs[j].late
      /\ mjobs[j].st = "SKIPPED" => mjobs[j].bot

\* The mirror's verdicts are true and final: MIRRORED met a deal, nothing
\* outdated is mirrored, and no worker without lease changes a verdict.
MirrorTruthful ==
  /\ MirroredHadDeal
  /\ SettledOnce
  /\ []OutdatedNotMirrored
=============================================================================
