---------------------------- MODULE ManagerEcho ----------------------------
(***************************************************************************)
(* The amoCRM chat webhook in front of the manager messages, together with *)
(* the projections whose messages it echoes.  amoCRM reports what people   *)
(* write into the chat and also the copies the projection worker has put   *)
(* there; a copy is recognised by the message id its row carries, and      *)
(* everything else is a manager's message that takes the dialog over.  The *)
(* chat binding routes the message; its integration id, without which      *)
(* nothing is projected, is captured from a webhook or typed by an         *)
(* operator.                                                               *)
(*                                                                         *)
(* A transaction of the ingress worker reads without locks and writes      *)
(* later, so it is two actions; that of the operator's seed likewise.  A   *)
(* deadlock of the two (they lock binding and conversation in opposite     *)
(* orders) aborts one of them, as does any other error.  No code path      *)
(* revokes a binding; one without integration id is a row of an earlier    *)
(* version.  What a manager's message does to the dialog is the subject of *)
(* Dialog.                                                                 *)
(***************************************************************************)
EXTENDS ChatProjection, FiniteSets

CONSTANTS People,         \* messages written by people
          HookWorkers,    \* ingress workers
          HookAttempts,   \* max_attempts of ingress_events
          IntegrationIds  \* integration conversation ids

ASSUME EchoAssumption ==
    /\ People \intersect (Projections \union {NoProjection}) = {}
    /\ HookAttempts \in Nat \ {0} /\ IntegrationIds \subseteq Nat \ {0}

VARIABLES hook,   \* the ingress event of each reported message
          hw,     \* the claim of each ingress worker and what its transaction has read
          chat,   \* amocrm_chat_bindings: ACTIVE or absent, integration id (0: NULL)
          seed,   \* the operator's seed_active_chat_binding
          heard   \* amoCRM messages applied as manager messages

echoVars == <<hook, hw, chat, seed, heard>>

Hooks == Projections \union People

\* An event; cid is its conversation_client_id (0: none).  History: kn says that the projection carried the id when the
\* event was last claimed.
NoHook == [st |-> "NONE", ver |-> 0, live |-> FALSE, cid |-> 0, kn |-> FALSE]
IdleHw == [ph |-> "idle", e |-> NoProjection, ver |-> 0, own |-> FALSE, active |-> FALSE, integ |-> 0]
NoSeed == [ph |-> "idle", cid |-> 0]

EchoInit ==
    /\ Init
    /\ bound = FALSE
    /\ hook = [e \in Hooks |-> NoHook]
    /\ hw = [i \in HookWorkers |-> IdleHw]
    /\ chat \in [active : BOOLEAN, integ : {0}]
    /\ seed = NoSeed
    /\ heard = {}

\* A projection needs an ACTIVE binding with an integration id.
BindingIs(b) == chat' = b /\ bound' = (b.active /\ b.integ # 0)

-----------------------------------------------------------------------------
(* The webhook and its queue                                                *)

\* accept: stored before it is acknowledged.  A repetition finds its row and changes nothing.
HookAccepted(e, cid) ==
    /\ hook[e].st = "NONE"
    /\ e \in Projections => copies[e] > 0
    /\ hook' = [hook EXCEPT ![e] = [NoHook EXCEPT !.st = "RECEIVED", !.cid = cid]]
    /\ UNCHANGED <<vars, hw, chat, seed, heard>>

HookExhausted(h) == h.st = "PROCESSING" /\ ~h.live /\ h.ver >= HookAttempts

HookClaimable(h) ==
    /\ h.ver < HookAttempts
    /\ h.st \in {"RECEIVED", "FAILED"} \/ (h.st = "PROCESSING" /\ ~h.live)

HooksRecovered == [e \in Hooks |-> IF HookExhausted(hook[e]) THEN [hook[e] EXCEPT !.st = "DEAD"] ELSE hook[e]]

CarriesId(e) == e \in Projections /\ row[e].amo

\* The claiming UPDATE on event h.
HookTaken(h, known) == [h EXCEPT !.st = "PROCESSING", !.ver = h.ver + 1, !.live = TRUE, !.kn = known]

HookClaimed(i, e) ==
    /\ hw[i].ph = "idle" /\ HookClaimable(hook[e])
    /\ hook' = [HooksRecovered EXCEPT ![e] = HookTaken(@, CarriesId(e))]
    /\ hw' = [hw EXCEPT ![i] = [IdleHw EXCEPT !.ph = "claimed", !.e = e, !.ver = hook[e].ver + 1]]
    /\ UNCHANGED <<vars, chat, seed, heard>>

NoHookClaimed(i) ==
    /\ hw[i].ph = "idle" /\ \A e \in Hooks : ~HookClaimable(hook[e])
    /\ hook' = HooksRecovered
    /\ UNCHANGED <<vars, hw, chat, seed, heard>>

\* Mutant of OwnsHook: the version alone is compared, so an event that was given up is still owned.
OwnsHookByVersion(i) == hook[hw[i].e].ver = hw[i].ver

OwnsHook(i) == hook[hw[i].e].st = "PROCESSING" /\ hook[hw[i].e].ver = hw[i].ver

HookSettles(i, st) ==
    /\ hook' = [hook EXCEPT ![hw[i].e] = [@ EXCEPT !.st = st, !.live = FALSE]]
    /\ hw' = [hw EXCEPT ![i] = IdleHw]

-----------------------------------------------------------------------------
(* _process_amocrm_manager                                                  *)

\* Mutant: only finished projections are looked at.
OwnCopyFinished(e) == CarriesId(e) /\ row[e].status = "PROJECTED"

\* get_projected_by_amocrm_message_id: any row that carries the id, whatever its status.
OwnCopy(e) == CarriesId(e)

\* The transaction's reads: the projection with this id, then the binding.
HookReads(i) ==
    /\ hw[i].ph = "claimed"
    /\ hw' = [hw EXCEPT ![i] = [@ EXCEPT !.ph = "read", !.own = OwnCopy(hw[i].e),
                                         !.active = chat.active, !.integ = chat.integ]]
    /\ UNCHANGED <<vars, hook, chat, seed, heard>>

\* Mutant: an id that differs from the known one is stored as well.
CapturedAnyway(b, read, cid) == IF cid # 0 /\ read.active THEN [b EXCEPT !.integ = cid] ELSE b

\* capture_integration_conversation_id: the id is stored when the transaction has read none; the UPDATE does not look
\* at the column again.
Captured(b, read, cid) ==
    IF cid # 0 /\ read.active /\ read.integ = 0 THEN [b EXCEPT !.integ = cid] ELSE b

\* BINDING_INTEGRATION_CONVERSATION_CONFLICT
Conflicts(read, cid) == cid # 0 /\ read.integ \notin {0, cid}

\* The writes, all or none.  A copy of our own ends the event whatever becomes of its integration id.
HookCommits(i) ==
    LET e == hw[i].e
        cid == hook[e].cid
    IN  /\ hw[i].ph = "read" /\ OwnsHook(i)
        /\ hw[i].own \/ (hw[i].active /\ ~Conflicts(hw[i], cid))
        /\ BindingIs(Captured(chat, hw[i], cid))
        /\ heard' = IF hw[i].own THEN heard ELSE heard \union {e}
        /\ HookSettles(i, "PROCESSED")
        /\ UNCHANGED <<row, wk, copies, reported, seed>>

\* BINDING_UNKNOWN, a conflict of integration ids, a deadlock or any other error; the transaction is rolled back.
HookRaises(i) ==
    /\ hw[i].ph = "read"
    /\ hw' = [hw EXCEPT ![i].ph = "fail"]
    /\ UNCHANGED <<vars, hook, chat, seed, heard>>

HookFails(i) ==
    /\ hw[i].ph = "fail" /\ OwnsHook(i)
    /\ HookSettles(i, IF hook[hw[i].e].ver >= HookAttempts THEN "DEAD" ELSE "FAILED")
    /\ UNCHANGED <<vars, chat, seed, heard>>

\* Mutant: the manager's message was committed before the lease is looked at.
HookStaleHeard(i) ==
    /\ hw[i].ph = "read" /\ ~OwnsHook(i)
    /\ heard' = heard \union {hw[i].e}
    /\ hw' = [hw EXCEPT ![i] = IdleHw]
    /\ UNCHANGED <<vars, hook, chat, seed>>

\* StaleIngressLeaseError: everything is rolled back and the claim dropped.
HookStale(i) ==
    /\ hw[i].ph \in {"read", "fail"} /\ ~OwnsHook(i)
    /\ hw' = [hw EXCEPT ![i] = IdleHw]
    /\ UNCHANGED <<vars, hook, chat, seed, heard>>

HookWorkerDies(i) ==
    /\ hw[i].ph # "idle"
    /\ hw' = [hw EXCEPT ![i] = IdleHw]
    /\ UNCHANGED <<vars, hook, chat, seed, heard>>

HookLeaseLapses(e) ==
    /\ hook[e].live
    /\ hook' = [hook EXCEPT ![e].live = FALSE]
    /\ UNCHANGED <<vars, hw, chat, seed, heard>>

-----------------------------------------------------------------------------
(* seed_active_chat_binding                                                 *)

\* No binding: it is inserted.  An id that is known: ALREADY_PRESENT or REFUSED.  A binding without id is filled.
SeedReads(cid) ==
    /\ seed.ph = "idle"
    /\ IF chat.active
       THEN chat.integ = 0 /\ seed' = [ph |-> "fill", cid |-> cid] /\ UNCHANGED <<chat, bound>>
       ELSE BindingIs([active |-> TRUE, integ |-> cid]) /\ UNCHANGED seed
    /\ UNCHANGED <<row, wk, copies, reported, hook, hw, heard>>

SeedFills ==
    /\ seed.ph = "fill"
    /\ BindingIs([chat EXCEPT !.integ = seed.cid])
    /\ seed' = NoSeed
    /\ UNCHANGED <<row, wk, copies, reported, hook, hw, heard>>

\* The operator's command fails or loses a deadlock.
SeedAborts ==
    /\ seed.ph = "fill" /\ seed' = NoSeed
    /\ UNCHANGED <<vars, hook, hw, chat, heard>>

-----------------------------------------------------------------------------
HandleHook(i) == HookReads(i) \/ HookCommits(i) \/ HookRaises(i) \/ HookFails(i) \/ HookStale(i)

ProjectionStep ==
    /\ \/ \E p \in Projections : Enqueue(p) \/ LeaseExpires(p) \/ DelayPasses(p)
       \/ \E w \in Workers : ClaimOne(w) \/ Handle(w) \/ Crash(w)
    /\ UNCHANGED echoVars

EchoNext ==
    \/ ProjectionStep
    \/ \E e \in Hooks, cid \in IntegrationIds \union {0} : HookAccepted(e, cid)
    \/ \E i \in HookWorkers : NoHookClaimed(i)
    \/ \E i \in HookWorkers, e \in Hooks : HookClaimed(i, e)
    \/ \E i \in HookWorkers : HandleHook(i)
    \/ \E i \in HookWorkers : HookWorkerDies(i)
    \/ \E e \in Hooks : HookLeaseLapses(e)
    \/ \E cid \in IntegrationIds : SeedReads(cid)
    \/ SeedFills
    \/ SeedAborts

EchoSpec == EchoInit /\ [][EchoNext]_<<vars, echoVars>>

-----------------------------------------------------------------------------
(* Properties                                                               *)

\* Echo suppression: a copy of the bot's own message whose id the projection carried when the event was claimed never
\* counts as a manager's message, whatever the projection's worker does in between.  Only the report that overtakes the
\* storing of the id silences the bot.
KnownEchoHarmless == \A e \in heard \intersect Projections : ~hook[e].kn

\* An acknowledged message of a person takes the dialog over exactly when its event ends PROCESSED: a retry or a worker
\* whose lease is lost adds nothing, and an event that dies has had no effect.
HeardExactly == \A e \in People : (e \in heard) = (hook[e].st = "PROCESSED")

\* "Do not silently remap a known integration conversation": a stored integration id changes only by a transaction that
\* is already under way and has read none.
RemapOnlyInFlight ==
    [][chat.integ # 0 /\ chat'.integ # chat.integ =>
         \/ seed.ph = "fill"
         \/ \E i \in HookWorkers : hw[i].ph = "read" /\ hw[i].active /\ hw[i].integ = 0]_<<vars, echoVars>>

\* What became of each reported message, as its sender's side sees it.
HookFateOf(st) == CASE st = "NONE" -> "absent"
                    [] st = "PROCESSED" -> "done"
                    [] st = "DEAD" -> "dead"
                    [] OTHER -> "open"
HookFate == [e \in Hooks |-> HookFateOf(hook[e].st)]
HookPromise == INSTANCE EventPromise WITH Events <- Hooks, state <- HookFate, version <- Cardinality(heard)

\* What a webhook does happens once.  Its event keeps the promise of EventPromise: acknowledged, it is decided once, and
\* the decision that counts moves the dialog by one manager's message and no retry, lost lease or crash moves it again;
\* and the integration id it brings replaces a known one only in the race RemapOnlyInFlight describes.
WebhookEffectsOnce ==
  /\ HookPromise!Spec
  /\ RemapOnlyInFlight

\* The bot's own copies do not silence it once their id is known, and people are
\* heard exactly when their event takes effect.
WebhookHeardRight ==
  /\ KnownEchoHarmless
  /\ HeardExactly
=============================================================================
