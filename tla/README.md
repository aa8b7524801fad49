# A TLA+ model of Bot TV

Bot TV is a fail-closed chat-bot backend. A FastAPI process accepts events and
stores them; one worker process runs a dozen loops over durable PostgreSQL
queues (READ COMMITTED, row locks, leases). Nothing is sent to a client without
a committed decision, and a manager who writes into a dialog silences the bot.
This directory models that machinery: the state machines of the rows, the
transactions that move them and everything that can happen between two
transactions.

## 1. Inventory

| Component | State | Operations | Interacts with | What is hard | What makes it correct |
|---|---|---|---|---|---|
| Dialog core (`services/inbound`, `manager_messages`, `takeover`, `handoff_expiry`, `reply_outbound`, `outbound_arbiter`) | conversation, inbox, manager messages, reply plans, outbound rows, active offer | accept a client message, apply a manager message, takeover, expire a handoff, claim / dispatch / fail a plan, claim / admit / deliver / fail an outbound row | ingress calls it; it enqueues mirror jobs and chat projections in its own transactions; booking backend and sink are called outside transactions | overlapping workers, crashes between transactions, messages arriving during a claim, deadlines | only current replies are sent, nothing is sent twice by decision, a pause owes one reply, every row settles |
| Durable ingress (`services/ingress`, `amocrm_manager_ingress`) | ingress events with a lease, chat bindings | accept (ACK after commit), claim, process, fail, recover, seed and capture of a binding | calls the dialog core; recognises the copies of the chat projection | redelivery, lease expiry during processing, an echo that overtakes the storing of its id | every accepted event takes effect exactly once or ends DEAD |
| amoCRM mirror (`services/amocrm_mirror`) | mirror jobs | enqueue, claim, revalidate, mirror, complete, fail | reads conversation state, calls an adapter | stale bot facts after a takeover | no outdated bot action is mirrored |
| amoCRM chat projection (`services/amocrm_chat_projection`) | projections, bindings | enqueue, claim, reconcile, send, attach id, repair | amoCRM chat API | lost answer of a send | at most one visible message per projection |
| Self-booking (`services/self_booking_*`) | active offer, confirm and PII admissions, create pendings | resolve slot, admit, create, execute | booking backend | crash around the remote create | at most one booking per confirmation |
| Booking flow (`services/booking_flow`, `booking_synthetic`) | none (pure decision) | eligibility, availability, offer | booking backend | error classification | every backend answer has one outcome |
| Attachment spool (`services/attachment_spool_store`, `attachment_maintenance`) | spool rows, files, leases | store, lease, read, acknowledge, the maintenance passes | file system | crash between file and row, files without locks | what was handed out stays readable, nothing outlives its time |
| Ephemeral PII (`services/ephemeral_pii_store`) | encrypted rows with expiry | put, read, consume, purge | key ring | expiry racing use | nothing readable after expiry |
| amoCRM OAuth tokens | token row, refresh lease | read, refresh, rotate | amoCRM OAuth | one-time refresh token | a refresh token is used once |
| amoCRM entity links, technical deal, buyer card | links, attempts | discover, create, bind | amoCRM REST | lost answer of a create | no duplicate deal |
| Circuit breaker | breaker row | allow, success, failure, half-open probe | all amoCRM calls | concurrent probes | one probe at a time |
| Teya requests | pendings, feed cursor | read the feed, plan, write CRM, reconcile | Teya feed, amoCRM | cursor against crash | every request is handled, in order |
| Analytics workers | pendings | enqueue, resolve, write | booking backend, amoCRM | retries | fields written once |
| Master commands | pendings, bindings | parse, confirm, execute | booking backend, VK | stale confirmation | a command runs once, only for its master |
| Identity resolution, identity glue | canonical identities, review cases | resolve, merge, review | CRM lookup | concurrent resolution | one identity per person |
| Control-plane snapshot | snapshot row, remembered readiness | refresh under an advisory lock, grace, load | control plane, runtime context | state remembered before the commit, stale grace | a withdrawn or expired publication is not used |
| Worker runtime | heartbeats, generation, singleton lock | start loops, tick, time out, fail | all workers | zombie process | one worker, stale generations are fenced |
| VK client channel | own rows of ingress, outbound, provenance | webhook, inbound, outbound, message reply | dialog core, VK API | echo of an own message | own echoes never take the dialog over |
| Shadow drafts, runtime context | stored drafts | build a context, gate, store | control-plane snapshot | readiness remembered across refreshes | no draft from an unverified publication |
| PII gateway, HTTP clients, configuration, CLIs, migrations, scripts | none or configuration | text and data processing | | | not modelled, see section 11 |

## 2. Plan

In the order of importance; a module is written so that it can be proved about
(no RECURSIVE operator, named assumptions, invariants as named conjuncts).

Done:

1. `Dialog`: the core, its liveness and its fencing theorem; `ReplyPromise`: what
   the client and the manager may rely on, which `Dialog` implements.
2. `TechnicalDeal` and `ChatProjection`: effects in amoCRM that must not be
   doubled, each with a theorem.
3. `EventPromise` and `VkDialog`: the durable ingress with the VK channel in
   front of the dialog and the sender behind it; the queue implements the
   abstract promise "an acknowledged event is decided once". Theorems for all
   safety properties of `VkDialog` and for the refinement.
4. `MirrorQueue` (composed with `TechnicalDeal`) and `ManagerEcho` (composed with
   `ChatProjection`): the queues on both sides of amoCRM; `ManagerEcho` implements
   `EventPromise` as `VkDialog` does.
5. `SelfBooking` with `EphemeralPii`, `AttachmentSpool`, `OAuthTokens`: rows with
   a remote or a file effect and crashes between the two.
6. `TeyaRequests` (with the circuit breaker), `MasterCommands`, `IdentityGraph`,
   `BuyerCard`, `LeadAnalytics`, `WorkerRuntime`, `ControlPlane`.
7. Theorems for every safety and action property of these modules, for the four
   refinements and for the composition `MCServices` (section 9).

Left:

8. `BookingFlow` as a decision procedure checked against a reference table.

## 3. Dialog

`Dialog` is one synthetic-channel conversation. Every transaction of the dialog
locks the conversation row first, and every write by a worker is a conditional
UPDATE on status, lease token and lease version; so one transaction is one
action and a handler with several transactions is several actions joined by the
claim it keeps in memory.

| Variable | Code |
|---|---|
| `conv` | the `conversations` row: status, ownership, handoff state, context version, manager epoch, event number, manager sequence high-water mark, deadline, pause anchor, active plan, quarantine |
| `inbox`, `mgr` | `inbox_messages` and `manager_messages` by external id |
| `plan`, `outb` | `reply_plans` (one per inbox row) and their `SYNTHETIC_OUTBOUND` rows (one per plan, by idempotency key) |
| `pw`, `ow` | the claim in the memory of each worker process: `ReplyPlanClaim`, `OutboundClaim`, and how far its handler has got |
| `jobs` | mirror jobs and chat projections by their unique keys |
| `offer` | `self_booking_active_offers` |
| `passed` | the last handoff deadline that has gone by |
| `calls`, `sunk` | history: booking backend calls per plan, messages the sink accepted |

| Action | Code |
|---|---|
| `AcceptInbound` | `InboundService.accept` |
| `ManagerMessage`, `ManagerTakeover` | `apply_manager_message_in_session`, `apply_manager_takeover_in_session` |
| `ExpireActiveHandoff`, `ExpirePausedHandoff` | `HandoffExpiryWorker.expire_one` |
| `PlanClaim` | `ReplyPlanWorker.claim_one` with recovery and promotion to READY |
| `PlanStale`, `PlanRaises`, `BookingPhase1`, `BookingRemote`, `BookingPhase2`, `PlanFail` | `dispatch_claimed` and `fail_claimed` |
| `OutClaim` | `outbound.claim_next` with recovery |
| `Admit`, `AdmitRaises`, `OutFail`, `PrepareReclaimed`, `SinkAccepts`, `SinkRefuses`, `FailAdmitted`, `Deliver`, `EnqueueProjection` | `OutboundArbiter.admit_claimed` |
| `RepairProjection` | `repair_bot_outbound_projection` |
| `DeadlinePasses`, `PlanDelayPasses`, `OutDelayPasses`, `PlanLeaseExpires`, `OutLeaseExpires` | the database clock |
| `DropPlanTask`, `DropOutTask` | a crash or a tick timeout |

Abstractions. Instants are compared only with "now", so a deadline is named by
the context version at which it was set and `passed` is the last one gone by; a
response or retry delay is FUTURE until it becomes PAST. Lease tokens are fresh
with every claim, so the lease version alone identifies the claim. A plan
without a booking block has no renderable text and always raises
(`OutboundReplyTextError`). Message texts, the INTERNAL_DRAFT row (written once,
read by nobody) and correlation ids are left out. No code path sets CLOSED.

Bounds. `MaxAttempts` is the rows' `max_attempts` (5 by default), `MaxFaults`
bounds crashes and leases that expire under a running handler. Client and
manager messages are finite sets, but each may be delivered any number of times.
Two messages give supersession, two workers give every overlap (a third would
hold a claim that is stale in the same way). The core run has one attempt and
one fault (first attempt = last attempt); first and last attempt differ in the
liveness run. `EpochBound` ends the core run's handoffs after four: an operator may take
over again and again, and four are one before, between and after the two messages and
one more for each manager message. In the offers run `ClaimBound` cuts off a third
claim of an outbound row (an offer that cannot be bound is redelivered without
end, two claims show it) and a second takeover. Worker symmetry is used in the runs
without liveness properties.

`ReplyPromise` is what all of this is for, without versions, leases, workers or
queues: at most one reply is owed, that to the last message and only until a
manager speaks (`Ask`, `TakeOver` withdraw what is owed); the bot commits itself to it
while it holds the dialog (`Commit`); the client sees what was committed (`See`) and
nothing else; a reply may be given up (`GiveUp`); the end of a handoff neither adds
nor withdraws a reply (`HandBack`). `RepliesAsPromised` states that `Dialog` implements it.
The mapping `ReplyOf` reads the fate of a reply off its rows: owed while its plan is
open or its outbound row can still be cancelled, committed from the admission on, seen
when the sink has taken it. One case is not visible in any row: a row that was given up
(DEAD) while a worker still holds its admission may yet reach the client and stays
committed as long as that worker is on its way.

Fairness. The worker runtime restarts its loops for ever, so claims and the
steps of a running handler are weakly fair, and time passes. Nothing is assumed
of clients, managers, operators or faults. The liveness run bounds faults: with
unbounded crashes nothing can settle.

## 4. TechnicalDeal

`TechnicalDeal` is the deal of one conversation: the open row of
`amocrm_entity_links`, the processes that run `ensure_technical_deal`, the
operator's `resolve_reconcile`, and the leads in the CRM.

| State | Code |
|---|---|
| `link` | the one row that is RESERVED, RECONCILE_REQUIRED or ACTIVE (a partial unique index allows one); REVOKED rows are history |
| `tokens` | lease tokens drawn so far; a token makes at most one create POST and names the deal it creates |
| `wk`, `op` | what a running call remembers between transactions and HTTP calls |
| `deals`, `wire`, `deleted` | the CRM: leads that exist, POSTs without an answer, deletions by people |
| `raced` | history: a link was revoked on the 404 of a deal it no longer named |

`Snapshot`, `GetLead`, `RevokeActive`, `Reserve*`, `Post*`, `CompleteToActive`,
`MarkReconcile` and `ReleaseForRetry` are the steps of `ensure_technical_deal`;
`OperatorConfirms` and `ActivateReconcileRequired` are the two halves of
`resolve_reconcile` (the operator confirms only a deal of this conversation);
`DealLands`, `DealDeleted`, `LeaseExpires` and `Crash` are the world. Deadlock is
not checked: a RECONCILE_REQUIRED row without any deal stops the flow on purpose
and waits for a person. `MaxReservations` and `MaxDeletes` only cut the state
space; two deletions allow a replacement to be deleted as well.

## 5. ChatProjection

`ChatProjection` copies inbox and delivered outbound messages into the amoCRM
chat. `row` is `amocrm_message_projections`, `wk` the claim and progress of
`process_claimed`, `bound` whether the conversation has a usable chat binding,
`copies` what the chat shows, `reported` for which rows SKIPPED was returned.
Every transaction and HTTP call of `process_claimed` is an action; answers may be
lost after the message landed, workers crash at any step, leases run out and the
binding changes at any time. Three assumptions on the outside: the lease, renewed
before every call for longer than the call's timeout
(`_lease_seconds_for_http`), does not run out during a send; a POST that lands
does so before the call times out; a history page that was read is complete up to
its time. The EGRESS_DISABLED branch of `process_claimed` is left out because
`claim_one` claims nothing while egress is off. Fairness: worker loops and clock.

`ManagerEcho` puts the other direction beside it: the amoCRM chat webhook reports
what people write and also the copies the projection worker has made, through the
durable ingress. `hook` are the ingress events, `hw` the ingress workers with what
their transaction has read, `chat` the binding with its integration id, `seed` the
operator's `seed_active_chat_binding`, `heard` the messages applied as manager
messages. `HookReads` and `HookCommits` are the two halves of
`_process_amocrm_manager`: the reads take no lock. `KnownEchoHarmless` says that a
copy whose id was stored when its event was claimed never silences the bot (the
report that overtakes the storing of the id does: the window is between the POST's
answer and `_attach_amo_id`); `HeardExactly` that a person's message takes effect
exactly when its event is PROCESSED; `RemapOnlyInFlight` that the binding's
integration id, once stored, is overwritten only by a transaction that read it
empty before. That last exception is real: `capture_integration_conversation_id`
compares with the value it read and its UPDATE names only the row. `WebhookEffectsOnce`
joins it with the refinement of `EventPromise` (section 6): the events are the reported
messages, the version counts the manager messages heard, so that an acknowledged webhook
is decided once and moves the dialog only with that decision.

## 6. VkDialog and EventPromise

`VkDialog` is one VK conversation behind the durable ingress. VK reports the
client's messages and every message written for the community (`message_reply`):
a person's, which must silence the bot, or the echo of the bot's own reply, which
must not.

| State | Code |
|---|---|
| `ev`, `iw` | `ingress_events` and the `IngressClaim` each worker holds |
| `conv`, `inbox`, `plan` | conversation (manager owned, context version, `vk_client_external_reply_hwm`), inbox, proof reply plans |
| `outb`, `ow` | `VK_CLIENT_OUTBOUND` rows with their stored provider id, and the `OutboundClaim` each worker holds |
| `jobs` | mirror jobs by unique key |
| `payload`, `cmid`, `top` | VK: what a message carries and its conversation_message_id |
| `outcome` | history: how each reply was classified |

| Action | Code |
|---|---|
| `AcceptEvent` | `VkClientIngressService.accept`, `accept_message_reply` |
| `ClaimEvent`, `ClaimNoEvent`, `StaleEvent`, `EventRaises`, `FailClaimed` | `IngressWorker` and `repositories/ingress` |
| `ProcessClient` | `_process_vk_client` with `VkClientInboundService.accept` and `maybe_create_vk_client_proof_reply_plan` |
| `ReplyRaces`, `ReplyIgnored`, `ReplyTakesOver` | `_process_vk_client_message_reply`, `apply_vk_client_message_reply_in_session` with `_classify_own_echo` |
| `ExpireHandoff` | `HandoffExpiryWorker.expire_one` (HUMAN_ACTIVE: a VK client message never starts a pause) |
| `DispatchPlan`, `PlanDies` | the reply-plan worker, whose claims are the subject of `Dialog` |
| `ClaimOut` ... `MarkDelivered` | `OutboundArbiter.admit_claimed` for the VK destination |
| `SendAnswered`, `SendFails` | `VkClientHttpSender.send_text` |

Abstractions. `attempt_count` and `lease_version` grow together, so `ver` is
both. Retry delays and the handoff deadline only postpone a step, so the step is
possible at any time. Every change of `manager_epoch` or `current_event_seq` also
moves `context_version`, so `ctx` stands for the three fences. Of VK it is
assumed that `random_id` suppresses a second message and that ids grow. External
takeover is switched on and the provenance key is set; CLOSED conversations do
not occur (no code path closes one). A forged or unauthenticated payload is
FOREIGN. Deadlock is not checked because the system may come to rest.

`EventPromise` is what the ingress promises: an event is acknowledged, then
applied or ignored once, or given up; the dialog's version grows by one with an
applied event and not otherwise. `DecidedOnce` states that `VkDialog` implements
it, with the event's status and `conv.ctx` as refinement mapping: claims,
retries, crashes and overlapping workers are stuttering steps.

Worth knowing, and stated exactly by the properties: the bot's own echo does take
the dialog over when the send was given up (DEAD) without a receipt although VK
has the message; a person's reply without payload is retried while a send of the
bot is in flight, and if that lasts for all of its attempts it ends DEAD and is
never heard; a plain VK message does not close an open proof plan, which then
fails its fences and dies.

## 7. The other components

Each of these modules models one component on rows of its own; they share no
state with one another, except that the mirror drives the technical deal. A
transaction is one action where its locks make it one, and several where it reads
without locks or calls a remote system while open; faults (crashes, lost answers,
failing writes) are bounded by a named constant; clocks are flags that time sets.

**MirrorQueue** (`services/amocrm_mirror`, `amocrm_crm_mirror_adapter`). `mjobs`
are the mirror jobs, `mwork` the workers, `dialog` what revalidation looks at. A
worker claims (`MirrorClaims`, after `recover_exhausted_leases`), checks lease and
dialog (`MirrorFences`), runs the steps of `TechnicalDeal` without any lock
(`AdapterCalls`, `AdapterProceeds`), and settles the job (`MirrorCompletes`,
`MirrorFails`). Properties: MIRRORED means that an ACTIVE deal link was met during
the call; a settled job stays settled whatever a worker without lease still does;
an overtaken action of the bot is not mirrored, and a fact is never skipped.

**SelfBooking** (`services/self_booking_*`). Admission of phone and name
(`AdmitLooks`, `AdmitStores`), the confirming message (`ConfirmBegins` takes the
conversation lock, `ConfirmCommits` stores the pending CREATE with its fence) and
the worker (`WorkerPicks`, `WorkerClaims`, `WorkerFinishes`, which holds row and
conversation lock over the POST). Lock orders are opposite, so `ConfirmAborts` and
`WorkerAborts` model the database's choice. Properties: one booking per
confirmation; a booking is made only while the dialog is exactly as confirmed; two
concurrent admissions agree on one pair and leave no second one; one waiting CREATE
per conversation; the pair is deleted only when its booking exists.

**EphemeralPii** (`services/ephemeral_pii_store`). One reference and its holders;
`TakesRowLock` and `RemovesRow` are separate because the expiry is looked at before
and after the wait. The plaintext is consumed once, never after expiry, and removed
only for a cause.

**AttachmentSpool** (`services/attachment_spool_store`, `attachment_maintenance`).
A row is moved by transactions and a file by file operations that no lock
protects; `maint` walks through the passes of the maintenance cycle. What was
handed out stays readable until it is acknowledged, expired or damaged; the file
goes before the row; a read that overlaps the end of its lease returns nothing; and
(liveness) in the end neither row nor file is left.

**OAuthTokens** (`core/amocrm_crm_rest_http`,
`repositories/amocrm_crm_oauth_tokens`, `amocrm_crm_oauth_lifecycle_worker`).
amoCRM's refresh tokens are good once. Callers claim the lease in the row, POST,
and store the pair with retries. The stored pair is the live one or its holder is
about to store it, except after a loss: a crash between answer and store, a lost
answer, failed writes, or a rival that claimed the lapsed lease. Clients that were
rejected together rotate once, and a due token is refreshed.

**TeyaRequests** (`services/teya_request_*`, the circuit breaker). `process_one` is
one transaction around several remote calls: a step is a set of outcomes [row,
amoCRM, salon, breaker], which `ProcessOne` commits and `ProcessCrash` applies to
the remote systems alone. The reconciliation tick (`ReconBegin` .. `ReconWrite`)
writes from a stale copy. One booking key per request, a row that reports BOOKED is
booked, and no duplicate in amoCRM. Notes and tasks are kept per text, because amoCRM
is searched for the exact text before each POST: `build_teya_structured_note` writes
the request's status at the salon into the note (`StaffTakes` and `HumanCloses` change
it between two attempts), a game request whose client has several appointments
(AMBIGUOUS) gets a note and the default task of its own,
and the game's task differs from the default one. So a request may collect several
notes and tasks, at most one of each text. `BreakerProtects` compares the breaker with
the history variable `outage`: it is open exactly while the last BreakerThreshold
answers it counted were failures, and from the opening on one step in all passes until
the cooldown or the probe's lease runs out. `half_open_successes` is 1, its default
(a larger one would never be reached: `try_claim_probe` resets the count). The writes
of the game's appointment do not ask the breaker, in the code as in the model; a step
that crashes is rolled back with its claim. One comment of the code is refuted, see
section 10.

**MasterCommands** (`services/master_command_flow`, `master_channel_binding`).
`Callback` reads without lock, the next action is everything under the row lock,
and the POST happens while the transaction is open. A command is applied at most
once however often callbacks are repeated; nothing is posted that was not previewed
in full; a callback does not use a command that had expired when it arrived.

**IdentityGraph** (`services/identity_resolution`, `identity_glue`,
`identity_glue_ops`). Concurrent transactions attach keys, glue the conversation
and approve review cases. Keys are exclusive, losing a race leaves no orphan and
never answers with the loser's identity, a conversation is never rebound, closed
cases agree with it, and the resolver answers only when all signals that count agree.
A link that the caller names in `confirmed_links` counts only if it is stored as
CONFIRMED (an e-mail never is); a named link that is not is skipped, even if it belongs
to another identity. `NamedLinks` are the links callers may name.

**BuyerCard** (`services/amocrm_buyer_card_bind`, `amocrm_buyer_card_read_flow`,
`amocrm_buyer_card_discovery`, `amocrm_identity_lookup`). Bind and read look at the
links, ask amoCRM page by page and look again under the lock while everything
changes. One card per identity although no constraint says so; a card is bound only
on the sole contact that was asked about; what read reports is linked and listed; a
phone match is unique over all pages.

**LeadAnalytics** (`booking_method_analytics_worker`,
`acquisition_source_analytics_worker`). Both workers, chosen by `anaKind`. The
cursor never passes an item without a row; DONE means filled; at most one PATCH of
an item lands; a value is overwritten only in the window between GET and PATCH; a
row out of attempts is settled, and every row settles.

**WorkerRuntime** (`services/worker_runtime`, `db/worker_lock`, `worker_health`).
Processes, their loop tasks and the heartbeat rows. One worker runs unless the
database dropped the lock session of a live one (`lockLost`), which then stops at
its next heartbeat; healthy means one generation all of whose loops reported; a
process gives up only after the configured number of failures in a row, except that
a rate-limited tick clears the local count and not the row's (`hid`).

**ControlPlane** (`services/control_plane_snapshot_service`,
`runtime_context_builder`, `shadow_draft_ingress_hook`). A worker and a peer
refresh the row under the advisory lock; the worker remembers its readiness before
the commit. A withdrawn publication is not used; an expired one is not served and an
unreachable one not drafted from, with the two exceptions of the code: readiness
from a verification that is not committed (`ahead`) and a cache load that replaces
the state of a later refresh (`overtaken`).

## 8. Runs

| Run | Instance | Shows |
|---|---|---|
| `dialog_core` | a booking request and a plain message, two manager messages, takeovers, two workers, one attempt, one fault, at most four handoffs; 0.9 million states | types, handoff CHECK, one current open plan, a pause owes its reply, unadmitted rows are current, sink after admission, leases, exact outbox, dense event numbers, manager order, the replies implement ReplyPromise, legal transitions, the pause does not slide |
| `dialog_offers` | two booking replies and a confirmation, two workers, offers with and without a parsable slot (OFFER_UNPARSABLE) | the active offer is a delivered offer and only advances |
| `dialog_liveness` | one booking request, a numbered and an unnumbered manager message, two workers, two attempts, one fault, fairness; 217 thousand states | the booking backend is called at most once per plan and its stored result is sent; plans, finite handoffs and outbound rows settle |
| `dialog_stale_offer` | violation | a late delivery re-activates an offer that a newer message had cleared |
| `deal_revoke_race` | violation; two workers | the exception above happens: two deals |
| `projection` | focus copies: one message and one without text, two workers, three attempts, fairness; focus echo: one message, its webhook with two attempts, the binding; focus people: a person's webhook with two workers, two attempts, two integration ids; 380 thousand states | at most one copy, rows say the truth, settled rows are final, every row settles; known echoes are harmless, people are heard exactly, webhooks are decided once (refinement), ids are remapped only in flight |
| `projection_skip` | violation; one row, one worker | a reported skip is rolled back |
| `vk_echo` | one trigger, its echo with or without payload, one person's reply, two ingress and two outbound workers, two attempts, one fault; 419 thousand states | every event decided once (refinement), echoes harmless, people heard, takeovers in order, nothing sent is cancelled |
| `vk_liveness` | a trigger and a plain message, one worker each, two attempts, two faults, fairness; 102 thousand states | acknowledged events and admitted messages settle |
| `teya_self_booked` | violation; one request, two faults | a transport error hides the client's own appointment and a second one is booked |
| `services` | twelve components, see below; 1.4 million states | the safety properties of section 7 and of `TechnicalDeal` |
| `workers` | five components with fairness; 132 thousand states | nothing outlives its time in the spool, feed items settle, a due token is refreshed and rotation is exact, sick or superseded processes stop, the grace of an unreachable control plane ends |

`services` and `workers` explore components that share no state: a behaviour picks
one component (`focus`) and the others rest in their initial states, so the state
space is the sum, not the product, of the components' and every property is checked
as on the component alone (`ServicesView` tells states apart by the variables of
their focus, for speed only). The bounds of `services`: two handlers, two transactions,
two operations or two workers everywhere, because every race here is between two
(three holders of a PII reference, so that one waits behind a waiter); three master
messages (a command, another one and a confirmation); three
operations on links and three on the conversation, so that a case can be closed against
an override after a revocation or an archiving; three cards, one
more than the limit of linked customers, and one change in amoCRM between two looks;
two kinds of links a caller may name, one that may be CONFIRMED (the deal) and one that
never is (the e-mail); two CREATE attempts and two faults, so that
a lost answer is followed by another loss; eight attempts of a Teya request, as many
as the states it passes through, and a breaker that opens on the first failure (the
theorem has any threshold); two feed items on pages of one. In `workers` new processes start
in a fixed order, because they are alike (`InOrder`), and the
runtime and the OAuth tokens have one fault, three callers and three pairs: enough
for a rival to rotate on a lapsed lease and for a third to meet the result; the
control plane has none there, because its restarts and damaged rows are the subject
of `services`. The runtime has no fault in `services`: crashes and lost lock sessions are
in `workers`, and in the theorem on `OneHonestWorker` for any number of them.

Fairness of `workers`: loops run for ever (the runtime restarts them, which is
`WorkerRuntime`'s own subject) and time passes; nothing is assumed of people, of
remote answers or of faults, which are bounded. Deadlock is not checked in either
run: a component that has used its inputs comes to rest.

The checked properties are conjunctions of named parts, one name per promise:

| Property | Parts |
|---|---|
| `RepliesAreCurrent` | HandoffConsistent, OpenPlanIsCurrent, PauseOwesReply, UnadmittedIsCurrent |
| `OutboundDiscipline` | SinkFollowsAdmission, LeaseDiscipline |
| `RecordExact` | MirrorExact, TimelineDense, ManagerOrder |
| `RepliesAsPromised` | ClientPromise!Spec (the refinement of ReplyPromise), NeverBackwards: LegalTransitions, PauseNeverSlides |
| `OfferTracksDelivery` | OfferProvenance, OfferOnlyAdvances |
| `DialogSettles` | RepliesResolve, HandoffEnds, OutboundSettles |
| `CopiesExact` | AtMostOneCopy, ProjectedIsVisible |
| `RowsSettleForGood` | SettledIsFinal, ProjectionSettles |
| `WebhookHeardRight` | KnownEchoHarmless, HeardExactly |
| `WebhookEffectsOnce` | HookPromise!Spec (the refinement of EventPromise), RemapOnlyInFlight |
| `EchoSafe` | OwnEchoHarmless, SentIsAdmitted, HumanHeard |
| `VkSettles` | EventSettles, AdmittedSettles |
| `MirrorTruthful` | MirroredHadDeal, SettledOnce, OutdatedNotMirrored |
| `CommandOnceAsPreviewed` | AppliedOnce, PostFollowsPreview, ExpiredStaysUnused |
| `OneIdentity` | LinkExclusive, NoOrphanCanonical, AnswerNamesOwner, NeverRebound, ResolvedCaseMatches, ResolvesUnanimously |
| `CardOnVerifiedContact` | OneBuyerCard, PhoneUnambiguous, BoundOnSoleContact, ReusedIsLinkedAndListed |
| `RequestServedOnce` | BookedOnce, ReportedIsBooked, NoDuplicateCrm |
| `BreakerProtects` | open exactly after BreakerThreshold failures in a row; one step per cooldown or lease |
| `OneBookingOnePair` | ConfirmBooksOnce, AdmissionExact, OneActiveCreate |
| `BooksAsConfirmed` | BooksOnlyWhileConfirmed, PairKeptForRetry |
| `PlaintextOnce` | ConsumedOnce, NoneAfterExpiry, RemovedForCause |
| `LeadFilledOnce` | EveryItemAdmitted, DoneMeansFilled, PatchLandsOnce, ExhaustedIsReviewed, OverwriteOnlyInWindow |
| `SpoolKeepsHanded` | HandedIsReadable, NoCiphertextWithoutRow, RetainedUntilDone |
| `OneHonestWorker` | OneWorker, HealthyIsCurrent, FatalIsEarned |
| `BadProcessStops` | SupersededStops, SickLoopStops |
| `PublicationCurrent` | WithdrawnNotUsed, ExpiredNotServed, UnreachedNotDrafted |
| `RotationExact` | RotatedPairKept, NoNeedlessRotation, TickTellsTruth |
| `ServicesTypeOK` | TypeOK of `TechnicalDeal`, MasterTypeOK, TeyaTypeOK, SelfBookingTypeOK, SpoolTypeOK |

Three parts state what holds outside a race the code does have, and so bound that race
rather than exclude it: `RemapOnlyInFlight` (an integration id stored meanwhile is
overwritten by a webhook in flight), `FatalIsEarned` (`hid`: a rate-limited tick hides a
success from the row's count) and `ExpiredNotServed` (`ahead`, `overtaken`: a state
remembered from a refresh that is not committed, or replaced by a cache load).

Every property, and nearly every part of one, has a mutant of the model that breaks it
(`PROJECT.json`): a dropped status in a bulk UPDATE, a missing marker, an ignored sequence, a fence
without its status, an id looked up only in finished rows.

## 9. Proofs

All theorems hold for all sets of messages, rows and workers and all bounds; the
assumptions are the named ASSUMEs of the modules (the "nothing" values are not
members of the sets they stand beside, bounds are naturals, tables are total, the
runtime has at least one loop, amoCRM knows the contact and the card a run starts
with). A proof has one lemma per action, or per group of actions that write alike;
the temporal step combines them.

`DialogProofs`:

* `TypeCorrect`: `Spec => []TypeOK`, one step per action.
* `FencingCorrect`: RepliesAreCurrent, that is HandoffConsistent, OpenPlanIsCurrent,
  PauseOwesReply and UnadmittedIsCurrent. They are not inductive one by one: the reply a pause owes
  must be open and current, an open plan is current only because every message
  closes the others, and a row that can be admitted is current only because its
  plan was. The inductive invariant `FencingInv` is their conjunction with
  `RowsFollow` (a plan needs an accepted message, an outbound row a dispatched
  plan). The argument goes by who writes: the outbound worker never makes a row
  admissible (`OutboundOnlyStep`), the plan worker never opens a plan or touches
  fencing columns (`PlanOnlyStep`), managers and expiry close everything
  (`ClosingStep`), and only a client message opens a plan (`AcceptFencing`).
* `NeverBackwardsCorrect`: every status change of a plan or an outbound row is one of
  the legal transitions, and nothing moves the deadline of a running pause; from
  `FencingInv`, because the bulk updates are legal only for open rows.
* `OutboundDisciplineCorrect`: `SinkInv` adds what a task remembers (`SinkTasks`): who
  is about to send, or has an answer to store, works on a row that was admitted.
* `BookingOnceCorrect`: `BookingInv` says that the marker is on the plan before the
  backend is called, that no two tasks stand before that call, and that an outbound
  row repeats the plan's result. The second is why a reclaimed plan does not call
  again: the marker of the first call is already committed.
* `RecordExactCorrect`: `TimelineInv` (the numbers given out are exactly 1..seq, as a
  statement about finite sets) and `MirrorInv` (the jobs are exactly the committed
  facts, and a handoff under way had a takeover). `MirrorFrame` reduces every action
  to the jobs it adds.
* `OfferTracksDeliveryCorrect`: the active offer is one that was delivered, and only
  one computed from a later state of the dialog replaces it.
* `ClientPromiseKept`: `Spec => ClientPromise!Spec`, and with `NeverBackwardsCorrect`
  `RepliesAsPromisedCorrect`. `ReplyInv` adds to the invariants above that every accepted
  message got a plan (`Answered`): a consistent handoff leaves no message without one.
  The step simulation goes by what a reply can notice. Closing plans and cancelling rows
  is exactly the withdrawal of what is owed (`ClosingReplies`), so a new message is an
  `Ask` and a takeover a `TakeOver`. A row becomes ADMITTED in `Admit` alone, which has
  just checked that the bot holds the dialog (`OnlyAdmitAdmits`, `AdmitCommits`). What
  the sink takes was committed because a worker sets out only with an ADMITTED row
  (`FlightsStart`, `SinkShows`). The end of a handoff is a `HandBack` because an active
  manager leaves nothing owed and a pause owes its reply before and after. Every other
  step leaves a reply alone or gives it up (`ReplyMove`).

`TechnicalDealProofs`:

* `TypeCorrect`: types and the CHECK constraints of the link row; needs that
  every token in memory was drawn before (`TokenInv`).
* `OneTrackedDealCorrect`: `DealInv` adds `Known` (a deal that the row, the
  operator or a worker knows of was answered: it cannot appear again) and, unless `raced`, `Rows`: which deals and POSTs may exist
  in each status of the row. The case that decides is the reservation: it is
  possible only when no earlier POST can be out, because the submit marker and
  the reservation commit together. `NotMoreOut` and `QuietStep` cover the steps
  that create nothing.
* `MirrorImplementsDeal`: `MirrorSpec => Spec` of `TechnicalDeal`, step by step: each
  action of the queue is one of the deal's or leaves it alone. `MirrorKeepsOneDeal`
  transfers OneTrackedDeal through it.
* `MirrorTruthfulCorrect`: `MirrorInv` says of a job that lateness is real because
  contexts only grow (`VerdictOf`), of a claim that its version was reached
  (`ClaimOf`), that past the first transaction an owner's bot job was not late
  (`FencedOf`), and that a success comes from an ACTIVE link (`SawOf`).

`ChatProjectionProofs`:

* `TypeCorrect`, and `CopiesCorrect` (CopiesExact: AtMostOneCopy and ProjectedIsVisible).
  `ClaimInv` ties claims in memory to row versions so that two workers never
  send for one row, `SendInv` says a worker about to POST either makes the first
  attempt or has seen a history without the message, `IdInv` that an attached
  id stands for a copy.
* `SettledCorrect`: a settled row and a stored id are final.
* `EchoImplementsProjection`: `EchoSpec => Spec` of `ChatProjection`, so that all of
  the above holds beside the webhooks.
* `HeardCorrect`: `EchoInv` ties what a worker has read of its event to the claim it
  holds (`ClaimRight`) and an event's status to its effect (`EventRight`). The id of
  a copy, once stored, stays stored; that is why an echo known at the claim is
  still recognised at the commit.
* `RemapCorrect` from `BindingInv`: nothing revokes a binding, so whoever read it
  ACTIVE may rely on it.
* `WebhookPromiseKept`: `EchoSpec => HookPromise!Spec`, and with `RemapCorrect`
  `WebhookEffectsCorrect`. The commit decides its event (`CommitDecides`); the count of
  what was heard grows by exactly one because what was heard before is PROCESSED
  (`EventRight`) and the event is not; a claim gives up the events whose last attempt was
  lost (`RecoveryDrops`); a stale worker moves nothing.

`VkDialogProofs`:

* `TypeCorrect`: types, and a lease exactly while an event is PROCESSING.
* `PromiseKept`: `Spec => DecidedOnce`, that is `Promise!Spec`. Completing an
  event decides it (`SettleDecides`: the status is part of the fence), a claim
  gives up exactly the events whose last attempt was lost (`ClaimDrops`), and
  everything else is a stuttering step.
* `EchoCorrect` (EchoSafe: OwnEchoHarmless, SentIsAdmitted, HumanHeard) and
  `OrderCorrect` (TakeoverOrder) from `VkInv`. It adds `RowInv` (a plan needs an
  accepted message, a row a dispatched plan, so nothing reopens a dead row),
  `SendInv` (who is about to send holds an admitted row, who has a receipt to
  store has sent), `ChatInv` (VK's numbers are never reused and only numbered
  messages are reported) and `HeardInv` (the high-water mark is the number of the
  last reply that took over). `OutQuiet` and `EvGrows` say once what bulk
  updates and the queue may do, so that most actions need one line.

`SelfBookingProofs`:

* `SelfBookingTypeCorrect`, `OneBookingCorrect` (OneBookingOnePair) and
  `BooksAsConfirmedCorrect` from `BookInv`: a claim is exclusive and its row stays READY
  until the commit (`ClaimInv`); the message being accepted holds the conversation
  (`InboundInv`); only the pair of the admission row is stored (`AdmitInv`); one row
  is READY (`OneReady`); and the backend has seen no key but those of confirmations
  (`KeysInv`).
* `PlaintextCorrect` (PlaintextOnce) from `PiiInv`: who is past the row lock found the
  value still there, and who took it was the last to find it. This needs that "unlocked" is
  not a caller, which the module assumes.
* `SpoolTypeCorrect`, `SpoolKeepsCorrect` and `FencedReadCorrect` for the attachment
  spool. No transaction spans a row and its file, so `SpoolInv` has a part for each
  side: `ObjInv` (one attachment: row and file), `LeaseInv` (what a consumer holds) and
  `MaintInv` (what a maintenance pass found is still so when it acts). Interference is
  stated once: `Steady` is what no step does to an attachment (a removal is not
  undone, a file that is gone does not return, a lease is not renewed), `RowKept` what
  none does to a row another has locked. Each actor's part holds under those two, and each
  action keeps them.

`RequestsProofs` (TeyaRequests, MasterCommands, IdentityGraph, BuyerCard):

* `TeyaTypeCorrect`, `ServedOnceCorrect` (RequestServedOnce) and `BreakerCorrect`
  (BreakerProtects) from `TeyaInv`: at most one contact and deal and one note and task of
  each text (`WrittenTexts`), one key, the breaker's row agrees with the failures counted
  and the steps let through (`BreakerKnows`, `BreakerCounts`), and a verdict of the
  reconciliation that found the request closed is still right when it is written,
  because bookings are never undone. A step of the worker is a set of outcomes; the
  lemmas say what is in those sets.
* `MasterTypeCorrect` and `CommandCorrect` (CommandOnceAsPreviewed) for
  `MasterCommands`, from `MasterInv`: every POST of a row carries the row's key and no
  key is applied twice (`KeyInv`), success stands for a POST that landed (`ToldInv`),
  at most one command is open (`OneOpen`), and what a callback saw lapsed is lapsed as long as it is
  open (`HandInv`). `RowMoves` is what any step may make of a row: the key is
  given once, and nothing is removed or reopened. AppliedOnce does not rest on the
  row lock but on that key.
* `OneIdentityCorrect` from `GraphInv`: the unique indexes as equations (`LinksInv`),
  NoOrphanCanonical, AnswerNamesOwner, one holder of the conversation's lock whose
  reading is still right (`SessionsInv`), closed cases that name the conversation's
  identity (`CasesInv`), and no e-mail stored as CONFIRMED (`EmailInv`).
* `CardCorrect` (CardOnVerifiedContact) from `CardInv`. No constraint of the schema
  limits the cards of an identity, so the lock must: `AttachInv` says that who is about
  to insert holds the row lock, that nothing was linked when it looked, and that
  meanwhile links only become fewer (revoke takes no lock; attach does).
  `CardOpInv` says what an operation remembers, in particular that a contact found
  by phone was the only match when no page was left.

`WorkersProofs`:

* `OneHonestWorkerCorrect` from `RuntimeInv`: a process between acquisition and release
  owns the lock unless a session was lost (`LockInv`), the heartbeat rows are of one
  generation (`BeatInv`), and a task that owns its row knows the row's count
  (`CountInv`).
* `PublicationCorrect` from `CpInv`. What is remembered may run ahead of the commit, so
  the invariant follows a readiness from the transaction that sets it (`TxInv`) over
  the row and the memory (`RowInv`, `MemInv`) to a load and a build under way
  (`LoadInv`, `BuildInv`): without a verification a row only gets worse.
* `RotationCorrect` from `RotationInv`: `OpKnows` says what a caller may conclude from
  the pair it read, the one it was issued and the lease.
* `LeadFilledCorrect` from `AnaInv`: one transaction works on an item, and with the
  PATCH before it nothing of the item has landed.

`ServicesProofs`:

* `ServicesCompose`: `MCServicesSpec` implies the specification of every component in
  it, `TechnicalDeal` under the mirror's steps included (`MirrorMakesDealSteps`), so
  the theorems above hold of what the `services` run explores. MirrorQueue's own specification is the
  exception: a behaviour with focus "deal" moves the deal without the queue.
* `ServicesTypesCorrect` (ServicesTypeOK) from it and the five type theorems.

Only model-checked: liveness, which is outside this prover's reach (DialogSettles,
VkSettles, ProjectionSettles and with it RowsSettleForGood, whose other half is
`SettledCorrect`, NothingOutlives, EveryItemSettles, DueIsRefreshed, BadProcessStops,
GraceEnds).

## 10. Findings

* `dialog_stale_offer`: `services/inbound.py:181` says every other inbound clears
  the active offer; a reply already ADMITTED re-activates its offer afterwards.
* `deal_revoke_race`: ADR-004 says one technical deal per conversation;
  `revoke_active` revokes the link that is ACTIVE at that time, not the one whose
  deal was not found, and a second deal is created.
* `projection_skip`: `_prepare_send` raises inside the session scope after
  `skip_with_lease`, so the skip is rolled back while it is reported.
* `teya_self_booked`: `_step_contact_route` says a self-booked request is DONE after
  the contact route; it decides that by `result_code`, which a failed read at the
  start of the step overwrites, and the next attempt books a second appointment.

A remark without a run: ADR-004 names admission as the point at which
OUTBOUND_DELIVERED_META is enqueued; the code enqueues it with DELIVERED, which
is what `MirrorExact` checks.

## 11. What is not modelled

* The booking flow: a decision procedure over the answers of the booking backend;
  `Dialog` and `SelfBooking` take its outcomes as inputs.
* The PII gateway, the assembly of prompts, context selection and scoring: text
  processing without effect on the state modelled here.
* HTTP transports, request signing and response parsing: a response is its parsed
  meaning or an error.
* The closed-test entry of the ingress, the switches that turn egress, takeover or
  deal creation off, the parsers' grammars, encryption.
* Configuration, API wiring, CLIs, migrations and scripts.

Hazards that no property covers, because the code makes no promise a property could
state:

* `outbound_arbiter.py:216`: an OFFER_SLOTS row whose slot ids do not parse rolls
  DELIVERED back on every attempt and is reclaimed without an attempt limit
  (`dialog_offers` reaches it; the liveness run leaves the unparsable result out).
* `amocrm_crm_ops.py:285`: RECONCILE_REQUIRED ends only through an operator who names
  an existing deal; nothing releases the row when the POST never landed.
* `ingress.py:410`: webhook and operator seed lock binding and conversation in
  opposite orders; PostgreSQL aborts one (`HookRaises`, `SeedAborts`).
* `master_command_flow.py:171`: a repeated callback that waited for the lock may
  confirm the command previewed in the meantime; `master_command_http.py:160`: 502
  and 504 end a command as FAILED although it may have been applied.
* `booking_request_http.py:281`: an unreadable answer to a booking that was made ends
  in FAIL_CLOSED, which the reconciliation never scans.
* `integration_circuit_breakers.py:151`: `try_claim_probe` expires every object of the
  session; only modelled as a possible crash of the step.
* `self_booking_create_pendings.py:321`: a READY row with all attempts used is not
  claimable and is expired only when two workers raced for it.
* `booking_method_remote.py:186`: one item that does not parse fails its page on every
  tick; the model's feed lists valid items only.
