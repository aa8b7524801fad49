---------------------------- MODULE SelfBooking -----------------------------
(***************************************************************************)
(* A client books for himself: his phone and name are admitted once and    *)
(* kept as an encrypted pair, the message that confirms an offered slot    *)
(* stores a pending CREATE under the dialog's fences, and a worker turns   *)
(* the pending row into a booking.                                         *)
(*                                                                         *)
(* Transactions and locks.  Accepting a message locks the conversation     *)
(* first and an active pending row second; the worker claims the row (its  *)
(* UPDATE holds the row lock) and then locks the conversation for the      *)
(* fence check, keeping both locks over the POST until its commit.  The    *)
(* two orders can meet in a deadlock, which the database ends by aborting  *)
(* either transaction.  The encrypted pair is read and deleted in          *)
(* transactions of its own, so a deletion survives a rolled-back claim.    *)
(*                                                                         *)
(* Abstractions: one conversation, one admission request, one offered      *)
(* slot; the three fences are one counter which every client or manager    *)
(* message advances; EXECUTING and its lease never outlive the transaction *)
(* that set them and stand for "claimed" in the worker; a pair is named    *)
(* after the call that stored it, an idempotency key after the message it  *)
(* was minted for; bad answers and crashes cost a unit of the fault budget.*)
(***************************************************************************)
EXTENDS Naturals, FiniteSets

CONSTANTS ConfirmMsgs,    \* messages that confirm the slot, delivered in order: 1..n
          AdmitCalls,     \* calls of the PII admission endpoint for the one request
          Contents,       \* phone and name, after canonicalization
          BookWorkers,    \* workers, more than one while a deployment overlaps
          MaxCreateAttempts, \* DEFAULT_MAX_ATTEMPTS
          MaxDialogEvents,   \* bound: messages in the conversation
          MaxBookFaults      \* bound: bad answers, aborts and crashes

ASSUME SelfBookingConstants ==
  /\ ConfirmMsgs \subseteq Nat \ {0} /\ AdmitCalls \subseteq Nat \ {0}
  /\ MaxCreateAttempts \in Nat \ {0} /\ MaxDialogEvents \in Nat /\ MaxBookFaults \in Nat

VARIABLES dlg,        \* the conversation: fences, automatic replies allowed, slot offered
          pairs,      \* readable halves of the pair each admission call stored
          admission,  \* the admission row: its pair (0: none) and the MAC of its content
          admits,     \* the admission calls
          creates,    \* the pending row of each confirming message
          inbound,    \* the message being accepted: it holds the conversation lock
          booker,     \* what each worker is doing
          made,       \* idempotency keys the salon has booked
          bookFaults

bookVars == <<dlg, pairs, admission, admits, creates, inbound, booker, made, bookFaults>>

Halves == {"phone", "name"}
NoAdmission == [pair |-> 0, content |-> 0]
NoCreate == [st |-> "ABSENT", att |-> 0, fence |-> 0, pair |-> 0]
NoInbound == [msg |-> 0, verdict |-> "none"]
Unemployed == [ph |-> "idle", msg |-> 0]
CreateStates == {"ABSENT", "READY", "SUCCEEDED", "FAILED", "CANCELLED", "EXPIRED"}

SelfBookingInit ==
  /\ dlg = [ver |-> 0, auto |-> TRUE, offer |-> TRUE]
  /\ pairs = [c \in AdmitCalls |-> {}]
  /\ admission = NoAdmission
  /\ admits = [c \in AdmitCalls |-> [ph |-> "idle", content |-> 0, pair |-> 0]]
  /\ creates = [m \in ConfirmMsgs |-> NoCreate]
  /\ inbound = NoInbound
  /\ booker = [w \in BookWorkers |-> Unemployed]
  /\ made = {}
  /\ bookFaults = 0

BookFault(n) == bookFaults + n <= MaxBookFaults /\ bookFaults' = bookFaults + n

-----------------------------------------------------------------------------
(* Admission of phone and name.                                            *)

\* Both halves are stored, unexpired and bound to this conversation and purpose.
PairAlive(c) == c # 0 /\ pairs[c] = Halves

\* Mutant: answer a repeated request without comparing its content with the stored one.
SameContentAny(content) == TRUE

\* verify_booking_pii_admission_content_mac, with the key the stored MAC names.
SameContent(content) == admission.content = content

\* _replay_existing: conflict, expired, or the references stored before.
Replayed(c, content) ==
  [ph |-> IF SameContent(content) /\ PairAlive(admission.pair) THEN "ok" ELSE "refused",
   content |-> content, pair |-> admission.pair]

\* The call reads the admission row first; absent, it goes on to store.
AdmitLooks(c, content) ==
  /\ admits[c].ph = "idle"
  /\ \A b \in AdmitCalls : b < c => admits[b].ph # "idle"
  /\ admits' = [admits EXCEPT ![c] = IF admission = NoAdmission
                                       THEN [ph |-> "absent", content |-> content, pair |-> 0]
                                       ELSE Replayed(c, content)]
  /\ UNCHANGED <<dlg, pairs, admission, creates, inbound, booker, made, bookFaults>>

\* Mutant: the lost race keeps the pair it stored.
LostRaceKeeps(c) == [pairs EXCEPT ![c] = Halves]

\* _ConcurrentAdmission rolls the stored pair back.
LostRace(c) == pairs

\* store_booking_phone_write_pair and insert_if_absent, one transaction; a lost race is rolled back and replayed.
AdmitStores(c) ==
  /\ admits[c].ph = "absent"
  /\ IF admission = NoAdmission
       THEN /\ pairs' = [pairs EXCEPT ![c] = Halves]
            /\ admission' = [pair |-> c, content |-> admits[c].content]
            /\ admits' = [admits EXCEPT ![c].ph = "ok", ![c].pair = c]
       ELSE /\ pairs' = LostRace(c)
            /\ admits' = [admits EXCEPT ![c] = Replayed(c, admits[c].content)]
            /\ UNCHANGED admission
  /\ UNCHANGED <<dlg, creates, inbound, booker, made, bookFaults>>

\* The store or the key fails, or the process stops: nothing is kept.
AdmitFails(c) ==
  /\ admits[c].ph = "absent"
  /\ admits' = [admits EXCEPT ![c].ph = "refused"]
  /\ BookFault(1)
  /\ UNCHANGED <<dlg, pairs, admission, creates, inbound, booker, made>>

\* A half reaches its expires_at.
HalfExpires(c, h) ==
  /\ h \in pairs[c]
  /\ BookFault(1)
  /\ pairs' = [pairs EXCEPT ![c] = @ \ {h}]
  /\ UNCHANGED <<dlg, admission, admits, creates, inbound, booker, made>>

-----------------------------------------------------------------------------
(* The dialog, as far as self-booking depends on it.                       *)

DialogUnlocked == inbound = NoInbound

\* Another client message: it advances the fences and withdraws the offer.
ClientWrites ==
  /\ DialogUnlocked /\ dlg.ver < MaxDialogEvents
  /\ dlg' = [dlg EXCEPT !.ver = @ + 1, !.offer = FALSE]
  /\ UNCHANGED <<pairs, admission, admits, creates, inbound, booker, made, bookFaults>>

\* A manager writes or takes the dialog over.
ManagerTakesOver ==
  /\ DialogUnlocked /\ dlg.ver < MaxDialogEvents
  /\ dlg' = [dlg EXCEPT !.ver = @ + 1, !.auto = FALSE]
  /\ UNCHANGED <<pairs, admission, admits, creates, inbound, booker, made, bookFaults>>

\* The handoff ends; an offer is delivered again.  Neither advances the fences.
BotResumes ==
  /\ DialogUnlocked /\ ~dlg.auto
  /\ dlg' = [dlg EXCEPT !.auto = TRUE]
  /\ UNCHANGED <<pairs, admission, admits, creates, inbound, booker, made, bookFaults>>

OfferDelivered ==
  /\ DialogUnlocked /\ dlg.auto /\ ~dlg.offer
  /\ dlg' = [dlg EXCEPT !.offer = TRUE]
  /\ UNCHANGED <<pairs, admission, admits, creates, inbound, booker, made, bookFaults>>

-----------------------------------------------------------------------------
(* Confirmation.                                                           *)

\* Rows the worker has claimed: their row locks are held.
RowHeld(m) == \E w \in BookWorkers : booker[w] = [ph |-> "claimed", msg |-> m]

ActiveRows == {m \in ConfirmMsgs : creates[m].st = "READY"}

\* resolve_slot, get_by_request, pair_alive, get_by_confirm and the conversation's own guards, in this order.
ConfirmVerdict(m) ==
  IF /\ dlg.offer
     /\ admission # NoAdmission
     /\ PairAlive(admission.pair)
     /\ creates[m] = NoCreate
     /\ dlg.auto
  THEN "admit" ELSE "skip"

\* accept() locks the conversation; the admission checks up to lock_active_by_conversation run under it.
ConfirmBegins(m) ==
  /\ DialogUnlocked /\ dlg.ver < MaxDialogEvents
  /\ creates[m] = NoCreate
  /\ \A k \in ConfirmMsgs : k < m => creates[k] # NoCreate
  /\ inbound' = [msg |-> m, verdict |-> ConfirmVerdict(m)]
  /\ UNCHANGED <<dlg, pairs, admission, admits, creates, booker, made, bookFaults>>

\* Mutant: admit beside an active row.
NoActiveAlways == TRUE

\* lock_active_by_conversation, and the partial unique index behind it.
NoActive == ActiveRows = {}

\* admit_confirmed with the fences this message just advanced; it waits for the lock of an active row.
ConfirmCommits ==
  /\ inbound # NoInbound
  /\ inbound.verdict = "admit" => \A m \in ActiveRows : ~RowHeld(m)
  /\ dlg' = [dlg EXCEPT !.ver = @ + 1]
  /\ creates' = IF inbound.verdict = "admit" /\ NoActive
                  THEN [creates EXCEPT ![inbound.msg] =
                          [st |-> "READY", att |-> 0, fence |-> dlg.ver + 1, pair |-> admission.pair]]
                  ELSE creates
  /\ inbound' = NoInbound
  /\ UNCHANGED <<pairs, admission, admits, booker, made, bookFaults>>

\* The accepting transaction is aborted (the process stops, or it is chosen as the deadlock's victim).
ConfirmAborts ==
  /\ inbound # NoInbound
  /\ BookFault(1)
  /\ inbound' = NoInbound
  /\ UNCHANGED <<dlg, pairs, admission, admits, creates, booker, made>>

-----------------------------------------------------------------------------
(* Execution.                                                              *)

\* claim_one: pick a claimable id and give its row lock back with the commit.
WorkerPicks(w, m) ==
  /\ booker[w] = Unemployed
  /\ creates[m].st = "READY" /\ creates[m].att < MaxCreateAttempts
  /\ ~RowHeld(m)
  /\ booker' = [booker EXCEPT ![w] = [ph |-> "picked", msg |-> m]]
  /\ UNCHANGED <<dlg, pairs, admission, admits, creates, inbound, made, bookFaults>>

\* Mutant: process_one claims whatever attempts the row already has.
ExhaustedNever(m) == FALSE

Exhausted(m) == creates[m].att >= MaxCreateAttempts

\* claim_for_execution by id: expire a row that ran out of attempts meanwhile, claim a READY one, or give up.
WorkerClaims(w) ==
  LET m == booker[w].msg IN
  /\ booker[w].ph = "picked" /\ ~RowHeld(m)
  /\ \/ /\ creates[m].st = "READY" /\ Exhausted(m)
        /\ creates' = [creates EXCEPT ![m].st = "EXPIRED"]
        /\ booker' = [booker EXCEPT ![w] = Unemployed]
     \/ /\ creates[m].st = "READY" /\ ~Exhausted(m)
        /\ booker' = [booker EXCEPT ![w].ph = "claimed"]
        /\ UNCHANGED creates
     \/ /\ creates[m].st # "READY"
        /\ booker' = [booker EXCEPT ![w] = Unemployed]
        /\ UNCHANGED creates
  /\ UNCHANGED <<dlg, pairs, admission, admits, inbound, made, bookFaults>>

\* Mutant: post without looking at the conversation again.
FencesStaleNever(r) == FALSE

\* cancel_if_conversation_fences_stale: taken over, or any fence moved since the confirmation.
FencesStale(r) == ~dlg.auto \/ dlg.ver # r.fence

\* Mutant: a fresh key for every attempt.
CreateKeyPerAttempt(m) == <<m, creates[m].att + 1>>

\* The key stored with the row at confirmation.
CreateKey(m) == <<m, 0>>

\* What execute leaves: the row's state, whether the salon has booked, the halves deleted, the faults it took.
Executed(st, booked, deleted, cost) == [st |-> st, booked |-> booked, deleted |-> deleted, cost |-> cost]

\* Mutant: delete the pair after an answer that asks for a retry, too.
RetryDeletesPair == Halves

\* release_to_ready keeps the pair.
RetryDeletes == {}

\* What the POST of one key comes back with: a success, an error of the salon's table, an error status outside
\* it, no usable answer (timeout, transport, size), a 200 that does not parse; and whether the booking then exists.
PostReplies(had) ==
  {[code |-> "OK", booked |-> TRUE], [code |-> "RESPONSE_INVALID", booked |-> TRUE], [code |-> "REFUSED", booked |-> had]}
  \cup [code : {"TIMEOUT", "REMOTE_REJECTED"}, booked : {had, TRUE}]

\* parse_booking_create_success_payload and assert_success_matches_available_slot: a success for another slot,
\* start or master is not one.
SuccessMatches(reply) == reply.code = "OK"

\* _map_create_http_error: what may be tried again, and what ends the row.
RetryLater(reply) == reply.code = "TIMEOUT"

\* _apply_create_result: confirmed (the deletion of either half may fail), released for a retry, or failed.
Applied(reply) ==
  IF SuccessMatches(reply) THEN {Executed("SUCCEEDED", TRUE, d, Cardinality(Halves \ d)) : d \in SUBSET Halves}
  ELSE IF RetryLater(reply) THEN {Executed("READY", reply.booked, RetryDeletes, 1)}
  ELSE {Executed("FAILED", reply.booked, {}, 1)}

\* build_booking_create_remote_request and the client reference: without either nothing is posted.
NotPosted(had) == Executed("FAILED", had, {}, 1)

\* execute() after the claim: fences, PII, request, POST.
ExecutionEnds(m) ==
  LET r == creates[m]
      had == CreateKey(m) \in made
  IN IF FencesStale(r) THEN {Executed("CANCELLED", had, {}, 0)}
     ELSE IF ~PairAlive(r.pair) THEN {Executed("FAILED", had, {}, 0)}
     ELSE {NotPosted(had)} \cup UNION {Applied(p) : p \in PostReplies(had)}

SalonAfter(m, e) == IF e.booked THEN made \cup {CreateKey(m)} ELSE made
PairsAfter(m, e) == [pairs EXCEPT ![creates[m].pair] = @ \ e.deleted]

\* process_one runs to its commit; the claim's attempt is counted with it.
WorkerFinishes(w) ==
  LET m == booker[w].msg IN
  /\ booker[w].ph = "claimed" /\ DialogUnlocked
  /\ \E e \in ExecutionEnds(m) :
       /\ BookFault(e.cost)
       /\ creates' = [creates EXCEPT ![m].st = e.st, ![m].att = @ + 1]
       /\ made' = SalonAfter(m, e)
       /\ pairs' = PairsAfter(m, e)
  /\ booker' = [booker EXCEPT ![w] = Unemployed]
  /\ UNCHANGED <<dlg, admission, admits, inbound>>

\* The worker dies, or is the deadlock's victim, before the fence check.
WorkerAborts(w) ==
  /\ booker[w].ph = "claimed"
  /\ BookFault(1)
  /\ booker' = [booker EXCEPT ![w] = Unemployed]
  /\ UNCHANGED <<dlg, pairs, admission, admits, creates, inbound, made>>

\* The worker dies after the POST, and perhaps after deleting the pair, but before its commit: the row stays READY.
WorkerDies(w) ==
  LET m == booker[w].msg IN
  /\ booker[w].ph = "claimed" /\ DialogUnlocked
  /\ \E e \in ExecutionEnds(m) :
       /\ e.booked
       /\ BookFault(e.cost + 1)
       /\ made' = SalonAfter(m, e)
       /\ pairs' = PairsAfter(m, e)
  /\ booker' = [booker EXCEPT ![w] = Unemployed]
  /\ UNCHANGED <<dlg, admission, admits, creates, inbound>>

SelfBookingNext ==
  \/ \E c \in AdmitCalls : \/ \E x \in Contents : AdmitLooks(c, x)
                           \/ AdmitStores(c) \/ AdmitFails(c)
                           \/ \E h \in Halves : HalfExpires(c, h)
  \/ ClientWrites \/ ManagerTakesOver \/ BotResumes \/ OfferDelivered
  \/ \E m \in ConfirmMsgs : ConfirmBegins(m)
  \/ ConfirmCommits \/ ConfirmAborts
  \/ \E w \in BookWorkers : \/ \E m \in ConfirmMsgs : WorkerPicks(w, m)
                            \/ WorkerClaims(w) \/ WorkerFinishes(w) \/ WorkerAborts(w) \/ WorkerDies(w)

SelfBookingSpec == SelfBookingInit /\ [][SelfBookingNext]_bookVars

-----------------------------------------------------------------------------
(* Properties.                                                             *)

\* Type correctness; a row never counts more attempts than it may make.
SelfBookingTypeOK ==
  /\ dlg \in [ver : 0..MaxDialogEvents, auto : BOOLEAN, offer : BOOLEAN]
  /\ pairs \in [AdmitCalls -> SUBSET Halves]
  /\ admission \in [pair : AdmitCalls \cup {0}, content : Contents \cup {0}]
  /\ admits \in [AdmitCalls -> [ph : {"idle", "absent", "ok", "refused"},
                                content : Contents \cup {0}, pair : AdmitCalls \cup {0}]]
  /\ creates \in [ConfirmMsgs -> [st : CreateStates, att : 0..MaxCreateAttempts,
                                  fence : 0..MaxDialogEvents, pair : AdmitCalls \cup {0}]]
  /\ inbound \in [msg : ConfirmMsgs \cup {0}, verdict : {"none", "admit", "skip"}]
  /\ booker \in [BookWorkers -> [ph : {"idle", "picked", "claimed"}, msg : ConfirmMsgs \cup {0}]]
  /\ bookFaults \in 0..MaxBookFaults

\* However often the POST is repeated after a timeout, a crash or by another worker, a confirmation books once.
ConfirmBooksOnce == \A j, k \in made : j[1] = k[1] => j = k

\* Nobody but the confirmed dialog books: a booking is made only while replies are automatic and
\* nothing was said since the confirmation (the worker's check and its POST are not separated by a message).
BooksOnlyWhileConfirmed ==
  [][\A k \in made' \ made : dlg.auto /\ \E m \in ConfirmMsgs : k[1] = m /\ creates[m].fence = dlg.ver]_bookVars

\* Two concurrent calls of one admission request: every accepted caller holds the same pair, it was stored from
\* what that caller sent, and no pair is left behind that no admission refers to.
AdmissionExact ==
  /\ \A c \in AdmitCalls : admits[c].ph = "ok" => /\ admits[c].pair = admission.pair
                                                  /\ admits[c].content = admission.content
  /\ \A c \in AdmitCalls : pairs[c] # {} => admission.pair = c

\* One conversation never has two CREATE commands waiting, whichever transactions overlap.
OneActiveCreate == Cardinality(ActiveRows) <= 1

\* The bot removes a half of the pair only once the booking it was admitted for is made: what is removed from
\* under a waiting row, other than by its TTL, belongs to a booking that exists.
PairKeptForRetry ==
  [][\A m \in ConfirmMsgs : \A w \in BookWorkers :
       (booker[w] = [ph |-> "claimed", msg |-> m] /\ booker'[w] = Unemployed /\ pairs' # pairs)
         => CreateKey(m) \in made' /\ (creates'[m].st = "READY" => creates' = creates)]_bookVars

\* One booking per confirmation, one waiting CREATE per conversation, one stored
\* pair per admission.
OneBookingOnePair ==
  /\ ConfirmBooksOnce
  /\ AdmissionExact
  /\ OneActiveCreate

\* The worker books only what the dialog still confirms, and keeps the pair while
\* a retry needs it.
BooksAsConfirmed ==
  /\ BooksOnlyWhileConfirmed
  /\ PairKeptForRetry
=============================================================================
