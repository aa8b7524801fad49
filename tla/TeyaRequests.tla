---------------------------- MODULE TeyaRequests ----------------------------
(***************************************************************************)
(* The orchestration of one online-booking request ("Teya" request): the   *)
(* feed stores a pending row, every claim of the worker carries it one     *)
(* step (contact and deal in amoCRM, note and task, contact route, slot,   *)
(* booking POST, post-check), and a reconciliation worker repairs rows     *)
(* from what the salon and amoCRM really hold.                             *)
(*                                                                         *)
(* process_one is ONE transaction: the claim (attempt_count + 1), the      *)
(* remote calls and the advance commit together.  A crash inside it rolls  *)
(* the row and the breaker back while what was posted stays posted, so a   *)
(* step is a set of outcomes [row, amo, salon, brk, cost] which the action *)
(* either commits or, when the worker dies, applies to amoCRM and the      *)
(* salon only.  The reconciliation tick reads the row without a lock, asks *)
(* the remote systems, and writes later, by primary key, only the columns  *)
(* its stale copy shows as changed.                                        *)
(*                                                                         *)
(* The text of the note embeds the request's status and is the fingerprint *)
(* the next attempt looks for, so a request whose status changes between   *)
(* two attempts gets another note; so does one with several appointments.  *)
(*                                                                         *)
(* Abstractions: one request; ids are "known or not"; next_retry_at and    *)
(* the leases (never visible outside the transaction that took them) are   *)
(* left out, any delay may have elapsed; every answer other than the good  *)
(* one costs a unit of the fault budget; what was posted is visible to the *)
(* next lookup; the CRM client is bound.  selected_starts_at has no writer *)
(* in the repository, so the choice of a slot is an external action.       *)
(* half_open_successes of the breaker is 1, its default.                   *)
(***************************************************************************)
EXTENDS Naturals, FiniteSets

CONSTANTS MaxAttempts,     \* max_attempts of the row
          BreakerThreshold,\* failure_threshold of the circuit breaker
          MaxTeyaFaults    \* bound: bad answers and crashes in one behaviour

ASSUME TeyaConstants == MaxAttempts \in Nat \ {0} /\ BreakerThreshold \in Nat \ {0} /\ MaxTeyaFaults \in Nat

VARIABLES pend,      \* the teya_request_pendings row
          amo,       \* contacts, open deals, closed deals, notes and tasks of the client in amoCRM
          salon,     \* keys booked for the request, its status as the staff set it
          brk,       \* the amoCRM business-writes circuit breaker
          recon,     \* the reconciliation tick: phase, its copy of the row, its verdict
          outage,    \* history: failures the breaker counted in a row, steps let through since it opened or ripened
          told,      \* the lookup told the worker that the client booked for himself
          teyaFaults

teyaVars == <<pend, amo, salon, brk, recon, outage, told, teyaFaults>>

Terminal == {"DONE", "FAIL_CLOSED", "RECONCILIATION_REQUIRED", "MANUAL_REVIEW"}
Working == {"DISCOVERED", "IDENTITY", "CRM_READY", "RECONCILED", "CONTACT_ROUTE",
            "READY_TO_BOOK", "WAITING_CONTACT", "BOOKING", "VERIFYING"}
ReconStates == {"VERIFYING", "BOOKING", "RECONCILIATION_REQUIRED", "IDENTITY", "CRM_READY", "MANUAL_REVIEW"}
CrmReconStates == {"IDENTITY", "CRM_READY", "RECONCILIATION_REQUIRED", "MANUAL_REVIEW"}

\* The texts of a note (its status part, or that of several appointments) and of a task.
NoteTexts == {"NEW", "TAKEN", "CLOSED", "AMBIGUOUS"}
TaskTexts == {"default", "game", "selfbooked"}

\* What the salon says of the request: a plain one, one that comes from the game, one without a service, one without a phone.
Asks == {"plain", "game", "noservice", "nophone"}

\* A stored row; code keeps the three result codes the code or a reader tells apart.
Discovered(ask) == [st |-> "DISCOVERED", ask |-> ask, att |-> 0, contact |-> FALSE, deal |-> FALSE,
                    task |-> FALSE, code |-> "other", starts |-> FALSE, key |-> 0]
NoRequest == [Discovered("plain") EXCEPT !.st = "ABSENT"]
NoVerdict == [act |-> "none", contact |-> FALSE, deal |-> FALSE, task |-> FALSE]
ReconIdle == [ph |-> "idle", copy |-> NoRequest, verdict |-> NoVerdict]
Client(contacts, closedDeals) == [contacts |-> contacts, deals |-> 0, closedDeals |-> closedDeals,
                                  notes |-> [t \in NoteTexts |-> 0], tasks |-> [t \in TaskTexts |-> 0]]

TeyaInit ==
  /\ pend = NoRequest
  /\ amo = Client(0, 0)
  /\ salon = [booked |-> {}, status |-> "NEW"]
  /\ brk = [st |-> "CLOSED", fails |-> 0, ripe |-> FALSE]
  /\ recon = ReconIdle
  /\ outage = [streak |-> 0, steps |-> 0]
  /\ told = FALSE
  /\ teyaFaults = 0

\* dto.status = "CLOSED" with an appointment id.
RequestClosed(s) == s.status = "CLOSED" \/ s.booked # {}

\* build_teya_structured_note: what tells two notes of one request apart is the status at the salon.
NoteText(s) == IF RequestClosed(s) THEN "CLOSED" ELSE s.status

\* build_teya_crm_task_text: a game request has a text of its own.
TaskText(r) == IF r.ask = "game" THEN "game" ELSE "default"

-----------------------------------------------------------------------------
(* What a read or a write of amoCRM may answer.                            *)

Reply(out, a, cost) == [out |-> out, amo |-> a, cost |-> cost]

\* A read that does not answer: transient, disabled or without a token, permanent or incomplete.
ReadFails(a) == {Reply("RETRY", a, 1), Reply("MANUAL", a, 1), Reply("FAIL", a, 1)}

\* An accepted write is verified, or its post-check fails.
PostChecked(b) == {Reply("READY", b, 0), Reply("RECON", b, 1)}

\* _map_write of a POST or PATCH whose effect is b: accepted; lost or timed out before or after
\* the effect; refused.
Posted(a, b) == PostChecked(b) \cup {Reply("RETRY", a, 1), Reply("RETRY", b, 1), Reply("FAIL", a, 1)}

\* The replies of a second call after one that cost so much.
Later(replies, cost) == {[r EXCEPT !.cost = @ + cost] : r \in replies}

\* A create that answered RETRY is followed by a second lookup, which settles it when the write has landed (amoCRM is not
\* as it was before, a).
LookAgain(a, replies) ==
  UNION {IF r.out = "RETRY" /\ r.amo # a
           THEN {Reply("READY", r.amo, r.cost), Reply("RETRY", r.amo, r.cost + 1)}
           ELSE {r} : r \in replies}

CreateContact(a) == Posted(a, [a EXCEPT !.contacts = @ + 1])
CreateBusinessLead(a) == Posted(a, [a EXCEPT !.deals = @ + 1])

\* PATCH the one unrealized deal back to the open status (after a GET that checks it still is unrealized).
ReanimateLead(a) == Posted(a, [a EXCEPT !.deals = @ + 1, !.closedDeals = @ - 1])

\* Mutant: create the contact without looking the phone up first.
EnsureContactBlind(a) == CreateContact(a)

\* The contact half of ensure_contact_and_deal: look the phone up, create when nobody has it.
EnsureContact(a) ==
  ReadFails(a) \cup
  (IF a.contacts > 1 THEN {Reply("MANUAL", a, 0)}
   ELSE IF a.contacts = 1 THEN {Reply("READY", a, 0)}
   ELSE LookAgain(a, CreateContact(a)))

\* The deal half: the one open deal, else the one closed deal reanimated, else a new one.
EnsureDeal(a) ==
  ReadFails(a) \cup
  (IF a.deals > 1 THEN {Reply("MANUAL", a, 0)}
   ELSE IF a.deals = 1 THEN {Reply("READY", a, 0)}
   ELSE IF a.closedDeals > 1 THEN {Reply("MANUAL", a, 0)}
   ELSE IF a.closedDeals = 1 THEN ReanimateLead(a)
   ELSE LookAgain(a, CreateBusinessLead(a)))

EnsureContactAndDeal(a) ==
  UNION {IF r.out = "READY" THEN Later(EnsureDeal(r.amo), r.cost) ELSE {r} : r \in EnsureContact(a)}

AddLeadNote(a, note) == Posted(a, [a EXCEPT !.notes[note] = @ + 1])

\* Mutant: post the note without looking for one with the same text.
EnsureLeadNoteBlind(a, note) == AddLeadNote(a, note)

\* Post the note unless one with the same text is there; a failed post-check still counts as verified.
EnsureLeadNote(a, note) ==
  ReadFails(a) \cup
  (IF a.notes[note] > 1 THEN {Reply("MANUAL", a, 0)}
   ELSE IF a.notes[note] = 1 THEN {Reply("READY", a, 0)}
   ELSE AddLeadNote(a, note))

\* The active tasks of the deal with this text, type and responsible user.
ListActiveTasks(a, text) == a.tasks[text]

EnsureLeadTask(a, text) ==
  ReadFails(a) \cup
  (IF ListActiveTasks(a, text) > 1 THEN {Reply("MANUAL", a, 0)}
   ELSE IF ListActiveTasks(a, text) = 1 THEN {Reply("READY", a, 0)}
   ELSE Posted(a, [a EXCEPT !.tasks[text] = @ + 1]))

AttachNoteAndTask(a, note, text) ==
  UNION {IF r.out = "READY" THEN Later(EnsureLeadTask(r.amo, text), r.cost) ELSE {r} : r \in EnsureLeadNote(a, note)}

\* ensure_lead_analytics_enum_if_empty as the orchestrator uses it: everything but RETRY ends in DONE.
ApplyAnalytics(a) == {Reply("READY", a, 0), Reply("RETRY", a, 1)}

-----------------------------------------------------------------------------
(* The circuit breaker.                                                    *)

\* Mutant: the claim does not start the lease of the probe.
ProbeClaimedUnleased(b) == IF b.st # "CLOSED" /\ b.ripe THEN [b EXCEPT !.st = "HALF_OPEN"] ELSE b

\* try_claim_probe: one step through per cooldown, or per probe lease that ran out.
ProbeClaimed(b) == IF b.st # "CLOSED" /\ b.ripe THEN [b EXCEPT !.st = "HALF_OPEN", !.ripe = FALSE] ELSE b

RecordSuccess(b) == [st |-> "CLOSED", fails |-> 0, ripe |-> FALSE]

\* Mutant: the breaker opens one failure late.
RecordFailureLate(b) ==
  IF b.st = "HALF_OPEN" THEN [st |-> "OPEN", fails |-> BreakerThreshold, ripe |-> FALSE]
  ELSE IF b.fails >= BreakerThreshold THEN [st |-> "OPEN", fails |-> BreakerThreshold, ripe |-> FALSE]
  ELSE [b EXCEPT !.fails = @ + 1]

RecordFailure(b) ==
  IF b.st = "HALF_OPEN" THEN [st |-> "OPEN", fails |-> BreakerThreshold, ripe |-> FALSE]
  ELSE IF b.fails + 1 >= BreakerThreshold THEN [st |-> "OPEN", fails |-> BreakerThreshold, ripe |-> FALSE]
  ELSE [b EXCEPT !.fails = @ + 1]

-----------------------------------------------------------------------------
(* The step of a claimed row r: the set of its outcomes.                   *)

Outcome(r, a, s, b, cost) ==
  [row |-> r, amo |-> a, salon |-> s, brk |-> b, cost |-> cost, told |-> FALSE, crm |-> "none"]

\* The guard let the step through to amoCRM; the answer is a success, a counted failure, or neither.
Through(o, crm) == [o EXCEPT !.crm = crm]

\* release_lease with a result code: the state stays, the code of the row is overwritten.
Released(r) == [r EXCEPT !.code = "other"]
Review(r) == [r EXCEPT !.st = "MANUAL_REVIEW", !.code = "other"]
Ended(r, st) == [r EXCEPT !.st = st, !.code = "other"]
Booked(r) == [r EXCEPT !.st = "DONE", !.code = "BOOKED"]

\* _retry: out of attempts goes to the operator.
Retry(r) == IF r.att >= MaxAttempts THEN Review(r) ELSE Released(r)

\* _retry_post_book_analytics: out of attempts is DONE, the booking is durable.
RetryPostBook(r) == IF r.att >= MaxAttempts THEN Booked(r) ELSE Released(r)

\* classify_remote_code of what the salon's API answers to a read.
RemoteKinds == {"RETRY", "FAIL_CLOSED"}

\* _handle_remote_error; after the booking an error only costs the analytics field.
RemoteError(r, kind) ==
  IF r.st = "VERIFYING" THEN (IF kind = "RETRY" THEN RetryPostBook(r) ELSE Booked(r))
  ELSE IF kind = "RETRY" THEN Retry(r) ELSE Ended(r, "FAIL_CLOSED")

\* The request is read first; a failing read ends the step.
GetFails(r, a, s, b) == {Outcome(RemoteError(r, kind), a, s, b, 1) : kind \in RemoteKinds}

\* A CRM answer ends the step: READY goes on to row q; a retry with attempts left counts against the
\* breaker when its code is one of the breaker's own (the lookups may pass other codes on).
CrmEnds(r, q, reply, s, b) ==
  LET ends(row) == {Through(Outcome(row, reply.amo, s, b, reply.cost), "other")} IN
  CASE reply.out = "READY" -> {Through(Outcome(q, reply.amo, s, RecordSuccess(b), reply.cost), "ok")}
    [] reply.out = "RETRY" ->
         ends(Retry(r)) \cup
         (IF r.att >= MaxAttempts THEN {}
          ELSE {Through(Outcome(Retry(r), reply.amo, s, RecordFailure(b), reply.cost), "bad")})
    [] reply.out = "MANUAL" -> ends(Review(r))
    [] reply.out = "FAIL" -> ends(Ended(r, "FAIL_CLOSED"))
    [] reply.out = "RECON" -> ends(Ended(r, "RECONCILIATION_REQUIRED"))

\* Mutant: write to amoCRM whatever the breaker says.
AllowedAlways(b) == TRUE

\* try_claim_probe lets a step through when the breaker is closed, or open (half-open) for long enough.
Allowed(b) == b.st = "CLOSED" \/ b.ripe

\* Once an outage has opened the breaker, a probe that amoCRM does not answer costs no more.
InOutage(b, reply) ==
  IF b.st # "CLOSED" /\ reply.out = "RETRY" /\ reply.cost > 0 THEN [reply EXCEPT !.cost = @ - 1] ELSE reply

\* A step that calls amoCRM behind the breaker and goes on to row q.
GuardedCrm(r, q, replies, a, s, b) ==
  IF Allowed(b) THEN UNION {CrmEnds(r, q, InOutage(b, y), s, ProbeClaimed(b)) : y \in replies}
  ELSE {Outcome(Retry(r), a, s, b, 0)}

StepDiscovered(r, a, s, b) == {Outcome([r EXCEPT !.st = "IDENTITY"], a, s, b, 0)}

StepIdentity(r, a, s, b) ==
  IF r.ask = "nophone"
    THEN {IF Allowed(b) THEN Outcome(Ended(r, "FAIL_CLOSED"), a, s, ProbeClaimed(b), 0)
          ELSE Outcome(Retry(r), a, s, b, 0)}
    ELSE GuardedCrm(r, [r EXCEPT !.st = "CRM_READY", !.contact = TRUE, !.deal = TRUE],
                    EnsureContactAndDeal(a), a, s, b)

StepCrmReady(r, a, s, b) ==
  IF ~r.deal THEN {Outcome(Ended(r, "FAIL_CLOSED"), a, s, b, 0)}
  ELSE GuardedCrm(r, [r EXCEPT !.st = "RECONCILED", !.task = TRUE], AttachNoteAndTask(a, NoteText(s), TaskText(r)),
                  a, s, b)

\* appointments-lookup by phone: no appointment, exactly one, several.
AppointmentsLookup == {"NONE", "UNIQUE", "AMBIGUOUS"}

\* What is written for a game request: several appointments get a note and a task of their own.
GameNote(found, s) == IF found = "AMBIGUOUS" THEN "AMBIGUOUS" ELSE NoteText(s)
GameTask(found) == CASE found = "AMBIGUOUS" -> "default" [] found = "UNIQUE" -> "selfbooked" [] found = "NONE" -> "game"

\* A game request asks whether the client already has an appointment; its writes pass the breaker by,
\* and only RECONCILIATION_REQUIRED of the self-booked branch is acted upon.
StepReconciled(r, a, s, b) ==
  LET on == [r EXCEPT !.st = "CONTACT_ROUTE"]
      writes(found) == IF r.deal THEN AttachNoteAndTask(a, GameNote(found, s), GameTask(found)) ELSE {Reply("READY", a, 0)}
      after(found, y) ==
        CASE found = "AMBIGUOUS" -> Outcome(Ended(r, "RECONCILIATION_REQUIRED"), y.amo, s, b, y.cost)
          [] found = "UNIQUE" ->
               IF y.out = "RECON" THEN Outcome(Ended(r, "RECONCILIATION_REQUIRED"), y.amo, s, b, y.cost)
               ELSE [Outcome([on EXCEPT !.code = "GAME_SELF_BOOKED"], y.amo, s, b, y.cost) EXCEPT !.told = TRUE]
          [] found = "NONE" -> Outcome(on, y.amo, s, b, y.cost) IN
  IF r.ask # "game" THEN {Outcome(on, a, s, b, 0)}
  ELSE UNION {{after(found, y) : y \in writes(found)} : found \in AppointmentsLookup}

\* The route is PHONE_ONLY for want of a canonical identity.
StepContactRoute(r, a, s, b) ==
  {Outcome(IF r.code = "GAME_SELF_BOOKED" THEN [r EXCEPT !.st = "DONE"]
           ELSE IF r.ask = "noservice" THEN [r EXCEPT !.st = "WAITING_CONTACT", !.code = "other"]
           ELSE [r EXCEPT !.st = "READY_TO_BOOK"], a, s, b, 0)}

TerminalWait(r, a, s, b) == {Outcome(IF r.att >= MaxAttempts THEN Review(r) ELSE r, a, s, b, 0)}

\* The idempotency key is drawn once and committed before the POST that uses it.
BookKey(r) == IF r.key = 0 THEN 1 ELSE r.key

StepReadyToBook(r, a, s, b) ==
  {Outcome(IF r.starts THEN [r EXCEPT !.st = "BOOKING", !.key = BookKey(r)]
           ELSE [r EXCEPT !.st = "WAITING_CONTACT", !.code = "other"], a, s, b, 0)}

\* The salon books once per key, and refuses a request a human has closed.
SalonBooks(s, key) == [s EXCEPT !.booked = @ \cup {key}]
SalonRefuses(s, key) == key \notin s.booked /\ s.status = "CLOSED"

\* Mutant: every attempt to book sends a key of its own.
SentKeyPerAttempt(r) == 1 + (r.att % 2)

\* The idempotencyKey of the booking request is the one stored on the row.
SentKey(r) == r.key

StepBooking(r, a, s, b) ==
  IF ~r.starts \/ r.key = 0 THEN {Outcome(Ended(r, "FAIL_CLOSED"), a, s, b, 0)}
  ELSE IF SalonRefuses(s, SentKey(r)) THEN {Outcome(Ended(r, "FAIL_CLOSED"), a, s, b, 0)}
  ELSE LET t == SalonBooks(s, SentKey(r)) IN
       {Outcome([r EXCEPT !.st = "VERIFYING", !.code = "other"], a, t, b, 0)}
       \cup {Outcome(q, a, t, b, 1) : q \in {Retry(r), Ended(r, "FAIL_CLOSED"), Ended(r, "RECONCILIATION_REQUIRED")}}
       \cup {Outcome(q, a, s, b, 1) : q \in {Retry(r), Ended(r, "FAIL_CLOSED"), Ended(r, "RECONCILIATION_REQUIRED"),
                                             Ended(r, "WAITING_CONTACT")}}

\* The post-check of the booking, then the analytics field of the deal; only the field may wait.
StepVerifying(r, a, s, b) ==
  {Outcome(Ended(r, "RECONCILIATION_REQUIRED"), a, s, b, 1)}
  \cup IF ~RequestClosed(s) THEN {Outcome(Ended(r, "RECONCILIATION_REQUIRED"), a, s, b, 0)}
       ELSE IF ~r.deal THEN {Outcome(Booked(r), a, s, b, 0)}
       ELSE {Outcome(IF y.out = "RETRY" THEN RetryPostBook(r) ELSE Booked(r), a, s, b, y.cost) : y \in ApplyAnalytics(a)}

\* process_claimed.
Step(r, a, s, b) ==
  CASE r.st = "DISCOVERED" -> StepDiscovered(r, a, s, b) \cup GetFails(r, a, s, b)
    [] r.st = "IDENTITY" -> StepIdentity(r, a, s, b) \cup GetFails(r, a, s, b)
    [] r.st = "CRM_READY" -> StepCrmReady(r, a, s, b) \cup GetFails(r, a, s, b)
    [] r.st = "RECONCILED" -> StepReconciled(r, a, s, b) \cup GetFails(r, a, s, b)
    [] r.st = "CONTACT_ROUTE" -> StepContactRoute(r, a, s, b) \cup GetFails(r, a, s, b)
    [] r.st = "READY_TO_BOOK" -> StepReadyToBook(r, a, s, b)
    [] r.st = "WAITING_CONTACT" -> TerminalWait(r, a, s, b)
    [] r.st = "BOOKING" -> StepBooking(r, a, s, b) \cup GetFails(r, a, s, b)
    [] r.st = "VERIFYING" -> StepVerifying(r, a, s, b) \cup GetFails(r, a, s, b)

\* Mutant: a claim that does not look at the attempts.
ClaimableAlways(r) == r.st \in Working

\* claim_lease: not terminal and with attempts left; the attempt is counted.
Claimable(r) == r.st \in Working /\ r.att < MaxAttempts
Claimed(r) == [r EXCEPT !.att = @ + 1]

\* Mutant: an exhausted row that was being verified goes to the operator like any other row, and a booking as done.
ExpiredSwapped(r) ==
  IF r.att < MaxAttempts \/ r.st \notin Working THEN r
  ELSE IF r.st \in {"VERIFYING", "BOOKING"} THEN Booked(r) ELSE Review(r)

\* expire_exhausted_to_manual_review, run by the feed, by every claim and by every reconciliation tick.
Expired(r) ==
  IF r.att < MaxAttempts \/ r.st \notin Working THEN r
  ELSE IF r.st = "VERIFYING" THEN Booked(r) ELSE Review(r)

\* The history of the guard: the failures counted in a row, and the steps let through from the one that opened the
\* breaker on; the step that closes it again is the last of them.
Counted(h, crm) ==
  LET streak == IF crm = "ok" THEN 0 ELSE IF crm = "bad" /\ h.streak < BreakerThreshold THEN h.streak + 1 ELSE h.streak
      steps == IF h.streak = BreakerThreshold THEN h.steps + 1 ELSE IF streak = BreakerThreshold THEN 1 ELSE h.steps IN
  IF crm = "none" THEN h ELSE [streak |-> streak, steps |-> steps]

TeyaPays(cost) == teyaFaults + cost <= MaxTeyaFaults /\ teyaFaults' = teyaFaults + cost

-----------------------------------------------------------------------------
(* Actions.                                                                *)

\* ingest_feed: the page carries the request, the row is stored once; the client may already be known to amoCRM.
IngestFeed ==
  /\ IF pend.st = "ABSENT"
       THEN /\ \E ask \in Asks : pend' = Discovered(ask)
            /\ amo' \in {Client(0, 0), Client(1, 0), Client(1, 1)}
       ELSE pend' = Expired(pend) /\ pend' # pend /\ amo' = amo
  /\ UNCHANGED <<salon, brk, recon, outage, told, teyaFaults>>

\* claim_one and process_one.
ProcessOne ==
  /\ Claimable(pend)
  /\ \E o \in Step(Claimed(pend), amo, salon, brk) :
       /\ TeyaPays(o.cost)
       /\ pend' = o.row /\ amo' = o.amo /\ salon' = o.salon /\ brk' = o.brk
       /\ outage' = Counted(outage, o.crm) /\ told' = (told \/ o.told)
  /\ UNCHANGED recon

\* The worker dies before the commit: the row, its attempt and the breaker are as before.
ProcessCrash ==
  /\ Claimable(pend)
  /\ \E o \in Step(Claimed(pend), amo, salon, brk) :
       TeyaPays(o.cost + 1) /\ amo' = o.amo /\ salon' = o.salon
  /\ UNCHANGED <<pend, brk, recon, outage, told>>

\* tick: expire, then select without a lock, then ask, then write.
ReconBegin ==
  /\ recon.ph = "idle" /\ pend.st # "ABSENT"
  /\ pend' = Expired(pend)
  /\ recon' = [recon EXCEPT !.ph = "expired"]
  /\ UNCHANGED <<amo, salon, brk, outage, told, teyaFaults>>

ReconScan ==
  /\ recon.ph = "expired"
  /\ recon' = IF pend.st \in ReconStates THEN [recon EXCEPT !.ph = "scanned", !.copy = pend]
              ELSE [recon EXCEPT !.ph = "idle"]
  /\ UNCHANGED <<pend, amo, salon, brk, outage, told, teyaFaults>>

Verdict(act) == [NoVerdict EXCEPT !.act = act]

\* needs_crm: an id is missing that this state should have.
NeedsCrm(c) ==
  ~c.contact \/ ~c.deal \/ (c.st \in {"CRM_READY", "RECONCILIATION_REQUIRED", "MANUAL_REVIEW"} /\ ~c.task)

\* find_lead_note and find_lead_task: by text, several are ambiguous; they post nothing.
NoteAmbiguous(a, note) == a.notes[note] > 1
TaskAmbiguous(a, text) == a.tasks[text] > 1

\* reconcile_readonly: contact and open deal, then the note and the task by their text.
ReadCrm(a, note, text) ==
  IF a.contacts = 0 \/ (a.contacts = 1 /\ a.deals = 0) THEN "none"
  ELSE IF a.contacts > 1 \/ a.deals > 1 \/ NoteAmbiguous(a, note) \/ TaskAmbiguous(a, text) THEN "manual" ELSE "ready"

OperatorOwned(c) == c.st = "MANUAL_REVIEW" \/ c.att >= MaxAttempts

\* _reconcile_crm on the copy c: what it will write.
CrmVerdict(c, a, s) ==
  LET found == a.tasks[TaskText(c)] = 1
      task == c.task \/ found
      read == ReadCrm(a, NoteText(s), TaskText(c))
      write(act) == [act |-> act, contact |-> TRUE, deal |-> TRUE, task |-> found] IN
  IF c.st \notin CrmReconStates \/ c.ask = "nophone" \/ ~NeedsCrm(c) THEN {[v |-> NoVerdict, cost |-> 0]}
  ELSE {[v |-> Verdict("manual"), cost |-> 1], [v |-> NoVerdict, cost |-> 1]}
       \cup {[cost |-> 0, v |->
               CASE read = "none" -> NoVerdict
                 [] read = "manual" -> Verdict("manual")
                 [] read = "ready" ->
                      IF task THEN write("RECONCILED")
                      ELSE IF OperatorOwned(c) THEN write("MANUAL_REVIEW")
                      ELSE IF c.st \in {"IDENTITY", "RECONCILIATION_REQUIRED"} THEN write("CRM_READY")
                      ELSE write("touch")]}

\* _reconcile_one up to its writes.
ReconVerdicts(c, a, s) ==
  IF RequestClosed(s) THEN {[v |-> Verdict(IF c.deal THEN "VERIFYING" ELSE "booked"), cost |-> 0]}
  ELSE IF c.st = "VERIFYING"
    THEN {[v |-> IF c.att >= MaxAttempts THEN Verdict("manual") ELSE NoVerdict, cost |-> 0]}
  ELSE CrmVerdict(c, a, s) \cup
       (IF c.st = "RECONCILIATION_REQUIRED" /\ c.ask # "nophone" THEN {[v |-> Verdict("manual"), cost |-> 1]} ELSE {})

\* What remains to be written: of the copy, the flush compares only the status and the code.
Asked(c, v) ==
  IF v = NoVerdict THEN ReconIdle
  ELSE [ph |-> "decided", copy |-> [NoRequest EXCEPT !.st = c.st, !.code = c.code], verdict |-> v]

ReconAsk ==
  /\ recon.ph = "scanned"
  /\ \E y \in ReconVerdicts(recon.copy, amo, salon) \cup {[v |-> NoVerdict, cost |-> 1]} :
       /\ TeyaPays(y.cost)
       /\ recon' = Asked(recon.copy, y.v)
  /\ UNCHANGED <<pend, amo, salon, brk, outage, told>>

\* The flush of an ORM row writes the columns that differ from its copy; mark_manual_review writes without a fence.
Repairs(r, c, v) ==
  LET col(new, old, now) == IF new = old THEN now ELSE new
      ids == [r EXCEPT !.contact = @ \/ v.contact, !.deal = @ \/ v.deal, !.task = @ \/ v.task] IN
  CASE v.act = "none" -> {r}
    [] v.act = "touch" -> {ids}
    [] v.act = "manual" -> {Review(r)}
    [] v.act = "booked" -> {[r EXCEPT !.st = "DONE", !.code = col("BOOKED", c.code, @)]}
    [] OTHER -> {[ids EXCEPT !.st = col(v.act, c.st, @), !.code = k] :
                   k \in {"other"} \cup (IF v.act = c.st THEN {r.code} ELSE {})}

ReconWrite ==
  /\ recon.ph = "decided"
  /\ pend' \in Repairs(pend, recon.copy, recon.verdict)
  /\ recon' = ReconIdle
  /\ UNCHANGED <<amo, salon, brk, outage, told, teyaFaults>>

\* The tick raises or its process dies: one transaction, nothing is written.
ReconCrash ==
  /\ recon.ph # "idle"
  /\ TeyaPays(1)
  /\ recon' = ReconIdle
  /\ UNCHANGED <<pend, amo, salon, brk, outage, told>>

\* External: a slot is chosen for the request.
SelectSlot ==
  /\ pend.st # "ABSENT" /\ ~pend.starts
  /\ pend' = [pend EXCEPT !.starts = TRUE]
  /\ UNCHANGED <<amo, salon, brk, recon, outage, told, teyaFaults>>

\* External: the salon's staff book and close the request themselves.
HumanCloses ==
  /\ pend.st # "ABSENT" /\ ~RequestClosed(salon)
  /\ salon' = [salon EXCEPT !.status = "CLOSED"]
  /\ UNCHANGED <<pend, amo, brk, recon, outage, told, teyaFaults>>

\* External: the salon's staff take the request up, which changes its status.
StaffTakes ==
  /\ pend.st # "ABSENT" /\ ~RequestClosed(salon) /\ salon.status = "NEW"
  /\ salon' = [salon EXCEPT !.status = "TAKEN"]
  /\ UNCHANGED <<pend, amo, brk, recon, outage, told, teyaFaults>>

\* The cooldown of the open breaker, or the lease of its probe, runs out.
BreakerRipens ==
  /\ brk.st # "CLOSED" /\ ~brk.ripe
  /\ brk' = [brk EXCEPT !.ripe = TRUE]
  /\ outage' = [outage EXCEPT !.steps = 0]
  /\ UNCHANGED <<pend, amo, salon, recon, told, teyaFaults>>

TeyaNext ==
  \/ IngestFeed \/ ProcessOne \/ ProcessCrash
  \/ ReconBegin \/ ReconScan \/ ReconAsk \/ ReconWrite \/ ReconCrash
  \/ SelectSlot \/ HumanCloses \/ StaffTakes \/ BreakerRipens

TeyaSpec == TeyaInit /\ [][TeyaNext]_teyaVars

-----------------------------------------------------------------------------
(* Properties.                                                             *)

TeyaRows == [st : Terminal \cup Working \cup {"ABSENT"}, ask : Asks, att : 0..MaxAttempts,
             contact : BOOLEAN, deal : BOOLEAN, task : BOOLEAN,
             code : {"other", "GAME_SELF_BOOKED", "BOOKED"}, starts : BOOLEAN, key : 0..2]

\* Every variable has its type; a claim never counts past max_attempts and the breaker never past its threshold.
TeyaTypeOK ==
  /\ pend \in TeyaRows
  /\ amo \in [contacts : Nat, deals : Nat, closedDeals : Nat, notes : [NoteTexts -> Nat], tasks : [TaskTexts -> Nat]]
  /\ salon \in [booked : SUBSET {1, 2}, status : {"NEW", "TAKEN", "CLOSED"}]
  /\ brk \in [st : {"CLOSED", "OPEN", "HALF_OPEN"}, fails : 0..BreakerThreshold, ripe : BOOLEAN]
  /\ recon.ph \in {"idle", "expired", "scanned", "decided"} /\ recon.copy \in TeyaRows
  /\ told \in BOOLEAN /\ teyaFaults \in 0..MaxTeyaFaults

\* One request is booked under one idempotency key, whatever crashed, timed out or was thrown
\* back to an earlier state by the reconciliation (teya_request_orchestrator._step_ready_to_book, _step_booking).
BookedOnce == Cardinality(salon.booked) <= 1

\* A row that is being verified, or that reports a BOOKED_* result, has an appointment at the salon:
\* VERIFYING "is entered only after a successful book() advance or after reconciliation proves CLOSED",
\* although exhausted rows are closed as booked without asking and the reconciliation writes from a stale copy.
ReportedIsBooked == (pend.st = "VERIFYING" \/ pend.code = "BOOKED") => RequestClosed(salon)

\* Retries, crashes after a POST and reconciliation never leave a second contact or deal behind, nor a second note or
\* task with the same text (the lookups by phone, contact and text before every POST).  A request may well have several
\* notes and tasks in all: one note per status it was seen with, and a note and a task of the several appointments.
NoDuplicateCrm ==
  /\ amo.contacts <= 1 /\ amo.deals <= 1
  /\ \A t \in NoteTexts : amo.notes[t] <= 1
  /\ \A t \in TaskTexts : amo.tasks[t] <= 1

\* A request leads to one appointment and one set of CRM entities, and is reported
\* booked only when it is, whatever crashes and retries happen.
RequestServedOnce ==
  /\ BookedOnce
  /\ ReportedIsBooked
  /\ NoDuplicateCrm

\* The breaker is open exactly while the last BreakerThreshold answers it counted were failures, and from the failure
\* that opens it on, at most one step passes _guard_crm_breaker until the cooldown, or the lease of the last probe, has
\* run out: whatever probes fail, end without a counted answer or find no phone, and whatever the reconciliation does to
\* the row meanwhile (record_success, record_failure, try_claim_probe).  A step that crashes is rolled back with its claim.
BreakerProtects ==
  /\ brk.st = "CLOSED" <=> outage.streak < BreakerThreshold
  /\ outage.steps <= 1

\* "Game UNIQUE self-booking already booked -> DONE after contact route" (comment in _step_contact_route):
\* once the lookup found the client's own appointment, the bot does not book another one for the request.
SelfBookedIsFinal == told => salon.booked = {}
=============================================================================
