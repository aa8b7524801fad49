-------------------------- MODULE RequestsProofs --------------------------
(***************************************************************************)
(* Theorems about the components that act for a known client or master:    *)
(* TeyaRequests, MasterCommands, IdentityGraph and BuyerCard.              *)
(*                                                                         *)
(* TeyaRequests, for any number of attempts, any breaker threshold and any *)
(* number of faults: one appointment under one key, one contact and deal   *)
(* and one note and task of a text in amoCRM, nothing reported booked that *)
(* is not, and a breaker that opens on the failures it counts and then     *)
(* lets one probe through at a time.  A step of the worker is a set of     *)
(* outcomes, so the argument is about those sets: what amoCRM may answer,  *)
(* what a step makes of the answer, and what it leaves of the row.         *)
(*                                                                         *)
(* MasterCommands, the other component that writes to the booking service  *)
(* under a key: a master's command is applied once, as previewed and in    *)
(* time, for any number of messages, callbacks, masters and faults.        *)
(*                                                                         *)
(* The identity graph and the buyer cards bound to an identity, for any    *)
(* sets of identities, contacts and cards, any number of concurrent        *)
(* transactions and operations and all bounds.                             *)
(***************************************************************************)
EXTENDS TeyaRequests, MasterCommands, IdentityGraph, BuyerCard, FiniteSetTheorems, TLAPS

GoodRows == [st : Terminal \cup Working \cup {"ABSENT"}, ask : Asks, att : 0..MaxAttempts,
             contact : BOOLEAN, deal : BOOLEAN, task : BOOLEAN,
             code : {"other", "GAME_SELF_BOOKED", "BOOKED"}, starts : BOOLEAN, key : {0, 1}]
AmoType == [contacts : {0, 1}, deals : {0, 1}, closedDeals : Nat,
            notes : [NoteTexts -> {0, 1}], tasks : [TaskTexts -> {0, 1}]]
SalonType == [booked : SUBSET {1}, status : {"NEW", "TAKEN", "CLOSED"}]
BrkType == [st : {"CLOSED", "OPEN", "HALF_OPEN"}, fails : 0..BreakerThreshold, ripe : BOOLEAN]
OutageType == [streak : 0..BreakerThreshold, steps : {0, 1}]
VerdictType == [act : {"none", "touch", "manual", "booked", "VERIFYING", "RECONCILED", "MANUAL_REVIEW", "CRM_READY"},
                contact : BOOLEAN, deal : BOOLEAN, task : BOOLEAN]
ReconType == [ph : {"idle", "expired", "scanned", "decided"}, copy : GoodRows, verdict : VerdictType]

\* A row that is verified or reported as booked, beside what the salon holds.
Truthful(r, s) == (r.st = "VERIFYING" \/ r.code = "BOOKED") => RequestClosed(s)

\* The breaker beside the history of its guard: a closed one knows the failures in a row and waits for nothing, and one
\* that would let a probe through has let none through since its cooldown or the last probe's lease ran out.
BreakerKnows(b, h) ==
    /\ h \in OutageType
    /\ b.st = "CLOSED" <=> h.streak < BreakerThreshold
    /\ b.st = "CLOSED" => b.fails = h.streak /\ ~b.ripe
    /\ b.ripe => h.steps = 0

\* The inductive invariant: at most one of everything, one key, a breaker that agrees with its history, and a verdict
\* that found the request closed is still right when it is written.
TeyaInv ==
    /\ pend \in GoodRows /\ amo \in AmoType /\ salon \in SalonType /\ brk \in BrkType
    /\ recon \in ReconType /\ told \in BOOLEAN /\ teyaFaults \in 0..MaxTeyaFaults
    /\ Truthful(pend, salon)
    /\ BreakerKnows(brk, outage)
    /\ recon.ph = "decided" /\ recon.verdict.act \in {"VERIFYING", "booked"} => RequestClosed(salon)

-----------------------------------------------------------------------------
(* What amoCRM may answer *)

ReplyType == [out : {"READY", "RETRY", "MANUAL", "FAIL", "RECON"}, amo : AmoType, cost : Nat]

LEMMA ReplyFields ==
    ASSUME NEW out \in {"READY", "RETRY", "MANUAL", "FAIL", "RECON"}, NEW a \in AmoType, NEW c \in Nat
    PROVE  Reply(out, a, c) \in ReplyType /\ Reply(out, a, c).amo = a
  BY DEF Reply, ReplyType

LEMMA ReadFailsReplies ==
    ASSUME NEW a \in AmoType
    PROVE  \A y \in ReadFails(a) : y \in ReplyType /\ y.amo = a
  BY ReplyFields DEF ReadFails

LEMMA PostedReplies ==
    ASSUME NEW a \in AmoType, NEW b \in AmoType
    PROVE  \A y \in Posted(a, b) : y \in ReplyType /\ y.amo \in {a, b}
  BY ReplyFields DEF Posted, PostChecked

LEMMA LookAgainReplies ==
    ASSUME NEW a, NEW S, \A y \in S : y \in ReplyType
    PROVE  \A y \in LookAgain(a, S) : y \in ReplyType
<1>1. ASSUME NEW r \in S
      PROVE  \A y \in IF r.out = "RETRY" /\ r.amo # a
                        THEN {Reply("READY", r.amo, r.cost), Reply("RETRY", r.amo, r.cost + 1)}
                        ELSE {r} : y \in ReplyType
  <2>1. r \in ReplyType /\ r.amo \in AmoType /\ r.cost \in Nat /\ r.cost + 1 \in Nat BY DEF ReplyType
  <2>2. QED BY <2>1, ReplyFields
<1>2. QED BY <1>1 DEF LookAgain

LEMMA LaterReplies ==
    ASSUME NEW S, NEW c \in Nat, NEW y \in Later(S, c), \A r \in S : r \in ReplyType
    PROVE  y \in ReplyType /\ \E r \in S : y.amo = r.amo
<1>1. PICK r \in S : y = [r EXCEPT !.cost = @ + c] BY DEF Later
<1>2. r \in ReplyType /\ r.cost + c \in Nat BY DEF ReplyType
<1>3. y \in ReplyType /\ y.amo = r.amo BY <1>1, <1>2 DEF ReplyType
<1>4. QED BY <1>3

\* ensure_contact_and_deal: whatever is answered, at most one contact and one deal.
LEMMA EnsureContactReplies ==
    ASSUME NEW a \in AmoType
    PROVE  \A y \in EnsureContact(a) : y \in ReplyType
<1>1. ASSUME a.contacts = 0 PROVE \A y \in LookAgain(a, CreateContact(a)) : y \in ReplyType
  <2>1. [a EXCEPT !.contacts = @ + 1] \in AmoType BY <1>1 DEF AmoType
  <2>2. \A y \in CreateContact(a) : y \in ReplyType BY <2>1, PostedReplies DEF CreateContact
  <2>3. QED BY <2>2, LookAgainReplies
<1>2. a.contacts = 0 \/ a.contacts = 1 BY DEF AmoType
<1>3. QED BY <1>1, <1>2, ReadFailsReplies, ReplyFields DEF EnsureContact

LEMMA EnsureDealReplies ==
    ASSUME NEW a \in AmoType
    PROVE  \A y \in EnsureDeal(a) : y \in ReplyType
<1>1. ASSUME a.deals = 0 PROVE \A y \in LookAgain(a, CreateBusinessLead(a)) : y \in ReplyType
  <2>1. [a EXCEPT !.deals = @ + 1] \in AmoType BY <1>1 DEF AmoType
  <2>2. \A y \in CreateBusinessLead(a) : y \in ReplyType BY <2>1, PostedReplies DEF CreateBusinessLead
  <2>3. QED BY <2>2, LookAgainReplies
<1>2. ASSUME a.deals = 0, a.closedDeals = 1 PROVE \A y \in ReanimateLead(a) : y \in ReplyType
  <2>1. [a EXCEPT !.deals = 1, !.closedDeals = 0] \in AmoType BY DEF AmoType
  <2>2. [a EXCEPT !.deals = @ + 1, !.closedDeals = @ - 1] = [a EXCEPT !.deals = 1, !.closedDeals = 0]
    BY <1>2 DEF AmoType
  <2>3. QED BY <2>1, <2>2, PostedReplies DEF ReanimateLead
<1>3. a.deals = 0 \/ a.deals = 1 BY DEF AmoType
<1>4. QED BY <1>1, <1>2, <1>3, ReadFailsReplies, ReplyFields DEF EnsureDeal

LEMMA EnsureBothReplies ==
    ASSUME NEW a \in AmoType
    PROVE  \A y \in EnsureContactAndDeal(a) : y \in ReplyType
<1>1. ASSUME NEW r \in EnsureContact(a),
             NEW y \in (IF r.out = "READY" THEN Later(EnsureDeal(r.amo), r.cost) ELSE {r})
      PROVE  y \in ReplyType
  <2>1. r \in ReplyType /\ r.amo \in AmoType /\ r.cost \in Nat BY EnsureContactReplies DEF ReplyType
  <2>2. QED BY <1>1, <2>1, EnsureDealReplies, LaterReplies
<1>2. QED BY <1>1 DEF EnsureContactAndDeal

\* attach_note_and_task: at most one of each text.
LEMMA EnsureNoteReplies ==
    ASSUME NEW a \in AmoType, NEW note \in NoteTexts
    PROVE  \A y \in EnsureLeadNote(a, note) : y \in ReplyType
<1>1. a.notes \in [NoteTexts -> {0, 1}] BY DEF AmoType
<1>2. a.notes[note] = 0 \/ a.notes[note] = 1 BY <1>1
<1> DEFINE b == [a EXCEPT !.notes[note] = @ + 1]
<1>3. ASSUME a.notes[note] = 0 PROVE \A y \in Posted(a, b) : y \in ReplyType
  <2>1. [a.notes EXCEPT ![note] = @ + 1] \in [NoteTexts -> {0, 1}] BY <1>1, <1>3
  <2>2. b \in AmoType BY <2>1 DEF AmoType
  <2> HIDE DEF b
  <2>3. QED BY <2>2, PostedReplies
<1> HIDE DEF b
<1>4. QED BY <1>2, <1>3, ReadFailsReplies, ReplyFields DEF EnsureLeadNote, AddLeadNote, b

LEMMA EnsureTaskReplies ==
    ASSUME NEW a \in AmoType, NEW text \in TaskTexts
    PROVE  \A y \in EnsureLeadTask(a, text) : y \in ReplyType
<1>1. a.tasks \in [TaskTexts -> {0, 1}] BY DEF AmoType
<1>2. a.tasks[text] = 0 \/ a.tasks[text] = 1 BY <1>1
<1> DEFINE b == [a EXCEPT !.tasks[text] = @ + 1]
<1>3. ASSUME a.tasks[text] = 0 PROVE \A y \in Posted(a, b) : y \in ReplyType
  <2>1. [a.tasks EXCEPT ![text] = @ + 1] \in [TaskTexts -> {0, 1}] BY <1>1, <1>3
  <2>2. b \in AmoType BY <2>1 DEF AmoType
  <2> HIDE DEF b
  <2>3. QED BY <2>2, PostedReplies
<1> HIDE DEF b
<1>4. QED BY <1>2, <1>3, ReadFailsReplies, ReplyFields DEF EnsureLeadTask, ListActiveTasks, b

LEMMA AttachReplies ==
    ASSUME NEW a \in AmoType, NEW note \in NoteTexts, NEW text \in TaskTexts
    PROVE  \A y \in AttachNoteAndTask(a, note, text) : y \in ReplyType
<1>1. ASSUME NEW r \in EnsureLeadNote(a, note),
             NEW y \in (IF r.out = "READY" THEN Later(EnsureLeadTask(r.amo, text), r.cost) ELSE {r})
      PROVE  y \in ReplyType
  <2>1. r \in ReplyType /\ r.amo \in AmoType /\ r.cost \in Nat BY EnsureNoteReplies DEF ReplyType
  <2>2. QED BY <1>1, <2>1, EnsureTaskReplies, LaterReplies
<1>2. QED BY <1>1 DEF AttachNoteAndTask

\* The texts the steps write and the reconciliation looks for.
LEMMA WrittenTexts ==
    ASSUME NEW s \in SalonType, NEW r
    PROVE  /\ NoteText(s) \in NoteTexts /\ TaskText(r) \in TaskTexts
           /\ \A found \in AppointmentsLookup : GameNote(found, s) \in NoteTexts /\ GameTask(found) \in TaskTexts
<1>1. NoteText(s) \in NoteTexts BY DEF NoteText, NoteTexts, SalonType
<1>2. TaskText(r) \in TaskTexts BY DEF TaskText, TaskTexts
<1>3. ASSUME NEW found \in AppointmentsLookup PROVE GameNote(found, s) \in NoteTexts /\ GameTask(found) \in TaskTexts
  BY <1>1 DEF GameNote, GameTask, NoteTexts, TaskTexts, AppointmentsLookup
<1>4. QED BY <1>1, <1>2, <1>3

-----------------------------------------------------------------------------
(* What a step makes of the row *)

LEMMA RowEdits ==
    ASSUME NEW r \in GoodRows
    PROVE  /\ Released(r) \in GoodRows /\ Released(r).st = r.st /\ Released(r).code = "other"
           /\ Review(r) \in GoodRows /\ Review(r).st = "MANUAL_REVIEW" /\ Review(r).code = "other"
           /\ Booked(r) \in GoodRows /\ Booked(r).st = "DONE" /\ Booked(r).code = "BOOKED"
           /\ \A st \in Terminal \cup Working :
                Ended(r, st) \in GoodRows /\ Ended(r, st).st = st /\ Ended(r, st).code = "other"
<1>1. /\ Released(r) \in GoodRows /\ Released(r).st = r.st /\ Released(r).code = "other"
  BY DEF Released, GoodRows
<1>2. /\ Review(r) \in GoodRows /\ Review(r).st = "MANUAL_REVIEW" /\ Review(r).code = "other"
  BY DEF Review, GoodRows, Terminal
<1>3. /\ Booked(r) \in GoodRows /\ Booked(r).st = "DONE" /\ Booked(r).code = "BOOKED"
  BY DEF Booked, GoodRows, Terminal
<1>4. ASSUME NEW st \in Terminal \cup Working
      PROVE  Ended(r, st) \in GoodRows /\ Ended(r, st).st = st /\ Ended(r, st).code = "other"
  BY DEF Ended, GoodRows
<1>5. QED BY <1>1, <1>2, <1>3, <1>4

\* Attempts that run out, a lost answer and a read that fails leave a row as truthful as it was.
LEMMA RetryRows ==
    ASSUME NEW r \in GoodRows, NEW s, Truthful(r, s)
    PROVE  /\ Retry(r) \in GoodRows /\ Truthful(Retry(r), s)
           /\ \A st \in (Terminal \cup Working) \ {"VERIFYING"} : Truthful(Ended(r, st), s)
           /\ Truthful(Review(r), s)
           /\ RequestClosed(s) =>
                /\ RetryPostBook(r) \in GoodRows /\ Truthful(RetryPostBook(r), s)
                /\ Truthful(Booked(r), s)
           /\ \A kind \in RemoteKinds : RemoteError(r, kind) \in GoodRows /\ Truthful(RemoteError(r, kind), s)
           /\ Expired(r) \in GoodRows /\ Truthful(Expired(r), s)
<1>1. Truthful(Released(r), s) /\ Truthful(Review(r), s) BY RowEdits DEF Truthful
<1>2. Retry(r) \in GoodRows /\ Truthful(Retry(r), s) BY <1>1, RowEdits DEF Retry
<1>3. \A st \in (Terminal \cup Working) \ {"VERIFYING"} : Truthful(Ended(r, st), s)
  BY RowEdits DEF Truthful
<1>4. ASSUME RequestClosed(s)
      PROVE  /\ RetryPostBook(r) \in GoodRows /\ Truthful(RetryPostBook(r), s)
             /\ Truthful(Booked(r), s)
  BY <1>4, RowEdits DEF RetryPostBook, Truthful
<1>5. ASSUME NEW kind \in RemoteKinds
      PROVE  RemoteError(r, kind) \in GoodRows /\ Truthful(RemoteError(r, kind), s)
  <2>1. CASE r.st = "VERIFYING"
    <3>1. RequestClosed(s) BY <2>1 DEF Truthful
    <3>2. QED BY <1>4, <2>1, <3>1, RowEdits DEF RemoteError
  <2>2. CASE r.st # "VERIFYING"
    <3>1. "FAIL_CLOSED" \in (Terminal \cup Working) \ {"VERIFYING"} BY DEF Terminal
    <3>2. QED BY <1>2, <1>3, <2>2, <3>1, RowEdits DEF RemoteError
  <2>3. QED BY <2>1, <2>2
<1>6. Expired(r) \in GoodRows /\ Truthful(Expired(r), s)
  <2>1. r.st = "VERIFYING" => Truthful(Booked(r), s) BY <1>4 DEF Truthful
  <2>2. QED BY <1>1, <2>1, RowEdits DEF Expired
<1>7. QED BY <1>1, <1>2, <1>3, <1>4, <1>5, <1>6

-----------------------------------------------------------------------------
(* The outcomes of a step *)

\* What every outcome o of a step on salon s and breaker b leaves behind.
OutcomeOK(o, s, b) ==
    /\ o.row \in GoodRows /\ o.amo \in AmoType /\ o.salon \in SalonType /\ o.brk \in BrkType
    /\ o.cost \in Nat /\ o.told \in BOOLEAN
    /\ Truthful(o.row, o.salon)
    /\ RequestClosed(s) => RequestClosed(o.salon)
    /\ \A h : BreakerKnows(b, h) => BreakerKnows(o.brk, Counted(h, o.crm))

LEMMA OutcomeFields ==
    ASSUME NEW s \in SalonType, NEW b \in BrkType,
           NEW q \in GoodRows, NEW x \in AmoType, NEW t \in SalonType, NEW c \in BrkType, NEW cost \in Nat,
           Truthful(q, t), RequestClosed(s) => RequestClosed(t)
    PROVE  /\ (\A h : BreakerKnows(b, h) => BreakerKnows(c, h)) =>
                /\ OutcomeOK(Outcome(q, x, t, c, cost), s, b)
                /\ OutcomeOK([Outcome(q, x, t, c, cost) EXCEPT !.told = TRUE], s, b)
           /\ \A crm : (\A h : BreakerKnows(b, h) => BreakerKnows(c, Counted(h, crm))) =>
                OutcomeOK(Through(Outcome(q, x, t, c, cost), crm), s, b)
<1> DEFINE Is(o) == o.row = q /\ o.amo = x /\ o.salon = t /\ o.brk = c /\ o.cost = cost /\ o.told \in BOOLEAN
<1>1. Is(Outcome(q, x, t, c, cost)) /\ Outcome(q, x, t, c, cost).crm = "none" BY DEF Outcome
<1>2. /\ Is([Outcome(q, x, t, c, cost) EXCEPT !.told = TRUE])
      /\ [Outcome(q, x, t, c, cost) EXCEPT !.told = TRUE].crm = "none"
  BY DEF Outcome
<1>3. ASSUME NEW crm
      PROVE  /\ Is(Through(Outcome(q, x, t, c, cost), crm))
             /\ Through(Outcome(q, x, t, c, cost), crm).crm = crm
  BY DEF Outcome, Through
<1>4. ASSUME NEW o, Is(o), \A h : BreakerKnows(b, h) => BreakerKnows(c, Counted(h, o.crm))
      PROVE  OutcomeOK(o, s, b)
  BY <1>4 DEF OutcomeOK
<1>5. ASSUME NEW h PROVE Counted(h, "none") = h BY DEF Counted
<1> HIDE DEF Is
<1>6. QED BY <1>1, <1>2, <1>3, <1>4, <1>5

\* An outcome that touches nothing but the row.
LEMMA RowOutcome ==
    ASSUME NEW a \in AmoType, NEW s \in SalonType, NEW b \in BrkType,
           NEW q \in GoodRows, Truthful(q, s), NEW cost \in Nat
    PROVE  OutcomeOK(Outcome(q, a, s, b, cost), s, b)
  BY OutcomeFields

LEMMA GetFailsOK ==
    ASSUME NEW r \in GoodRows, NEW a \in AmoType, NEW s \in SalonType, NEW b \in BrkType, Truthful(r, s),
           NEW o \in GetFails(r, a, s, b)
    PROVE  OutcomeOK(o, s, b)
<1>1. PICK kind \in RemoteKinds : o = Outcome(RemoteError(r, kind), a, s, b, 1) BY DEF GetFails
<1>2. RemoteError(r, kind) \in GoodRows /\ Truthful(RemoteError(r, kind), s) BY RetryRows
<1>3. QED BY <1>1, <1>2, RowOutcome

LEMMA BreakerTypes ==
    ASSUME NEW b \in BrkType
    PROVE  ProbeClaimed(b) \in BrkType /\ RecordSuccess(b) \in BrkType /\ RecordFailure(b) \in BrkType
<1>1. BreakerThreshold \in Nat /\ BreakerThreshold >= 1 BY TeyaConstants
<1>2. ProbeClaimed(b) \in BrkType BY DEF ProbeClaimed, BrkType
<1>3. RecordSuccess(b) \in BrkType BY <1>1 DEF RecordSuccess, BrkType
<1>4. b.fails \in 0..BreakerThreshold BY DEF BrkType
<1>5. [st |-> "OPEN", fails |-> BreakerThreshold, ripe |-> FALSE] \in BrkType BY <1>1 DEF BrkType
<1>6. ASSUME ~(b.fails + 1 >= BreakerThreshold) PROVE [b EXCEPT !.fails = @ + 1] \in BrkType
  <2>1. b.fails + 1 \in 0..BreakerThreshold BY <1>1, <1>4, <1>6
  <2>2. QED BY <2>1 DEF BrkType
<1>7. RecordFailure(b) \in BrkType BY <1>5, <1>6 DEF RecordFailure
<1>8. QED BY <1>2, <1>3, <1>7

\* A step the breaker lets through leaves it in agreement with its history, whatever amoCRM answers.
LEMMA BreakerCounts ==
    ASSUME NEW b \in BrkType, NEW h, BreakerKnows(b, h), Allowed(b)
    PROVE  /\ BreakerKnows(ProbeClaimed(b), h)
           /\ BreakerKnows(ProbeClaimed(b), Counted(h, "other"))
           /\ BreakerKnows(RecordSuccess(ProbeClaimed(b)), Counted(h, "ok"))
           /\ BreakerKnows(RecordFailure(ProbeClaimed(b)), Counted(h, "bad"))
<1> DEFINE T == BreakerThreshold
           c == ProbeClaimed(b)
<1>1. T \in Nat /\ T >= 1 /\ h \in OutageType /\ h.streak \in 0..T /\ h.steps \in {0, 1}
  BY TeyaConstants DEF BreakerKnows, OutageType
<1>2. CASE b.st = "CLOSED"
  <2>1. c = b /\ h.streak < T /\ b.fails = h.streak /\ ~b.ripe BY <1>2 DEF ProbeClaimed, BreakerKnows
  <2>2. Counted(h, "other") = [streak |-> h.streak, steps |-> h.steps] BY <1>1, <2>1 DEF Counted
  <2>3. Counted(h, "ok") = [streak |-> 0, steps |-> h.steps] BY <1>1, <2>1 DEF Counted
  <2>4. Counted(h, "bad") = [streak |-> h.streak + 1, steps |-> IF h.streak + 1 = T THEN 1 ELSE h.steps]
    BY <1>1, <2>1 DEF Counted
  <2>5. RecordFailure(b) = IF h.streak + 1 = T THEN [st |-> "OPEN", fails |-> T, ripe |-> FALSE]
                           ELSE [b EXCEPT !.fails = h.streak + 1]
    BY <1>1, <1>2, <2>1 DEF RecordFailure, BrkType
  <2>6. BreakerKnows(b, Counted(h, "other")) BY <1>1, <1>2, <2>1, <2>2 DEF BreakerKnows, OutageType
  <2>7. BreakerKnows(RecordSuccess(b), Counted(h, "ok"))
    BY <1>1, <2>3 DEF BreakerKnows, OutageType, RecordSuccess
  <2>8. BreakerKnows(RecordFailure(b), Counted(h, "bad"))
    BY <1>1, <1>2, <2>1, <2>4, <2>5 DEF BreakerKnows, OutageType, BrkType
  <2>9. QED BY <2>1, <2>6, <2>7, <2>8
<1>3. CASE b.st # "CLOSED"
  <2>1. b.ripe /\ h.streak = T /\ h.steps = 0 BY <1>1, <1>3 DEF Allowed, BreakerKnows
  <2>2. c = [b EXCEPT !.st = "HALF_OPEN", !.ripe = FALSE] BY <1>3, <2>1 DEF ProbeClaimed
  <2>3. c.st = "HALF_OPEN" /\ ~c.ripe BY <2>2 DEF BrkType
  <2>4. Counted(h, "other") = [streak |-> T, steps |-> 1] BY <1>1, <2>1 DEF Counted
  <2>5. Counted(h, "ok") = [streak |-> 0, steps |-> 1] BY <1>1, <2>1 DEF Counted
  <2>6. Counted(h, "bad") = [streak |-> T, steps |-> 1] BY <1>1, <2>1 DEF Counted
  <2> HIDE DEF c
  <2>7. RecordFailure(c) = [st |-> "OPEN", fails |-> T, ripe |-> FALSE] BY <2>3 DEF RecordFailure
  <2>8. BreakerKnows(c, h) BY <1>1, <2>1, <2>3 DEF BreakerKnows
  <2>9. BreakerKnows(c, Counted(h, "other")) BY <1>1, <2>3, <2>4 DEF BreakerKnows, OutageType
  <2>10. BreakerKnows(RecordSuccess(c), Counted(h, "ok"))
    BY <1>1, <2>5 DEF BreakerKnows, OutageType, RecordSuccess
  <2>11. BreakerKnows(RecordFailure(c), Counted(h, "bad"))
    BY <1>1, <2>6, <2>7 DEF BreakerKnows, OutageType
  <2>12. QED BY <2>8, <2>9, <2>10, <2>11 DEF c
<1>4. QED BY <1>2, <1>3

\* A CRM answer that the breaker let through.
LEMMA CrmEndsOK ==
    ASSUME NEW r \in GoodRows, NEW q \in GoodRows, NEW s \in SalonType, NEW b \in BrkType,
           Truthful(r, s), Truthful(q, s), Allowed(b),
           NEW y \in ReplyType, NEW o \in CrmEnds(r, q, y, s, ProbeClaimed(b))
    PROVE  OutcomeOK(o, s, b)
<1> DEFINE c == ProbeClaimed(b)
<1>1. y.amo \in AmoType /\ y.cost \in Nat /\ y.out \in {"READY", "RETRY", "MANUAL", "FAIL", "RECON"}
  BY DEF ReplyType
<1>2. /\ Retry(r) \in GoodRows /\ Truthful(Retry(r), s)
      /\ Review(r) \in GoodRows /\ Truthful(Review(r), s)
      /\ Ended(r, "FAIL_CLOSED") \in GoodRows /\ Truthful(Ended(r, "FAIL_CLOSED"), s)
      /\ Ended(r, "RECONCILIATION_REQUIRED") \in GoodRows /\ Truthful(Ended(r, "RECONCILIATION_REQUIRED"), s)
  BY RetryRows, RowEdits DEF Terminal
<1>3. /\ c \in BrkType /\ RecordSuccess(c) \in BrkType /\ RecordFailure(c) \in BrkType BY BreakerTypes
<1>4. /\ \A h : BreakerKnows(b, h) => BreakerKnows(c, Counted(h, "other"))
      /\ \A h : BreakerKnows(b, h) => BreakerKnows(RecordSuccess(c), Counted(h, "ok"))
      /\ \A h : BreakerKnows(b, h) => BreakerKnows(RecordFailure(c), Counted(h, "bad"))
  BY BreakerCounts
<1>5. ASSUME NEW p \in GoodRows, Truthful(p, s)
      PROVE  /\ OutcomeOK(Through(Outcome(p, y.amo, s, c, y.cost), "other"), s, b)
             /\ OutcomeOK(Through(Outcome(p, y.amo, s, RecordSuccess(c), y.cost), "ok"), s, b)
             /\ OutcomeOK(Through(Outcome(p, y.amo, s, RecordFailure(c), y.cost), "bad"), s, b)
  <2> HIDE DEF c
  <2>1. OutcomeOK(Through(Outcome(p, y.amo, s, c, y.cost), "other"), s, b) BY <1>1, <1>3, <1>4, <1>5, OutcomeFields
  <2>2. OutcomeOK(Through(Outcome(p, y.amo, s, RecordSuccess(c), y.cost), "ok"), s, b)
    BY <1>1, <1>3, <1>4, <1>5, OutcomeFields
  <2>3. OutcomeOK(Through(Outcome(p, y.amo, s, RecordFailure(c), y.cost), "bad"), s, b)
    BY <1>1, <1>3, <1>4, <1>5, OutcomeFields
  <2>4. QED BY <2>1, <2>2, <2>3
<1>6. \E p \in GoodRows :
        /\ Truthful(p, s)
        /\ \/ o = Through(Outcome(p, y.amo, s, c, y.cost), "other")
           \/ o = Through(Outcome(p, y.amo, s, RecordSuccess(c), y.cost), "ok")
           \/ o = Through(Outcome(p, y.amo, s, RecordFailure(c), y.cost), "bad")
  BY <1>1, <1>2 DEF CrmEnds
<1>7. QED BY <1>5, <1>6

LEMMA GuardedCrmOK ==
    ASSUME NEW r \in GoodRows, NEW q \in GoodRows, NEW a \in AmoType, NEW s \in SalonType, NEW b \in BrkType,
           Truthful(r, s), Truthful(q, s), NEW S, \A y \in S : y \in ReplyType,
           NEW o \in GuardedCrm(r, q, S, a, s, b)
    PROVE  OutcomeOK(o, s, b)
<1>1. CASE Allowed(b)
  <2>1. PICK y \in S : o \in CrmEnds(r, q, InOutage(b, y), s, ProbeClaimed(b)) BY <1>1 DEF GuardedCrm
  <2>2. y \in ReplyType OBVIOUS
  <2>3. InOutage(b, y) \in ReplyType
    <3>1. y.cost \in Nat BY <2>2 DEF ReplyType
    <3>2. ASSUME y.cost > 0 PROVE [y EXCEPT !.cost = @ - 1] \in ReplyType
      <4>1. y.cost - 1 \in Nat BY <3>1, <3>2
      <4>2. QED BY <2>2, <4>1 DEF ReplyType
    <3>3. QED BY <2>2, <3>2 DEF InOutage
  <2>4. QED BY <1>1, <2>1, <2>3, CrmEndsOK
<1>2. CASE ~Allowed(b)
  <2>1. o = Outcome(Retry(r), a, s, b, 0) BY <1>2 DEF GuardedCrm
  <2>2. QED BY <2>1, RetryRows, RowOutcome
<1>3. QED BY <1>1, <1>2

\* The steps before the booking.
LEMMA StepIdentityOK ==
    ASSUME NEW r \in GoodRows, NEW a \in AmoType, NEW s \in SalonType, NEW b \in BrkType, Truthful(r, s),
           r.st # "VERIFYING", NEW o \in StepIdentity(r, a, s, b)
    PROVE  OutcomeOK(o, s, b)
<1> DEFINE q == [r EXCEPT !.st = "CRM_READY", !.contact = TRUE, !.deal = TRUE]
<1>1. q \in GoodRows /\ q.st = "CRM_READY" /\ q.code = r.code BY DEF GoodRows, Working
<1>2. Truthful(q, s) BY <1>1 DEF Truthful
<1>3. CASE r.ask = "nophone"
  <2>1. \/ Allowed(b) /\ o = Outcome(Ended(r, "FAIL_CLOSED"), a, s, ProbeClaimed(b), 0)
        \/ o = Outcome(Retry(r), a, s, b, 0)
    BY <1>3 DEF StepIdentity
  <2>2. /\ Ended(r, "FAIL_CLOSED") \in GoodRows /\ Truthful(Ended(r, "FAIL_CLOSED"), s)
        /\ Retry(r) \in GoodRows /\ Truthful(Retry(r), s)
    BY RetryRows, RowEdits DEF Terminal
  <2>3. Allowed(b) => \A h : BreakerKnows(b, h) => BreakerKnows(ProbeClaimed(b), h) BY BreakerCounts
  <2>4. ProbeClaimed(b) \in BrkType BY BreakerTypes
  <2>5. Allowed(b) => OutcomeOK(Outcome(Ended(r, "FAIL_CLOSED"), a, s, ProbeClaimed(b), 0), s, b)
    BY <2>2, <2>3, <2>4, OutcomeFields
  <2>6. OutcomeOK(Outcome(Retry(r), a, s, b, 0), s, b) BY <2>2, RowOutcome
  <2>7. QED BY <2>1, <2>5, <2>6
<1>4. CASE r.ask # "nophone"
  <2>1. o \in GuardedCrm(r, q, EnsureContactAndDeal(a), a, s, b) BY <1>4 DEF StepIdentity
  <2> HIDE DEF q
  <2>2. \A y \in EnsureContactAndDeal(a) : y \in ReplyType BY EnsureBothReplies
  <2>3. QED BY <1>1, <1>2, <2>1, <2>2, GuardedCrmOK
<1>5. QED BY <1>3, <1>4

LEMMA StepCrmReadyOK ==
    ASSUME NEW r \in GoodRows, NEW a \in AmoType, NEW s \in SalonType, NEW b \in BrkType, Truthful(r, s),
           NEW o \in StepCrmReady(r, a, s, b)
    PROVE  OutcomeOK(o, s, b)
<1> DEFINE q == [r EXCEPT !.st = "RECONCILED", !.task = TRUE]
<1>1. q \in GoodRows /\ q.st = "RECONCILED" /\ q.code = r.code BY DEF GoodRows, Working
<1>2. Truthful(q, s) BY <1>1 DEF Truthful
<1>3. CASE ~r.deal
  <2>1. o = Outcome(Ended(r, "FAIL_CLOSED"), a, s, b, 0) BY <1>3 DEF StepCrmReady
  <2>2. Ended(r, "FAIL_CLOSED") \in GoodRows /\ Truthful(Ended(r, "FAIL_CLOSED"), s)
    BY RetryRows, RowEdits DEF Terminal
  <2>3. QED BY <2>1, <2>2, RowOutcome
<1>4. CASE r.deal
  <2>1. o \in GuardedCrm(r, q, AttachNoteAndTask(a, NoteText(s), TaskText(r)), a, s, b) BY <1>4 DEF StepCrmReady
  <2> HIDE DEF q
  <2>2. \A y \in AttachNoteAndTask(a, NoteText(s), TaskText(r)) : y \in ReplyType
    BY WrittenTexts, AttachReplies
  <2>3. QED BY <1>1, <1>2, <2>1, <2>2, GuardedCrmOK
<1>5. QED BY <1>3, <1>4

\* The game request's writes pass the breaker by and leave it alone.
LEMMA StepReconciledOK ==
    ASSUME NEW r \in GoodRows, NEW a \in AmoType, NEW s \in SalonType, NEW b \in BrkType, Truthful(r, s),
           NEW o \in StepReconciled(r, a, s, b)
    PROVE  OutcomeOK(o, s, b)
<1> DEFINE on == [r EXCEPT !.st = "CONTACT_ROUTE"]
           self == [on EXCEPT !.code = "GAME_SELF_BOOKED"]
           writes(found) == IF r.deal THEN AttachNoteAndTask(a, GameNote(found, s), GameTask(found)) ELSE {Reply("READY", a, 0)}
<1>1. on \in GoodRows /\ on.st = "CONTACT_ROUTE" /\ on.code = r.code BY DEF GoodRows, Working
<1>2. Truthful(on, s) BY <1>1 DEF Truthful
<1>3. self \in GoodRows /\ self.st = "CONTACT_ROUTE" /\ self.code = "GAME_SELF_BOOKED"
  <2> HIDE DEF on
  <2>1. QED BY <1>1 DEF GoodRows
<1>4. Truthful(self, s) BY <1>3 DEF Truthful
<1>5. /\ Ended(r, "RECONCILIATION_REQUIRED") \in GoodRows
      /\ Truthful(Ended(r, "RECONCILIATION_REQUIRED"), s)
  BY RetryRows, RowEdits DEF Terminal
<1>6. CASE r.ask # "game"
  <2>1. o = Outcome(on, a, s, b, 0) BY <1>6 DEF StepReconciled
  <2> HIDE DEF on
  <2>2. QED BY <1>1, <1>2, <2>1, RowOutcome
<1>7. CASE r.ask = "game"
  <2>1. ASSUME NEW found \in AppointmentsLookup, NEW y \in writes(found)
        PROVE  y.amo \in AmoType /\ y.cost \in Nat
    <3>1. Reply("READY", a, 0) \in ReplyType BY ReplyFields
    <3>2. y \in ReplyType BY <2>1, <3>1, WrittenTexts, AttachReplies
    <3>3. QED BY <3>2 DEF ReplyType
  <2> DEFINE After(y) ==
          \/ o = Outcome(Ended(r, "RECONCILIATION_REQUIRED"), y.amo, s, b, y.cost)
          \/ o = [Outcome(self, y.amo, s, b, y.cost) EXCEPT !.told = TRUE]
          \/ o = Outcome(on, y.amo, s, b, y.cost)
  <2>2. \E found \in AppointmentsLookup : \E y \in writes(found) : After(y)
    BY <1>7 DEF StepReconciled, AppointmentsLookup
  <2> HIDE DEF on, self, writes
  <2>3. PICK found \in AppointmentsLookup : \E y \in writes(found) : After(y) BY <2>2
  <2>4. PICK y \in writes(found) : After(y) BY <2>3
  <2>5. y.amo \in AmoType /\ y.cost \in Nat BY <2>1
  <2>6. OutcomeOK(Outcome(Ended(r, "RECONCILIATION_REQUIRED"), y.amo, s, b, y.cost), s, b)
    BY <1>5, <2>5, OutcomeFields
  <2>7. OutcomeOK([Outcome(self, y.amo, s, b, y.cost) EXCEPT !.told = TRUE], s, b)
    BY <1>3, <1>4, <2>5, OutcomeFields
  <2>8. OutcomeOK(Outcome(on, y.amo, s, b, y.cost), s, b) BY <1>1, <1>2, <2>5, OutcomeFields
  <2>9. QED BY <2>4, <2>6, <2>7, <2>8
<1>8. QED BY <1>6, <1>7

LEMMA StepRouteOK ==
    ASSUME NEW r \in GoodRows, NEW a \in AmoType, NEW s \in SalonType, NEW b \in BrkType, Truthful(r, s),
           r.st # "VERIFYING",
           NEW o \in StepContactRoute(r, a, s, b) \cup StepReadyToBook(r, a, s, b)
                      \cup TerminalWait(r, a, s, b) \cup StepDiscovered(r, a, s, b)
    PROVE  OutcomeOK(o, s, b)
<1>1. ASSUME NEW st \in (Terminal \cup Working) \ {"VERIFYING"}
      PROVE  /\ [r EXCEPT !.st = st] \in GoodRows /\ Truthful([r EXCEPT !.st = st], s)
             /\ [r EXCEPT !.st = st, !.code = "other"] \in GoodRows
             /\ Truthful([r EXCEPT !.st = st, !.code = "other"], s)
  <2>1. [r EXCEPT !.st = st] \in GoodRows /\ [r EXCEPT !.st = st, !.code = "other"] \in GoodRows
    BY DEF GoodRows
  <2>2. /\ [r EXCEPT !.st = st].st = st /\ [r EXCEPT !.st = st].code = r.code
        /\ [r EXCEPT !.st = st, !.code = "other"].st = st
        /\ [r EXCEPT !.st = st, !.code = "other"].code = "other"
    BY DEF GoodRows
  <2>3. QED BY <2>1, <2>2 DEF Truthful
<1>2. /\ [r EXCEPT !.st = "BOOKING", !.key = BookKey(r)] \in GoodRows
      /\ Truthful([r EXCEPT !.st = "BOOKING", !.key = BookKey(r)], s)
  <2>1. BookKey(r) \in {0, 1} BY DEF BookKey, GoodRows
  <2>2. [r EXCEPT !.st = "BOOKING", !.key = BookKey(r)] \in GoodRows BY <2>1 DEF GoodRows, Working
  <2>3. /\ [r EXCEPT !.st = "BOOKING", !.key = BookKey(r)].st = "BOOKING"
        /\ [r EXCEPT !.st = "BOOKING", !.key = BookKey(r)].code = r.code
    BY DEF GoodRows
  <2>4. QED BY <2>2, <2>3 DEF Truthful
<1>3. \E q \in GoodRows : o = Outcome(q, a, s, b, 0) /\ Truthful(q, s)
  <2>1. ASSUME o \in StepContactRoute(r, a, s, b) PROVE \E q \in GoodRows : o = Outcome(q, a, s, b, 0) /\ Truthful(q, s)
    BY <1>1, <2>1 DEF StepContactRoute, Terminal, Working
  <2>2. ASSUME o \in StepReadyToBook(r, a, s, b) PROVE \E q \in GoodRows : o = Outcome(q, a, s, b, 0) /\ Truthful(q, s)
    BY <1>1, <1>2, <2>2 DEF StepReadyToBook, Terminal, Working
  <2>3. ASSUME o \in TerminalWait(r, a, s, b) PROVE \E q \in GoodRows : o = Outcome(q, a, s, b, 0) /\ Truthful(q, s)
    BY <2>3, RetryRows, RowEdits DEF TerminalWait
  <2>4. ASSUME o \in StepDiscovered(r, a, s, b) PROVE \E q \in GoodRows : o = Outcome(q, a, s, b, 0) /\ Truthful(q, s)
    BY <1>1, <2>4 DEF StepDiscovered, Terminal, Working
  <2>5. QED BY <2>1, <2>2, <2>3, <2>4
<1>4. QED BY <1>3, RowOutcome

\* The booking: the one key of the row reaches the salon, and only a booked request is verified.
LEMMA StepBookingOK ==
    ASSUME NEW r \in GoodRows, NEW a \in AmoType, NEW s \in SalonType, NEW b \in BrkType, Truthful(r, s),
           NEW o \in StepBooking(r, a, s, b)
    PROVE  OutcomeOK(o, s, b)
<1>1. /\ Ended(r, "FAIL_CLOSED") \in GoodRows /\ Truthful(Ended(r, "FAIL_CLOSED"), s)
      /\ Ended(r, "RECONCILIATION_REQUIRED") \in GoodRows /\ Truthful(Ended(r, "RECONCILIATION_REQUIRED"), s)
      /\ Ended(r, "WAITING_CONTACT") \in GoodRows /\ Truthful(Ended(r, "WAITING_CONTACT"), s)
      /\ Retry(r) \in GoodRows /\ Truthful(Retry(r), s)
  BY RetryRows, RowEdits DEF Terminal, Working
<1> DEFINE t == SalonBooks(s, SentKey(r))
           v == [r EXCEPT !.st = "VERIFYING", !.code = "other"]
<1>2. v \in GoodRows BY DEF GoodRows, Working
<1>3. ASSUME r.key # 0 PROVE t \in SalonType /\ RequestClosed(t)
  <2>1. r.key = 1 BY <1>3 DEF GoodRows
  <2>2. s.booked \cup {r.key} \in SUBSET {1} /\ s.booked \cup {r.key} # {} BY <2>1 DEF SalonType
  <2>3. t \in SalonType /\ t.booked = s.booked \cup {r.key} BY <2>2 DEF SalonBooks, SentKey, SalonType
  <2>4. QED BY <2>2, <2>3 DEF RequestClosed
<1>4. \/ o = Outcome(Ended(r, "FAIL_CLOSED"), a, s, b, 0)
      \/ /\ r.key # 0
         /\ \/ o = Outcome(v, a, t, b, 0)
            \/ \E q \in GoodRows : o = Outcome(q, a, t, b, 1)
            \/ \E q \in GoodRows : o = Outcome(q, a, s, b, 1) /\ Truthful(q, s)
  BY <1>1 DEF StepBooking
<1> HIDE DEF t, v
<1>6. \A q \in GoodRows : r.key # 0 => Truthful(q, t) BY <1>3 DEF Truthful
<1>7. ASSUME r.key # 0, NEW q \in GoodRows, NEW cost \in {0, 1}
      PROVE  OutcomeOK(Outcome(q, a, t, b, cost), s, b)
  <2>1. t \in SalonType /\ RequestClosed(t) /\ Truthful(q, t) /\ cost \in Nat BY <1>3, <1>6, <1>7
  <2>2. QED BY <2>1, OutcomeFields
<1>8. ASSUME NEW q \in GoodRows, Truthful(q, s), NEW cost \in {0, 1}
      PROVE  OutcomeOK(Outcome(q, a, s, b, cost), s, b)
  BY <1>8, RowOutcome
<1>9. QED BY <1>1, <1>2, <1>4, <1>7, <1>8

LEMMA StepVerifyingOK ==
    ASSUME NEW r \in GoodRows, NEW a \in AmoType, NEW s \in SalonType, NEW b \in BrkType, Truthful(r, s),
           NEW o \in StepVerifying(r, a, s, b)
    PROVE  OutcomeOK(o, s, b)
<1>1. /\ Ended(r, "RECONCILIATION_REQUIRED") \in GoodRows
      /\ Truthful(Ended(r, "RECONCILIATION_REQUIRED"), s) /\ Booked(r) \in GoodRows
      /\ RequestClosed(s) => /\ RetryPostBook(r) \in GoodRows /\ Truthful(RetryPostBook(r), s)
                             /\ Truthful(Booked(r), s)
  BY RetryRows, RowEdits DEF Terminal
<1>2. \A y \in ApplyAnalytics(a) : y.cost \in Nat BY DEF ApplyAnalytics, Reply
<1>3. \E q \in GoodRows, cost \in Nat : o = Outcome(q, a, s, b, cost) /\ Truthful(q, s)
  BY <1>1, <1>2 DEF StepVerifying
<1>4. QED BY <1>3, RowOutcome

\* process_claimed, from any row that can be claimed.
LEMMA StepOK ==
    ASSUME NEW r \in GoodRows, NEW a \in AmoType, NEW s \in SalonType, NEW b \in BrkType, Truthful(r, s),
           r.st \in Working, NEW o \in Step(r, a, s, b)
    PROVE  OutcomeOK(o, s, b)
<1>1. CASE o \in GetFails(r, a, s, b) BY <1>1, GetFailsOK
<1>2. CASE o \notin GetFails(r, a, s, b)
  <2>1. \/ r.st # "VERIFYING" /\ o \in StepContactRoute(r, a, s, b) \cup StepReadyToBook(r, a, s, b)
                                        \cup TerminalWait(r, a, s, b) \cup StepDiscovered(r, a, s, b)
        \/ r.st # "VERIFYING" /\ o \in StepIdentity(r, a, s, b)
        \/ o \in StepCrmReady(r, a, s, b) \/ o \in StepReconciled(r, a, s, b)
        \/ o \in StepBooking(r, a, s, b) \/ o \in StepVerifying(r, a, s, b)
    BY <1>2 DEF Step, Working
  <2>2. QED
    BY <2>1, StepRouteOK, StepIdentityOK, StepCrmReadyOK, StepReconciledOK, StepBookingOK, StepVerifyingOK
<1>3. QED BY <1>1, <1>2

-----------------------------------------------------------------------------
(* The invariant *)

LEMMA ClaimedRow ==
    ASSUME pend \in GoodRows, Claimable(pend), NEW s, Truthful(pend, s)
    PROVE  /\ Claimed(pend) \in GoodRows /\ Truthful(Claimed(pend), s)
           /\ Claimed(pend).st \in Working
<1>1. pend.att + 1 \in 0..MaxAttempts BY TeyaConstants DEF Claimable, GoodRows
<1>2. Claimed(pend) \in GoodRows BY <1>1 DEF Claimed, GoodRows
<1>3. Claimed(pend).st = pend.st /\ Claimed(pend).code = pend.code BY DEF Claimed, GoodRows
<1>4. QED BY <1>2, <1>3 DEF Truthful, Claimable

\* Steps of the worker, committed or cut off.
LEMMA ProcessStep ==
    ASSUME TeyaInv, ProcessOne \/ ProcessCrash
    PROVE  TeyaInv'
<1>1. /\ pend \in GoodRows /\ amo \in AmoType /\ salon \in SalonType /\ brk \in BrkType
      /\ Truthful(pend, salon) /\ teyaFaults \in 0..MaxTeyaFaults /\ MaxTeyaFaults \in Nat
      /\ told \in BOOLEAN /\ BreakerKnows(brk, outage)
  BY TeyaConstants DEF TeyaInv
<1>2. Claimable(pend) /\ UNCHANGED recon BY DEF ProcessOne, ProcessCrash
<1>3. ASSUME NEW o \in Step(Claimed(pend), amo, salon, brk) PROVE OutcomeOK(o, salon, brk)
  BY <1>1, <1>2, ClaimedRow, StepOK
<1>4. PICK o \in Step(Claimed(pend), amo, salon, brk) :
        /\ TeyaPays(o.cost) \/ TeyaPays(o.cost + 1)
        /\ amo' = o.amo /\ salon' = o.salon
        /\ \/ pend' = o.row /\ brk' = o.brk /\ told' = (told \/ o.told) /\ outage' = Counted(outage, o.crm)
           \/ UNCHANGED <<pend, brk, told, outage>>
  BY DEF ProcessOne, ProcessCrash
<1>5. OutcomeOK(o, salon, brk) BY <1>3
<1>6. teyaFaults' \in 0..MaxTeyaFaults
  <2>1. o.cost \in Nat /\ o.cost + 1 \in Nat BY <1>5 DEF OutcomeOK
  <2>2. QED BY <1>1, <1>4, <2>1 DEF TeyaPays
<1>7. pend' \in GoodRows /\ amo' \in AmoType /\ salon' \in SalonType /\ brk' \in BrkType /\ told' \in BOOLEAN
  BY <1>1, <1>4, <1>5 DEF OutcomeOK
<1>8. Truthful(pend', salon') /\ (RequestClosed(salon) => RequestClosed(salon'))
  BY <1>1, <1>4, <1>5 DEF OutcomeOK, Truthful
<1>9. BreakerKnows(brk', outage') BY <1>1, <1>4, <1>5 DEF OutcomeOK
<1>10. QED BY <1>2, <1>6, <1>7, <1>8, <1>9 DEF TeyaInv, Truthful, RequestClosed, BreakerKnows

\* _reconcile_one asks: a verdict that closes the request was given on a closed one.
LEMMA VerdictsOK ==
    ASSUME NEW c \in GoodRows, NEW a, NEW s,
           NEW y \in ReconVerdicts(c, a, s) \cup {[v |-> NoVerdict, cost |-> 1]}
    PROVE  /\ y.v \in VerdictType /\ y.cost \in Nat
           /\ y.v.act \in {"VERIFYING", "booked"} => RequestClosed(s)
<1>1. NoVerdict \in VerdictType /\ NoVerdict.act = "none" BY DEF NoVerdict, VerdictType
<1>2. ASSUME NEW act \in {"manual", "VERIFYING", "booked"}
      PROVE  Verdict(act) \in VerdictType /\ Verdict(act).act = act
  BY DEF Verdict, NoVerdict, VerdictType
<1>3. ASSUME NEW z \in CrmVerdict(c, a, s)
      PROVE  z.v \in VerdictType /\ z.cost \in Nat /\ z.v.act \notin {"VERIFYING", "booked"}
  <2> DEFINE found == a.tasks[TaskText(c)] = 1
             write(act) == [act |-> act, contact |-> TRUE, deal |-> TRUE, task |-> found]
  <2>1. ASSUME NEW act \in {"RECONCILED", "MANUAL_REVIEW", "CRM_READY", "touch"}
        PROVE  write(act) \in VerdictType /\ write(act).act = act
    BY DEF VerdictType
  <2> DEFINE Given(w) == w \in {NoVerdict, Verdict("manual"), write("RECONCILED"), write("MANUAL_REVIEW"),
                                write("CRM_READY"), write("touch")}
  <2>2. z.cost \in {0, 1} /\ Given(z.v) BY <1>3 DEF CrmVerdict, ReadCrm
  <2> HIDE DEF write
  <2>3. QED BY <1>1, <1>2, <2>1, <2>2
<1>4. QED BY <1>1, <1>2, <1>3 DEF ReconVerdicts

LEMMA IdleRecon ==
    /\ ReconIdle \in ReconType /\ ReconIdle.ph = "idle"
    /\ NoRequest \in GoodRows /\ NoRequest.st = "ABSENT" /\ NoRequest.code = "other"
    /\ \A ask \in Asks : /\ Discovered(ask) \in GoodRows /\ Discovered(ask).st = "DISCOVERED"
                         /\ Discovered(ask).code = "other"
<1>1. ASSUME NEW ask \in Asks
      PROVE  /\ Discovered(ask) \in GoodRows /\ Discovered(ask).st = "DISCOVERED"
             /\ Discovered(ask).code = "other"
  BY TeyaConstants DEF Discovered, GoodRows, Working
<1>2. Discovered("plain") \in GoodRows /\ Discovered("plain").code = "other" BY <1>1 DEF Asks
<1>3. NoRequest \in GoodRows /\ NoRequest.st = "ABSENT" /\ NoRequest.code = "other"
  BY <1>2 DEF NoRequest, GoodRows
<1>4. NoVerdict \in VerdictType BY DEF NoVerdict, VerdictType
<1>5. QED BY <1>1, <1>3, <1>4 DEF ReconType, ReconIdle

LEMMA ReconAskStep ==
    ASSUME TeyaInv, ReconAsk
    PROVE  TeyaInv'
<1>1. recon \in ReconType /\ recon.copy \in GoodRows /\ teyaFaults \in 0..MaxTeyaFaults /\ MaxTeyaFaults \in Nat
  BY TeyaConstants DEF TeyaInv, ReconType
<1>2. PICK y \in ReconVerdicts(recon.copy, amo, salon) \cup {[v |-> NoVerdict, cost |-> 1]} :
        TeyaPays(y.cost) /\ recon' = Asked(recon.copy, y.v)
  BY DEF ReconAsk
<1>3. /\ y.v \in VerdictType /\ y.cost \in Nat
      /\ y.v.act \in {"VERIFYING", "booked"} => RequestClosed(salon)
  BY <1>1, VerdictsOK
<1>4. recon' \in ReconType /\ (recon'.ph = "decided" => recon'.verdict = y.v)
  <2>1. CASE y.v = NoVerdict BY <1>2, <2>1, IdleRecon DEF Asked
  <2>2. CASE y.v # NoVerdict
    <3> DEFINE kept == [NoRequest EXCEPT !.st = recon.copy.st, !.code = recon.copy.code]
    <3>1. kept \in GoodRows BY <1>1, IdleRecon DEF GoodRows
    <3>2. recon' = [ph |-> "decided", copy |-> kept, verdict |-> y.v] BY <1>2, <2>2 DEF Asked
    <3> HIDE DEF kept
    <3>3. QED BY <1>3, <3>1, <3>2 DEF ReconType
  <2>3. QED BY <2>1, <2>2
<1>5. teyaFaults' \in 0..MaxTeyaFaults BY <1>1, <1>2, <1>3 DEF TeyaPays
<1>6. UNCHANGED <<pend, amo, salon, brk, outage, told>> BY DEF ReconAsk
<1>7. QED BY <1>3, <1>4, <1>5, <1>6 DEF TeyaInv, Truthful, RequestClosed, BreakerKnows

\* The flush writes from a stale copy, and still nothing false about the booking.
LEMMA RepairsOK ==
    ASSUME NEW r \in GoodRows, NEW c \in GoodRows, NEW v \in VerdictType, NEW s, Truthful(r, s),
           v.act \in {"VERIFYING", "booked"} => RequestClosed(s), NEW q \in Repairs(r, c, v)
    PROVE  q \in GoodRows /\ Truthful(q, s)
<1> DEFINE ids == [r EXCEPT !.contact = @ \/ v.contact, !.deal = @ \/ v.deal, !.task = @ \/ v.task]
<1>1. ids \in GoodRows BY DEF GoodRows, VerdictType
<1>2. ids.st = r.st /\ ids.code = r.code BY DEF GoodRows
<1>3. CASE v.act = "none" BY <1>3 DEF Repairs
<1>4. CASE v.act = "touch"
  <2>1. q = ids BY <1>4 DEF Repairs
  <2> HIDE DEF ids
  <2>2. QED BY <1>1, <1>2, <2>1 DEF Truthful
<1>5. CASE v.act = "manual"
  BY <1>5, RowEdits, RetryRows DEF Repairs
<1>6. CASE v.act = "booked"
  <2>1. PICK k \in {"BOOKED", r.code} : q = [r EXCEPT !.st = "DONE", !.code = k] BY <1>6 DEF Repairs
  <2>2. q \in GoodRows BY <2>1 DEF GoodRows, Terminal
  <2>3. RequestClosed(s) BY <1>6
  <2>4. QED BY <2>2, <2>3 DEF Truthful
<1>7. CASE v.act \in {"VERIFYING", "RECONCILED", "MANUAL_REVIEW", "CRM_READY"}
  <2> DEFINE col(new, old, now) == IF new = old THEN now ELSE new
  <2>0. \E k \in {"other", r.code} : q = [ids EXCEPT !.st = col(v.act, c.st, @), !.code = k]
    BY <1>7 DEF Repairs
  <2> HIDE DEF ids
  <2>1. PICK k \in {"other", r.code}, st \in {v.act, r.st} : q = [ids EXCEPT !.st = st, !.code = k]
    BY <1>2, <2>0
  <2>2. st \in Terminal \cup Working \cup {"ABSENT"} BY <1>7 DEF GoodRows, Terminal, Working
  <2>3. k \in {"other", "GAME_SELF_BOOKED", "BOOKED"} BY DEF GoodRows
  <2>4. q \in GoodRows BY <1>1, <2>1, <2>2, <2>3 DEF GoodRows
  <2>5. q.st = st /\ q.code = k BY <1>1, <2>1 DEF GoodRows
  <2>6. QED BY <1>7, <2>4, <2>5 DEF Truthful
<1>8. v.act \in {"none", "touch", "manual", "booked", "VERIFYING", "RECONCILED", "MANUAL_REVIEW", "CRM_READY"}
  BY DEF VerdictType
<1>9. QED BY <1>3, <1>4, <1>5, <1>6, <1>7, <1>8

LEMMA ReconStep ==
    ASSUME TeyaInv, ReconBegin \/ ReconScan \/ ReconWrite \/ ReconCrash
    PROVE  TeyaInv'
<1>1. recon \in ReconType /\ recon.copy \in GoodRows /\ recon.verdict \in VerdictType /\ pend \in GoodRows
  BY DEF TeyaInv, ReconType
<1>2. ASSUME ReconBegin PROVE TeyaInv'
  <2>1. pend' = Expired(pend) /\ recon' = [recon EXCEPT !.ph = "expired"]
        /\ UNCHANGED <<amo, salon, brk, outage, told, teyaFaults>>
    BY <1>2 DEF ReconBegin
  <2>2. recon' \in ReconType /\ recon'.ph = "expired" BY <1>1, <2>1 DEF ReconType
  <2>3. pend' \in GoodRows /\ Truthful(pend', salon) BY <1>1, <2>1, RetryRows DEF TeyaInv
  <2>4. QED BY <2>1, <2>2, <2>3 DEF TeyaInv, Truthful, RequestClosed, BreakerKnows
<1>3. ASSUME ReconScan PROVE TeyaInv'
  <2>1. UNCHANGED <<pend, amo, salon, brk, outage, told, teyaFaults>> BY <1>3 DEF ReconScan
  <2>2. recon' \in ReconType /\ recon'.ph # "decided" BY <1>1, <1>3 DEF ReconScan, ReconType
  <2>3. QED BY <2>1, <2>2 DEF TeyaInv, Truthful, RequestClosed, BreakerKnows
<1>4. ASSUME ReconWrite PROVE TeyaInv'
  <2>1. /\ recon.ph = "decided" /\ pend' \in Repairs(pend, recon.copy, recon.verdict)
        /\ recon' = ReconIdle
        /\ UNCHANGED <<amo, salon, brk, outage, told, teyaFaults>>
    BY <1>4 DEF ReconWrite
  <2>2. Truthful(pend, salon) /\ (recon.verdict.act \in {"VERIFYING", "booked"} => RequestClosed(salon))
    BY <2>1 DEF TeyaInv
  <2>3. pend' \in GoodRows /\ Truthful(pend', salon) BY <1>1, <2>1, <2>2, RepairsOK
  <2>4. recon' \in ReconType /\ recon'.ph = "idle" BY <2>1, IdleRecon
  <2>5. QED BY <2>1, <2>3, <2>4 DEF TeyaInv, Truthful, RequestClosed, BreakerKnows
<1>5. ASSUME ReconCrash PROVE TeyaInv'
  <2>1. /\ recon' = ReconIdle /\ TeyaPays(1)
        /\ UNCHANGED <<pend, amo, salon, brk, outage, told>>
    BY <1>5 DEF ReconCrash
  <2>2. recon' \in ReconType /\ recon'.ph = "idle" BY <2>1, IdleRecon
  <2>3. teyaFaults' \in 0..MaxTeyaFaults BY <2>1, TeyaConstants DEF TeyaPays, TeyaInv
  <2>4. QED BY <2>1, <2>2, <2>3 DEF TeyaInv, Truthful, RequestClosed, BreakerKnows
<1>6. QED BY <1>2, <1>3, <1>4, <1>5

\* The feed, the choice of a slot, the salon's staff and the clock.
LEMMA OutsideStep ==
    ASSUME TeyaInv, IngestFeed \/ SelectSlot \/ HumanCloses \/ StaffTakes \/ BreakerRipens
    PROVE  TeyaInv'
<1>1. pend \in GoodRows /\ salon \in SalonType /\ brk \in BrkType /\ Truthful(pend, salon) /\ amo \in AmoType
      /\ BreakerKnows(brk, outage)
  BY DEF TeyaInv
<1>2. ASSUME IngestFeed PROVE TeyaInv'
  <2>1. UNCHANGED <<salon, brk, recon, outage, told, teyaFaults>> BY <1>2 DEF IngestFeed
  <2>2. ASSUME NEW n \in {0, 1}, NEW m \in {0, 1} PROVE Client(n, m) \in AmoType
    BY DEF Client, AmoType
  <2>3. amo' \in AmoType BY <1>1, <1>2, <2>2 DEF IngestFeed
  <2>4. pend' \in GoodRows /\ Truthful(pend', salon)
    <3>1. CASE pend.st = "ABSENT"
      <4>1. PICK ask \in Asks : pend' = Discovered(ask) BY <1>2, <3>1 DEF IngestFeed
      <4>2. QED BY <4>1, IdleRecon DEF Truthful
    <3>2. CASE pend.st # "ABSENT"
      <4>1. pend' = Expired(pend) BY <1>2, <3>2 DEF IngestFeed
      <4>2. QED BY <1>1, <4>1, RetryRows
    <3>3. QED BY <3>1, <3>2
  <2>5. QED BY <2>1, <2>3, <2>4 DEF TeyaInv, Truthful, RequestClosed, BreakerKnows
<1>3. ASSUME SelectSlot PROVE TeyaInv'
  <2>1. pend' = [pend EXCEPT !.starts = TRUE] /\ UNCHANGED <<amo, salon, brk, recon, outage, told, teyaFaults>>
    BY <1>3 DEF SelectSlot
  <2>2. pend' \in GoodRows /\ pend'.st = pend.st /\ pend'.code = pend.code BY <1>1, <2>1 DEF GoodRows
  <2>3. QED BY <2>1, <2>2 DEF TeyaInv, Truthful, RequestClosed, BreakerKnows
<1>4. ASSUME HumanCloses PROVE TeyaInv'
  <2>1. salon' = [salon EXCEPT !.status = "CLOSED"] /\ UNCHANGED <<pend, amo, brk, recon, outage, told, teyaFaults>>
    BY <1>4 DEF HumanCloses
  <2>2. salon' \in SalonType /\ salon'.status = "CLOSED" BY <1>1, <2>1 DEF SalonType
  <2>3. RequestClosed(salon') BY <2>2 DEF RequestClosed
  <2>4. RequestClosed(salon)' BY <2>2 DEF RequestClosed
  <2>5. Truthful(pend, salon)' BY <2>4 DEF Truthful
  <2>6. QED BY <2>1, <2>2, <2>4, <2>5 DEF TeyaInv, BreakerKnows
<1>5. ASSUME BreakerRipens PROVE TeyaInv'
  <2>1. /\ brk' = [brk EXCEPT !.ripe = TRUE] /\ brk.st # "CLOSED" /\ outage' = [outage EXCEPT !.steps = 0]
        /\ UNCHANGED <<pend, amo, salon, recon, told, teyaFaults>>
    BY <1>5 DEF BreakerRipens
  <2>2. brk' \in BrkType /\ brk'.st = brk.st BY <1>1, <2>1 DEF BrkType
  <2>3. outage' \in OutageType /\ outage'.streak = outage.streak /\ outage'.steps = 0
    BY <1>1, <2>1 DEF BreakerKnows, OutageType
  <2>4. BreakerKnows(brk', outage') BY <1>1, <2>1, <2>2, <2>3 DEF BreakerKnows
  <2>5. QED BY <2>1, <2>2, <2>4 DEF TeyaInv, Truthful, RequestClosed, BreakerKnows
<1>6. ASSUME StaffTakes PROVE TeyaInv'
  <2>1. salon' = [salon EXCEPT !.status = "TAKEN"] /\ ~RequestClosed(salon) /\ UNCHANGED <<pend, amo, brk, recon, outage, told, teyaFaults>>
    BY <1>6 DEF StaffTakes
  <2>2. salon' \in SalonType BY <1>1, <2>1 DEF SalonType
  <2>3. QED BY <2>1, <2>2 DEF TeyaInv, Truthful, BreakerKnows
<1>7. QED BY <1>2, <1>3, <1>4, <1>5, <1>6

LEMMA TeyaInductive ==
    ASSUME TeyaInv, [TeyaNext]_teyaVars
    PROVE  TeyaInv'
<1>1. ASSUME UNCHANGED teyaVars PROVE TeyaInv'
  BY <1>1 DEF teyaVars, TeyaInv, Truthful, RequestClosed, BreakerKnows
<1>2. QED BY <1>1, ProcessStep, ReconAskStep, ReconStep, OutsideStep DEF TeyaNext

LEMMA TeyaInitially == TeyaInit => TeyaInv
<1>1. SUFFICES ASSUME TeyaInit PROVE TeyaInv OBVIOUS
<1>2. Client(0, 0) \in AmoType BY DEF Client, AmoType
<1>3. [booked |-> {}, status |-> "NEW"] \in SalonType BY DEF SalonType
<1>4. [st |-> "CLOSED", fails |-> 0, ripe |-> FALSE] \in BrkType BY TeyaConstants DEF BrkType
<1>5. 0 \in 0..MaxTeyaFaults BY TeyaConstants
<1>6. BreakerKnows([st |-> "CLOSED", fails |-> 0, ripe |-> FALSE], [streak |-> 0, steps |-> 0])
  BY TeyaConstants DEF BreakerKnows, OutageType
<1>7. QED BY <1>1, <1>2, <1>3, <1>4, <1>5, <1>6, IdleRecon DEF TeyaInit, TeyaInv, Truthful

LEMMA TeyaAlways == TeyaSpec => []TeyaInv
<1>1. TeyaInv /\ [TeyaNext]_teyaVars => TeyaInv' BY TeyaInductive
<1>2. QED BY <1>1, TeyaInitially, PTL DEF TeyaSpec

\* The columns of the row, the breaker and the CRM counts have their types: no claim counts
\* past max_attempts and no failure past the breaker's threshold.
THEOREM TeyaTypeCorrect == TeyaSpec => []TeyaTypeOK
<1>1. ASSUME TeyaInv PROVE TeyaTypeOK
  <2>1. ASSUME NEW r \in GoodRows PROVE r \in TeyaRows BY DEF GoodRows, TeyaRows
  <2>2. ASSUME amo \in AmoType
        PROVE  amo \in [contacts : Nat, deals : Nat, closedDeals : Nat, notes : [NoteTexts -> Nat],
                       tasks : [TaskTexts -> Nat]]
    BY <2>2 DEF AmoType
  <2>3. ASSUME salon \in SalonType PROVE salon \in [booked : SUBSET {1, 2}, status : {"NEW", "TAKEN", "CLOSED"}]
    BY <2>3 DEF SalonType
  <2>4. recon.ph \in {"idle", "expired", "scanned", "decided"} /\ recon.copy \in GoodRows
    BY <1>1 DEF TeyaInv, ReconType
  <2>5. QED BY <1>1, <2>1, <2>2, <2>3, <2>4 DEF TeyaInv, TeyaTypeOK, BrkType
<1>2. QED BY <1>1, TeyaAlways, PTL

\* A request leads to one appointment, to one contact and deal and to one note and task of a text, and a row
\* says VERIFYING or BOOKED only when the salon has closed it: for any number of attempts,
\* lost answers, crashes after a POST and reconciliations that write from a stale copy.
THEOREM ServedOnceCorrect == TeyaSpec => []RequestServedOnce
<1>1. ASSUME TeyaInv PROVE BookedOnce
  <2>1. salon.booked \subseteq {1} BY <1>1 DEF TeyaInv, SalonType
  <2>2. IsFiniteSet({1}) /\ Cardinality({1}) = 1 BY FS_Singleton
  <2>3. Cardinality(salon.booked) <= 1 BY <2>1, <2>2, FS_Subset
  <2>4. QED BY <2>3 DEF BookedOnce
<1>2. ASSUME TeyaInv PROVE ReportedIsBooked BY <1>2 DEF TeyaInv, Truthful, ReportedIsBooked
<1>3. ASSUME TeyaInv PROVE NoDuplicateCrm BY <1>3 DEF TeyaInv, AmoType, NoDuplicateCrm
<1>4. TeyaInv => RequestServedOnce BY <1>1, <1>2, <1>3 DEF RequestServedOnce
<1>5. QED BY <1>4, TeyaAlways, PTL

\* The breaker is open exactly while the last failures it counted reach its threshold, and an open one lets one step at
\* a time through: for any threshold, and whatever the worker, its crashes and the reconciliation do.
THEOREM BreakerCorrect == TeyaSpec => []BreakerProtects
<1>1. ASSUME TeyaInv PROVE BreakerProtects
  <2>1. BreakerKnows(brk, outage) BY <1>1 DEF TeyaInv
  <2>2. outage.steps \in {0, 1} BY <2>1 DEF BreakerKnows, OutageType
  <2>3. QED BY <2>1, <2>2 DEF BreakerKnows, BreakerProtects
<1>2. QED BY <1>1, TeyaAlways, PTL

-----------------------------------------------------------------------------
(* MasterCommands: a command is applied once, as previewed and in time.    *)

CommandType == [st : Open \cup Closed \cup {"none"}, kind : {"none", "close", "booking"}, key : Nat,
                live : BOOLEAN, pii : BOOLEAN]
HandType == [ph : {"idle", "read", "post"}, m : MasterMsgs \cup {0}, master : Masters \cup {NoMaster},
             lapsed : SUBSET MasterMsgs, row : MasterMsgs \cup {0}]

\* A row exists or is NoCommand, and what can be confirmed has its key.
CommandOK(r) == (r.st = "none" => r = NoCommand) /\ (r.st = "CONFIRM" => r.key # 0)

\* A callback under way knows its master; one that has posted holds a row with a key; and a row that had lapsed when a
\* callback came is still known, and lapsed as long as it is open.
HandInv(h) ==
    /\ hand[h].ph # "idle" => hand[h].master \in Masters
    /\ hand[h].ph = "post" => hand[h].row \in MasterMsgs /\ rows[hand[h].row].key # 0
    /\ \A a \in hand[h].lapsed : rows[a].st # "none" /\ (rows[a].st \in Open => ~rows[a].live)

MasterTypes ==
    /\ rows \in [MasterMsgs -> CommandType]
    /\ hand \in [MasterHandlers -> HandType]
    /\ bound \in Masters \cup {NoMaster}
    /\ flying \cup landed \cup refused \subseteq Requests
    /\ lastKey \in Nat

\* Every POST of a row carries the row's key, and the service has applied no key twice.
KeyInv ==
    /\ \A q \in flying \cup landed \cup refused : rows[q.row].key = q.key
    /\ \A p, q \in landed : p.key = q.key => p = q

\* Success is reported for what has landed.
ToldInv == \A m \in MasterMsgs : rows[m].st = "SUCCEEDED" /\ rows[m].kind # "none" => \E p \in landed : p.row = m

OneOpen == \A m, n \in MasterMsgs : rows[m].st \in Open /\ rows[n].st \in Open => m = n

MasterInv ==
    /\ MasterTypes /\ KeyInv /\ ToldInv /\ OneOpen
    /\ \A m \in MasterMsgs : CommandOK(rows[m])
    /\ \A h \in MasterHandlers : HandInv(h)

\* What any step may make of a row: a key is never changed, a row never removed and a closed one never reopened.
RowMoves(r, s) ==
    /\ s \in CommandType /\ CommandOK(s)
    /\ r.key = 0 \/ s.key = r.key
    /\ r.st # "none" => s.st # "none"
    /\ r.st \in Closed => s.st \notin Open

CommandPostStep ==
    \A q \in flying' \ flying :
       /\ rows[q.row].st = "CONFIRM" /\ rows[q.row].key = q.key
       /\ \E h \in MasterHandlers : hand'[h].ph = "post" /\ hand'[h].row = q.row
                                     /\ texts[hand[h].m].kind = "confirm"
LapsedStep(h) ==
    hand[h].ph = "read" =>
       \A a \in hand[h].lapsed :
          rows[a].st \in Open /\ hand'[h].ph # "read" =>
             /\ rows'[a].st \in {"EXPIRED", rows[a].st} /\ ~rows'[a].live
             /\ hand'[h].row # a
MasterStep == CommandPostStep /\ \A h \in MasterHandlers : LapsedStep(h)

LEMMA RestingHand == Resting \in HandType /\ Resting.ph = "idle" /\ Resting.lapsed = {} /\ Resting.row = 0
  BY DEF Resting, HandType

\* A callback ends: the rows move, and no row that another callback saw lapsed is renewed behind its back.
LEMMA HandlerEnds ==
    ASSUME MasterInv, NEW h \in MasterHandlers,
           hand' \in [MasterHandlers -> HandType], hand'[h] = Resting,
           \A g \in MasterHandlers : g # h =>
              /\ hand'[g].ph = hand[g].ph /\ hand'[g].master = hand[g].master /\ hand'[g].row = hand[g].row
              /\ hand'[g].lapsed \subseteq hand[g].lapsed
              /\ \A a \in hand'[g].lapsed : rows'[a].live => rows[a].live,
           rows' \in [MasterMsgs -> CommandType],
           \A m \in MasterMsgs : RowMoves(rows[m], rows'[m]),
           \A m \in MasterMsgs : rows'[m].st = "SUCCEEDED" /\ rows'[m].kind # "none" =>
              \/ rows[m].st = "SUCCEEDED" /\ rows[m].kind # "none"
              \/ \E p \in landed : p.row = m,
           OneOpen',
           hand[h].ph = "read" => \A a \in hand[h].lapsed :
              rows'[a].st \in {"EXPIRED", rows[a].st} /\ rows'[a].live = rows[a].live,
           UNCHANGED <<bound, Remote>>, lastKey' \in Nat
    PROVE  MasterInv' /\ MasterStep
<1>1. UNCHANGED <<flying, landed, refused>> BY DEF Remote
<1>2. MasterTypes' BY <1>1 DEF MasterInv, MasterTypes
<1>3. KeyInv'
  <2>1. ASSUME NEW q \in flying \cup landed \cup refused PROVE rows'[q.row].key = q.key
    <3>1. q.row \in MasterMsgs /\ q.key # 0 /\ rows[q.row].key = q.key BY DEF MasterInv, MasterTypes, KeyInv, Requests
    <3>2. RowMoves(rows[q.row], rows'[q.row]) BY <3>1
    <3>3. QED BY <3>1, <3>2 DEF RowMoves
  <2>2. QED BY <1>1, <2>1 DEF MasterInv, KeyInv
<1>4. ToldInv' BY <1>1 DEF MasterInv, ToldInv
<1>5. \A m \in MasterMsgs : CommandOK(rows'[m]) BY DEF RowMoves
<1>6. ASSUME NEW g \in MasterHandlers PROVE HandInv(g)'
  <2>1. CASE g = h BY <2>1, RestingHand DEF HandInv
  <2>2. CASE g # h
    <3>1. HandInv(g) BY DEF MasterInv
    <3>2. hand'[g].ph # "idle" => hand'[g].master \in Masters BY <2>2, <3>1 DEF HandInv
    <3>3. hand'[g].ph = "post" => hand'[g].row \in MasterMsgs /\ rows'[hand'[g].row].key # 0
      BY <2>2, <3>1 DEF HandInv, RowMoves
    <3>4. ASSUME NEW a \in hand'[g].lapsed PROVE rows'[a].st # "none" /\ (rows'[a].st \in Open => ~rows'[a].live)
      <4>1. a \in MasterMsgs /\ a \in hand[g].lapsed BY <2>2, <3>4 DEF HandType
      <4>2. rows[a].st # "none" /\ (rows[a].st \in Open => ~rows[a].live) BY <3>1, <4>1 DEF HandInv
      <4>3. rows[a].st \in Open \cup Closed BY <4>1, <4>2 DEF MasterInv, MasterTypes, CommandType
      <4>4. RowMoves(rows[a], rows'[a]) BY <4>1
      <4>5. QED BY <2>2, <3>4, <4>2, <4>3, <4>4 DEF RowMoves
    <3>5. QED BY <3>2, <3>3, <3>4 DEF HandInv
  <2>3. QED BY <2>1, <2>2
<1>7. MasterInv' BY <1>2, <1>3, <1>4, <1>5, <1>6 DEF MasterInv
<1>8. ASSUME NEW g \in MasterHandlers PROVE LapsedStep(g)
  <2>1. CASE g = h
    <3> SUFFICES ASSUME hand[h].ph = "read", NEW a \in hand[h].lapsed, rows[a].st \in Open
                 PROVE  rows'[a].st \in {"EXPIRED", rows[a].st} /\ ~rows'[a].live /\ hand'[h].row # a
      BY <2>1 DEF LapsedStep
    <3>1. HandInv(h) /\ a \in MasterMsgs BY DEF MasterInv, MasterTypes, HandType
    <3>2. ~rows[a].live BY <3>1 DEF HandInv
    <3>3. hand'[h].row # a BY <3>1, RestingHand, MasterAssumption
    <3>4. QED BY <3>2, <3>3
  <2>2. CASE g # h BY <2>2 DEF LapsedStep
  <2>3. QED BY <2>1, <2>2
<1>9. CommandPostStep BY <1>1 DEF CommandPostStep
<1>10. QED BY <1>7, <1>8, <1>9 DEF MasterStep

\* The row of the message itself is added where there is none.
LEMMA MirrorPointwise ==
    ASSUME NEW h \in MasterHandlers, NEW rs \in [MasterMsgs -> CommandType], NEW x \in CommandType
    PROVE  /\ WithMirror(h, rs, x) \in [MasterMsgs -> CommandType]
           /\ \A m \in MasterMsgs :
                 WithMirror(h, rs, x)[m] = IF m = hand[h].m /\ rs[m] = NoCommand THEN x ELSE rs[m]
  BY DEF WithMirror

LEMMA MirrorRowTyped ==
    ASSUME NEW s \in Closed
    PROVE  /\ MirrorRow(s) \in CommandType /\ CommandOK(MirrorRow(s)) /\ MirrorRow(s).st = s
           /\ MirrorRow(s).kind = "none" /\ s \notin Open /\ s # "none"
  BY DEF MirrorRow, NoCommand, CommandType, CommandOK, Closed, Open

LEMMA NoCommandRow ==
    NoCommand \in CommandType /\ CommandOK(NoCommand) /\ NoCommand.st = "none" /\ NoCommand.key = 0
    /\ ~NoCommand.live
  BY DEF NoCommand, CommandType, CommandOK

LEMMA EndsHand ==
    ASSUME MasterInv, NEW h \in MasterHandlers, MasterEnds(h)
    PROVE  /\ hand' \in [MasterHandlers -> HandType] /\ hand'[h] = Resting
           /\ \A g \in MasterHandlers : g # h => hand'[g] = hand[g]
  BY RestingHand DEF MasterEnds, MasterInv, MasterTypes

LEMMA RenewingHand ==
    ASSUME MasterInv, NEW h \in MasterHandlers, NEW a, EndsRenewing(h, a)
    PROVE  /\ hand' \in [MasterHandlers -> HandType] /\ hand'[h] = Resting
           /\ \A g \in MasterHandlers : g # h =>
                 /\ hand'[g].ph = hand[g].ph /\ hand'[g].master = hand[g].master /\ hand'[g].row = hand[g].row
                 /\ hand'[g].lapsed = hand[g].lapsed \ {a}
<1>1. ASSUME NEW g \in MasterHandlers
      PROVE  /\ [hand[g] EXCEPT !.lapsed = @ \ {a}] \in HandType
             /\ [hand[g] EXCEPT !.lapsed = @ \ {a}].ph = hand[g].ph
             /\ [hand[g] EXCEPT !.lapsed = @ \ {a}].master = hand[g].master
             /\ [hand[g] EXCEPT !.lapsed = @ \ {a}].row = hand[g].row
             /\ [hand[g] EXCEPT !.lapsed = @ \ {a}].lapsed = hand[g].lapsed \ {a}
  <2> DEFINE x == hand[g]
  <2>1. x \in HandType BY DEF MasterInv, MasterTypes
  <2> HIDE DEF x
  <2>2. [x EXCEPT !.lapsed = @ \ {a}] \in HandType BY <2>1 DEF HandType
  <2>3. QED BY <2>1, <2>2 DEF HandType, x
<1>2. QED BY <1>1, RestingHand DEF EndsRenewing

\* Lazy expiry closes what had lapsed and leaves the rest.
LEMMA SweptRows ==
    ASSUME MasterInv, NEW h \in MasterHandlers
    PROVE  /\ Swept(h) \in [MasterMsgs -> CommandType]
           /\ \A m \in MasterMsgs :
                 \/ Swept(h)[m] = rows[m] /\ (rows[m].st \in Open => m \in Pending(h))
                 \/ /\ rows[m].st \in Open /\ m \in hand[h].lapsed /\ Swept(h)[m].st = "EXPIRED"
                    /\ Swept(h)[m].live = rows[m].live /\ Swept(h)[m].key = rows[m].key
<1>1. ASSUME NEW m \in MasterMsgs
      PROVE  /\ [rows[m] EXCEPT !.st = "EXPIRED"] \in CommandType
             /\ [rows[m] EXCEPT !.st = "EXPIRED"].st = "EXPIRED"
             /\ [rows[m] EXCEPT !.st = "EXPIRED"].live = rows[m].live
             /\ [rows[m] EXCEPT !.st = "EXPIRED"].key = rows[m].key
  <2> DEFINE r == rows[m]
  <2>1. r \in CommandType BY DEF MasterInv, MasterTypes
  <2> HIDE DEF r
  <2>2. [r EXCEPT !.st = "EXPIRED"] \in CommandType BY <2>1 DEF CommandType, Closed
  <2>3. QED BY <2>1, <2>2 DEF CommandType, r
<1>2. \A m \in MasterMsgs : rows[m] \in CommandType BY DEF MasterInv, MasterTypes
<1>3. ASSUME NEW m \in MasterMsgs
      PROVE Swept(h)[m] = IF rows[m].st \in Open /\ m \in hand[h].lapsed THEN [rows[m] EXCEPT !.st = "EXPIRED"] ELSE rows[m]
  BY DEF Swept, ActiveRequest, ExpiredFor
<1>4. Swept(h) \in [MasterMsgs -> CommandType] BY <1>1, <1>2 DEF Swept
<1>5. ASSUME NEW m \in MasterMsgs, rows[m].st \in Open, m \notin hand[h].lapsed PROVE m \in Pending(h)
  BY <1>5 DEF Pending, ActiveRequest, ExpiredFor
<1>6. QED BY <1>1, <1>3, <1>4, <1>5

\* A callback that found nothing to act on leaves its own row, a new command if nothing else is open.
LEMMA SweepsAndAdds ==
    ASSUME MasterInv, NEW h \in MasterHandlers, NEW x \in CommandType, CommandOK(x), x.st # "none",
           x.st = "SUCCEEDED" => x.kind = "none", x.st \in Open => Pending(h) = {},
           rows' = WithMirror(h, Swept(h), x), MasterEnds(h), UNCHANGED <<bound, Remote>>, lastKey' \in Nat
    PROVE  MasterInv' /\ MasterStep
<1> DEFINE sw == Swept(h)
<1>1. sw \in [MasterMsgs -> CommandType] BY SweptRows
<1>2. ASSUME NEW m \in MasterMsgs
      PROVE  \/ sw[m] = rows[m] /\ (rows[m].st \in Open => m \in Pending(h))
             \/ /\ rows[m].st \in Open /\ m \in hand[h].lapsed /\ sw[m].st = "EXPIRED"
                /\ sw[m].live = rows[m].live /\ sw[m].key = rows[m].key
  BY SweptRows
<1>3. rows' \in [MasterMsgs -> CommandType] BY <1>1, MirrorPointwise
<1>4. ASSUME NEW m \in MasterMsgs
      PROVE  \/ rows'[m] = sw[m]
             \/ rows[m] = NoCommand /\ rows'[m] = x /\ m = hand[h].m
  <2>1. rows'[m] = IF m = hand[h].m /\ sw[m] = NoCommand THEN x ELSE sw[m] BY <1>1, MirrorPointwise
  <2>2. sw[m] = NoCommand => rows[m] = NoCommand BY <1>2, NoCommandRow
  <2>3. QED BY <2>1, <2>2
<1> HIDE DEF sw
<1>5. ASSUME NEW m \in MasterMsgs PROVE RowMoves(rows[m], rows'[m])
  <2>1. rows[m] \in CommandType /\ CommandOK(rows[m]) /\ rows'[m] \in CommandType BY <1>3 DEF MasterInv, MasterTypes
  <2>2. CASE rows'[m] = rows[m]
    <3>1. rows[m].st \in Closed => rows[m].st \notin Open BY DEF Closed, Open
    <3>2. QED BY <2>1, <2>2, <3>1 DEF RowMoves
  <2>3. CASE rows[m].st \in Open /\ rows'[m].st = "EXPIRED" /\ rows'[m].key = rows[m].key
    BY <2>1, <2>3 DEF RowMoves, CommandOK, Open, Closed
  <2>4. CASE rows[m] = NoCommand /\ rows'[m] = x BY <2>1, <2>4, NoCommandRow DEF RowMoves, Closed
  <2>5. QED BY <1>2, <1>4, <2>2, <2>3, <2>4
<1>6. ASSUME NEW m \in MasterMsgs, rows'[m].st = "SUCCEEDED", rows'[m].kind # "none"
      PROVE  rows[m].st = "SUCCEEDED" /\ rows[m].kind # "none"
  BY <1>2, <1>4, <1>6
<1>7. OneOpen'
  <2>1. ASSUME NEW m \in MasterMsgs, rows'[m].st \in Open
        PROVE  (rows[m].st \in Open /\ m \in Pending(h)) \/ (m = hand[h].m /\ Pending(h) = {})
    <3>1. "EXPIRED" \notin Open BY DEF Open
    <3>2. QED BY <1>2, <1>4, <2>1, <3>1
  <2>2. QED BY <2>1 DEF MasterInv, OneOpen
<1>8. ASSUME NEW a \in hand[h].lapsed PROVE rows'[a].st \in {"EXPIRED", rows[a].st} /\ rows'[a].live = rows[a].live
  <2>1. a \in MasterMsgs BY <1>8 DEF MasterInv, MasterTypes, HandType
  <2>2. rows[a].st # "none" BY <1>8 DEF MasterInv, HandInv
  <2>3. rows'[a] = sw[a] BY <1>4, <2>1, <2>2, NoCommandRow
  <2>4. QED BY <1>2, <2>1, <2>3
<1>9. /\ hand' \in [MasterHandlers -> HandType] /\ hand'[h] = Resting
      /\ \A g \in MasterHandlers : g # h => hand'[g] = hand[g]
  BY EndsHand
<1>10. ASSUME NEW g \in MasterHandlers, NEW a \in hand[g].lapsed, rows'[a].live PROVE rows[a].live
  <2>1. a \in MasterMsgs BY <1>10 DEF MasterInv, MasterTypes, HandType
  <2>2. rows[a].st # "none" BY <1>10 DEF MasterInv, HandInv
  <2>3. rows'[a] = sw[a] BY <1>4, <2>1, <2>2, NoCommandRow
  <2>4. QED BY <1>2, <1>10, <2>1, <2>3
<1>11. QED BY <1>3, <1>5, <1>6, <1>7, <1>8, <1>9, <1>10, HandlerEnds

\* A callback that acts on row a: it becomes y, and the callback's own row mirrors the outcome.
LEMMA ActsOnRow ==
    ASSUME MasterInv, NEW h \in MasterHandlers, NEW a \in MasterMsgs, NEW y, RowMoves(rows[a], y), rows[a].st # "none",
           y.st \in Open => rows[a].st \in Open,
           y.st = "SUCCEEDED" /\ y.kind # "none" => \E p \in landed : p.row = a,
           NEW s \in Closed, rows' = WithMirror(h, [rows EXCEPT ![a] = y], MirrorRow(s)),
           (MasterEnds(h) /\ y.live = rows[a].live) \/ EndsRenewing(h, a),
           hand[h].ph = "read" => a \notin hand[h].lapsed,
           UNCHANGED <<bound, Remote>>, lastKey' \in Nat
    PROVE  MasterInv' /\ MasterStep
<1> DEFINE rs == [rows EXCEPT ![a] = y]
<1>1. y \in CommandType /\ y.st # "none" /\ rows \in [MasterMsgs -> CommandType] BY DEF RowMoves, MasterInv, MasterTypes
<1>2. rs \in [MasterMsgs -> CommandType] /\ rs[a] = y /\ \A m \in MasterMsgs : m # a => rs[m] = rows[m] BY <1>1
<1> HIDE DEF rs
<1>3. rows' \in [MasterMsgs -> CommandType] BY <1>2, MirrorPointwise, MirrorRowTyped DEF rs
<1>4. rows'[a] = y
  <2>1. rows'[a] = IF a = hand[h].m /\ rs[a] = NoCommand THEN MirrorRow(s) ELSE rs[a]
    BY <1>2, MirrorPointwise, MirrorRowTyped DEF rs
  <2>2. QED BY <1>1, <1>2, <2>1, NoCommandRow
<1>5. ASSUME NEW m \in MasterMsgs, m # a
      PROVE  rows'[m] = rows[m] \/ (rows[m] = NoCommand /\ rows'[m] = MirrorRow(s))
  <2>1. rows'[m] = IF m = hand[h].m /\ rs[m] = NoCommand THEN MirrorRow(s) ELSE rs[m]
    BY <1>2, MirrorPointwise, MirrorRowTyped DEF rs
  <2>2. QED BY <1>2, <1>5, <2>1
<1>6. ASSUME NEW m \in MasterMsgs PROVE RowMoves(rows[m], rows'[m])
  <2>1. rows[m] \in CommandType /\ CommandOK(rows[m]) /\ rows'[m] \in CommandType BY <1>3 DEF MasterInv, MasterTypes
  <2>2. CASE rows'[m] = rows[m]
    <3>1. rows[m].st \in Closed => rows[m].st \notin Open BY DEF Closed, Open
    <3>2. QED BY <2>1, <2>2, <3>1 DEF RowMoves
  <2>3. CASE rows[m] = NoCommand /\ rows'[m] = MirrorRow(s)
    BY <2>1, <2>3, NoCommandRow, MirrorRowTyped DEF RowMoves, Closed
  <2>4. CASE m = a BY <1>4, <2>4
  <2>5. QED BY <1>5, <2>2, <2>3, <2>4
<1>7. ASSUME NEW m \in MasterMsgs, rows'[m].st = "SUCCEEDED", rows'[m].kind # "none"
      PROVE  (rows[m].st = "SUCCEEDED" /\ rows[m].kind # "none") \/ \E p \in landed : p.row = m
  BY <1>4, <1>5, <1>7, MirrorRowTyped
<1>8. OneOpen'
  <2>1. ASSUME NEW m \in MasterMsgs, rows'[m].st \in Open PROVE rows[m].st \in Open BY <1>4, <1>5, <2>1, MirrorRowTyped
  <2>2. QED BY <2>1 DEF MasterInv, OneOpen
<1>9. ASSUME NEW g \in MasterHandlers, NEW b \in hand[g].lapsed, b # a PROVE rows'[b] = rows[b]
  <2>1. b \in MasterMsgs BY <1>9 DEF MasterInv, MasterTypes, HandType
  <2>2. rows[b].st # "none" BY <1>9 DEF MasterInv, HandInv
  <2>3. QED BY <1>5, <1>9, <2>1, <2>2, NoCommandRow
<1>10. ASSUME hand[h].ph = "read", NEW b \in hand[h].lapsed
       PROVE  rows'[b].st \in {"EXPIRED", rows[b].st} /\ rows'[b].live = rows[b].live
  BY <1>9, <1>10
<1>11. CASE MasterEnds(h) /\ y.live = rows[a].live
  <2>1. /\ hand' \in [MasterHandlers -> HandType] /\ hand'[h] = Resting
        /\ \A g \in MasterHandlers : g # h => hand'[g] = hand[g]
    BY <1>11, EndsHand
  <2>2. \A g \in MasterHandlers : \A b \in hand[g].lapsed : rows'[b].live => rows[b].live BY <1>4, <1>9, <1>11
  <2>3. QED BY <1>3, <1>6, <1>7, <1>8, <1>10, <2>1, <2>2, HandlerEnds
<1>12. CASE EndsRenewing(h, a)
  <2>1. /\ hand' \in [MasterHandlers -> HandType] /\ hand'[h] = Resting
        /\ \A g \in MasterHandlers : g # h =>
              /\ hand'[g].ph = hand[g].ph /\ hand'[g].master = hand[g].master /\ hand'[g].row = hand[g].row
              /\ hand'[g].lapsed = hand[g].lapsed \ {a}
    BY <1>12, RenewingHand
  <2>2. ASSUME NEW g \in MasterHandlers, g # h
        PROVE  /\ hand'[g].ph = hand[g].ph /\ hand'[g].master = hand[g].master /\ hand'[g].row = hand[g].row
               /\ hand'[g].lapsed \subseteq hand[g].lapsed
               /\ \A b \in hand'[g].lapsed : rows'[b].live => rows[b].live
    BY <1>9, <2>1, <2>2
  <2>3. QED BY <1>3, <1>6, <1>7, <1>8, <1>10, <2>1, <2>2, HandlerEnds
<1>13. QED BY <1>11, <1>12

LEMMA AnswerOnlyInv ==
    ASSUME MasterInv, NEW h \in MasterHandlers, AnswerOnly(h)
    PROVE  MasterInv' /\ MasterStep
<1>1. "FAILED" \in Closed BY DEF Closed
<1>2. rows' = WithMirror(h, Swept(h), MirrorRow("FAILED")) /\ MasterEnds(h) /\ UNCHANGED <<bound, Remote>>
      /\ lastKey' \in Nat
  BY DEF AnswerOnly, MasterInv, MasterTypes
<1>3. QED BY <1>1, <1>2, MirrorRowTyped, SweepsAndAdds

LEMMA ReadScheduleInv ==
    ASSUME MasterInv, NEW h \in MasterHandlers, ReadSchedule(h)
    PROVE  MasterInv' /\ MasterStep
<1>1. PICK s \in {"SUCCEEDED", "FAILED"} : rows' = WithMirror(h, Swept(h), MirrorRow(s))
  BY DEF ReadSchedule, ScheduleRow
<1>2. s \in Closed BY DEF Closed
<1>3. MasterEnds(h) /\ UNCHANGED <<bound, Remote>> /\ lastKey' \in Nat BY DEF ReadSchedule, MasterInv, MasterTypes
<1>4. QED BY <1>1, <1>2, <1>3, MirrorRowTyped, SweepsAndAdds

\* The status of a row changes for a closed one.
LEMMA ClosesRow ==
    ASSUME MasterInv, NEW a \in MasterMsgs, NEW s \in Closed, rows[a].st # "none"
    PROVE  /\ RowMoves(rows[a], [rows[a] EXCEPT !.st = s])
           /\ [rows[a] EXCEPT !.st = s].st = s /\ [rows[a] EXCEPT !.st = s].live = rows[a].live
<1> DEFINE r == rows[a]
           y == [r EXCEPT !.st = s]
<1>1. r \in CommandType BY DEF MasterInv, MasterTypes
<1> HIDE DEF r
<1>2. y \in CommandType /\ y.st = s /\ y.key = r.key /\ y.live = r.live BY <1>1 DEF CommandType
<1>3. s \notin Open /\ s # "none" /\ s # "CONFIRM" BY DEF Open, Closed
<1> HIDE DEF y
<1>4. RowMoves(r, y) BY <1>2, <1>3 DEF RowMoves, CommandOK
<1>5. QED BY <1>2, <1>4 DEF r, y

LEMMA PendingRow ==
    ASSUME MasterInv, NEW h, NEW a \in Pending(h)
    PROVE  a \in MasterMsgs /\ rows[a].st \in Open /\ rows[a].st # "none" /\ a \notin hand[h].lapsed
  BY DEF Pending, ActiveRequest, ExpiredFor, Open

LEMMA CancelPendingInv ==
    ASSUME MasterInv, NEW h \in MasterHandlers, CancelPending(h)
    PROVE  MasterInv' /\ MasterStep
<1>1. PICK a \in Pending(h) : rows' = WithMirror(h, [rows EXCEPT ![a].st = "CANCELLED"], MirrorRow("CANCELLED"))
  BY DEF CancelPending
<1>2. a \in MasterMsgs /\ rows[a].st \in Open /\ rows[a].st # "none" /\ a \notin hand[h].lapsed BY PendingRow
<1> DEFINE y == [rows[a] EXCEPT !.st = "CANCELLED"]
<1>3. "CANCELLED" \in Closed BY DEF Closed
<1>4. RowMoves(rows[a], y) /\ y.st = "CANCELLED" /\ y.live = rows[a].live BY <1>2, <1>3, ClosesRow
<1>5. rows' = WithMirror(h, [rows EXCEPT ![a] = y], MirrorRow("CANCELLED")) BY <1>1
<1>6. MasterEnds(h) /\ UNCHANGED <<bound, Remote>> /\ lastKey' \in Nat BY DEF CancelPending, MasterInv, MasterTypes
<1> HIDE DEF y
<1>7. QED BY <1>2, <1>3, <1>4, <1>5, <1>6, ActsOnRow

\* A callback that ends without a change of the rows.
LEMMA EndsQuietly ==
    ASSUME MasterInv, NEW h \in MasterHandlers, MasterEnds(h), UNCHANGED <<rows, bound, Remote, lastKey>>
    PROVE  MasterInv' /\ MasterStep
<1>1. /\ hand' \in [MasterHandlers -> HandType] /\ hand'[h] = Resting
      /\ \A g \in MasterHandlers : g # h => hand'[g] = hand[g]
  BY EndsHand
<1>2. rows' \in [MasterMsgs -> CommandType] /\ lastKey' \in Nat BY DEF MasterInv, MasterTypes
<1>3. ASSUME NEW m \in MasterMsgs PROVE RowMoves(rows[m], rows'[m])
  <2>1. rows[m].st \in Closed => rows[m].st \notin Open BY DEF Closed, Open
  <2>2. QED BY <1>2, <2>1 DEF RowMoves, MasterInv
<1>4. OneOpen' BY DEF MasterInv, OneOpen
<1>5. QED BY <1>1, <1>2, <1>3, <1>4, HandlerEnds

LEMMA StartCommandInv ==
    ASSUME MasterInv, NEW h \in MasterHandlers, StartCommand(h)
    PROVE  MasterInv' /\ MasterStep
<1> DEFINE t == texts[hand[h].m]
           x == NewCommand(t)
<1>1. t \in Commands /\ Pending(h) = {} /\ rows' = WithMirror(h, Swept(h), x) /\ MasterEnds(h) /\ UNCHANGED <<bound, Remote>>
  BY DEF StartCommand
<1>2. lastKey' \in Nat BY DEF StartCommand, MasterInv, MasterTypes
<1>3. lastKey + 1 \in Nat \ {0} BY DEF MasterInv, MasterTypes
<1>4. t.kind \in {"close", "booking"} BY <1>1 DEF Commands
<1> HIDE DEF t
<1>5. x \in CommandType BY <1>3, <1>4 DEF NewCommand, CommandType, Open, StoresPii, Complete
<1>6. x.st \in Open /\ x.st # "SUCCEEDED" /\ x.st # "none" /\ (x.st = "CONFIRM" => x.key # 0)
  BY <1>3 DEF NewCommand, Open, Complete
<1> HIDE DEF x
<1>7. QED BY <1>1, <1>2, <1>5, <1>6, SweepsAndAdds DEF CommandOK

LEMMA MergeClarificationInv ==
    ASSUME MasterInv, NEW h \in MasterHandlers, MergeClarification(h)
    PROVE  MasterInv' /\ MasterStep
<1> DEFINE t == texts[hand[h].m]
<1>1. PICK a \in Pending(h), again \in BOOLEAN :
         /\ rows' = WithMirror(h, [rows EXCEPT ![a].live = TRUE, ![a].st = IF Complete(t) THEN "CONFIRM" ELSE "CLARIFY",
                                   ![a].key = IF Complete(t) THEN KeyOf(a) ELSE @, ![a].pii = @ \/ again],
                              MirrorRow("FAILED"))
         /\ ~Mismatch(a, t) /\ t \in Commands
         /\ EndsRenewing(h, a)
         /\ lastKey' = IF Complete(t) /\ rows[a].key = 0 THEN lastKey + 1 ELSE lastKey
  BY DEF MergeClarification
<1>2. a \in MasterMsgs /\ rows[a].st \in Open /\ rows[a].st # "none" /\ a \notin hand[h].lapsed BY PendingRow
<1> DEFINE r == rows[a]
           y == [r EXCEPT !.live = TRUE, !.st = IF Complete(t) THEN "CONFIRM" ELSE "CLARIFY",
                          !.key = IF Complete(t) THEN KeyOf(a) ELSE @, !.pii = @ \/ again]
<1>3. rows' = WithMirror(h, [rows EXCEPT ![a] = y], MirrorRow("FAILED")) BY <1>1
<1>4. r \in CommandType /\ r.st \in Open /\ r.st # "none" /\ r.key \in Nat /\ lastKey \in Nat
  BY <1>2 DEF MasterInv, MasterTypes, CommandType
<1>5. KeyOf(a) \in Nat \ {0} /\ (r.key # 0 => KeyOf(a) = r.key) BY <1>4 DEF KeyOf
<1>6. lastKey' \in Nat BY <1>1, <1>4
<1> HIDE DEF r, t
<1>7. y \in CommandType /\ y.st \in Open /\ y.st # "none" /\ y.st # "SUCCEEDED" /\ (y.st = "CONFIRM" => y.key # 0)
      /\ (r.key = 0 \/ y.key = r.key)
  BY <1>4, <1>5 DEF CommandType, Open
<1>8. r.st \notin Closed BY <1>4 DEF Open, Closed
<1> HIDE DEF y
<1>9. RowMoves(r, y) BY <1>7, <1>8 DEF RowMoves, CommandOK
<1>10. "FAILED" \in Closed /\ UNCHANGED <<bound, Remote>> BY DEF Closed, MergeClarification
<1>11. RowMoves(rows[a], y) BY <1>9 DEF r
<1>12. QED BY <1>1, <1>2, <1>3, <1>6, <1>7, <1>10, <1>11, ActsOnRow

\* The callback's own request settles the row it holds.
LEMMA SettledInv ==
    ASSUME MasterInv, NEW h \in MasterHandlers, hand[h].ph = "post", NEW s \in Closed,
           s = "SUCCEEDED" => Request(h, landed),
           rows' = Settled(h, s), MasterEnds(h), UNCHANGED <<bound, Remote, lastKey>>
    PROVE  MasterInv' /\ MasterStep
<1>1. PICK a \in MasterMsgs : a = hand[h].row /\ rows[a].key # 0 BY DEF MasterInv, HandInv
<1>2. rows[a].st # "none" BY <1>1, NoCommandRow DEF MasterInv, CommandOK
<1> DEFINE y == [rows[a] EXCEPT !.st = s]
<1>3. RowMoves(rows[a], y) /\ y.st = s /\ y.live = rows[a].live BY <1>2, ClosesRow
<1>4. rows' = WithMirror(h, [rows EXCEPT ![a] = y], MirrorRow(s)) BY <1>1 DEF Settled
<1>5. s \notin Open BY DEF Open, Closed
<1>6. s = "SUCCEEDED" => \E p \in landed : p.row = a BY <1>1 DEF Request
<1>7. lastKey' \in Nat BY DEF MasterInv, MasterTypes
<1> HIDE DEF y
<1>8. QED BY <1>2, <1>3, <1>4, <1>5, <1>6, <1>7, ActsOnRow

LEMMA RetryableInv ==
    ASSUME MasterInv, NEW h \in MasterHandlers, Retryable(h)
    PROVE  MasterInv' /\ MasterStep
<1>1. PICK a \in MasterMsgs : a = hand[h].row /\ rows[a].key # 0 BY DEF MasterInv, HandInv, Retryable
<1>2. rows[a].st # "none" BY <1>1, NoCommandRow DEF MasterInv, CommandOK
<1> DEFINE r == rows[a]
           y == [r EXCEPT !.live = TRUE]
<1>3. r \in CommandType /\ CommandOK(r) BY DEF MasterInv, MasterTypes
<1>4. rows' = WithMirror(h, [rows EXCEPT ![a] = y], MirrorRow("FAILED")) /\ EndsRenewing(h, a) BY <1>1 DEF Retryable
<1>5. r.st # "none" /\ (r.st \in Closed => r.st \notin Open) BY <1>2 DEF Open, Closed
<1>6. r.st = "SUCCEEDED" /\ r.kind # "none" => \E p \in landed : p.row = a BY DEF MasterInv, ToldInv
<1> HIDE DEF r
<1>7. y \in CommandType /\ y.st = r.st /\ y.key = r.key /\ y.kind = r.kind BY <1>3 DEF CommandType
<1> HIDE DEF y
<1>8. RowMoves(r, y)
  <2>1. y.st # "none" /\ (y.st = "CONFIRM" => y.key # 0) BY <1>3, <1>5, <1>7 DEF CommandOK
  <2>2. QED BY <1>5, <1>7, <2>1 DEF RowMoves, CommandOK
<1>9. RowMoves(rows[a], y) /\ (y.st \in Open => rows[a].st \in Open) BY <1>7, <1>8 DEF r
<1>10. "FAILED" \in Closed /\ UNCHANGED <<bound, Remote>> /\ lastKey' \in Nat BY DEF Closed, Retryable, MasterInv, MasterTypes
<1>11. hand[h].ph # "read" BY DEF Retryable
<1>12. y.st = "SUCCEEDED" /\ y.kind # "none" => \E p \in landed : p.row = a BY <1>6, <1>7
<1>13. QED BY <1>2, <1>4, <1>9, <1>10, <1>11, <1>12, ActsOnRow

\* The POST: the row is the previewed one, with the key it was given then.
LEMMA ExecuteInv ==
    ASSUME MasterInv, NEW h \in MasterHandlers, Execute(h)
    PROVE  MasterInv' /\ MasterStep
<1>1. PICK a \in Pending(h) :
         /\ Confirmable(a)
         /\ IF ~PiiReadable(a)
            THEN /\ rows' = WithMirror(h, [rows EXCEPT ![a].st = "FAILED"], MirrorRow("FAILED"))
                 /\ MasterEnds(h) /\ UNCHANGED flying
            ELSE /\ hand' = [hand EXCEPT ![h].ph = "post", ![h].row = a]
                 /\ flying' = flying \cup {NewRequest(h, a)}
                 /\ UNCHANGED rows
  BY DEF Execute
<1>2. a \in MasterMsgs /\ rows[a].st \in Open /\ rows[a].st # "none" /\ a \notin hand[h].lapsed BY PendingRow
<1>3. CASE ~PiiReadable(a)
  <2> DEFINE y == [rows[a] EXCEPT !.st = "FAILED"]
  <2>1. "FAILED" \in Closed BY DEF Closed
  <2>2. RowMoves(rows[a], y) /\ y.st = "FAILED" /\ y.live = rows[a].live BY <1>2, <2>1, ClosesRow
  <2>3. rows' = WithMirror(h, [rows EXCEPT ![a] = y], MirrorRow("FAILED")) /\ MasterEnds(h) BY <1>1, <1>3
  <2>4. UNCHANGED <<bound, Remote>> /\ lastKey' \in Nat BY <1>1, <1>3 DEF Execute, Remote, MasterInv, MasterTypes
  <2> HIDE DEF y
  <2>5. QED BY <1>2, <2>1, <2>2, <2>3, <2>4, ActsOnRow
<1>4. CASE PiiReadable(a)
  <2> DEFINE x == hand[h]
             n == [x EXCEPT !.ph = "post", !.row = a]
             q == NewRequest(h, a)
  <2>1. x \in HandType /\ HandInv(h) /\ x.ph = "read" /\ texts[x.m].kind = "confirm" BY DEF MasterInv, MasterTypes, Execute
  <2>2. hand' = [hand EXCEPT ![h] = n] BY <1>1, <1>4
  <2>3. UNCHANGED <<rows, bound, landed, refused, lastKey>> /\ flying' = flying \cup {q} BY <1>1, <1>4 DEF Execute
  <2>4. rows[a].st = "CONFIRM" /\ rows[a].key # 0 /\ rows[a].key \in Nat
    BY <1>1, <1>2 DEF Confirmable, MasterInv, MasterTypes, CommandOK, CommandType
  <2>5. x.master \in Masters BY <2>1 DEF HandInv
  <2>6. q \in Requests /\ q.row = a /\ q.key = rows[a].key
    BY <1>2, <2>4, <2>5 DEF NewRequest, KeyOf, Requests
  <2> HIDE DEF q
  <2>7. /\ n \in HandType /\ n.ph = "post" /\ n.row = a /\ n.m = x.m /\ n.master = x.master /\ n.lapsed = x.lapsed
    <3> HIDE DEF x
    <3>1. QED BY <1>2, <2>1 DEF HandType
  <2> HIDE DEF n
  <2>8. hand' \in [MasterHandlers -> HandType] /\ hand'[h] = n /\ \A g \in MasterHandlers : g # h => hand'[g] = hand[g]
    BY <2>2, <2>7 DEF MasterInv, MasterTypes
  <2>9. MasterTypes' BY <2>3, <2>6, <2>8 DEF MasterInv, MasterTypes
  <2>10. KeyInv' BY <2>3, <2>6 DEF MasterInv, KeyInv
  <2>11. ToldInv' /\ OneOpen' /\ \A m \in MasterMsgs : CommandOK(rows'[m]) BY <2>3 DEF MasterInv, ToldInv, OneOpen
  <2>12. ASSUME NEW g \in MasterHandlers PROVE HandInv(g)'
    <3>1. CASE g = h BY <1>2, <2>1, <2>3, <2>4, <2>5, <2>7, <2>8, <3>1 DEF HandInv
    <3>2. CASE g # h BY <2>3, <2>8, <3>2 DEF MasterInv, HandInv
    <3>3. QED BY <3>1, <3>2
  <2>13. MasterInv' BY <2>9, <2>10, <2>11, <2>12 DEF MasterInv
  <2>14. CommandPostStep BY <2>1, <2>3, <2>4, <2>6, <2>7, <2>8 DEF CommandPostStep
  <2>15. ASSUME NEW g \in MasterHandlers PROVE LapsedStep(g)
    <3>1. CASE g = h BY <1>2, <2>1, <2>3, <2>7, <2>8, <3>1 DEF LapsedStep, HandInv
    <3>2. CASE g # h BY <2>8, <3>2 DEF LapsedStep
    <3>3. QED BY <3>1, <3>2
  <2>16. QED BY <2>13, <2>14, <2>15 DEF MasterStep
<1>5. QED BY <1>3, <1>4

\* A step that leaves rows and callbacks alone.
LEMMA ElsewhereMoves ==
    ASSUME MasterInv, UNCHANGED <<rows, hand, lastKey>>, bound' \in Masters \cup {NoMaster},
           flying' \subseteq flying, refused' \subseteq refused \cup flying,
           landed' = landed \/ \E q \in flying : landed' = landed \cup {q} /\ ~\E p \in landed : p.key = q.key
    PROVE  MasterInv' /\ MasterStep
<1>1. landed \subseteq landed' /\ landed' \subseteq landed \cup flying OBVIOUS
<1>2. MasterTypes' BY <1>1 DEF MasterInv, MasterTypes
<1>3. KeyInv' BY <1>1 DEF MasterInv, KeyInv
<1>4. ToldInv' BY <1>1 DEF MasterInv, ToldInv
<1>5. OneOpen' /\ \A m \in MasterMsgs : CommandOK(rows'[m]) BY DEF MasterInv, OneOpen
<1>6. \A h \in MasterHandlers : HandInv(h)' BY DEF MasterInv, HandInv
<1>7. MasterStep BY DEF MasterStep, CommandPostStep, LapsedStep
<1>8. QED BY <1>2, <1>3, <1>4, <1>5, <1>6, <1>7 DEF MasterInv

LEMMA CallbackInv ==
    ASSUME MasterInv, NEW h \in MasterHandlers, NEW m \in MasterMsgs, NEW t, Callback(h, m, t)
    PROVE  MasterInv' /\ MasterStep
<1>1. UNCHANGED <<rows, bound, flying, landed, refused, lastKey>> BY DEF Callback, Remote
<1>2. CASE hand' = hand
  <2>1. bound' \in Masters \cup {NoMaster} BY <1>1 DEF MasterInv, MasterTypes
  <2>2. QED BY <1>1, <1>2, <2>1, ElsewhereMoves
<1>3. CASE Unheard(m) /\ hand' = [hand EXCEPT ![h] = [ph |-> "read", m |-> m, master |-> bound, lapsed |-> Lapsed, row |-> 0]]
  <2> DEFINE n == [ph |-> "read", m |-> m, master |-> bound, lapsed |-> Lapsed, row |-> 0]
  <2>1. bound \in Masters BY <1>3 DEF Unheard, MasterInv, MasterTypes
  <2>2. Lapsed \subseteq MasterMsgs /\ \A a \in Lapsed : rows[a].st \in Open /\ ~rows[a].live BY DEF Lapsed, ActiveRequest
  <2>3. n \in HandType /\ n.ph = "read" /\ n.master = bound /\ n.lapsed = Lapsed BY <2>1, <2>2 DEF HandType
  <2>4. hand' = [hand EXCEPT ![h] = n] BY <1>3
  <2> HIDE DEF n
  <2>5. hand' \in [MasterHandlers -> HandType] /\ hand'[h] = n /\ \A g \in MasterHandlers : g # h => hand'[g] = hand[g]
    BY <2>3, <2>4 DEF MasterInv, MasterTypes
  <2>6. MasterTypes' BY <1>1, <2>5 DEF MasterInv, MasterTypes
  <2>7. KeyInv' /\ ToldInv' /\ OneOpen' /\ \A k \in MasterMsgs : CommandOK(rows'[k])
    BY <1>1 DEF MasterInv, KeyInv, ToldInv, OneOpen
  <2>8. ASSUME NEW g \in MasterHandlers PROVE HandInv(g)'
    <3>1. CASE g = h
      <4>1. \A a \in Lapsed : rows'[a].st # "none" /\ (rows'[a].st \in Open => ~rows'[a].live) BY <1>1, <2>2 DEF Open
      <4>2. QED BY <2>1, <2>3, <2>5, <3>1, <4>1 DEF HandInv
    <3>2. CASE g # h BY <1>1, <2>5, <3>2 DEF MasterInv, HandInv
    <3>3. QED BY <3>1, <3>2
  <2>9. hand[h].ph = "idle" BY RestingHand DEF Callback
  <2>10. MasterStep BY <1>1, <2>5, <2>9 DEF MasterStep, CommandPostStep, LapsedStep
  <2>11. QED BY <2>6, <2>7, <2>8, <2>10 DEF MasterInv
<1>4. QED BY <1>2, <1>3 DEF Callback

\* Time passes for one open row.
LEMMA ClockInv ==
    ASSUME MasterInv, NEW m \in MasterMsgs, TtlPasses(m) \/ PiiExpires(m)
    PROVE  MasterInv' /\ MasterStep
<1> DEFINE r == rows[m]
<1>1. UNCHANGED <<hand, bound, flying, landed, refused, lastKey>> BY DEF TtlPasses, PiiExpires, Remote
<1>2. r \in CommandType /\ r.st \in Open /\ CommandOK(r) BY DEF MasterInv, MasterTypes, TtlPasses, PiiExpires, ActiveRequest
<1>3. PICK y : /\ rows' = [rows EXCEPT ![m] = y] /\ y \in CommandType /\ y.st = r.st /\ y.key = r.key /\ y.kind = r.kind
               /\ (y.live => r.live)
  <2>1. CASE TtlPasses(m)
    <3> DEFINE y == [r EXCEPT !.live = FALSE]
    <3>1. rows' = [rows EXCEPT ![m] = y] BY <2>1 DEF TtlPasses
    <3> HIDE DEF r
    <3>2. y \in CommandType /\ y.st = r.st /\ y.key = r.key /\ y.kind = r.kind /\ (y.live => r.live) BY <1>2 DEF CommandType
    <3> HIDE DEF y
    <3>3. QED BY <3>1, <3>2
  <2>2. CASE PiiExpires(m)
    <3> DEFINE y == [r EXCEPT !.pii = FALSE]
    <3>1. rows' = [rows EXCEPT ![m] = y] BY <2>2 DEF PiiExpires
    <3> HIDE DEF r
    <3>2. y \in CommandType /\ y.st = r.st /\ y.key = r.key /\ y.kind = r.kind /\ (y.live => r.live) BY <1>2 DEF CommandType
    <3> HIDE DEF y
    <3>3. QED BY <3>1, <3>2
  <2>3. QED BY <2>1, <2>2
<1>4. rows' \in [MasterMsgs -> CommandType] /\ rows'[m] = y /\ \A k \in MasterMsgs : k # m => rows'[k] = rows[k]
  BY <1>3 DEF MasterInv, MasterTypes
<1>5. \A k \in MasterMsgs : rows'[k].st = rows[k].st /\ rows'[k].key = rows[k].key /\ rows'[k].kind = rows[k].kind
                            /\ (rows'[k].live => rows[k].live)
  BY <1>3, <1>4
<1>6. MasterTypes' BY <1>1, <1>4 DEF MasterInv, MasterTypes
<1>7. KeyInv' BY <1>1, <1>5 DEF MasterInv, KeyInv, MasterTypes, Requests
<1>8. ToldInv' /\ OneOpen' BY <1>1, <1>5 DEF MasterInv, ToldInv, OneOpen
<1>9. ASSUME NEW k \in MasterMsgs PROVE CommandOK(rows'[k])
  <2>1. CASE k = m
    <3>1. y.st # "none" /\ (y.st = "CONFIRM" => y.key # 0) BY <1>2, <1>3 DEF Open, CommandOK
    <3>2. QED BY <1>4, <2>1, <3>1 DEF CommandOK
  <2>2. CASE k # m BY <1>4, <2>2 DEF MasterInv
  <2>3. QED BY <2>1, <2>2
<1>10. ASSUME NEW h \in MasterHandlers PROVE HandInv(h)'
  <2>1. hand[h].lapsed \subseteq MasterMsgs BY DEF MasterInv, MasterTypes, HandType
  <2>2. HandInv(h) BY DEF MasterInv
  <2>3. QED BY <1>1, <1>5, <2>1, <2>2 DEF HandInv
<1>11. MasterStep BY <1>1 DEF MasterStep, CommandPostStep, LapsedStep
<1>12. QED BY <1>6, <1>7, <1>8, <1>9, <1>10, <1>11 DEF MasterInv

LEMMA MasterInitInv == MasterInit => MasterInv
<1> SUFFICES ASSUME MasterInit PROVE MasterInv OBVIOUS
<1>1. \A m \in MasterMsgs : rows[m] = NoCommand BY DEF MasterInit
<1>2. \A h \in MasterHandlers : hand[h] = Resting BY DEF MasterInit
<1>3. MasterTypes BY NoCommandRow, RestingHand, MasterAssumption DEF MasterInit, MasterTypes
<1>4. KeyInv BY DEF MasterInit, KeyInv
<1>5. ToldInv /\ OneOpen /\ \A m \in MasterMsgs : CommandOK(rows[m])
  BY <1>1, NoCommandRow DEF ToldInv, OneOpen, Open
<1>6. \A h \in MasterHandlers : HandInv(h) BY <1>2, RestingHand DEF HandInv
<1>7. QED BY <1>3, <1>4, <1>5, <1>6 DEF MasterInv

LEMMA MasterNextInv == MasterInv /\ [MasterNext]_masterVars => MasterInv' /\ MasterStep
<1> SUFFICES ASSUME MasterInv, [MasterNext]_masterVars PROVE MasterInv' /\ MasterStep OBVIOUS
<1>1. ASSUME NEW h \in MasterHandlers, NEW m \in MasterMsgs, NEW t \in Texts, Callback(h, m, t)
      PROVE  MasterInv' /\ MasterStep
  BY <1>1, CallbackInv
<1>2. ASSUME NEW h \in MasterHandlers,
             AnswerOnly(h) \/ ReadSchedule(h) \/ CancelPending(h) \/ StartCommand(h) \/ MergeClarification(h)
             \/ Execute(h) \/ Retryable(h)
      PROVE  MasterInv' /\ MasterStep
  BY <1>2, AnswerOnlyInv, ReadScheduleInv, CancelPendingInv, StartCommandInv, MergeClarificationInv, ExecuteInv,
     RetryableInv
<1>3. ASSUME NEW h \in MasterHandlers, PendingConflict(h) \/ HandlerCrash(h) PROVE MasterInv' /\ MasterStep
  BY <1>3, EndsQuietly DEF PendingConflict, HandlerCrash
<1>4. ASSUME NEW h \in MasterHandlers, AnsweredOk(h) PROVE MasterInv' /\ MasterStep
  <2>1. "SUCCEEDED" \in Closed BY DEF Closed
  <2>2. QED BY <1>4, <2>1, SettledInv DEF AnsweredOk, Succeeds
<1>5. ASSUME NEW h \in MasterHandlers, AnsweredNo(h) \/ AnsweredOther(h) PROVE MasterInv' /\ MasterStep
  <2>1. "FAILED" \in Closed BY DEF Closed
  <2>2. QED BY <1>5, <2>1, SettledInv DEF AnsweredNo, AnsweredOther
<1>6. ASSUME NEW q \in flying, ServiceApplies(q) \/ ServiceRefuses(q) PROVE MasterInv' /\ MasterStep
  <2>1. bound' \in Masters \cup {NoMaster} /\ UNCHANGED <<rows, hand, lastKey>>
    BY <1>6 DEF ServiceApplies, ServiceRefuses, MasterInv, MasterTypes
  <2>2. flying' \subseteq flying /\ refused' \subseteq refused \cup flying BY <1>6 DEF ServiceApplies, ServiceRefuses
  <2>3. landed' = landed \/ (landed' = landed \cup {q} /\ ~\E p \in landed : p.key = q.key)
    BY <1>6 DEF ServiceApplies, ServiceRefuses
  <2>4. QED BY <2>1, <2>2, <2>3, ElsewhereMoves
<1>7. ASSUME NEW m \in MasterMsgs, TtlPasses(m) \/ PiiExpires(m) PROVE MasterInv' /\ MasterStep BY <1>7, ClockInv
<1>8. ASSUME NEW to \in Masters \cup {NoMaster}, Operator(to) PROVE MasterInv' /\ MasterStep
  BY <1>8, ElsewhereMoves DEF Operator, Remote
<1>9. CASE UNCHANGED masterVars
  <2>1. bound' \in Masters \cup {NoMaster} BY <1>9 DEF masterVars, MasterInv, MasterTypes
  <2>2. QED BY <1>9, <2>1, ElsewhereMoves DEF masterVars
<1>10. QED BY <1>1, <1>2, <1>3, <1>4, <1>5, <1>6, <1>7, <1>8, <1>9 DEF MasterNext, BindMaster, RebindMaster, RevokeMaster

\* The columns keep their value sets, a command to be confirmed has its key, and the unique index on the active
\* identity leaves at most one open command (MasterCommandPending, master_command_flow.py).
THEOREM MasterTypeCorrect == MasterSpec => []MasterTypeOK
<1>1. MasterInv => MasterTypeOK
  <2> SUFFICES ASSUME MasterInv PROVE MasterTypeOK OBVIOUS
  <2>1. ASSUME NEW m \in MasterMsgs
        PROVE  rows[m].st \in Open \cup Closed \cup {"none"} /\ (rows[m].st = "CONFIRM" => rows[m].key # 0)
    BY DEF MasterInv, MasterTypes, CommandType, CommandOK
  <2>2. Cardinality(ActiveRequest) <= 1
    <3>1. Cardinality({}) = 0 /\ \A x : Cardinality({x}) = 1 BY FS_EmptySet, FS_Singleton
    <3>2. \A m, n \in ActiveRequest : m = n BY DEF MasterInv, OneOpen, ActiveRequest
    <3>3. ActiveRequest = {} \/ \E x \in ActiveRequest : ActiveRequest = {x} BY <3>2
    <3>4. Cardinality(ActiveRequest) \in {0, 1} BY <3>1, <3>3
    <3>5. QED BY <3>4
  <2>3. \A h \in MasterHandlers : hand[h].ph \in {"idle", "read", "post"} BY DEF MasterInv, MasterTypes, HandType
  <2>4. QED BY <2>1, <2>2, <2>3 DEF MasterTypeOK, MasterInv, MasterTypes
<1>2. QED BY <1>1, MasterInitInv, MasterNextInv, PTL DEF MasterSpec

\* However often a confirmation is repeated, the booking service applies a master's command at most once and success
\* is reported only for what it applied; a POST is made only for a previewed command with the key of its preview; and
\* a callback that came after the confirmation time neither executes nor merges the command (master_command_flow.py).
THEOREM CommandCorrect == MasterSpec => CommandOnceAsPreviewed
<1>1. MasterInv => AppliedOnce
  <2> SUFFICES ASSUME MasterInv PROVE AppliedOnce OBVIOUS
  <2>1. \A p, q \in landed : p.row = q.row => p = q BY DEF MasterInv, KeyInv
  <2>2. QED BY <2>1 DEF AppliedOnce, MasterInv, ToldInv
<1>2. MasterStep => CommandPostStep /\ \A h \in MasterHandlers : LapsedStep(h) BY DEF MasterStep
<1>3. QED BY <1>1, <1>2, MasterInitInv, MasterNextInv, PTL
      DEF MasterSpec, CommandOnceAsPreviewed, PostFollowsPreview, ExpiredStaysUnused, CommandPostStep, LapsedStep

-----------------------------------------------------------------------------
(* Sets.                                                                   *)

\* At most one element, as the Cardinality of a finite set and as an equation.
LEMMA AtMostOneIsSame ==
  ASSUME NEW S, IsFiniteSet(S)
  PROVE  Cardinality(S) <= 1 <=> \A x, y \in S : x = y
<1>1. ASSUME \A x, y \in S : x = y PROVE Cardinality(S) <= 1
  <2>1. Cardinality({}) = 0 /\ \A x : Cardinality({x}) = 1 BY FS_EmptySet, FS_Singleton
  <2>2. CASE S = {} BY <2>1, <2>2
  <2>3. CASE S # {}
    <3>1. PICK x \in S : S = {x} BY <1>1, <2>3
    <3>2. QED BY <2>1, <3>1
  <2>4. QED BY <2>2, <2>3
<1>2. ASSUME NEW x \in S, NEW y \in S, x # y PROVE Cardinality(S) > 1
  <2>1. IsFiniteSet({x}) /\ Cardinality({x}) = 1 BY FS_Singleton
  <2>2. IsFiniteSet({x} \cup {y}) /\ Cardinality({x} \cup {y}) = 2
    <3>1. y \notin {x} BY <1>2
    <3>2. Cardinality({x} \cup {y}) = Cardinality({x}) + 1 /\ IsFiniteSet({x} \cup {y})
      BY <2>1, <3>1, FS_AddElement
    <3>3. QED BY <2>1, <3>2
  <2>3. {x} \cup {y} \subseteq S OBVIOUS
  <2>4. Cardinality({x} \cup {y}) <= Cardinality(S) /\ Cardinality(S) \in Nat
    BY <2>3, FS_Subset, FS_CardinalityType
  <2>5. QED BY <2>2, <2>4
<1>3. Cardinality(S) \in Nat BY FS_CardinalityType
<1>4. QED BY <1>1, <1>2, <1>3

-----------------------------------------------------------------------------
(* The inductive invariant.                                                *)

TxType == [ph : {"idle", "inserting", "raced", "glue", "case", "approving"}, key : IdKeys,
           target : Canonicals \cup {0}, conf : BOOLEAN, seen : Canonicals \cup {0}, review : Nat]
CaseType == [reason : {"AMBIGUOUS_RESOLVE", "CANONICAL_NOT_ACTIVE", "CONFLICTING_CANONICAL"},
             st : {"OPEN", "RESOLVED"}, canon : Canonicals \cup {0}]

GraphTypes ==
  /\ canonStatus \in [Canonicals -> {"absent", "ACTIVE", "ARCHIVED"}]
  /\ activeLinks \subseteq IdKeys \X Canonicals
  /\ confirmed \subseteq IdKeys
  /\ everLinked \subseteq Canonicals
  /\ convCanonical \in Canonicals \cup {0}
  /\ reviews \in Seq(CaseType)
  /\ idTx \in [IdSessions -> TxType]

\* The unique indexes, as equations.
LinksInv ==
  /\ \A k \in IdKeys : \A c, d \in Canonicals : <<k, c>> \in activeLinks /\ <<k, d>> \in activeLinks => c = d
  /\ \A c, d \in Canonicals : ~(<<"deal", c>> \in activeLinks /\ <<"tech", d>> \in activeLinks)

\* No e-mail is stored, or about to be stored, as CONFIRMED.
EmailInv ==
  /\ "email" \notin confirmed
  /\ \A s \in IdSessions : idTx[s].key = "email" => ~idTx[s].conf

\* The transactions that hold the conversation's row lock.
HoldsConversation(s) == idTx[s].ph \in {"glue", "approving"}

\* One transaction holds the conversation, and what it read of it is still so.
SessionsInv ==
  /\ \A s \in IdSessions : HoldsConversation(s) => idTx[s].seen = convCanonical
  /\ \A s, t \in IdSessions : HoldsConversation(s) /\ HoldsConversation(t) => s = t
  /\ \A s \in IdSessions : idTx[s].ph \in {"glue", "case", "approving"} => idTx[s].target \in Canonicals
  /\ \A s \in IdSessions : idTx[s].ph \in {"case", "approving"} => idTx[s].review \in DOMAIN reviews

\* A closed case names an identity, the conversation's.
CasesInv ==
  \A i \in DOMAIN reviews : reviews[i].st = "RESOLVED" => reviews[i].canon # 0 /\ reviews[i].canon = convCanonical

GraphInv ==
  /\ GraphTypes /\ LinksInv /\ NoOrphanCanonical /\ AnswerNamesOwner /\ EmailInv /\ SessionsInv /\ CasesInv

LEMMA NoIdTxType == NoIdTx \in TxType /\ NoIdTx.ph = "idle" /\ NoIdTx.key = "channel"
  BY DEF NoIdTx, TxType, IdKeys

LEMMA GraphInitially == GraphInit => GraphInv
<1> SUFFICES ASSUME GraphInit PROVE GraphInv OBVIOUS
<1> USE NoIdTxType DEF GraphInit
<1>1. GraphTypes BY DEF GraphTypes
<1>2. LinksInv /\ NoOrphanCanonical /\ AnswerNamesOwner BY DEF LinksInv, NoOrphanCanonical, AnswerNamesOwner
<1>3. EmailInv /\ SessionsInv BY DEF EmailInv, SessionsInv, HoldsConversation
<1>4. CasesInv BY DEF CasesInv
<1>5. QED BY <1>1, <1>2, <1>3, <1>4 DEF GraphInv

\* One transaction moves.  Either the conversation stays as it is, or no other
\* transaction has it.
LEMMA OneTxMoves ==
  ASSUME GraphInv, NEW s \in IdSessions, NEW tx \in TxType, idTx' = [idTx EXCEPT ![s] = tx],
         convCanonical' = convCanonical \/ HoldsConversation(s), DOMAIN reviews \subseteq DOMAIN reviews',
         tx.ph \in {"glue", "approving"} =>
            /\ tx.seen = convCanonical /\ convCanonical' = convCanonical
            /\ \A t \in IdSessions \ {s} : ~HoldsConversation(t),
         tx.ph \in {"glue", "case", "approving"} => tx.target \in Canonicals,
         tx.ph \in {"case", "approving"} => tx.review \in DOMAIN reviews',
         tx.key = "email" => ~tx.conf, confirmed' = confirmed \/ "email" \notin confirmed'
  PROVE  idTx' \in [IdSessions -> TxType] /\ SessionsInv' /\ EmailInv'
<1> USE DEF GraphInv, GraphTypes
<1>1. idTx' \in [IdSessions -> TxType] /\ idTx'[s] = tx /\ \A t \in IdSessions : t # s => idTx'[t] = idTx[t]
  OBVIOUS
<1>2. \A t \in IdSessions : t # s /\ HoldsConversation(t) => convCanonical' = convCanonical
  BY DEF SessionsInv
<1>3. \A t \in IdSessions : t # s => (HoldsConversation(t)' <=> HoldsConversation(t))
  BY <1>1 DEF HoldsConversation
<1>4. \A t \in IdSessions : HoldsConversation(t)' => idTx'[t].seen = convCanonical'
  BY <1>1, <1>2, <1>3 DEF SessionsInv, HoldsConversation
<1>5. \A t, u \in IdSessions : HoldsConversation(t)' /\ HoldsConversation(u)' => t = u
  BY <1>1, <1>3 DEF SessionsInv, HoldsConversation
<1>6. \A t \in IdSessions : idTx'[t].ph \in {"glue", "case", "approving"} => idTx'[t].target \in Canonicals
  BY <1>1 DEF SessionsInv
<1>7. \A t \in IdSessions : idTx'[t].ph \in {"case", "approving"} => idTx'[t].review \in DOMAIN reviews'
  BY <1>1 DEF SessionsInv
<1>8. EmailInv' BY <1>1 DEF EmailInv
<1>9. QED BY <1>1, <1>4, <1>5, <1>6, <1>7, <1>8 DEF SessionsInv

LEMMA TxEnds ==
  ASSUME GraphInv, NEW s \in IdSessions, idTx' = [idTx EXCEPT ![s] = NoIdTx],
         convCanonical' = convCanonical \/ HoldsConversation(s), DOMAIN reviews \subseteq DOMAIN reviews',
         confirmed' = confirmed \/ "email" \notin confirmed'
  PROVE  idTx' \in [IdSessions -> TxType] /\ SessionsInv' /\ EmailInv'
  BY NoIdTxType, OneTxMoves

\* Links and identities stay, and the answer is none.
LEMMA GraphSame ==
  ASSUME GraphInv, UNCHANGED <<canonStatus, activeLinks, confirmed, everLinked>>,
         idAnswer' = NoAnswer \/ <<idAnswer'.key, idAnswer'.canon>> \in activeLinks
  PROVE  LinksInv' /\ NoOrphanCanonical' /\ AnswerNamesOwner'
  BY DEF GraphInv, LinksInv, NoOrphanCanonical, AnswerNamesOwner

\* A review is opened, or was open.
LEMMA ReviewOpened ==
  ASSUME GraphInv, NEW reason \in {"AMBIGUOUS_RESOLVE", "CANONICAL_NOT_ACTIVE", "CONFLICTING_CANONICAL"},
         NEW c \in Canonicals \cup {0}, OpensReview(reason, c) \/ reviews' = reviews, convCanonical' = convCanonical
  PROVE  reviews' \in Seq(CaseType) /\ DOMAIN reviews \subseteq DOMAIN reviews' /\ CasesInv'
<1> USE DEF GraphInv, GraphTypes
<1>1. CASE reviews' = reviews BY <1>1 DEF CasesInv
<1>2. CASE reviews' # reviews
  <2>1. PICK r \in CaseType : r = OpenCase(reason, c)
    <3>1. OpenCase(reason, c) \in CaseType BY DEF CaseType, OpenCase
    <3>2. QED BY <3>1
  <2>2. reviews' = Append(reviews, r) BY <1>2, <2>1 DEF OpensReview
  <2>3. r.st = "OPEN" BY <2>1 DEF OpenCase
  <2>4. reviews' \in Seq(CaseType) /\ DOMAIN reviews' = 1..(Len(reviews) + 1) /\ DOMAIN reviews = 1..Len(reviews)
        /\ Len(reviews) \in Nat
    BY <2>2
  <2>5. \A i \in DOMAIN reviews' : reviews'[i] = r \/ (i \in DOMAIN reviews /\ reviews'[i] = reviews[i])
    <3>1. reviews \in Seq(CaseType) OBVIOUS
    <3>2. SUFFICES ASSUME NEW i \in 1..(Len(reviews) + 1)
                   PROVE  reviews'[i] = r \/ (i \in 1..Len(reviews) /\ reviews'[i] = reviews[i])
      BY <2>4
    <3>3. CASE i = Len(reviews) + 1 BY <2>2, <3>1, <3>3
    <3>4. CASE i # Len(reviews) + 1
      <4>1. i \in 1..Len(reviews) BY <2>4, <3>4
      <4>2. QED BY <2>2, <3>1, <4>1
    <3>5. QED BY <3>3, <3>4
  <2>6. CasesInv' BY <2>3, <2>5 DEF CasesInv
  <2>7. QED BY <2>4, <2>6
<1>3. QED BY <1>1, <1>2

\* A key that is taken has an owner, and its active link says so.
LEMMA OwnerIsLinked ==
  ASSUME NEW k, KeyTaken(k), NEW c, c = CHOOSE d \in Canonicals : d \in LinkOwners(k)
  PROVE  c \in Canonicals /\ <<k, c>> \in activeLinks
<1>1. \E d \in Canonicals : d \in LinkOwners(k) BY DEF KeyTaken, LinkOwners
<1>2. QED BY <1>1 DEF LinkOwners

\* The steps that touch neither the identities nor the links, nor the conversation.
LEMMA GraphQuietStep ==
  ASSUME GraphInv, UNCHANGED <<canonStatus, activeLinks, confirmed, everLinked, convCanonical, reviews>>,
         idTx' \in [IdSessions -> TxType], SessionsInv', EmailInv',
         idAnswer' = NoAnswer \/ <<idAnswer'.key, idAnswer'.canon>> \in activeLinks
  PROVE  GraphInv'
<1>1. GraphTypes' BY DEF GraphInv, GraphTypes
<1>2. CasesInv' BY DEF GraphInv, CasesInv
<1>3. QED BY <1>1, <1>2, GraphSame DEF GraphInv

\* EndsWith reports a link, or nothing.
LEMMA EndsReports ==
  ASSUME NEW s, NEW k, NEW out, NEW c, EndsWith(s, k, out, c), out = "linked" => <<k, c>> \in activeLinks
  PROVE  idAnswer' = NoAnswer \/ <<idAnswer'.key, idAnswer'.canon>> \in activeLinks
<1>1. CASE out = "linked"
  <2>1. idAnswer' = [key |-> k, canon |-> c] BY <1>1 DEF EndsWith
  <2>2. idAnswer'.key = k /\ idAnswer'.canon = c BY <2>1
  <2>3. QED BY <1>1, <2>2
<1>2. CASE out # "linked" BY <1>2 DEF EndsWith
<1>3. QED BY <1>1, <1>2

LEMMA TxEndsQuietly ==
  ASSUME NEW s, NEW out, Ends(s, out), out # "linked"
  PROVE  idTx' = [idTx EXCEPT ![s] = NoIdTx] /\ idAnswer' = NoAnswer
  BY DEF Ends, EndsWith

LEMMA AttachLooksKeeps ==
  ASSUME GraphInv, NEW s \in IdSessions, NEW k \in IdKeys, NEW target \in Canonicals \cup {0}, AttachLooks(s, k, target)
  PROVE  GraphInv'
<1>1. UNCHANGED <<canonStatus, activeLinks, confirmed, everLinked, convCanonical, reviews>> BY DEF AttachLooks
<1>2. CASE RoleTaken(k)
  <2>1. Ends(s, "conflict") BY <1>2 DEF AttachLooks
  <2>2. QED BY <1>1, <2>1, TxEndsQuietly, TxEnds, GraphQuietStep
<1>3. CASE ~RoleTaken(k) /\ KeyTaken(k)
  <2> DEFINE a == ExistingAnswer(k, target)
  <2>1. EndsWith(s, k, a.out, a.c) BY <1>3 DEF AttachLooks
  <2>2. a.out = "linked" => <<k, a.c>> \in activeLinks BY <1>3, OwnerIsLinked DEF ExistingAnswer
  <2> HIDE DEF a
  <2>3. idTx' = [idTx EXCEPT ![s] = NoIdTx] BY <2>1 DEF EndsWith
  <2>4. QED BY <1>1, <2>1, <2>2, <2>3, EndsReports, TxEnds, GraphQuietStep
<1>4. CASE ~RoleTaken(k) /\ ~KeyTaken(k) /\ target # 0 /\ canonStatus[target] = "absent"
  <2>1. Ends(s, "invalid") BY <1>4 DEF AttachLooks
  <2>2. QED BY <1>1, <2>1, TxEndsQuietly, TxEnds, GraphQuietStep
<1>5. CASE ~RoleTaken(k) /\ ~KeyTaken(k) /\ ~(target # 0 /\ canonStatus[target] = "absent")
  <2>b. PICK conf \in Confidences(k) :
          Continues(s, [NoIdTx EXCEPT !.key = k, !.target = target, !.conf = LinkConfidence(k, conf), !.ph = "inserting"])
    BY <1>5 DEF AttachLooks
  <2>c. PICK stored : stored = LinkConfidence(k, conf) OBVIOUS
  <2>a. stored \in BOOLEAN /\ (k = "email" => ~stored) BY <2>c DEF LinkConfidence, Confidences
  <2>1. PICK tx \in TxType : tx = [NoIdTx EXCEPT !.key = k, !.target = target, !.conf = stored, !.ph = "inserting"]
    BY <2>a, NoIdTxType DEF TxType
  <2>2. Continues(s, tx) BY <2>b, <2>c, <2>1
  <2>3. tx.ph = "inserting" /\ (tx.key = "email" => ~tx.conf) BY <2>a, <2>1, NoIdTxType DEF TxType
  <2>4. idTx' \in [IdSessions -> TxType] /\ SessionsInv' /\ EmailInv' BY <1>1, <2>2, <2>3, OneTxMoves DEF Continues
  <2>5. QED BY <1>1, <2>2, <2>4, GraphQuietStep DEF Continues
<1>6. QED BY <1>2, <1>3, <1>4, <1>5

LEMMA ClassifiesKeeps ==
  ASSUME GraphInv, NEW s \in IdSessions, AttachClassifies(s)
  PROVE  GraphInv'
<1> DEFINE k == idTx[s].key
           r == ClassifyRace(k, idTx[s].target)
<1>1. UNCHANGED <<canonStatus, activeLinks, confirmed, everLinked, convCanonical, reviews>> /\ EndsWith(s, k, r.out, r.c)
  BY DEF AttachClassifies
<1>2. r.out = "linked" => <<k, r.c>> \in activeLinks
  <2>1. CASE RoleTaken(k)
    <3>1. r = [out |-> "conflict", c |-> 0] BY <2>1 DEF ClassifyRace
    <3>2. QED BY <3>1
  <2>2. CASE ~RoleTaken(k) /\ ~KeyTaken(k)
    <3>1. r = [out |-> "review", c |-> 0] BY <2>2 DEF ClassifyRace
    <3>2. QED BY <3>1
  <2>3. CASE ~RoleTaken(k) /\ KeyTaken(k)
    <3>1. PICK o : o = CHOOSE c \in Canonicals : c \in LinkOwners(k) OBVIOUS
    <3>2. r = [out |-> "linked", c |-> o] \/ r = [out |-> "conflict", c |-> 0] BY <2>3, <3>1 DEF ClassifyRace
    <3>3. QED BY <2>3, <3>1, <3>2, OwnerIsLinked
  <2>4. QED BY <2>1, <2>2, <2>3
<1> HIDE DEF r
<1>3. idTx' = [idTx EXCEPT ![s] = NoIdTx] BY <1>1 DEF EndsWith
<1>4. idAnswer' = NoAnswer \/ <<idAnswer'.key, idAnswer'.canon>> \in activeLinks
  <2> HIDE DEF k
  <2>1. QED BY <1>1, <1>2, EndsReports
<1>5. QED BY <1>1, <1>3, <1>4, TxEnds, GraphQuietStep

\* The insert under the savepoint: it adds a link for a free key and role, or nothing.
LEMMA InsertsKeeps ==
  ASSUME GraphInv, NEW s \in IdSessions, AttachInserts(s)
  PROVE  GraphInv'
<1> USE DEF GraphInv
<1> DEFINE k == idTx[s].key
           target == idTx[s].target
           owner == IF target = 0 THEN NewCanonical ELSE target
           unusable == target # 0 /\ canonStatus[target] # "ACTIVE"
<1>1. UNCHANGED <<convCanonical, reviews>> BY DEF AttachInserts
<1>2. k \in IdKeys /\ target \in Canonicals \cup {0} /\ idTx[s] \in TxType /\ idTx[s].ph = "inserting"
  BY DEF GraphTypes, TxType, AttachInserts
<1>3. CASE unusable
  <2>1. UNCHANGED <<canonStatus, activeLinks, confirmed, everLinked>> /\ Ends(s, "conflict")
    BY <1>3 DEF AttachInserts
  <2>2. QED BY <1>1, <2>1, TxEndsQuietly, TxEnds, GraphQuietStep
<1>4. CASE ~unusable /\ (KeyTaken(k) \/ RoleTaken(k))
  <2>1. UNCHANGED <<canonStatus, activeLinks, confirmed, everLinked>> /\ Continues(s, [idTx[s] EXCEPT !.ph = "raced"])
    BY <1>4 DEF AttachInserts, CanonAfterRace
  <2>2. PICK tx \in TxType : tx = [idTx[s] EXCEPT !.ph = "raced"] BY <1>2 DEF TxType
  <2>3. tx.ph = "raced" /\ (tx.key = "email" => ~tx.conf) BY <1>2, <2>2 DEF TxType, EmailInv
  <2>4. idTx' \in [IdSessions -> TxType] /\ SessionsInv' /\ EmailInv' BY <1>1, <2>1, <2>2, <2>3, OneTxMoves DEF Continues
  <2>5. QED BY <1>1, <2>1, <2>4, GraphQuietStep DEF Continues
<1>5. CASE ~unusable /\ ~KeyTaken(k) /\ ~RoleTaken(k)
  <2>1. /\ canonStatus' = [canonStatus EXCEPT ![owner] = "ACTIVE"]
        /\ activeLinks' = activeLinks \cup {<<k, owner>>}
        /\ confirmed' = IF idTx[s].conf THEN confirmed \cup {k} ELSE confirmed \ {k}
        /\ everLinked' = everLinked \cup {owner}
        /\ EndsWith(s, k, "linked", owner)
    BY <1>5 DEF AttachInserts
  <2>a. confirmed' \subseteq IdKeys /\ "email" \notin confirmed' BY <1>2, <2>1 DEF GraphTypes, EmailInv
  <2>2. owner \in Canonicals BY <1>2 DEF AttachInserts, NewCanonical
  <2> HIDE DEF owner
  <2>3. idTx' = [idTx EXCEPT ![s] = NoIdTx] /\ idAnswer' = [key |-> k, canon |-> owner] BY <2>1 DEF EndsWith
  <2>4. GraphTypes'
    <3>1. canonStatus' \in [Canonicals -> {"absent", "ACTIVE", "ARCHIVED"}] BY <2>1, <2>2 DEF GraphTypes
    <3>2. activeLinks' \subseteq IdKeys \X Canonicals /\ everLinked' \subseteq Canonicals
      BY <1>2, <2>1, <2>2 DEF GraphTypes
    <3>3. idTx' \in [IdSessions -> TxType] BY <1>1, <2>a, <2>3, TxEnds
    <3>4. QED BY <1>1, <2>a, <3>1, <3>2, <3>3 DEF GraphTypes
  <2>5. LinksInv'
    <3>1. \A c \in Canonicals : <<k, c>> \notin activeLinks BY <1>5 DEF KeyTaken, LinkOwners
    <3>2. /\ k = "deal" => \A c \in Canonicals : <<"tech", c>> \notin activeLinks
          /\ k = "tech" => \A c \in Canonicals : <<"deal", c>> \notin activeLinks
      BY <1>5 DEF RoleTaken, KeyTaken, LinkOwners, LeadRoles
    <3>3. \A j \in IdKeys, c \in Canonicals : <<j, c>> \in activeLinks' <=> <<j, c>> \in activeLinks \/ (j = k /\ c = owner)
      BY <2>1
    <3>4. "deal" \in IdKeys /\ "tech" \in IdKeys BY DEF IdKeys
    <3>5. QED BY <1>2, <3>1, <3>2, <3>3, <3>4 DEF LinksInv
  <2>6. NoOrphanCanonical' BY <2>1, <2>2 DEF NoOrphanCanonical, GraphTypes
  <2>7. AnswerNamesOwner'
    <3>1. idAnswer'.key = k /\ idAnswer'.canon = owner BY <2>3
    <3>2. QED BY <2>1, <3>1 DEF AnswerNamesOwner
  <2>8. SessionsInv' /\ EmailInv' BY <1>1, <2>a, <2>3, TxEnds
  <2>9. CasesInv' BY <1>1 DEF CasesInv
  <2>10. QED BY <2>4, <2>5, <2>6, <2>7, <2>8, <2>9
<1>6. QED BY <1>3, <1>4, <1>5

LEMMA OperatorKeeps ==
  ASSUME GraphInv, (\E k \in IdKeys : RevokeLink(k)) \/ \E c \in Canonicals : OperatorArchives(c)
  PROVE  GraphInv'
<1> USE DEF GraphInv
<1>1. UNCHANGED <<everLinked, convCanonical, reviews, idTx>> /\ idAnswer' = NoAnswer /\ activeLinks' \subseteq activeLinks
      /\ confirmed' \subseteq confirmed
  BY DEF RevokeLink, OperatorArchives
<1>2. /\ canonStatus' \in [Canonicals -> {"absent", "ACTIVE", "ARCHIVED"}]
      /\ \A c \in Canonicals : canonStatus'[c] # "absent" => canonStatus[c] # "absent"
  BY DEF RevokeLink, OperatorArchives, GraphTypes
<1>3. GraphTypes' BY <1>1, <1>2 DEF GraphTypes
<1>4. LinksInv' BY <1>1 DEF LinksInv
<1>5. NoOrphanCanonical' /\ AnswerNamesOwner' BY <1>1, <1>2 DEF NoOrphanCanonical, AnswerNamesOwner
<1>6. SessionsInv' /\ EmailInv' /\ CasesInv' BY <1>1 DEF SessionsInv, HoldsConversation, CasesInv, EmailInv
<1>7. QED BY <1>3, <1>4, <1>5, <1>6

\* A step that leaves identities and links alone and answers no link.
LEMMA GlueStep ==
  ASSUME GraphInv, UNCHANGED <<canonStatus, activeLinks, confirmed, everLinked>>, idAnswer' = NoAnswer,
         convCanonical' \in Canonicals \cup {0}, idTx' \in [IdSessions -> TxType], SessionsInv', EmailInv',
         reviews' \in Seq(CaseType), CasesInv'
  PROVE  GraphInv'
<1>1. GraphTypes' BY DEF GraphInv, GraphTypes
<1>2. QED BY <1>1, GraphSame DEF GraphInv

\* A candidate has one of the signals or one of the CONFIRMED links.
LEMMA InStrong ==
  ASSUME NEW sig, NEW named, NEW x
  PROVE  x \in Strong(sig, named) <=>
            (\E k \in sig \ {"email"} : x \in KindOwners(k)) \/ (\E k \in named : x \in ConfirmedOwners(k))
<1> DEFINE A == UNION {KindOwners(k) : k \in sig \ {"email"}}
           B == UNION {ConfirmedOwners(k) : k \in named}
<1>1. x \in A <=> \E k \in sig \ {"email"} : x \in KindOwners(k) OBVIOUS
<1>2. x \in B <=> \E k \in named : x \in ConfirmedOwners(k) OBVIOUS
<1>3. Strong(sig, named) = A \cup B BY DEF Strong
<1> HIDE DEF A, B
<1>4. x \in Strong(sig, named) <=> x \in A \/ x \in B BY <1>3
<1>5. QED BY <1>1, <1>2, <1>4, Zenon

LEMMA StrongAreCanonicals ==
  ASSUME NEW sig, NEW named
  PROVE  Strong(sig, named) \subseteq Canonicals
<1>1. \A j : KindOwners(j) \subseteq Canonicals BY DEF KindOwners, ActiveOwners, LinkOwners
<1>2. \A j : ConfirmedOwners(j) \subseteq Canonicals BY DEF ConfirmedOwners, ActiveOwners, LinkOwners
<1>3. QED BY <1>1, <1>2, InStrong

\* Resolving names an identity that has one of the signals.
LEMMA ResolvedIsOwner ==
  ASSUME NEW sig, NEW named, ResolvedTo(sig, named).o \notin {"not_found", "review"}
  PROVE  /\ ResolvedTo(sig, named).c \in Canonicals /\ ResolvedTo(sig, named).c \in Strong(sig, named)
         /\ ~SignalsConflict(sig, named)
<1>1. ~SignalsConflict(sig, named) /\ Strong(sig, named) # {}
      /\ ResolvedTo(sig, named) = [o |-> "resolved", c |-> CHOOSE c \in Canonicals : c \in Strong(sig, named)]
  BY DEF ResolvedTo
<1>2. Strong(sig, named) \subseteq Canonicals BY StrongAreCanonicals
<1>4. \E c \in Canonicals : c \in Strong(sig, named) BY <1>1, <1>2
<1>5. QED BY <1>1, <1>4

LEMMA GlueResolvesKeeps ==
  ASSUME GraphInv, NEW s \in IdSessions, GlueResolves(s)
  PROVE  GraphInv'
<1>1. UNCHANGED <<canonStatus, activeLinks, confirmed, everLinked, convCanonical>> BY DEF GlueResolves
<1>a. PICK y \in Resolutions :
        CASE y.o = "not_found" -> Ends(s, "not_found") /\ UNCHANGED reviews
          [] y.o = "review" -> Ends(s, "review") /\ OpensReview("AMBIGUOUS_RESOLVE", 0)
          [] OTHER -> /\ Continues(s, [NoIdTx EXCEPT !.ph = "glue", !.target = y.c, !.seen = convCanonical])
                      /\ UNCHANGED reviews
  BY DEF GlueResolves
<1>b. PICK sig \in SUBSET Signals, named \in SUBSET NamedLinks : y = ResolvedTo(sig, named) BY Zenon DEF Resolutions
<1> DEFINE r == ResolvedTo(sig, named)
<1>2. CASE r.o = "not_found"
  <2>1. Ends(s, "not_found") /\ UNCHANGED reviews BY <1>a, <1>b, <1>2
  <2>2. QED BY <1>1, <2>1, TxEndsQuietly, TxEnds, GraphQuietStep
<1>3. CASE r.o = "review"
  <2>1. Ends(s, "review") /\ OpensReview("AMBIGUOUS_RESOLVE", 0) BY <1>a, <1>b, <1>3
  <2>2. reviews' \in Seq(CaseType) /\ DOMAIN reviews \subseteq DOMAIN reviews' /\ CasesInv'
    BY <1>1, <2>1, ReviewOpened
  <2>3. convCanonical' \in Canonicals \cup {0} BY <1>1 DEF GraphInv, GraphTypes
  <2>4. QED BY <1>1, <2>1, <2>2, <2>3, TxEndsQuietly, TxEnds, GlueStep
<1>4. CASE r.o \notin {"not_found", "review"}
  <2>1. r.c \in Canonicals /\ convCanonical \in Canonicals \cup {0}
    BY <1>4, ResolvedIsOwner DEF GraphInv, GraphTypes
  <2>2. Continues(s, [NoIdTx EXCEPT !.ph = "glue", !.target = r.c, !.seen = convCanonical]) /\ UNCHANGED reviews
    BY <1>a, <1>b, <1>4
  <2> HIDE DEF r
  <2>3. PICK tx \in TxType : tx = [NoIdTx EXCEPT !.ph = "glue", !.target = r.c, !.seen = convCanonical]
    BY <2>1, NoIdTxType DEF TxType
  <2>4. tx.ph = "glue" /\ tx.target = r.c /\ tx.seen = convCanonical /\ tx.key = "channel" BY <2>3, NoIdTxType DEF TxType
  <2>5. \A t \in IdSessions \ {s} : ~HoldsConversation(t)
    BY DEF GlueResolves, ConversationFree, HoldsConversation
  <2>6. idTx' = [idTx EXCEPT ![s] = tx] /\ idAnswer' = NoAnswer BY <2>2, <2>3 DEF Continues
  <2>7. idTx' \in [IdSessions -> TxType] /\ SessionsInv' /\ EmailInv' BY <1>1, <2>1, <2>2, <2>4, <2>5, <2>6, OneTxMoves
  <2>8. QED BY <1>1, <2>2, <2>6, <2>7, GraphQuietStep
<1>5. QED BY <1>2, <1>3, <1>4

LEMMA AttachOrReviewKeeps ==
  ASSUME GraphInv, NEW s \in IdSessions, AttachOrReview(s)
  PROVE  GraphInv'
<1> USE DEF GraphInv
<1> DEFINE target == idTx[s].target
           current == idTx[s].seen
<1>1. UNCHANGED <<canonStatus, activeLinks, confirmed, everLinked>> /\ idTx[s].ph = "glue" BY DEF AttachOrReview
<1>2. target \in Canonicals /\ current = convCanonical /\ HoldsConversation(s)
  BY <1>1 DEF SessionsInv, HoldsConversation
<1>3. CASE canonStatus[target] # "ACTIVE" \/ current \notin {0, target}
  <2>1. /\ OpensReview("CANONICAL_NOT_ACTIVE", target) \/ OpensReview("CONFLICTING_CANONICAL", target)
        /\ Ends(s, "review") /\ UNCHANGED convCanonical
    BY <1>3 DEF AttachOrReview
  <2>2. reviews' \in Seq(CaseType) /\ DOMAIN reviews \subseteq DOMAIN reviews' /\ CasesInv'
    BY <1>2, <2>1, ReviewOpened
  <2>3. convCanonical' \in Canonicals \cup {0} BY <2>1 DEF GraphTypes
  <2>4. QED BY <1>1, <2>1, <2>2, <2>3, TxEndsQuietly, TxEnds, GlueStep
<1>4. CASE canonStatus[target] = "ACTIVE" /\ current \in {0, target}
  <2>1. convCanonical' = target /\ Ends(s, "attached") /\ UNCHANGED reviews BY <1>4 DEF AttachOrReview
  <2>2. CasesInv' BY <1>2, <1>4, <2>1 DEF CasesInv
  <2>3. convCanonical' \in Canonicals \cup {0} /\ reviews' \in Seq(CaseType) BY <1>2, <2>1 DEF GraphTypes
  <2>4. QED BY <1>1, <1>2, <2>1, <2>2, <2>3, TxEndsQuietly, TxEnds, GlueStep
<1>5. QED BY <1>3, <1>4

LEMMA ApproveLocksKeeps ==
  ASSUME GraphInv, NEW s \in IdSessions, NEW i \in DOMAIN reviews, NEW t \in Canonicals, ApproveLocks(s, i, t)
  PROVE  GraphInv'
<1>1. UNCHANGED <<canonStatus, activeLinks, confirmed, everLinked, convCanonical, reviews>> BY DEF ApproveLocks
<1>2. i \in Nat BY DEF GraphInv, GraphTypes
<1>3. CASE reviews[i].st = "OPEN"
  <2>1. PICK tx \in TxType : tx = [NoIdTx EXCEPT !.ph = "case", !.review = i, !.target = t]
    BY <1>2, NoIdTxType DEF TxType
  <2>2. tx.ph = "case" /\ tx.review = i /\ tx.target = t /\ tx.key = "channel" BY <2>1, NoIdTxType DEF TxType
  <2>3. idTx' = [idTx EXCEPT ![s] = tx] /\ idAnswer' = NoAnswer BY <1>3, <2>1 DEF ApproveLocks, Continues
  <2>4. idTx' \in [IdSessions -> TxType] /\ SessionsInv' /\ EmailInv' BY <1>1, <2>2, <2>3, OneTxMoves
  <2>5. QED BY <1>1, <2>3, <2>4, GraphQuietStep
<1>4. CASE reviews[i].st # "OPEN"
  <2>1. \E out \in {"resolved", "refused"} : Ends(s, out) BY <1>4 DEF ApproveLocks
  <2>2. QED BY <1>1, <2>1, TxEndsQuietly, TxEnds, GraphQuietStep
<1>5. QED BY <1>3, <1>4

LEMMA ApproveConversationKeeps ==
  ASSUME GraphInv, NEW s \in IdSessions, ApproveLocksConversation(s)
  PROVE  GraphInv'
<1>1. UNCHANGED <<canonStatus, activeLinks, confirmed, everLinked, convCanonical, reviews>> /\ idTx[s].ph = "case"
  BY DEF ApproveLocksConversation
<1>2. idTx[s] \in TxType /\ convCanonical \in Canonicals \cup {0} BY DEF GraphInv, GraphTypes
<1>3. PICK tx \in TxType : tx = [idTx[s] EXCEPT !.ph = "approving", !.seen = convCanonical] BY <1>2 DEF TxType
<1>4. /\ tx.ph = "approving" /\ tx.seen = convCanonical /\ tx.target = idTx[s].target /\ tx.review = idTx[s].review
      /\ tx.key = "email" => ~tx.conf
  BY <1>2, <1>3 DEF TxType, GraphInv, EmailInv
<1>5. idTx' = [idTx EXCEPT ![s] = tx] /\ idAnswer' = NoAnswer BY <1>3 DEF ApproveLocksConversation, Continues
<1>6. \A t \in IdSessions \ {s} : ~HoldsConversation(t)
  BY DEF ApproveLocksConversation, ConversationFree, HoldsConversation
<1>7. tx.target \in Canonicals /\ tx.review \in DOMAIN reviews BY <1>1, <1>4 DEF GraphInv, SessionsInv
<1>8. idTx' \in [IdSessions -> TxType] /\ SessionsInv' /\ EmailInv' BY <1>1, <1>4, <1>5, <1>6, <1>7, OneTxMoves
<1>9. QED BY <1>1, <1>5, <1>8, GraphQuietStep

LEMMA ApproveDecidesKeeps ==
  ASSUME GraphInv, NEW s \in IdSessions, ApproveDecides(s)
  PROVE  GraphInv'
<1> USE DEF GraphInv
<1> DEFINE i == idTx[s].review
           target == idTx[s].target
           current == idTx[s].seen
<1>1. UNCHANGED <<canonStatus, activeLinks, confirmed, everLinked>> /\ idTx[s].ph = "approving" BY DEF ApproveDecides
<1>2. target \in Canonicals /\ current = convCanonical /\ HoldsConversation(s) /\ i \in DOMAIN reviews
  BY <1>1 DEF SessionsInv, HoldsConversation
<1>3. canonStatus[target] \in {"absent", "ACTIVE", "ARCHIVED"} BY <1>2 DEF GraphTypes
<1>4. CASE canonStatus[target] # "ACTIVE" \/ OverridesCurrent(current, target)
  <2>1. /\ reviews' = reviews \/ OpensReview("CANONICAL_NOT_ACTIVE", target) \/ OpensReview("CONFLICTING_CANONICAL", target)
        /\ Ends(s, "refused") /\ UNCHANGED convCanonical
    <3>1. CASE canonStatus[target] = "absent" BY <3>1 DEF ApproveDecides
    <3>2. CASE canonStatus[target] = "ARCHIVED" BY <3>2 DEF ApproveDecides
    <3>3. CASE canonStatus[target] = "ACTIVE" BY <1>4, <3>3 DEF ApproveDecides
    <3>4. QED BY <1>3, <3>1, <3>2, <3>3
  <2>2. reviews' \in Seq(CaseType) /\ DOMAIN reviews \subseteq DOMAIN reviews' /\ CasesInv'
    BY <1>2, <2>1, ReviewOpened
  <2>3. convCanonical' \in Canonicals \cup {0} BY <2>1 DEF GraphTypes
  <2>4. QED BY <1>1, <2>1, <2>2, <2>3, TxEndsQuietly, TxEnds, GlueStep
<1>5. CASE canonStatus[target] = "ACTIVE" /\ ~OverridesCurrent(current, target)
  <2>1. /\ convCanonical' = IF current = 0 THEN target ELSE convCanonical
        /\ reviews' = [reviews EXCEPT ![i] = [reviews[i] EXCEPT !.st = "RESOLVED", !.canon = target]]
        /\ Ends(s, "approved")
    BY <1>5 DEF ApproveDecides
  <2>2. convCanonical' = target BY <1>2, <1>5, <2>1 DEF OverridesCurrent
  <2>3. target # 0 /\ convCanonical \in {0, target} BY <1>2, <1>5, GraphConstants DEF OverridesCurrent
  <2>4. reviews \in Seq(CaseType) /\ reviews[i] \in CaseType BY <1>2 DEF GraphTypes
  <2>5. PICK r \in CaseType : r = [reviews[i] EXCEPT !.st = "RESOLVED", !.canon = target] BY <1>2, <2>4 DEF CaseType
  <2>6. r.canon = target BY <2>4, <2>5 DEF CaseType
  <2>7. reviews' = [reviews EXCEPT ![i] = r] BY <2>1, <2>5
  <2>8. reviews' \in Seq(CaseType) BY <1>2, <2>4, <2>7
  <2>9. DOMAIN reviews' = DOMAIN reviews /\ reviews'[i] = r /\ \A j \in DOMAIN reviews : j # i => reviews'[j] = reviews[j]
    BY <1>2, <2>4, <2>7
  <2>10. CasesInv' BY <2>2, <2>3, <2>6, <2>9 DEF CasesInv
  <2>11. convCanonical' \in Canonicals \cup {0} BY <1>2, <2>2
  <2>12. idTx' = [idTx EXCEPT ![s] = NoIdTx] /\ idAnswer' = NoAnswer BY <2>1, TxEndsQuietly
  <2>13. idTx' \in [IdSessions -> TxType] /\ SessionsInv' /\ EmailInv' BY <1>1, <1>2, <2>9, <2>12, TxEnds
  <2>14. QED BY <1>1, <2>8, <2>10, <2>11, <2>12, <2>13, GlueStep
<1>6. QED BY <1>3, <1>4, <1>5

LEMMA GraphInductive ==
  ASSUME GraphInv, [GraphNext]_graphVars
  PROVE  GraphInv'
<1>1. ASSUME NEW s \in IdSessions, IdTxAborts(s) PROVE GraphInv'
  <2>1. UNCHANGED <<canonStatus, activeLinks, confirmed, everLinked, convCanonical, reviews>> /\ Ends(s, "aborted")
    BY <1>1 DEF IdTxAborts
  <2>2. QED BY <2>1, TxEndsQuietly, TxEnds, GraphQuietStep
<1>2. CASE UNCHANGED graphVars
  <2>1. UNCHANGED <<canonStatus, activeLinks, confirmed, everLinked, convCanonical, reviews, idTx, idAnswer>>
    BY <1>2 DEF graphVars
  <2>2. idTx' \in [IdSessions -> TxType] /\ SessionsInv' /\ EmailInv'
    BY <2>1 DEF GraphInv, GraphTypes, SessionsInv, HoldsConversation, EmailInv
  <2>3. idAnswer' = NoAnswer \/ <<idAnswer'.key, idAnswer'.canon>> \in activeLinks
    BY <2>1 DEF GraphInv, AnswerNamesOwner
  <2>4. QED BY <2>1, <2>2, <2>3, GraphQuietStep
<1>3. QED BY <1>1, <1>2, AttachLooksKeeps, InsertsKeeps, ClassifiesKeeps, GlueResolvesKeeps, AttachOrReviewKeeps,
             ApproveLocksKeeps, ApproveConversationKeeps, ApproveDecidesKeeps, OperatorKeeps
        DEF GraphNext

\* Attaching and approving write the identity the conversation already has, or its first.
LEMMA BoundStays ==
  ASSUME GraphInv, GraphNext, convCanonical # 0
  PROVE  convCanonical' = convCanonical
<1>1. ASSUME NEW s \in IdSessions, AttachOrReview(s) PROVE convCanonical' = convCanonical
  <2>1. idTx[s].seen = convCanonical BY <1>1 DEF AttachOrReview, GraphInv, SessionsInv, HoldsConversation
  <2>2. CASE canonStatus[idTx[s].target] # "ACTIVE" \/ idTx[s].seen \notin {0, idTx[s].target}
    BY <1>1, <2>2 DEF AttachOrReview
  <2>3. CASE canonStatus[idTx[s].target] = "ACTIVE" /\ idTx[s].seen \in {0, idTx[s].target}
    BY <1>1, <2>1, <2>3 DEF AttachOrReview
  <2>4. QED BY <2>2, <2>3
<1>2. ASSUME NEW s \in IdSessions, ApproveDecides(s) PROVE convCanonical' = convCanonical
  <2>1. idTx[s].seen = convCanonical /\ idTx[s].target \in Canonicals
    BY <1>2 DEF ApproveDecides, GraphInv, SessionsInv, HoldsConversation
  <2>2. canonStatus[idTx[s].target] \in {"absent", "ACTIVE", "ARCHIVED"} BY <2>1 DEF GraphInv, GraphTypes
  <2>3. CASE canonStatus[idTx[s].target] = "absent" BY <1>2, <2>3 DEF ApproveDecides
  <2>4. CASE canonStatus[idTx[s].target] = "ARCHIVED" BY <1>2, <2>4 DEF ApproveDecides
  <2>5. CASE canonStatus[idTx[s].target] = "ACTIVE" BY <1>2, <2>1, <2>5 DEF ApproveDecides
  <2>6. QED BY <2>2, <2>3, <2>4, <2>5
<1>3. ASSUME NEW s \in IdSessions,
             \/ \E k \in IdKeys, t \in Canonicals \cup {0} : AttachLooks(s, k, t)
             \/ AttachInserts(s) \/ AttachClassifies(s)
             \/ GlueResolves(s)
             \/ \E i \in DOMAIN reviews, t \in Canonicals : ApproveLocks(s, i, t)
             \/ ApproveLocksConversation(s) \/ IdTxAborts(s)
      PROVE  convCanonical' = convCanonical
  <2>1. \A k, t : AttachLooks(s, k, t) => convCanonical' = convCanonical BY DEF AttachLooks
  <2>2. GlueResolves(s) => convCanonical' = convCanonical BY DEF GlueResolves
  <2>3. QED BY <1>3, <2>1, <2>2 DEF AttachInserts, AttachClassifies, ApproveLocks, ApproveLocksConversation, IdTxAborts
<1>4. QED BY <1>1, <1>2, <1>3 DEF GraphNext, RevokeLink, OperatorArchives

LEMMA OwnersExclusive == ASSUME GraphInv PROVE LinkExclusive
<1> USE DEF GraphInv
<1>1. ASSUME NEW k \in IdKeys PROVE Cardinality(LinkOwners(k)) <= 1
  <2>1. IsFiniteSet(LinkOwners(k)) BY GraphConstants, FS_Subset DEF LinkOwners
  <2>2. \A c, d \in LinkOwners(k) : c = d BY DEF LinkOwners, LinksInv
  <2>3. QED BY <2>1, <2>2, AtMostOneIsSame
<1>2. \E k \in LeadRoles : ~KeyTaken(k) BY DEF LeadRoles, KeyTaken, LinkOwners, LinksInv
<1>3. QED BY <1>1, <1>2 DEF LinkExclusive

\* Without a conflict all owners of the signals, strong and weak, are one; and no
\* e-mail is among the CONFIRMED links.
LEMMA Unanimous == ASSUME GraphInv PROVE ResolvesUnanimously
<1> SUFFICES ASSUME NEW sig \in SUBSET Signals, NEW named \in SUBSET NamedLinks, ResolvedTo(sig, named).o = "resolved"
             PROVE  LET c == ResolvedTo(sig, named).c
                    IN  /\ \A k \in sig : KindOwners(k) \subseteq {c}
                        /\ \A k \in named \cap confirmed : ActiveOwners(k) \subseteq {c}
                        /\ \E k \in (sig \cup named) \ {"email"} : c \in KindOwners(k)
  BY DEF ResolvesUnanimously
<1> DEFINE c == ResolvedTo(sig, named).c
           S == Strong(sig, named)
<1>2. c \in S /\ ~SignalsConflict(sig, named) BY ResolvedIsOwner
<1>3. S \subseteq Canonicals BY StrongAreCanonicals
<1>5. IsFiniteSet(S) BY <1>3, GraphConstants, FS_Subset
<1>6. Cardinality(S) <= 1 BY <1>2, <1>5, FS_CardinalityType DEF SignalsConflict
<1>7. \A x, y \in S : x = y BY <1>5, <1>6, AtMostOneIsSame
<1>8. Weak(sig) \subseteq S BY <1>2 DEF SignalsConflict
<1>9. \A k \in sig : KindOwners(k) \subseteq S \cup Weak(sig) BY InStrong DEF Weak
<1>10. \A k \in named \cap confirmed : ActiveOwners(k) \subseteq S BY InStrong DEF ConfirmedOwners
<1>11. \E k \in (sig \cup named) \ {"email"} : c \in KindOwners(k)
  <2>1. CASE \E k \in sig \ {"email"} : c \in KindOwners(k) BY <2>1
  <2>2. CASE \E k \in named : c \in ConfirmedOwners(k)
    <3>1. PICK k \in named : c \in ConfirmedOwners(k) BY <2>2
    <3>2. k \in confirmed /\ c \in ActiveOwners(k) BY <3>1 DEF ConfirmedOwners
    <3>3. k # "email" BY <3>2 DEF GraphInv, EmailInv
    <3>4. c \in KindOwners(k) BY <3>2 DEF KindOwners
    <3>5. QED BY <3>1, <3>3, <3>4
  <2>3. QED BY <1>2, <2>1, <2>2, InStrong
<1> HIDE DEF c, S
<1>12. S \subseteq {c} BY <1>2, <1>7
<1>13. QED BY <1>8, <1>9, <1>10, <1>11, <1>12 DEF c

\* However attaches, revocations, resolutions and approvals interleave, race and
\* abort: an external account and a lead have one identity, a lost race leaves no
\* identity behind, the answer of attach is the link that is there, the conversation
\* keeps its first identity, closed cases name it, and the resolver answers RESOLVED only
\* when every given signal and every CONFIRMED link it is given agree, never on an e-mail.
THEOREM OneIdentityCorrect == GraphSpec => OneIdentity
<1> DEFINE Kept == convCanonical # 0 => convCanonical' = convCanonical
<1>1. GraphInv => LinkExclusive /\ NoOrphanCanonical /\ AnswerNamesOwner BY OwnersExclusive DEF GraphInv
<1>2. GraphInv => ResolvedCaseMatches /\ ResolvesUnanimously
  BY Unanimous DEF GraphInv, CasesInv, ResolvedCaseMatches
<1>3. GraphInv /\ [GraphNext]_graphVars => GraphInv' BY GraphInductive
<1>4. GraphInv /\ [GraphNext]_graphVars => [Kept]_graphVars BY BoundStays
<1>5. QED BY <1>1, <1>2, <1>3, <1>4, GraphInitially, PTL DEF GraphSpec, OneIdentity, NeverRebound

-----------------------------------------------------------------------------
(* BuyerCard: a card is bound and reported for the verified contact only.  *)

CardPhases == {"idle", "lookup", "phone", "contact", "inspect", "finalize", "attach", "reconcile", "done"}
CardOuts == {"none", "refused", "not_found", "transient", "permanent", "incomplete", "review",
             "already_bound", "bound", "reused", "error"}
HolderType == [active : BOOLEAN, contacts : SUBSET CrmContacts, cards : SUBSET CrmCards, elsewhere : SUBSET CrmCards]
CardOpType == [ph : CardPhases, kind : {"bind", "read"}, contact : CrmContacts \cup {0}, card : CrmCards \cup {0},
               byPhone : BOOLEAN, page : Nat, more : BOOLEAN, hits : SUBSET CrmContacts, todo : SUBSET CrmCards,
               eligible : SUBSET CrmCards, spent : BOOLEAN, out : CardOuts]

\* What an operation holds in memory, whatever the tables say by now.
CardOpInv(op) ==
  /\ op \in CardOpType
  /\ op.ph \notin {"idle", "phone", "done"} => op.contact \in CrmContacts
  /\ op.byPhone /\ op.ph # "phone" => ~op.more /\ op.hits = {op.contact}
  /\ op.ph = "reconcile" => op.eligible # {}
  /\ op.ph # "done" => op.out = "none"
  /\ op.ph = "attach" => op.kind = "bind"
  /\ op.kind = "bind" /\ op.ph \notin {"idle", "done"} => op.card \in CrmCards

\* Who is about to insert a card holds the identity's row lock, and what it saw under the lock is still so: only
\* revocations are possible meanwhile.
AttachInv(o) ==
  cardOps[o].ph = "attach" =>
    /\ holderLock = o /\ holder.cards = {} /\ holder.active /\ holder.contacts \subseteq {cardOps[o].contact}

CardInv ==
  /\ holder \in HolderType /\ \A c, d \in holder.cards : c = d
  /\ customers \in [CrmContacts -> SUBSET CrmCards]
  /\ cardOps \in [CardOps -> CardOpType]
  /\ \A o \in CardOps : CardOpInv(cardOps[o]) /\ AttachInv(o)

BoundStep(o) ==
  holder'.cards # holder.cards /\ cardOps[o].ph = "attach" /\ cardOps'[o].ph = "done" =>
    holder.active /\ holder.contacts \subseteq {cardOps[o].contact}
ReusedStep(o) ==
  cardOps'[o].out = "reused" /\ cardOps[o].out # "reused" =>
    cardOps'[o].card \in holder.cards \cap cardOps[o].eligible
CardStep == \A o \in CardOps : BoundStep(o) /\ ReusedStep(o)

\* A step of one operation that leaves the links alone and does not go on to the insert.
LEMMA CardOpMoves ==
  ASSUME CardInv, NEW o \in CardOps, NEW op, CardOpInv(op), op.ph # "attach", op.out # "reused",
         cardOps' = [cardOps EXCEPT ![o] = op], UNCHANGED <<holder, customers>>,
         holderLock' = holderLock \/ (holderLock = o /\ holderLock' = 0)
  PROVE  CardInv' /\ CardStep
<1>1. op \in CardOpType /\ cardOps'[o] = op BY DEF CardInv, CardOpInv
<1>2. cardOps' \in [CardOps -> CardOpType] BY <1>1 DEF CardInv
<1>3. ASSUME NEW p \in CardOps PROVE CardOpInv(cardOps'[p]) /\ AttachInv(p)' /\ BoundStep(p) /\ ReusedStep(p)
  <2>1. CASE p = o BY <1>1, <2>1 DEF AttachInv, BoundStep, ReusedStep
  <2>2. CASE p # o
    <3>1. cardOps'[p] = cardOps[p] BY <2>2 DEF CardInv
    <3>2. CardOpInv(cardOps[p]) /\ AttachInv(p) BY DEF CardInv
    <3>3. QED BY <2>2, <3>1, <3>2 DEF AttachInv, BoundStep, ReusedStep
  <2>3. QED BY <2>1, <2>2
<1>4. QED BY <1>2, <1>3 DEF CardInv, CardStep

\* A finished operation.
LEMMA CardOpEnded ==
  ASSUME NEW out \in CardOuts
  PROVE  /\ CardOpInv([NoCardOp EXCEPT !.ph = "done", !.out = out])
         /\ [NoCardOp EXCEPT !.ph = "done", !.out = out].ph = "done"
         /\ [NoCardOp EXCEPT !.ph = "done", !.out = out].out = out
  BY BuyerCardConstants DEF CardOpInv, NoCardOp, CardOpType, CardPhases

LEMMA OpEndsMoves ==
  ASSUME CardInv, NEW o \in CardOps, NEW out \in CardOuts \ {"reused"}, OpEnds(o, out), UNCHANGED <<holder, customers>>,
         holderLock' = holderLock \/ (holderLock = o /\ holderLock' = 0)
  PROVE  CardInv' /\ CardStep
<1> DEFINE op == [NoCardOp EXCEPT !.ph = "done", !.out = out]
<1>1. CardOpInv(op) /\ op.ph = "done" /\ op.out = out BY CardOpEnded
<1>2. cardOps' = [cardOps EXCEPT ![o] = op] BY DEF OpEnds
<1> HIDE DEF op
<1>3. QED BY <1>1, <1>2, CardOpMoves

\* An answered call: the operation goes on as op, which may have spent its refresh.
LEMMA CrmAnswersMoves ==
  ASSUME CardInv, NEW o \in CardOps, NEW op, CardOpInv(op), op.ph # "attach", op.out # "reused",
         CrmAnswers(o, op)
  PROVE  CardInv' /\ CardStep
<1> DEFINE n == [op EXCEPT !.spent = op.ph # "contact" /\ (@ \/ ~tokenGood)]
<1>1. n \in CardOpType /\ n.ph = op.ph /\ n.out = op.out /\ n.contact = op.contact /\ n.byPhone = op.byPhone
      /\ n.more = op.more /\ n.hits = op.hits /\ n.eligible = op.eligible /\ n.kind = op.kind /\ n.card = op.card
  BY DEF CardOpInv, CardOpType
<1>2. cardOps' = [cardOps EXCEPT ![o] = n] BY DEF CrmAnswers, OpGoesOn
<1> HIDE DEF n
<1>3. CardOpInv(n) BY <1>1 DEF CardOpInv
<1>4. QED BY <1>1, <1>2, <1>3, CardOpMoves DEF CrmAnswers

\* A set in a finite one with Cardinality 1 is the set of its CHOOSE.
LEMMA SoleElement ==
  ASSUME NEW S, IsFiniteSet(S), Cardinality(S) = 1
  PROVE  S = {CHOOSE k \in S : TRUE}
<1>1. PICK x : S = {x} BY FS_Singleton
<1>2. QED BY <1>1

LEMMA ContactsFinite ==
  ASSUME NEW S \in SUBSET CrmContacts
  PROVE  IsFiniteSet(S) /\ Cardinality(S) \in Nat /\ (S = {} => Cardinality(S) = 0)
  BY BuyerCardConstants, FS_Subset, FS_CardinalityType, FS_EmptySet

LEMMA CardInitInv == CardInit => CardInv
<1> SUFFICES ASSUME CardInit PROVE CardInv OBVIOUS
<1>1. NoCardOp \in CardOpType BY DEF NoCardOp, CardOpType, CardPhases, CardOuts
<1>2. CardOpInv(NoCardOp) BY <1>1 DEF CardOpInv, NoCardOp
<1>3. holder \in HolderType /\ \A c, d \in holder.cards : c = d BY BuyerCardConstants DEF CardInit, HolderType
<1>4. customers \in [CrmContacts -> SUBSET CrmCards] BY BuyerCardConstants DEF CardInit
<1>5. \A o \in CardOps : cardOps[o] = NoCardOp BY DEF CardInit
<1>6. \A o \in CardOps : AttachInv(o) BY <1>5 DEF AttachInv, NoCardOp
<1>7. cardOps \in [CardOps -> CardOpType] BY <1>1 DEF CardInit
<1>8. QED BY <1>2, <1>3, <1>4, <1>5, <1>6, <1>7 DEF CardInv

LEMMA BindStartsInv ==
  ASSUME CardInv, NEW o \in CardOps, NEW k \in CrmContacts, NEW c \in CrmCards, BindStarts(o, k, c)
  PROVE  CardInv' /\ CardStep
<1>1. CASE OpEnds(o, "refused") BY <1>1, OpEndsMoves DEF BindStarts, CardOuts
<1>2. CASE OpGoesOn(o, [NoCardOp EXCEPT !.ph = "lookup", !.contact = k, !.card = c])
  <2> DEFINE op == [NoCardOp EXCEPT !.ph = "lookup", !.contact = k, !.card = c]
  <2>1. CardOpInv(op) /\ op.ph = "lookup" /\ op.out = "none"
    BY DEF NoCardOp, CardOpInv, CardOpType, CardPhases, CardOuts
  <2>2. cardOps' = [cardOps EXCEPT ![o] = op] BY <1>2 DEF OpGoesOn
  <2> HIDE DEF op
  <2>3. QED BY <2>1, <2>2, CardOpMoves DEF BindStarts
<1>3. QED BY <1>1, <1>2 DEF BindStarts

LEMMA ReadStartsInv ==
  ASSUME CardInv, NEW o \in CardOps, NEW phone \in BOOLEAN, ReadStarts(o, phone)
  PROVE  CardInv' /\ CardStep
<1> DEFINE r == [NoCardOp EXCEPT !.kind = "read"]
           k == CHOOSE x \in holder.contacts : TRUE
           a == [r EXCEPT !.ph = "lookup", !.contact = k]
           b == [r EXCEPT !.ph = "phone", !.byPhone = TRUE, !.page = 1]
<1>1. CASE OpEnds(o, "refused") BY <1>1, OpEndsMoves DEF ReadStarts, CardOuts
<1>2. CASE Cardinality(holder.contacts) = 1 /\ OpGoesOn(o, a)
  <2>1. holder.contacts \in SUBSET CrmContacts BY DEF CardInv, HolderType
  <2>2. holder.contacts = {k} BY <1>2, <2>1, ContactsFinite, SoleElement
  <2>3. k \in CrmContacts BY <2>1, <2>2
  <2> HIDE DEF k
  <2>4. CardOpInv(a) /\ a.ph = "lookup" /\ a.out = "none"
    BY <2>3 DEF NoCardOp, CardOpInv, CardOpType, CardPhases, CardOuts
  <2>5. cardOps' = [cardOps EXCEPT ![o] = a] BY <1>2 DEF OpGoesOn
  <2> HIDE DEF a
  <2>6. QED BY <2>4, <2>5, CardOpMoves DEF ReadStarts
<1>3. CASE OpGoesOn(o, b)
  <2>1. CardOpInv(b) /\ b.ph = "phone" /\ b.out = "none"
    BY DEF NoCardOp, CardOpInv, CardOpType, CardPhases, CardOuts
  <2>2. cardOps' = [cardOps EXCEPT ![o] = b] BY <1>3 DEF OpGoesOn
  <2> HIDE DEF b
  <2>3. QED BY <2>1, <2>2, CardOpMoves DEF ReadStarts
<1>4. OpEnds(o, "refused") \/ (Cardinality(holder.contacts) = 1 /\ OpGoesOn(o, a)) \/ OpGoesOn(o, b)
  <2>1. CASE holder.active /\ Cardinality(holder.contacts) = 1 BY <2>1, Zenon DEF ReadStarts
  <2>2. CASE holder.active /\ holder.contacts = {} /\ phone
    <3>1. Cardinality(holder.contacts) = 0 BY <2>2, FS_EmptySet
    <3>2. Cardinality(holder.contacts) # 1 BY <3>1
    <3>3. QED BY <2>2, <3>2 DEF ReadStarts
  <2>3. QED BY <2>1, <2>2 DEF ReadStarts
<1>5. QED BY <1>1, <1>2, <1>3, <1>4

LEMMA LookupByIdInv ==
  ASSUME CardInv, NEW o \in CardOps, LookupById(o)
  PROVE  CardInv' /\ CardStep
<1> DEFINE op == cardOps[o]
           n == [op EXCEPT !.ph = "contact"]
<1>1. CardOpInv(op) /\ op.ph = "lookup" BY DEF CardInv, LookupById
<1>2. CrmAnswers(o, n) BY DEF LookupById
<1> HIDE DEF op
<1>3. CardOpInv(n) /\ n.ph = "contact" /\ n.out = "none" BY <1>1 DEF CardOpInv, CardOpType, CardPhases
<1> HIDE DEF n
<1>4. QED BY <1>2, <1>3, CrmAnswersMoves

LEMMA CrmFailsInv ==
  ASSUME CardInv, NEW o \in CardOps, NEW f \in ByIdFailures, CrmFails(o, f)
  PROVE  CardInv' /\ CardStep
<1> DEFINE op == cardOps[o]
           n == [op EXCEPT !.ph = "finalize"]
<1>1. (\E out \in CardOuts \ {"reused"} : OpEnds(o, out)) \/ (op.ph = "contact" /\ OpGoesOn(o, n))
  <2>1. ByIdOutcome(f) \in CardOuts \ {"reused"} /\ BindLookup(ByIdOutcome(f)) \in CardOuts \ {"reused"}
        /\ ReadLookup(ByIdOutcome(f)) \in CardOuts \ {"reused"}
    BY DEF ByIdFailures, ByIdOutcome, BindLookup, ReadLookup, CardOuts
  <2>2. f \in PageFailures => BindLookup(PageOutcome(f)) \in CardOuts \ {"reused"}
        /\ ReadLookup(PageOutcome(f)) \in CardOuts \ {"reused"}
    BY DEF PageFailures, PageOutcome, BindLookup, ReadLookup, CardOuts
  <2>3. CustomersOutcome(f) \in CardOuts \ {"reused"} BY DEF ByIdFailures, CustomersOutcome, CardOuts
  <2>4. InspectOutcome(f) \in CardOuts \ {"reused"} BY DEF ByIdFailures, InspectOutcome, CardOuts
  <2>5. QED BY <2>1, <2>2, <2>3, <2>4 DEF CrmFails
<1>2. CASE \E out \in CardOuts \ {"reused"} : OpEnds(o, out) BY <1>2, OpEndsMoves DEF CrmFails
<1>3. CASE op.ph = "contact" /\ OpGoesOn(o, n)
  <2>1. CardOpInv(op) BY DEF CardInv
  <2>2. cardOps' = [cardOps EXCEPT ![o] = n] BY <1>3 DEF OpGoesOn
  <2> HIDE DEF op
  <2>3. CardOpInv(n) /\ n.ph = "finalize" /\ n.out = "none" BY <1>3, <2>1 DEF CardOpInv, CardOpType, CardPhases
  <2> HIDE DEF n
  <2>4. QED BY <2>2, <2>3, CardOpMoves DEF CrmFails
<1>4. QED BY <1>1, <1>2, <1>3

\* The phone search goes on to a contact only if no page is left and one number matched.
LEMMA PhonePageInv ==
  ASSUME CardInv, NEW o \in CardOps, NEW found \in PageMatches, NEW more \in BOOLEAN, PhonePage(o, found, more)
  PROVE  CardInv' /\ CardStep
<1> DEFINE op == cardOps[o]
           hits == op.hits \cup found
           k == CHOOSE x \in hits : TRUE
           a == [op EXCEPT !.ph = "contact", !.contact = k, !.hits = hits, !.more = more]
           b == [op EXCEPT !.page = @ + 1, !.hits = hits]
<1>1. CardOpInv(op) /\ op.ph = "phone" /\ op.out = "none" BY DEF CardInv, PhonePage, CardOpInv
<1>2. hits \in SUBSET CrmContacts BY <1>1 DEF CardOpInv, CardOpType, PageMatches
<1>3. CASE PhoneSettled(hits, more) /\ Cardinality(hits) = 1 /\ CrmAnswers(o, a)
  <2>1. hits = {k} BY <1>2, <1>3, ContactsFinite, SoleElement
  <2>2. more = FALSE BY <1>3 DEF PhoneSettled
  <2>3. CrmAnswers(o, a) BY <1>3
  <2> HIDE DEF op, hits, k
  <2>4. CardOpInv(a) /\ a.ph = "contact" /\ a.out = "none"
    BY <1>1, <1>2, <2>1, <2>2 DEF CardOpInv, CardOpType, CardPhases
  <2> HIDE DEF a
  <2>5. QED BY <2>3, <2>4, CrmAnswersMoves
<1>4. CASE CrmAnswers(o, b)
  <2> HIDE DEF hits, op
  <2>1. op.page \in Nat BY <1>1 DEF CardOpInv, CardOpType
  <2>2. op.page + 1 \in Nat BY <2>1
  <2>3. CardOpInv(b) /\ b.ph = "phone" /\ b.out = "none" BY <1>1, <1>2, <2>2 DEF CardOpInv, CardOpType
  <2>4. CrmAnswers(o, b) BY <1>4
  <2> HIDE DEF b
  <2>5. QED BY <2>3, <2>4, CrmAnswersMoves
<1>5. CASE OpEnds(o, ReadLookup(PhoneOutcome(hits, more))) /\ UNCHANGED <<holder, holderLock, customers>>
  <2>1. ReadLookup(PhoneOutcome(hits, more)) \in CardOuts \ {"reused"} BY DEF ReadLookup, PhoneOutcome, CardOuts
  <2>2. QED BY <1>5, <2>1, OpEndsMoves
<1>6. QED BY <1>3, <1>4, <1>5, Zenon DEF PhonePage

LEMMA DiscoverContactInv ==
  ASSUME CardInv, NEW o \in CardOps, DiscoverContact(o)
  PROVE  CardInv' /\ CardStep
<1> DEFINE op == cardOps[o]
           linked == CustomersOf(op.contact)
           n == [op EXCEPT !.ph = "inspect", !.todo = linked]
<1>1. CardOpInv(op) /\ op.ph = "contact" BY DEF CardInv, DiscoverContact
<1>2. linked \in SUBSET CrmCards BY <1>1 DEF CardInv, CardOpInv, CustomersOf
<1>3. CASE OpEnds(o, "incomplete") /\ UNCHANGED <<holder, holderLock, customers>>
  BY <1>3, OpEndsMoves DEF CardOuts
<1>4. CASE CrmAnswers(o, n)
  <2> HIDE DEF op, linked
  <2>1. CardOpInv(n) /\ n.ph = "inspect" /\ n.out = "none" BY <1>1, <1>2 DEF CardOpInv, CardOpType, CardPhases
  <2>2. CrmAnswers(o, n) BY <1>4
  <2> HIDE DEF n
  <2>3. QED BY <2>1, <2>2, CrmAnswersMoves
<1>5. QED BY <1>3, <1>4, Zenon DEF DiscoverContact

LEMMA InspectCustomerInv ==
  ASSUME CardInv, NEW o \in CardOps, InspectCustomer(o)
  PROVE  CardInv' /\ CardStep
<1> DEFINE op == cardOps[o]
           next == CHOOSE c \in op.todo : \A d \in op.todo : c <= d
           n == [op EXCEPT !.todo = @ \ {next}, !.eligible = @ \cup {next}]
<1>1. CardOpInv(op) /\ op.ph = "inspect" BY DEF CardInv, InspectCustomer
<1>2. CASE OpEnds(o, "incomplete") /\ UNCHANGED <<holder, holderLock, customers>>
  BY <1>2, OpEndsMoves DEF CardOuts
<1>3. CASE NamesContact(next, op.contact) /\ CrmAnswers(o, n)
  <2>1. op.contact \in CrmContacts BY <1>1 DEF CardOpInv
  <2>2. customers[op.contact] \in SUBSET CrmCards BY <2>1 DEF CardInv
  <2>3. next \in CrmCards BY <1>3, <2>2 DEF NamesContact
  <2>4. CrmAnswers(o, n) BY <1>3
  <2> HIDE DEF op, next
  <2>5. CardOpInv(n) /\ n.ph = "inspect" /\ n.out = "none" BY <1>1, <2>3 DEF CardOpInv, CardOpType
  <2> HIDE DEF n
  <2>6. QED BY <2>4, <2>5, CrmAnswersMoves
<1>4. QED BY <1>2, <1>3, Zenon DEF InspectCustomer

LEMMA DiscoveryEndsInv ==
  ASSUME CardInv, NEW o \in CardOps, DiscoveryEnds(o)
  PROVE  CardInv' /\ CardStep
<1> DEFINE op == cardOps[o]
           n == [op EXCEPT !.ph = "finalize"]
<1>1. CardOpInv(op) /\ op.ph = "inspect" BY DEF CardInv, DiscoveryEnds
<1>2. CASE \E out \in {"not_found", "review"} : OpEnds(o, out)
  BY <1>2, OpEndsMoves DEF CardOuts, DiscoveryEnds
<1>3. CASE OpGoesOn(o, n)
  <2>1. cardOps' = [cardOps EXCEPT ![o] = n] BY <1>3 DEF OpGoesOn
  <2> HIDE DEF op
  <2>2. CardOpInv(n) /\ n.ph = "finalize" /\ n.out = "none" BY <1>1 DEF CardOpInv, CardOpType, CardPhases
  <2> HIDE DEF n
  <2>3. QED BY <2>1, <2>2, CardOpMoves DEF DiscoveryEnds
<1>4. QED BY <1>2, <1>3 DEF DiscoveryEnds

\* The lock is free or the operation's own, and the operation is not at the insert: nobody is.
LEMMA NobodyAttaches ==
  ASSUME CardInv, NEW o \in CardOps, HolderFree(o), cardOps[o].ph # "attach"
  PROVE  \A p \in CardOps : cardOps[p].ph # "attach"
  BY BuyerCardConstants DEF CardInv, AttachInv, HolderFree

LEMMA BindFinalizesInv ==
  ASSUME CardInv, NEW o \in CardOps, BindFinalizes(o)
  PROVE  CardInv' /\ CardStep
<1> DEFINE op == cardOps[o]
           n == [op EXCEPT !.ph = "attach"]
<1>1. CardOpInv(op) /\ op.ph = "finalize" /\ op.kind = "bind" /\ UNCHANGED <<holder, customers>> BY DEF CardInv, BindFinalizes
<1>2. CASE \E out \in {"already_bound", "review"} : OpEnds(o, out) /\ UNCHANGED holderLock
  BY <1>1, <1>2, OpEndsMoves DEF CardOuts
<1>3. CASE StillSoleContact(op) /\ NeedsReconcile({op.card}).out = "not_found" /\ OpGoesOn(o, n)
           /\ TakesHolderLock(o)
  <2>1. \A p \in CardOps : cardOps[p].ph # "attach" BY <1>1, NobodyAttaches DEF BindFinalizes
  <2>2. holder.active /\ holder.contacts = {op.contact} BY <1>3 DEF StillSoleContact
  <2>3. holder.cards = {} BY <1>3, <2>2 DEF NeedsReconcile
  <2>4. cardOps' = [cardOps EXCEPT ![o] = n] /\ holderLock' = o BY <1>3 DEF OpGoesOn, TakesHolderLock
  <2>5. CardOpInv(n) /\ n.ph = "attach" /\ n.out = "none" /\ n.contact = op.contact /\ op.out = "none"
    <3> HIDE DEF op
    <3>1. QED BY <1>1 DEF CardOpInv, CardOpType, CardPhases
  <2> HIDE DEF n
  <2>6. cardOps'[o] = n /\ cardOps' \in [CardOps -> CardOpType] BY <2>4, <2>5 DEF CardInv, CardOpInv
  <2>7. ASSUME NEW p \in CardOps PROVE CardOpInv(cardOps'[p]) /\ AttachInv(p)' /\ BoundStep(p) /\ ReusedStep(p)
    <3>1. CASE p = o
      <4>1. CardOpInv(cardOps'[p]) BY <2>5, <2>6, <3>1
      <4>2. AttachInv(p)' BY <1>1, <2>2, <2>3, <2>4, <2>5, <2>6, <3>1 DEF AttachInv
      <4>3. QED BY <1>1, <2>5, <2>6, <3>1, <4>1, <4>2 DEF BoundStep, ReusedStep
    <3>2. CASE p # o
      <4>1. cardOps'[p] = cardOps[p] BY <2>4, <3>2 DEF CardInv
      <4>2. QED BY <1>1, <2>1, <4>1 DEF CardInv, AttachInv, BoundStep, ReusedStep
    <3>3. QED BY <3>1, <3>2
  <2>8. QED BY <1>1, <2>6, <2>7 DEF CardInv, CardStep
<1>4. QED BY <1>2, <1>3, Zenon DEF BindFinalizes

\* The insert: the lock's owner is alone, and nothing was linked when it looked.
LEMMA BindAttachesInv ==
  ASSUME CardInv, NEW o \in CardOps, BindAttaches(o)
  PROVE  CardInv' /\ CardStep
<1> DEFINE op == cardOps[o]
<1>1. CardOpInv(op) /\ op.ph = "attach" /\ op.out = "none" /\ UNCHANGED customers BY DEF CardInv, BindAttaches, CardOpInv
<1>2. holderLock = o /\ holder.cards = {} /\ holder.active /\ holder.contacts \subseteq {op.contact}
  BY <1>1 DEF CardInv, AttachInv
<1>3. \A p \in CardOps : p # o => cardOps[p].ph # "attach" BY <1>2 DEF CardInv, AttachInv
<1>4. PICK out \in CardOuts \ {"reused"} : OpEnds(o, out) BY DEF BindAttaches, CardOuts
<1> DEFINE n == [NoCardOp EXCEPT !.ph = "done", !.out = out]
<1>5. CardOpInv(n) /\ n.ph = "done" /\ n.out = out BY CardOpEnded
<1>6. cardOps' = [cardOps EXCEPT ![o] = n] BY <1>4 DEF OpEnds
<1> HIDE DEF n
<1>7. cardOps'[o] = n /\ cardOps' \in [CardOps -> CardOpType] BY <1>5, <1>6 DEF CardInv, CardOpInv
<1>8. holder' \in HolderType /\ \A c, d \in holder'.cards : c = d
  <2>1. CASE holder' = holder BY <2>1 DEF CardInv
  <2>2. CASE op.card \notin holder.elsewhere /\ holder' = [holder EXCEPT !.cards = @ \cup {op.card}]
    <3>1. op.card \in CrmCards BY <1>1 DEF CardOpInv
    <3>2. QED BY <1>2, <2>2, <3>1 DEF CardInv, HolderType
  <2>3. QED BY <2>1, <2>2 DEF BindAttaches
<1>9. ASSUME NEW p \in CardOps PROVE CardOpInv(cardOps'[p]) /\ AttachInv(p)' /\ BoundStep(p) /\ ReusedStep(p)
  <2>1. CASE p = o BY <1>2, <1>4, <1>5, <1>7, <2>1 DEF AttachInv, BoundStep, ReusedStep
  <2>2. CASE p # o
    <3>1. cardOps'[p] = cardOps[p] BY <1>6, <2>2 DEF CardInv
    <3>2. QED BY <1>3, <2>2, <3>1 DEF CardInv, AttachInv, BoundStep, ReusedStep
  <2>3. QED BY <2>1, <2>2
<1>10. QED BY <1>1, <1>7, <1>8, <1>9 DEF CardInv, CardStep

LEMMA ReadRechecksInv ==
  ASSUME CardInv, NEW o \in CardOps, ReadRechecks(o)
  PROVE  CardInv' /\ CardStep
<1> DEFINE op == cardOps[o]
           n == [op EXCEPT !.ph = "reconcile"]
<1>1. CardOpInv(op) /\ op.ph = "finalize" BY DEF CardInv, ReadRechecks
<1>2. CASE \E out \in {"not_found", "review"} : OpEnds(o, out)
  BY <1>2, OpEndsMoves DEF CardOuts, ReadRechecks
<1>3. CASE op.eligible # {} /\ OpGoesOn(o, n)
  <2>1. cardOps' = [cardOps EXCEPT ![o] = n] BY <1>3 DEF OpGoesOn
  <2>2. op.eligible # {} BY <1>3
  <2> HIDE DEF op
  <2>3. CardOpInv(n) /\ n.ph = "reconcile" /\ n.out = "none" BY <1>1, <2>2 DEF CardOpInv, CardOpType, CardPhases
  <2> HIDE DEF n
  <2>4. QED BY <2>1, <2>3, CardOpMoves DEF ReadRechecks
<1>4. QED BY <1>2, <1>3 DEF ReadRechecks

\* The answer of a read: a reused card is linked and was listed.
LEMMA ReadReconcilesInv ==
  ASSUME CardInv, NEW o \in CardOps, ReadReconciles(o)
  PROVE  CardInv' /\ CardStep
<1> DEFINE op == cardOps[o]
           r == NeedsReconcile(op.eligible)
           n == [NoCardOp EXCEPT !.ph = "done", !.out = r.out, !.card = r.card]
<1>1. CardOpInv(op) /\ op.ph = "reconcile" /\ op.eligible # {} /\ UNCHANGED <<holder, holderLock, customers>>
  BY DEF CardInv, ReadReconciles, CardOpInv
<1>2. /\ r.out \in {"not_found", "reused", "review"}
      /\ r.card \in CrmCards \cup {0}
      /\ r.out = "reused" => r.card \in holder.cards \cap op.eligible
  <2> DEFINE c == CHOOSE x \in holder.cards : TRUE
  <2>1. CASE r = [out |-> "not_found", card |-> 0] \/ r = [out |-> "review", card |-> 0] BY <2>1
  <2>2. CASE /\ Cardinality(holder.cards) = 1 /\ holder.cards \subseteq op.eligible
             /\ r = [out |-> "reused", card |-> c]
    <3>1. holder.cards # {}
      <4>1. Cardinality({}) = 0 BY FS_EmptySet
      <4>2. QED BY <2>2, <4>1
    <3>2. c \in holder.cards BY <3>1
    <3>3. holder.cards \subseteq CrmCards BY DEF CardInv, HolderType
    <3> HIDE DEF c
    <3>4. r.out = "reused" /\ r.card = c BY <2>2
    <3>5. QED BY <2>2, <3>2, <3>3, <3>4
  <2>3. QED BY <1>1, <2>1, <2>2 DEF NeedsReconcile
<1>3. cardOps' = [cardOps EXCEPT ![o] = n] BY DEF ReadReconciles, OpGoesOn
<1> HIDE DEF r
<1>4. CardOpInv(n) /\ n.ph = "done" /\ n.out = r.out /\ n.card = r.card
  BY <1>2 DEF NoCardOp, CardOpInv, CardOpType, CardPhases, CardOuts
<1> HIDE DEF n
<1>5. cardOps'[o] = n /\ cardOps' \in [CardOps -> CardOpType] BY <1>3, <1>4 DEF CardInv, CardOpInv
<1>6. ASSUME NEW p \in CardOps PROVE CardOpInv(cardOps'[p]) /\ AttachInv(p)' /\ BoundStep(p) /\ ReusedStep(p)
  <2>1. CASE p = o
    <3>1. ReusedStep(p) BY <1>2, <1>4, <1>5, <2>1 DEF ReusedStep
    <3>2. QED BY <1>1, <1>4, <1>5, <2>1, <3>1 DEF AttachInv, BoundStep
  <2>2. CASE p # o
    <3>1. cardOps'[p] = cardOps[p] BY <1>3, <2>2 DEF CardInv
    <3>2. QED BY <1>1, <3>1 DEF CardInv, AttachInv, BoundStep, ReusedStep
  <2>3. QED BY <2>1, <2>2
<1>7. QED BY <1>1, <1>5, <1>6 DEF CardInv, CardStep

LEMMA CardOpDiesInv ==
  ASSUME CardInv, NEW o \in CardOps, CardOpDies(o)
  PROVE  CardInv' /\ CardStep
  BY OpEndsMoves DEF CardOpDies, CardOuts

\* While an insert is under way the links can only become fewer.
LEMMA LinksChangeInv ==
  ASSUME CardInv, LinksChange
  PROVE  CardInv' /\ CardStep
<1>1. UNCHANGED <<holderLock, customers, tokenGood, cardOps>> BY DEF LinksChange
<1>2. /\ holder' \in HolderType /\ holder'.cards \subseteq holder.cards
      /\ HolderFree(0) \/ (holder'.active = holder.active /\ holder'.contacts \subseteq holder.contacts)
  BY DEF LinksChange, ContactAttached, ContactRevoked, CardRevoked, CardElsewhere, HolderArchived, CardInv, HolderType
<1>3. ASSUME NEW p \in CardOps PROVE CardOpInv(cardOps'[p]) /\ AttachInv(p)' /\ BoundStep(p) /\ ReusedStep(p)
  <2>1. CardOpInv(cardOps'[p]) /\ ReusedStep(p) BY <1>1 DEF CardInv, ReusedStep
  <2>2. AttachInv(p) => AttachInv(p)' BY <1>1, <1>2, BuyerCardConstants DEF AttachInv, HolderFree
  <2>3. BoundStep(p) BY <1>1 DEF BoundStep
  <2>4. QED BY <2>1, <2>2, <2>3 DEF CardInv
<1>4. QED BY <1>1, <1>2, <1>3 DEF CardInv, CardStep

\* Steps of amoCRM and of the token touch neither links nor operations.
LEMMA CardOutside ==
  ASSUME CardInv, UNCHANGED <<holder, holderLock, cardOps>>, customers' \in [CrmContacts -> SUBSET CrmCards]
  PROVE  CardInv' /\ CardStep
  BY DEF CardInv, AttachInv, CardStep, BoundStep, ReusedStep

LEMMA CardNextInv == CardInv /\ [CardNext]_cardVars => CardInv' /\ CardStep
<1> SUFFICES ASSUME CardInv, [CardNext]_cardVars PROVE CardInv' /\ CardStep OBVIOUS
<1>1. ASSUME NEW o \in CardOps, NEW k \in CrmContacts, NEW c \in CrmCards, BindStarts(o, k, c) PROVE CardInv' /\ CardStep
  BY <1>1, BindStartsInv
<1>2. ASSUME NEW o \in CardOps, NEW phone \in BOOLEAN, ReadStarts(o, phone) PROVE CardInv' /\ CardStep
  BY <1>2, ReadStartsInv
<1>3. ASSUME NEW o \in CardOps, LookupById(o) \/ DiscoverContact(o) \/ InspectCustomer(o) \/ DiscoveryEnds(o)
      PROVE CardInv' /\ CardStep
  BY <1>3, LookupByIdInv, DiscoverContactInv, InspectCustomerInv, DiscoveryEndsInv
<1>4. ASSUME NEW o \in CardOps, NEW f \in ByIdFailures, CrmFails(o, f) PROVE CardInv' /\ CardStep BY <1>4, CrmFailsInv
<1>5. ASSUME NEW o \in CardOps, NEW found \in PageMatches, NEW more \in BOOLEAN, PhonePage(o, found, more)
      PROVE CardInv' /\ CardStep
  BY <1>5, PhonePageInv
<1>6. ASSUME NEW o \in CardOps,
             BindFinalizes(o) \/ BindAttaches(o) \/ ReadRechecks(o) \/ ReadReconciles(o) \/ CardOpDies(o)
      PROVE CardInv' /\ CardStep
  BY <1>6, BindFinalizesInv, BindAttachesInv, ReadRechecksInv, ReadReconcilesInv, CardOpDiesInv
<1>7. CASE LinksChange BY <1>7, LinksChangeInv
<1>8. ASSUME NEW k \in CrmContacts, NEW linked \in SUBSET CrmCards, CrmRelinks(k, linked) PROVE CardInv' /\ CardStep
  <2>1. customers' \in [CrmContacts -> SUBSET CrmCards] BY <1>8 DEF CrmRelinks, CardInv
  <2>2. QED BY <1>8, <2>1, CardOutside DEF CrmRelinks
<1>9. CASE TokenExpires
  <2>1. customers' \in [CrmContacts -> SUBSET CrmCards] BY <1>9 DEF TokenExpires, CardInv
  <2>2. QED BY <1>9, <2>1, CardOutside DEF TokenExpires
<1>10. CASE UNCHANGED cardVars
  <2>1. customers' \in [CrmContacts -> SUBSET CrmCards] BY <1>10 DEF cardVars, CardInv
  <2>2. QED BY <1>10, <2>1, CardOutside DEF cardVars
<1>11. QED BY <1>1, <1>2, <1>3, <1>4, <1>5, <1>6, <1>7, <1>8, <1>9, <1>10 DEF CardNext

\* A buyer card is bound and reported only for the one contact that was verified: an identity has at most one card,
\* the card is inserted under the row lock while that contact is the only one linked, a contact found by phone is the
\* only match on all pages, and a read reports a card that is linked and listed
\* (services/amocrm_buyer_card_bind.py, amocrm_buyer_card_read_flow.py).
THEOREM CardCorrect == CardSpec => CardOnVerifiedContact
<1>1. CardInv => OneBuyerCard /\ PhoneUnambiguous
  <2> SUFFICES ASSUME CardInv PROVE OneBuyerCard /\ PhoneUnambiguous OBVIOUS
  <2>1. Cardinality({}) = 0 /\ \A x : Cardinality({x}) = 1 BY FS_EmptySet, FS_Singleton
  <2>2. holder.cards = {} \/ \E x \in holder.cards : holder.cards = {x} BY DEF CardInv
  <2>3. OneBuyerCard
    <3>1. Cardinality(holder.cards) \in {0, 1} BY <2>1, <2>2
    <3>2. QED BY <3>1 DEF OneBuyerCard
  <2>4. PhoneUnambiguous BY DEF CardInv, CardOpInv, PhoneUnambiguous
  <2>5. QED BY <2>3, <2>4
<1>2. CardStep => (\A o \in CardOps : BoundStep(o)) /\ (\A o \in CardOps : ReusedStep(o)) BY DEF CardStep
<1>3. QED BY <1>1, <1>2, CardInitInv, CardNextInv, PTL
     DEF CardSpec, CardOnVerifiedContact, BoundOnSoleContact, ReusedIsLinkedAndListed, BoundStep, ReusedStep
=============================================================================
