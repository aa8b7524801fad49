--------------------------- MODULE LeadAnalytics ---------------------------
(***************************************************************************)
(* The two analytics workers of bot-TV: booking method and acquisition     *)
(* source.  Each reads its own S2S feed behind a durable cursor, keeps one *)
(* pending row per feed item, and fills one enum field of the client's     *)
(* amoCRM deal, only when the field is empty.  The two programs differ in  *)
(* their remote client, in what a context answer leads to and in the field *)
(* they fill; anaKind says which one this run is, from the moment it boots.*)
(*                                                                         *)
(* The steps of one worker: a transaction that reads the cursor, asks the  *)
(* feed, stores the items and saves the cursor; a short transaction that   *)
(* picks a row; then ONE transaction that claims the row, asks the remote  *)
(* for its context, finds the deal, reads and writes the field and stores  *)
(* the verdict.  A crash in it rolls back the claim and the attempt count, *)
(* never the PATCH.  Row states DISCOVERED, RESOLVING and APPLYING are     *)
(* "open": no guard tells them apart.  Every item is about the same deal,  *)
(* and item i asks for enum i, the case in which items can collide.        *)
(* A tick processes one row (worker_batch_size = 1).                       *)
(***************************************************************************)
EXTENDS Integers, FiniteSets, Sequences

CONSTANTS MaxFeed,        \* items the remote ever lists
          FeedLimit,      \* items of one feed page
          AnaWorkers,     \* worker processes
          MaxAnaAttempts, \* DEFAULT_MAX_ATTEMPTS
          MaxAnaFaults    \* crashes and failed feed calls of a behaviour

ASSUME AnalyticsConstants ==
  /\ {MaxFeed, FeedLimit, MaxAnaAttempts} \subseteq Nat \ {0}
  /\ MaxAnaFaults \in Nat

VARIABLES anaKind,    \* which worker: "none" before it boots
          feedLen,    \* items the remote lists so far
          anaCursor,  \* the durable cursor: the last item it names
          anaRows,    \* the pending rows, one per item
          anaField,   \* the deal's field: 0 empty, an item's enum, or Manual
          anaTx,      \* where each worker is
          anaLanded,  \* PATCHes of each item that reached amoCRM (history)
          anaFaults

anaVars == <<anaKind, feedLen, anaCursor, anaRows, anaField, anaTx,
             anaLanded, anaFaults>>

FeedItems == 1 .. MaxFeed
Manual == MaxFeed + 1
SettledStates == {"done", "review", "skipped"}
NoAnaRow == [st |-> "none", tries |-> 0, due |-> FALSE]
NoAnaTx == [at |-> "idle", item |-> 0, from |-> 0, upto |-> 0,
            refreshed |-> FALSE, lasting |-> FALSE, raced |-> FALSE]

AnaInit ==
  /\ anaKind = "none"
  /\ feedLen = 0
  /\ anaCursor = 0
  /\ anaRows = [i \in FeedItems |-> NoAnaRow]
  /\ anaField = 0
  /\ anaTx = [w \in AnaWorkers |-> NoAnaTx]
  /\ anaLanded = [i \in FeedItems |-> 0]
  /\ anaFaults = 0

(***************************************************************************)
(* The remote clients.  A call answers with its payload ("ok") or raises   *)
(* one of the adapter's codes; status and envelope are as the remote sends *)
(* them, and a body that does not parse is RESPONSE_INVALID.               *)
(***************************************************************************)
Statuses == {"429", "401", "5xx", "404", "400", "418"}
Envelopes == {"none", "NOT_FOUND", "UNAVAILABLE", "VALIDATION_ERROR"}

MethodMapError(status, code, route) ==
  CASE status = "429" -> "RATE_LIMITED"
    [] status = "401" -> "AUTH_UNAVAILABLE"
    [] status = "5xx" -> "INTERNAL_ERROR"
    [] status = "404" /\ route = "feed" -> "FEED_UNAVAILABLE"
    [] status = "404" /\ route = "context" ->
         IF code = "NOT_FOUND" THEN "NOT_FOUND" ELSE "CONTEXT_UNAVAILABLE"
    [] status = "400" /\ code = "VALIDATION_ERROR" -> "VALIDATION_ERROR"
    [] OTHER -> "REMOTE_REJECTED"

SourceMapError(status, code, route) ==
  IF status = "404"
  THEN CASE route = "feed" -> "FEED_UNAVAILABLE"
         [] code = "NOT_FOUND" -> "NOT_FOUND"
         [] OTHER -> "CONTEXT_UNAVAILABLE"
  ELSE CASE status = "429" -> "RATE_LIMITED"
         [] status = "401" -> "AUTH_UNAVAILABLE"
         [] status = "5xx" -> "INTERNAL_ERROR"
         [] status = "400" /\ code = "VALIDATION_ERROR" -> "VALIDATION_ERROR"
         [] OTHER -> "REMOTE_REJECTED"

MethodPost(route) ==
  {"TIMEOUT", "RESPONSE_TOO_LARGE", "TRANSPORT_ERROR"}
    \cup {MethodMapError(s, c, route) : s \in Statuses, c \in Envelopes}

SourcePost(route) ==
  {"TIMEOUT", "RESPONSE_TOO_LARGE", "TRANSPORT_ERROR"}
    \cup {SourceMapError(s, c, route) : s \in Statuses, c \in Envelopes}

\* A 2xx body: a dictionary that says ok, of valid items; anything else
\* raises.
FeedBodies == {"ok", "RESPONSE_INVALID"}
MethodFeed == MethodPost("feed") \cup FeedBodies
SourceFeed == SourcePost("feed") \cup FeedBodies

\* A context that parses names the row's item, or ("mismatch") another kind
\* of creator than the row, another evidence, owner or source key.
MethodContextBodies == {"ok", "mismatch", "RESPONSE_INVALID"}
SourceContextBodies == {"ok", "mismatch", "RESPONSE_INVALID"}
MethodContext == MethodPost("context") \cup MethodContextBodies
SourceContext == SourcePost("context") \cup SourceContextBodies

MethodSkipCodes == {"NOT_FOUND", "CREATOR_KIND_MISMATCH", "CREATOR_KIND_INVALID"}
SourceSkipCodes == {"NOT_FOUND"}

MethodContextLeads(answer) ==
  CASE answer = "ok" -> "go"
    [] answer = "mismatch" -> "skipped"
    [] answer \in MethodSkipCodes -> "skipped"
    [] OTHER -> "retry"

SourceContextLeads(answer) ==
  CASE answer = "ok" -> "go"
    [] answer = "mismatch" -> "review"
    [] answer \in SourceSkipCodes -> "skipped"
    [] OTHER -> "retry"

(***************************************************************************)
(* Deal discovery.  The contact's leads are read one by one, and the first *)
(* answer that is not a consistent, linked lead ends the discovery.        *)
(***************************************************************************)
LeadAnswers ==
  [answer : {"ok"}, known : BOOLEAN, deleted : BOOLEAN,
   status : {"unrealized", "success", "other"}, closed : BOOLEAN]
    \cup {[answer |-> a, known |-> FALSE, deleted |-> FALSE,
           status |-> "other", closed |-> FALSE] :
             a \in {"unlinked", "missing", "transient", "permanent"}}

ClassifyLead(lead) ==
  CASE lead.known -> "technical"
    [] ~lead.known /\ lead.deleted -> "deleted"
    [] ~lead.known /\ ~lead.deleted /\ lead.status = "unrealized" -> "reanimation"
    [] ~lead.known /\ ~lead.deleted /\ lead.status = "success" -> "closed"
    [] OTHER -> IF lead.closed THEN "inconsistent" ELSE "active"

\* What reading one lead does to the discovery: "" goes on to the next one.
InspectError(lead) ==
  CASE lead.answer = "transient" -> "TRANSIENT_ERROR"
    [] lead.answer = "permanent" -> "PERMANENT_ERROR"
    [] lead.answer \in {"missing", "unlinked"} -> "INCOMPLETE"
    [] OTHER -> IF ClassifyLead(lead) = "inconsistent" THEN "INCOMPLETE" ELSE ""

\* Answers to the contact read: its leads, or none at all ("absent").
ContactErrors == {"absent", "TRANSIENT_ERROR", "PERMANENT_ERROR", "DISABLED"}
ContactError(answer) == IF answer = "absent" THEN "NOT_FOUND" ELSE answer

DealCandidates(leads) ==
  LET bad == {k \in 1 .. Len(leads) : InspectError(leads[k]) # ""}
      first == CHOOSE k \in bad : \A j \in bad : k <= j
  IN IF bad # {} THEN [outcome |-> InspectError(leads[first]), active |-> 0]
     ELSE [outcome |-> IF leads = <<>> THEN "NOT_FOUND" ELSE "FOUND",
           active |-> Cardinality({k \in 1 .. Len(leads) :
                                     ClassifyLead(leads[k]) = "active"})]

\* MAX_LINKED_LEADS_PER_DISCOVERY is passed by more than MaxLeads leads.
MaxLeads == 2
LeadLists == {<<>>} \cup {<<a>> : a \in LeadAnswers}
               \cup {<<a, b>> : a \in LeadAnswers, b \in LeadAnswers}
DealViews ==
  {DealCandidates(l) : l \in LeadLists}
    \cup {[outcome |-> ContactError(a), active |-> 0] : a \in ContactErrors}
    \cup {[outcome |-> "INCOMPLETE", active |-> 0]}

\* Answers of the identity lookup by the context's phone.
PhoneLookups == {"FOUND", "NOT_FOUND", "AMBIGUOUS", "TRANSIENT_ERROR",
                 "DISABLED", "PERMANENT_ERROR"}

DiscoverDeal(lookup, found) ==
  CASE lookup = "NOT_FOUND" -> "none"
    [] lookup \in {"AMBIGUOUS", "DISABLED", "PERMANENT_ERROR"} -> "review"
    [] lookup = "TRANSIENT_ERROR" -> "retry"
    [] OTHER ->
         CASE found.outcome = "TRANSIENT_ERROR" -> "retry"
           [] found.outcome \in {"DISABLED", "PERMANENT_ERROR", "INCOMPLETE"} -> "review"
           [] OTHER -> IF found.active = 0 THEN "none"
                       ELSE IF found.active = 1 THEN "go" ELSE "review"

\* Writing to a deal that has become a known technical deal, or without a
\* token, is refused before any call.
ApplyGate == {"go", "review"}

MethodDiscoveryLeads(found) == IF found = "none" THEN "retry" ELSE found
SourceDiscoveryLeads(found) == IF found = "none" THEN "retry" ELSE found

AnaDiscovered == {DiscoverDeal(l, c) : l \in PhoneLookups, c \in DealViews}

\* What a claimed row may come to before the field is read.
MethodResolves ==
  ({MethodContextLeads(a) : a \in MethodContext} \ {"go"})
    \cup ({MethodDiscoveryLeads(d) : d \in AnaDiscovered} \ {"go"})
    \cup ApplyGate
SourceResolves ==
  ({SourceContextLeads(a) : a \in SourceContext} \ {"go"})
    \cup ({SourceDiscoveryLeads(d) : d \in AnaDiscovered} \ {"go"})
    \cup ApplyGate

(***************************************************************************)
(* The pending row.                                                        *)
(***************************************************************************)
MethodDiscovered == [st |-> "open", tries |-> 0, due |-> TRUE]
SourceDiscovered == [st |-> "open", tries |-> 0, due |-> TRUE]
UpsertDiscovered(row) ==
  IF row.st # "none" THEN row
  ELSE IF anaKind = "method" THEN MethodDiscovered ELSE SourceDiscovered

MethodExpires(row) == row.tries >= MaxAnaAttempts /\ row.st \notin SettledStates
SourceExpires(row) == row.tries >= MaxAnaAttempts /\ row.st \notin SettledStates
ExpireExhausted(rows) ==
  [i \in FeedItems |->
     IF rows[i].st = "open"
        /\ (IF anaKind = "method" THEN MethodExpires(rows[i]) ELSE SourceExpires(rows[i]))
     THEN [rows[i] EXCEPT !.st = "review"] ELSE rows[i]]

\* Mutant: the last attempt is never claimed.
MethodClaimableEarly(row) ==
  row.st = "open" /\ row.tries + 1 < MaxAnaAttempts /\ row.due

\* The WHERE of lock_next_claimable_id and of claim_lease: a committed row
\* never keeps a lease, so the lease's conjunct is always true here.
MethodClaimable(row) == row.st = "open" /\ row.tries < MaxAnaAttempts /\ row.due
SourceClaimable(row) == row.st = "open" /\ row.tries < MaxAnaAttempts /\ row.due
ClaimableRow(row) ==
  IF anaKind = "method" THEN MethodClaimable(row) ELSE SourceClaimable(row)

\* Mutant: the last attempt is released for a retry that is never claimed.
MethodRetryOnce(tries) ==
  IF tries > MaxAnaAttempts THEN [st |-> "review", tries |-> tries, due |-> FALSE]
  ELSE [st |-> "open", tries |-> tries, due |-> FALSE]

MethodRetry(tries) ==
  IF tries >= MaxAnaAttempts THEN [st |-> "review", tries |-> tries, due |-> FALSE]
  ELSE [st |-> "open", tries |-> tries, due |-> FALSE]

SourceRetry(tries) ==
  IF tries >= MaxAnaAttempts THEN [st |-> "review", tries |-> tries, due |-> FALSE]
  ELSE [st |-> "open", tries |-> tries, due |-> FALSE]

MethodTerminal(tries, state) == [st |-> state, tries |-> tries, due |-> FALSE]
SourceTerminal(tries, state) == [st |-> state, tries |-> tries, due |-> FALSE]

\* The decision of a receipt, or of the steps before it, to a row.
MethodMaps == [applied |-> "done", already |-> "done", conflict |-> "done",
               manual |-> "review", transient |-> "retry",
               skipped |-> "skipped", review |-> "review", retry |-> "retry"]
SourceMaps == [applied |-> "done", already |-> "done", conflict |-> "done",
               manual |-> "review", transient |-> "retry",
               skipped |-> "skipped", review |-> "review", retry |-> "retry"]

SettledRow(row, decision) ==
  LET tries == row.tries + 1
      state == IF anaKind = "method" THEN MethodMaps[decision] ELSE SourceMaps[decision]
  IN IF anaKind = "method"
     THEN IF state = "retry" THEN MethodRetry(tries) ELSE MethodTerminal(tries, state)
     ELSE IF state = "retry" THEN SourceRetry(tries) ELSE SourceTerminal(tries, state)

(***************************************************************************)
(* The field: read, PATCH, read again.                                     *)
(***************************************************************************)
FieldAsRead(item) ==
  IF anaField = 0 THEN "empty" ELSE IF anaField = item THEN "own" ELSE "other"

ReadFailures == {"unauthorized", "permanent", "transient", "ambiguous"}
ReadAnswers(item) == ReadFailures \cup {FieldAsRead(item)}

ReadFailureDecision ==
  [unauthorized |-> "unauthorized", permanent |-> "manual",
   transient |-> "transient", ambiguous |-> "manual"]

\* Mutant: a field that already has the value is written again.
BeforeDecisionSame(seen) ==
  CASE seen \in ReadFailures -> ReadFailureDecision[seen]
    [] seen = "other" -> "conflict"
    [] OTHER -> "patch"

BeforeDecision(seen) ==
  CASE seen \in ReadFailures -> ReadFailureDecision[seen]
    [] seen = "own" -> "already"
    [] seen = "other" -> "conflict"
    [] seen = "empty" -> "patch"

VerifyDecision(seen, lasting) ==
  CASE seen = "own" -> "applied"
    [] seen = "unauthorized" -> "unauthorized"
    [] seen = "other" -> "conflict"
    [] seen = "permanent" -> "manual"
    [] OTHER -> IF lasting THEN "manual" ELSE "transient"

\* Mutant: an empty postcheck counts as applied.
PostDecisionTrusts(seen) ==
  CASE seen \in {"own", "empty"} -> "applied"
    [] seen \in ReadFailures -> ReadFailureDecision[seen]
    [] seen = "other" -> "conflict"

PostDecision(seen) ==
  CASE seen = "own" -> "applied"
    [] seen \in ReadFailures -> ReadFailureDecision[seen]
    [] seen = "empty" -> "transient"
    [] seen = "other" -> "conflict"

(***************************************************************************)
(* Steps.                                                                  *)
(***************************************************************************)
ElseUnchanged == UNCHANGED <<anaKind, feedLen>>
LockedRow(w, i) ==
  \E v \in AnaWorkers \ {w} :
    anaTx[v].item = i /\ anaTx[v].at \in {"before", "patch", "verify", "post"}

WorkerBoots(kind) ==
  /\ anaKind = "none"
  /\ anaKind' = kind
  /\ UNCHANGED <<feedLen, anaCursor, anaRows, anaField, anaTx, anaLanded, anaFaults>>

ItemListed ==
  /\ anaKind # "none" /\ feedLen < MaxFeed
  /\ feedLen' = feedLen + 1
  /\ UNCHANGED <<anaKind, anaCursor, anaRows, anaField, anaTx, anaLanded, anaFaults>>

\* A manager fills the field; a worker that has read it empty does not know.
ManagerFillsField ==
  /\ anaKind # "none" /\ anaField = 0
  /\ anaField' = Manual
  /\ anaTx' = [w \in AnaWorkers |-> [anaTx[w] EXCEPT !.raced = @ \/ anaTx[w].at = "patch"]]
  /\ UNCHANGED <<anaKind, feedLen, anaCursor, anaRows, anaLanded, anaFaults>>

RetryComesDue(i) ==
  /\ anaRows[i].st = "open" /\ ~anaRows[i].due
  /\ anaRows' = [anaRows EXCEPT ![i].due = TRUE]
  /\ UNCHANGED <<anaKind, feedLen, anaCursor, anaField, anaTx, anaLanded, anaFaults>>

\* FEED_UNAVAILABLE and RATE_LIMITED end the ingest, any other error the tick.
FeedLeads(answer) ==
  CASE answer = "ok" -> "page"
    [] answer \in {"FEED_UNAVAILABLE", "RATE_LIMITED"} -> "claim"
    [] OTHER -> "raise"
MethodFeedLeads == {FeedLeads(a) : a \in MethodFeed}
SourceFeedLeads == {FeedLeads(a) : a \in SourceFeed}

\* ingest_feed up to the answer: the page after the cursor, or an error.
IngestFetches(w) ==
  /\ anaKind # "none" /\ anaTx[w].at = "idle"
  /\ \E leads \in IF anaKind = "method" THEN MethodFeedLeads ELSE SourceFeedLeads :
       \/ /\ leads = "page"
          /\ anaTx' = [anaTx EXCEPT ![w] =
               [NoAnaTx EXCEPT !.at = "ingest", !.from = anaCursor,
                  !.upto = IF anaCursor + FeedLimit < feedLen
                           THEN anaCursor + FeedLimit ELSE feedLen]]
          /\ UNCHANGED <<anaRows, anaFaults>>
       \/ /\ leads = "claim"
          /\ anaRows' = ExpireExhausted(anaRows)
          /\ anaTx' = [anaTx EXCEPT ![w].at = "ready"]
          /\ UNCHANGED anaFaults
       \/ /\ leads = "raise"
          /\ anaFaults < MaxAnaFaults
          /\ anaFaults' = anaFaults + 1
          /\ UNCHANGED <<anaRows, anaTx>>
  /\ ElseUnchanged /\ UNCHANGED <<anaCursor, anaField, anaLanded>>

\* Mutant: the cursor is taken to the end of the feed, past the page.
CursorAfterEnd(tx) == IF tx.upto > tx.from THEN feedLen ELSE anaCursor
\* page.next_cursor, or the last item (which has a createdAt, or the page does not parse); an empty page leaves the
\* cursor.
CursorAfter(tx) == IF tx.upto > tx.from THEN tx.upto ELSE anaCursor

IngestCommits(w) ==
  LET tx == anaTx[w] IN
  /\ tx.at = "ingest"
  /\ anaRows' = [i \in FeedItems |->
       IF i \in tx.from + 1 .. tx.upto THEN UpsertDiscovered(anaRows[i])
       ELSE ExpireExhausted(anaRows)[i]]
  /\ anaCursor' = CursorAfter(tx)
  /\ anaTx' = [anaTx EXCEPT ![w] = [NoAnaTx EXCEPT !.at = "ready"]]
  /\ ElseUnchanged /\ UNCHANGED <<anaField, anaLanded, anaFaults>>

\* claim_one: the oldest claimable row no transaction holds (SKIP LOCKED).
ClaimOne(w) ==
  LET rows == ExpireExhausted(anaRows)
      free == {i \in FeedItems : ClaimableRow(rows[i]) /\ ~LockedRow(w, i)}
  IN /\ anaTx[w].at = "ready"
     /\ anaRows' = rows
     /\ anaTx' = [anaTx EXCEPT ![w] =
          IF free = {} THEN NoAnaTx
          ELSE [NoAnaTx EXCEPT !.at = "picked",
                  !.item = CHOOSE i \in free : \A j \in free : i <= j]]
     /\ ElseUnchanged /\ UNCHANGED <<anaCursor, anaField, anaLanded, anaFaults>>

Commits(w, decision) ==
  /\ anaRows' = [anaRows EXCEPT ![anaTx[w].item] = SettledRow(@, decision)]
  /\ anaTx' = [anaTx EXCEPT ![w] = NoAnaTx]
  /\ UNCHANGED anaFaults

\* process_one: the UPDATE waits for a transaction that holds the row and
\* then judges what it committed; claimed, the row is resolved.
ProcessRow(w) ==
  LET i == anaTx[w].item IN
  /\ anaTx[w].at = "picked" /\ ~LockedRow(w, i)
  /\ \/ /\ ~ClaimableRow(anaRows[i])
        /\ anaTx' = [anaTx EXCEPT ![w] = NoAnaTx]
        /\ UNCHANGED <<anaRows, anaFaults>>
     \/ /\ ClaimableRow(anaRows[i])
        /\ \E r \in IF anaKind = "method" THEN MethodResolves ELSE SourceResolves :
             IF r = "go"
             THEN /\ anaTx' = [anaTx EXCEPT ![w].at = "before"]
                  /\ UNCHANGED <<anaRows, anaFaults>>
             ELSE Commits(w, r)
  /\ ElseUnchanged /\ UNCHANGED <<anaCursor, anaField, anaLanded>>

\* Mutant: with the refreshed token the PATCH goes out without a new read.
RestartsAtPatch(w) ==
  [anaTx EXCEPT ![w].at = "patch", ![w].refreshed = TRUE, ![w].raced = FALSE]
\* apply_lead_analytics_enum_if_empty starts over, once, with a new token.
RestartsAtRead(w) ==
  [anaTx EXCEPT ![w].at = "before", ![w].refreshed = TRUE, ![w].raced = FALSE]

Decides(w, decision) ==
  IF decision # "unauthorized" THEN Commits(w, decision)
  ELSE \/ /\ ~anaTx[w].refreshed
          /\ anaTx' = RestartsAtRead(w)
          /\ UNCHANGED <<anaRows, anaFaults>>
       \/ Commits(w, "manual")

BeforeRead(w) ==
  /\ anaTx[w].at = "before"
  /\ \E seen \in ReadAnswers(anaTx[w].item) :
       IF BeforeDecision(seen) = "patch"
       THEN /\ anaTx' = [anaTx EXCEPT ![w].at = "patch"]
            /\ UNCHANGED <<anaRows, anaFaults>>
       ELSE Decides(w, BeforeDecision(seen))
  /\ ElseUnchanged /\ UNCHANGED <<anaCursor, anaField, anaLanded>>

\* The PATCH lands or not; its answer may be lost either way, and a success
\* may be answered to a PATCH that amoCRM then drops.
FieldLands(w) ==
  /\ anaField' = anaTx[w].item
  /\ anaLanded' = [anaLanded EXCEPT ![anaTx[w].item] = @ + 1]
FieldStays == UNCHANGED <<anaField, anaLanded>>

OthersRaced(w, tx) ==
  [v \in AnaWorkers |->
     IF v = w THEN tx
     ELSE [anaTx[v] EXCEPT !.raced = @ \/ (anaTx[v].at = "patch" /\ anaField' # anaField)]]

PatchField(w) ==
  /\ anaTx[w].at = "patch"
  /\ \/ /\ FieldLands(w)
        /\ \E at \in {"post", "verify"} :
             anaTx' = OthersRaced(w, [anaTx[w] EXCEPT !.at = at, !.raced = FALSE])
        /\ UNCHANGED <<anaRows, anaFaults>>
     \/ /\ FieldStays
        /\ anaTx' = [anaTx EXCEPT ![w].at = "post", ![w].raced = FALSE]
        /\ UNCHANGED <<anaRows, anaFaults>>
     \/ /\ FieldStays
        /\ \E lasting \in BOOLEAN :
             anaTx' = [anaTx EXCEPT ![w].at = "verify", ![w].lasting = lasting,
                                    ![w].raced = FALSE]
        /\ UNCHANGED <<anaRows, anaFaults>>
     \/ FieldStays /\ Decides(w, "unauthorized")
  /\ ElseUnchanged /\ UNCHANGED anaCursor

VerifyRead(w) ==
  /\ anaTx[w].at = "verify"
  /\ \E seen \in ReadAnswers(anaTx[w].item) :
       Decides(w, VerifyDecision(seen, anaTx[w].lasting))
  /\ ElseUnchanged /\ UNCHANGED <<anaCursor, anaField, anaLanded>>

PostcheckRead(w) ==
  /\ anaTx[w].at = "post"
  /\ \E seen \in ReadAnswers(anaTx[w].item) : Decides(w, PostDecision(seen))
  /\ ElseUnchanged /\ UNCHANGED <<anaCursor, anaField, anaLanded>>

\* The process dies, or the database drops the transaction.
AnaWorkerDies(w) ==
  /\ anaTx[w].at # "idle" /\ anaFaults < MaxAnaFaults
  /\ anaFaults' = anaFaults + 1
  /\ anaTx' = [anaTx EXCEPT ![w] = NoAnaTx]
  /\ ElseUnchanged /\ UNCHANGED <<anaCursor, anaRows, anaField, anaLanded>>

AnaStep(w) == \/ IngestFetches(w) \/ IngestCommits(w) \/ ClaimOne(w)
              \/ ProcessRow(w) \/ BeforeRead(w) \/ PatchField(w)
              \/ VerifyRead(w) \/ PostcheckRead(w)

AnaNext ==
  \/ \E kind \in {"method", "source"} : WorkerBoots(kind)
  \/ ItemListed
  \/ ManagerFillsField
  \/ \E i \in FeedItems : RetryComesDue(i)
  \/ \E w \in AnaWorkers : IngestFetches(w)
  \/ \E w \in AnaWorkers : IngestCommits(w)
  \/ \E w \in AnaWorkers : ClaimOne(w)
  \/ \E w \in AnaWorkers : ProcessRow(w)
  \/ \E w \in AnaWorkers : BeforeRead(w)
  \/ \E w \in AnaWorkers : PatchField(w)
  \/ \E w \in AnaWorkers : VerifyRead(w)
  \/ \E w \in AnaWorkers : PostcheckRead(w)
  \/ \E w \in AnaWorkers : AnaWorkerDies(w)

AnaSpec == AnaInit /\ [][AnaNext]_anaVars

(***************************************************************************)
(* Properties.                                                             *)
(***************************************************************************)
\* Every feed item the durable cursor has passed has a pending row, whatever
\* interleaving of two ingests, crash or page boundary moved the cursor:
\* ingest_feed stores the rows and the cursor in one transaction.
EveryItemAdmitted == \A i \in 1 .. anaCursor : anaRows[i].st # "none"

\* A row that ends DONE leaves the deal's field filled: by its own value, by
\* a manager's or by another item's, never empty behind a lost PATCH.
DoneMeansFilled == \A i \in FeedItems : anaRows[i].st = "done" => anaField # 0

\* At most one PATCH of an item reaches amoCRM, across lost answers, token
\* refreshes, crashes that roll the attempt back and later attempts.
PatchLandsOnce == \A i \in FeedItems : anaLanded[i] <= 1

\* A value that was in the field is replaced only by a PATCH whose worker
\* had read the field empty before that value was written: the window
\* between GET and PATCH is the only one in which a value can be lost.
OverwriteOnlyInWindow ==
  [][(anaField # 0 /\ anaField' # anaField)
       => \E w \in AnaWorkers : anaTx[w].at = "patch" /\ anaTx[w].raced]_anaVars

\* A row out of attempts is never left open: the attempt that used the last
\* one ends it in the same commit, so no item waits for nobody.
ExhaustedIsReviewed ==
  \A i \in FeedItems : anaRows[i].tries >= MaxAnaAttempts => anaRows[i].st \in SettledStates

\* Every admitted item comes to DONE, MANUAL_REVIEW or SKIPPED.
EveryItemSettles ==
  \A i \in FeedItems : anaRows[i].st = "open" ~> anaRows[i].st \in SettledStates

\* Every feed item is taken up and settled rightly: written at most once, DONE only
\* when filled, somebody else's value lost only in the window amoCRM leaves.
LeadFilledOnce ==
  /\ [](EveryItemAdmitted /\ ExhaustedIsReviewed)
  /\ [](DoneMeansFilled /\ PatchLandsOnce)
  /\ OverwriteOnlyInWindow
=============================================================================
