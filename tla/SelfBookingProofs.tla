------------------------- MODULE SelfBookingProofs --------------------------
(***************************************************************************)
(* Theorems about self-booking and about the two stores of clients' data,  *)
(* the encrypted pairs and the attachment spool, for any number of         *)
(* messages, calls, workers, attachments and consumers and for all bounds. *)
(***************************************************************************)
EXTENDS SelfBooking, EphemeralPii, AttachmentSpool, FiniteSetTheorems, TLAPS

\* A set whose members are all equal has at most one.
LEMMA AtMostOne ==
  ASSUME NEW S, \A x, y \in S : x = y
  PROVE  Cardinality(S) <= 1
<1>1. CASE S = {} BY <1>1, FS_EmptySet
<1>2. CASE S # {}
  <2>1. PICK x \in S : TRUE BY <1>2
  <2>2. S = {x} BY <2>1
  <2>3. QED BY <2>2, FS_Singleton
<1>3. QED BY <1>1, <1>2

-----------------------------------------------------------------------------
(* EphemeralPii: the plaintext is given away once.                         *)

ValueType == [st : {"new", "stored", "gone", "refused"}, expired : BOOLEAN,
              lock : PiiCallers \cup {Unlocked}]
AskType == [ph : {"idle", "selected", "locked", "done"}, op : PiiOps, fits : BOOLEAN,
            got : {"nothing", "denied", "seen", "consumed", "deleted"}]

\* The caller got the value for itself: nobody else may get it.
Took(c) == holders[c].got \in {"consumed", "deleted"}

PiiTypes ==
  /\ value \in ValueType
  /\ holders \in [PiiCallers -> AskType]
  /\ piiFaults \in Nat

\* A caller past the lock holds it on a row that is still there, and whoever
\* took the value was the last to find it.
PiiInv ==
  /\ PiiTypes
  /\ \A c \in PiiCallers : holders[c].ph = "locked" => value.lock = c /\ value.st = "stored"
  /\ \A c \in PiiCallers : Took(c) => value.st = "gone"
  /\ \A c, d \in PiiCallers : Took(c) /\ Took(d) => c = d

LEMMA PiiInitially == PiiInit => PiiInv
  BY DEF PiiInit, PiiInv, PiiTypes, ValueType, AskType, Took, NoAsk, PiiOps

\* An answer moves its caller to the end and touches nobody else.
LEMMA AnswerType ==
  ASSUME PiiTypes, NEW c \in PiiCallers,
         NEW g \in {"nothing", "denied", "seen", "consumed", "deleted"},
         holders' = AnswerWith(c, g)
  PROVE  /\ holders' \in [PiiCallers -> AskType]
         /\ holders'[c].ph = "done" /\ holders'[c].got = g
         /\ \A d \in PiiCallers : d # c => holders'[d] = holders[d]
  BY DEF AnswerWith, PiiTypes, AskType

LEMMA PiiInductive ==
  ASSUME PiiInv, [PiiNext]_piiVars
  PROVE  PiiInv'
<1> USE DEF PiiInv
<1>1. ASSUME NEW n \in 0..MaxReferenceRetries, StoreValue(n) PROVE PiiInv'
  BY <1>1 DEF StoreValue, PiiTypes, ValueType, Took
<1>2. ASSUME NEW c \in PiiCallers, NEW o \in PiiOps, NEW f \in BOOLEAN, BeginsCall(c, o, f) PROVE PiiInv'
  BY <1>2 DEF BeginsCall, PiiTypes, AskType, Took
<1>3. ASSUME NEW c \in PiiCallers, ReadPlaintext(c) PROVE PiiInv'
  <2>1. PICK g \in {"seen", "denied"} : holders' = AnswerWith(c, g)
    BY <1>3 DEF ReadPlaintext
  <2>2. value' = value /\ piiFaults' \in Nat BY <1>3 DEF ReadPlaintext, PiiFault, PiiTypes
  <2>3. QED BY <2>1, <2>2, AnswerType DEF PiiTypes, Took
<1>4. ASSUME NEW c \in PiiCallers, TakesRowLock(c) PROVE PiiInv'
  <2>1. value.lock = Unlocked /\ \A d \in PiiCallers : holders[d].ph # "locked"
    BY <1>4, PiiConstants DEF TakesRowLock, LockGranted
  <2>2. CASE value.st = "stored"
    <3>1. /\ value' = [value EXCEPT !.lock = c]
          /\ holders' = [holders EXCEPT ![c].ph = "locked"] /\ piiFaults' = piiFaults
      BY <1>4, <2>2 DEF TakesRowLock
    <3>2. QED BY <2>1, <2>2, <3>1 DEF PiiTypes, ValueType, AskType, Took
  <2>3. CASE value.st # "stored"
    <3>1. value' = value /\ holders' = AnswerWith(c, "denied") /\ piiFaults' = piiFaults
      BY <1>4, <2>3 DEF TakesRowLock
    <3>2. QED BY <3>1, AnswerType DEF PiiTypes, Took
  <2>4. QED BY <2>2, <2>3
<1>5. ASSUME NEW c \in PiiCallers, RemovesRow(c) PROVE PiiInv'
  <2>1. \A d \in PiiCallers : d # c => holders[d].ph # "locked"
    BY <1>5 DEF RemovesRow
  <2>2. value.st = "stored" /\ \A d \in PiiCallers : ~Took(d)
    BY <1>5 DEF RemovesRow
  <2>3. PICK g \in {"consumed", "deleted", "denied"} :
           /\ holders' = AnswerWith(c, g)
           /\ IF g = "denied" THEN value' = [value EXCEPT !.lock = Unlocked]
                              ELSE value' = [value EXCEPT !.st = "gone", !.lock = Unlocked]
    BY <1>5 DEF RemovesRow
  <2>4. value' \in ValueType /\ (g # "denied" => value'.st = "gone")
    BY <2>3 DEF PiiTypes, ValueType
  <2>5. piiFaults' = piiFaults BY <1>5 DEF RemovesRow
  <2>6. QED BY <2>1, <2>2, <2>3, <2>4, <2>5, AnswerType DEF PiiTypes, Took
<1>6. ASSUME NEW c \in PiiCallers, RemoveFails(c) PROVE PiiInv'
  <2>1. \A d \in PiiCallers : d # c => holders[d].ph # "locked"
    BY <1>6 DEF RemoveFails
  <2>2. value' \in ValueType /\ value'.st = value.st
    BY <1>6 DEF RemoveFails, PiiTypes, ValueType
  <2>3. holders' = AnswerWith(c, "denied") /\ piiFaults' \in Nat
    BY <1>6 DEF RemoveFails, PiiFault, PiiTypes
  <2>4. QED BY <2>1, <2>2, <2>3, AnswerType DEF PiiTypes, Took
<1>7. ASSUME ValueExpires PROVE PiiInv'
  BY <1>7 DEF ValueExpires, PiiTypes, ValueType, Took
<1>8. ASSUME PurgeExpired PROVE PiiInv'
  <2>1. \A d \in PiiCallers : holders[d].ph # "locked"
    BY <1>8, PiiConstants DEF PurgeExpired
  <2>2. QED BY <1>8, <2>1 DEF PurgeExpired, PiiTypes, ValueType, Took
<1>9. CASE UNCHANGED piiVars BY <1>9 DEF piiVars, PiiTypes, Took
<1>10. QED BY <1>1, <1>2, <1>3, <1>4, <1>5, <1>6, <1>7, <1>8, <1>9 DEF PiiNext

\* Whoever waits for the row lock, dies or loses a race, and whenever the value
\* expires: consume_once hands the plaintext to one caller, never after its
\* expiry, and a stored value goes only by expiry or by a caller it is bound to.
THEOREM PlaintextCorrect == PiiSpec => PlaintextOnce
<1> DEFINE Unexpired == \A c \in PiiCallers :
                           holders'[c].got = "consumed" /\ holders[c].got # "consumed" => ~value.expired
           Caused == value.st = "stored" /\ value'.st = "gone" =>
                       value.expired \/ \E c \in PiiCallers : holders[c].fits /\ holders[c].ph = "locked"
<1>1. ASSUME PiiInv PROVE ConsumedOnce
  <2> DEFINE Takers == {c \in PiiCallers : holders[c].got \in {"consumed", "deleted"}}
  <2>1. \A c, d \in Takers : c = d BY <1>1 DEF PiiInv, Took
  <2>2. Cardinality(Takers) <= 1 BY <2>1, AtMostOne
  <2>3. QED BY <2>2 DEF ConsumedOnce
<1>2. ASSUME PiiInv, [PiiNext]_piiVars PROVE [Unexpired /\ Caused]_piiVars
  <2> SUFFICES ASSUME PiiNext PROVE Unexpired /\ Caused BY <1>2
  <2> USE PiiInv DEF PiiInv
  <2>1. ASSUME NEW n \in 0..MaxReferenceRetries, StoreValue(n) PROVE Unexpired /\ Caused
    BY <2>1 DEF StoreValue
  <2>2. ASSUME NEW c \in PiiCallers, NEW o \in PiiOps, NEW f \in BOOLEAN, BeginsCall(c, o, f)
        PROVE  Unexpired /\ Caused
    BY <2>2 DEF BeginsCall, PiiTypes, AskType
  <2>3. ASSUME NEW c \in PiiCallers, ReadPlaintext(c) PROVE Unexpired /\ Caused
    <3>1. PICK g \in {"seen", "denied"} : holders' = AnswerWith(c, g)
      BY <2>3 DEF ReadPlaintext
    <3>2. QED BY <2>3, <3>1, AnswerType DEF ReadPlaintext
  <2>4. ASSUME NEW c \in PiiCallers, TakesRowLock(c) PROVE Unexpired /\ Caused
    BY <2>4 DEF TakesRowLock, AnswerWith, PiiTypes, AskType, ValueType
  <2>5. ASSUME NEW c \in PiiCallers, RemovesRow(c) PROVE Unexpired /\ Caused
    BY <2>5 DEF RemovesRow, MayRemove, StillUnexpired, BindingsMatch, AnswerWith, PiiTypes, AskType, ValueType
  <2>6. ASSUME NEW c \in PiiCallers, RemoveFails(c) PROVE Unexpired /\ Caused
    BY <2>6 DEF RemoveFails, AnswerWith, PiiTypes, AskType, ValueType
  <2>7. CASE ValueExpires BY <2>7 DEF ValueExpires, PiiTypes, ValueType
  <2>8. CASE PurgeExpired BY <2>8 DEF PurgeExpired
  <2>9. QED BY <2>1, <2>2, <2>3, <2>4, <2>5, <2>6, <2>7, <2>8 DEF PiiNext
<1>3. PiiInv /\ [PiiNext]_piiVars => PiiInv' BY PiiInductive
<1>4. QED BY <1>1, <1>2, <1>3, PiiInitially, PTL
        DEF PiiSpec, PlaintextOnce, NoneAfterExpiry, RemovedForCause

-----------------------------------------------------------------------------
(* SelfBooking.                                                            *)

DlgType == [ver : 0..MaxDialogEvents, auto : BOOLEAN, offer : BOOLEAN]
AdmissionType == [pair : AdmitCalls \cup {0}, content : Contents \cup {0}]
AdmitType == [ph : {"idle", "absent", "ok", "refused"}, content : Contents \cup {0}, pair : AdmitCalls \cup {0}]
CreateType == [st : CreateStates, att : 0..MaxCreateAttempts, fence : 0..MaxDialogEvents,
               pair : AdmitCalls \cup {0}]
InboundType == [msg : ConfirmMsgs \cup {0}, verdict : {"none", "admit", "skip"}]
BookerType == [ph : {"idle", "picked", "claimed"}, msg : ConfirmMsgs \cup {0}]

BookerClaimed(w) == booker[w].ph = "claimed"

\* A claim is exclusive: the row lock lasts from the claim to the commit, and
\* meanwhile the row stays READY with an attempt left.
ClaimInv ==
  /\ \A w \in BookWorkers : booker[w].ph # "idle" => booker[w].msg \in ConfirmMsgs
  /\ \A w \in BookWorkers : BookerClaimed(w) =>
        creates[booker[w].msg].st = "READY" /\ creates[booker[w].msg].att < MaxCreateAttempts
  /\ \A v, w \in BookWorkers : BookerClaimed(v) /\ BookerClaimed(w) /\ booker[v].msg = booker[w].msg => v = w

\* The message being accepted holds the conversation: its row is still absent and
\* the fences have room for it.
InboundInv ==
  inbound # NoInbound => /\ inbound.msg \in ConfirmMsgs
                         /\ creates[inbound.msg] = NoCreate
                         /\ dlg.ver < MaxDialogEvents

\* Nothing is accepted before a pair is stored, and only the pair of the
\* admission row is stored.
AdmitInv ==
  /\ \A c \in AdmitCalls : admits[c].ph = "ok" => /\ admission.pair # 0
                                                  /\ admits[c].pair = admission.pair
                                                  /\ admits[c].content = admission.content
  /\ \A c \in AdmitCalls : pairs[c] # {} => admission.pair = c

OneReady == \A m, n \in ConfirmMsgs : creates[m].st = "READY" /\ creates[n].st = "READY" => m = n

KeysInv == made \subseteq {CreateKey(m) : m \in ConfirmMsgs}

BookInv == SelfBookingTypeOK /\ ClaimInv /\ InboundInv /\ AdmitInv /\ OneReady /\ KeysInv

LEMMA BookTypes ==
  SelfBookingTypeOK <=>
    /\ dlg \in DlgType /\ pairs \in [AdmitCalls -> SUBSET Halves] /\ admission \in AdmissionType
    /\ admits \in [AdmitCalls -> AdmitType] /\ creates \in [ConfirmMsgs -> CreateType]
    /\ inbound \in InboundType /\ booker \in [BookWorkers -> BookerType] /\ bookFaults \in 0..MaxBookFaults
  BY DEF SelfBookingTypeOK, DlgType, AdmissionType, AdmitType, CreateType, InboundType, BookerType

LEMMA BookInitially == SelfBookingInit => BookInv
<1> SUFFICES ASSUME SelfBookingInit PROVE BookInv OBVIOUS
<1> USE SelfBookingConstants DEF SelfBookingInit
<1>1. SelfBookingTypeOK
  <2>1. NoCreate \in CreateType BY DEF NoCreate, CreateType, CreateStates
  <2>2. Unemployed \in BookerType /\ NoInbound \in InboundType /\ NoAdmission \in AdmissionType
    BY DEF Unemployed, BookerType, NoInbound, InboundType, NoAdmission, AdmissionType
  <2>3. [ph |-> "idle", content |-> 0, pair |-> 0] \in AdmitType BY DEF AdmitType
  <2>4. [ver |-> 0, auto |-> TRUE, offer |-> TRUE] \in DlgType BY DEF DlgType
  <2>5. QED BY <2>1, <2>2, <2>3, <2>4, BookTypes
<1>2. ClaimInv BY DEF ClaimInv, BookerClaimed, Unemployed
<1>3. AdmitInv /\ OneReady BY DEF AdmitInv, OneReady, NoCreate
<1>4. QED BY <1>1, <1>2, <1>3 DEF BookInv, InboundInv, KeysInv

\* What execute may leave behind: it books only under fresh fences, and deletes
\* the pair only after a success.
LEMMA EndOfExecution ==
  ASSUME NEW m, NEW e \in ExecutionEnds(m)
  PROVE  /\ e.st \in {"READY", "SUCCEEDED", "FAILED", "CANCELLED"}
         /\ e.deleted \subseteq Halves /\ e.cost \in Nat
         /\ e.booked /\ CreateKey(m) \notin made => ~FencesStale(creates[m])
         /\ e.deleted # {} => e.booked /\ e.st = "SUCCEEDED"
<1> DEFINE had == CreateKey(m) \in made
           Goal == /\ e.st \in {"READY", "SUCCEEDED", "FAILED", "CANCELLED"}
                   /\ e.deleted \subseteq Halves /\ e.cost \in Nat
                   /\ e.booked /\ CreateKey(m) \notin made => ~FencesStale(creates[m])
                   /\ e.deleted # {} => e.booked /\ e.st = "SUCCEEDED"
<1>1. had => CreateKey(m) \in made OBVIOUS
<1>2. \/ e = Executed("CANCELLED", had, {}, 0) \/ e = Executed("FAILED", had, {}, 0)
      \/ ~FencesStale(creates[m]) /\ e \in {NotPosted(had)} \cup UNION {Applied(p) : p \in PostReplies(had)}
  BY DEF ExecutionEnds
<1> HIDE DEF had
<1>3. CASE e = Executed("CANCELLED", had, {}, 0) \/ e = Executed("FAILED", had, {}, 0)
  <2>1. e.booked = had /\ e.st \in {"FAILED", "CANCELLED"} /\ e.deleted = {} /\ e.cost = 0
    BY <1>3 DEF Executed
  <2>2. QED BY <1>1, <2>1
<1>4. CASE ~FencesStale(creates[m]) /\ e = NotPosted(had)
  BY <1>4 DEF NotPosted, Executed
<1>5. ASSUME ~FencesStale(creates[m]), NEW p \in PostReplies(had), e \in Applied(p) PROVE Goal
  <2>1. CASE SuccessMatches(p)
    <3>1. PICK d \in SUBSET Halves : e = Executed("SUCCEEDED", TRUE, d, Cardinality(Halves \ d))
      BY <1>5, <2>1 DEF Applied
    <3>2. IsFiniteSet(({} \cup {"phone"}) \cup {"name"}) BY FS_EmptySet, FS_AddElement
    <3>3. Halves \ d \subseteq ({} \cup {"phone"}) \cup {"name"} BY DEF Halves
    <3>4. Cardinality(Halves \ d) \in Nat BY <3>2, <3>3, FS_Subset, FS_CardinalityType
    <3>5. QED BY <1>5, <3>1, <3>4 DEF Executed
  <2>2. CASE ~SuccessMatches(p)
    <3>1. e = Executed("READY", p.booked, {}, 1) \/ e = Executed("FAILED", p.booked, {}, 1)
      BY <1>5, <2>2 DEF Applied, RetryDeletes
    <3>2. QED BY <1>5, <3>1 DEF Executed
  <2>3. QED BY <2>1, <2>2
<1>6. QED BY <1>2, <1>3, <1>4, <1>5

LEMMA BookTypesNext ==
  SelfBookingTypeOK' <=>
    /\ dlg' \in DlgType /\ pairs' \in [AdmitCalls -> SUBSET Halves] /\ admission' \in AdmissionType
    /\ admits' \in [AdmitCalls -> AdmitType] /\ creates' \in [ConfirmMsgs -> CreateType]
    /\ inbound' \in InboundType /\ booker' \in [BookWorkers -> BookerType] /\ bookFaults' \in 0..MaxBookFaults
  BY DEF SelfBookingTypeOK, DlgType, AdmissionType, AdmitType, CreateType, InboundType, BookerType

\* The admission calls and the clock touch neither rows nor workers.
LEMMA AdmissionSide ==
  ASSUME BookInv, UNCHANGED <<dlg, creates, inbound, booker, made>>
  PROVE  ClaimInv' /\ InboundInv' /\ OneReady' /\ KeysInv'
  BY DEF BookInv, ClaimInv, BookerClaimed, InboundInv, OneReady, KeysInv, CreateKey

\* The dialog, the confirmation and the workers leave the admission row alone and
\* only take away from the pairs.
LEMMA BookingSide ==
  ASSUME BookInv, UNCHANGED <<admission, admits>>,
         pairs' \in [AdmitCalls -> SUBSET Halves], \A c \in AdmitCalls : pairs'[c] \subseteq pairs[c]
  PROVE  AdmitInv'
  BY DEF BookInv, AdmitInv

LEMMA ReplayedOK ==
  ASSUME BookInv, NEW c, NEW x \in Contents \cup {0}
  PROVE  /\ Replayed(c, x) \in AdmitType
         /\ Replayed(c, x).ph = "ok" => /\ admission.pair # 0 /\ Replayed(c, x).pair = admission.pair
                                        /\ Replayed(c, x).content = admission.content
  BY BookTypes DEF BookInv, Replayed, SameContent, PairAlive, AdmitType, AdmissionType

LEMMA FaultOK ==
  ASSUME bookFaults \in 0..MaxBookFaults, NEW n \in Nat, BookFault(n)
  PROVE  bookFaults' \in 0..MaxBookFaults
  BY SelfBookingConstants DEF BookFault

LEMMA AdmissionStep ==
  ASSUME BookInv, NEW c \in AdmitCalls,
         (\E x \in Contents : AdmitLooks(c, x)) \/ AdmitStores(c) \/ AdmitFails(c) \/ \E h \in Halves : HalfExpires(c, h)
  PROVE  BookInv'
<1> USE BookTypes, BookTypesNext DEF BookInv
<1>1. ASSUME NEW x \in Contents, AdmitLooks(c, x) PROVE BookInv'
  <2>1. PICK a \in AdmitType :
           /\ admits' = [admits EXCEPT ![c] = a]
           /\ a.ph = "ok" => admission.pair # 0 /\ a.pair = admission.pair /\ a.content = admission.content
    <3>1. CASE admission = NoAdmission
      <4>1. [ph |-> "absent", content |-> x, pair |-> 0] \in AdmitType BY DEF AdmitType
      <4>2. QED BY <1>1, <3>1, <4>1 DEF AdmitLooks
    <3>2. CASE admission # NoAdmission BY <1>1, <3>2, ReplayedOK DEF AdmitLooks
    <3>3. QED BY <3>1, <3>2
  <2>2. UNCHANGED <<dlg, pairs, admission, creates, inbound, booker, made, bookFaults>> BY <1>1 DEF AdmitLooks
  <2>3. AdmitInv' BY <2>1, <2>2 DEF AdmitInv
  <2>4. QED BY <2>1, <2>2, <2>3, AdmissionSide
<1>2. CASE AdmitStores(c)
  <2>1. UNCHANGED <<dlg, creates, inbound, booker, made, bookFaults>> BY <1>2 DEF AdmitStores
  <2>2. CASE admission = NoAdmission
    <3>1. /\ pairs' = [pairs EXCEPT ![c] = Halves]
          /\ admission' = [pair |-> c, content |-> admits[c].content]
          /\ admits' = [admits EXCEPT ![c] = [admits[c] EXCEPT !.ph = "ok", !.pair = c]]
      BY <1>2, <2>2 DEF AdmitStores
    <3>2. admission' \in AdmissionType /\ [admits[c] EXCEPT !.ph = "ok", !.pair = c] \in AdmitType
      BY <3>1 DEF AdmissionType, AdmitType
    <3>3. admission.pair = 0 BY <2>2 DEF NoAdmission
    <3>4. \A b \in AdmitCalls : admits[b].ph # "ok" /\ pairs[b] = {}
      BY <3>3, SelfBookingConstants DEF AdmitInv
    <3>5. AdmitInv' BY <3>1, <3>4, SelfBookingConstants DEF AdmitInv, AdmitType
    <3>6. QED BY <2>1, <3>1, <3>2, <3>5, AdmissionSide
  <2>3. CASE admission # NoAdmission
    <3>1. pairs' = pairs /\ admission' = admission
          /\ admits' = [admits EXCEPT ![c] = Replayed(c, admits[c].content)]
      BY <1>2, <2>3 DEF AdmitStores, LostRace
    <3>2. admits[c].content \in Contents \cup {0} BY DEF AdmitType
    <3>3. AdmitInv' BY <3>1, <3>2, ReplayedOK DEF AdmitInv
    <3>4. QED BY <2>1, <3>1, <3>2, <3>3, AdmissionSide, ReplayedOK
  <2>4. QED BY <2>2, <2>3
<1>3. CASE AdmitFails(c)
  <2>1. UNCHANGED <<dlg, pairs, admission, creates, inbound, booker, made>> BY <1>3 DEF AdmitFails
  <2>2. admits' = [admits EXCEPT ![c] = [admits[c] EXCEPT !.ph = "refused"]] BY <1>3 DEF AdmitFails
  <2>3. [admits[c] EXCEPT !.ph = "refused"] \in AdmitType /\ [admits[c] EXCEPT !.ph = "refused"].ph = "refused"
    BY DEF AdmitType
  <2>4. AdmitInv' BY <2>1, <2>2, <2>3 DEF AdmitInv
  <2>5. bookFaults' \in 0..MaxBookFaults BY <1>3, FaultOK DEF AdmitFails
  <2>6. QED BY <2>1, <2>2, <2>3, <2>4, <2>5, AdmissionSide
<1>4. ASSUME NEW h \in Halves, HalfExpires(c, h) PROVE BookInv'
  <2>1. UNCHANGED <<dlg, admission, admits, creates, inbound, booker, made>> BY <1>4 DEF HalfExpires
  <2>2. pairs' = [pairs EXCEPT ![c] = pairs[c] \ {h}] BY <1>4 DEF HalfExpires
  <2>3. bookFaults' \in 0..MaxBookFaults BY <1>4, FaultOK DEF HalfExpires
  <2>4. pairs' \in [AdmitCalls -> SUBSET Halves] /\ \A b \in AdmitCalls : pairs'[b] \subseteq pairs[b] BY <2>2
  <2>5. QED BY <2>1, <2>3, <2>4, AdmissionSide, BookingSide
<1>5. QED BY <1>1, <1>2, <1>3, <1>4

\* Messages move the dialog only while nobody is being accepted.
LEMMA DialogStep ==
  ASSUME BookInv, ClientWrites \/ ManagerTakesOver \/ BotResumes \/ OfferDelivered
  PROVE  BookInv'
<1> USE BookTypes, BookTypesNext DEF BookInv
<1>1. UNCHANGED <<pairs, admission, admits, creates, inbound, booker, made, bookFaults>> /\ inbound = NoInbound
  BY DEF ClientWrites, ManagerTakesOver, BotResumes, OfferDelivered, DialogUnlocked
<1>2. dlg' \in DlgType
  <2>1. CASE ClientWrites
    <3>1. dlg \in DlgType /\ dlg.ver < MaxDialogEvents /\ dlg' = [dlg EXCEPT !.ver = dlg.ver + 1, !.offer = FALSE]
      BY <2>1 DEF ClientWrites
    <3>2. dlg.ver + 1 \in 0..MaxDialogEvents BY <3>1, SelfBookingConstants DEF DlgType
    <3>3. QED BY <3>1, <3>2 DEF DlgType
  <2>2. CASE ManagerTakesOver
    <3>1. dlg \in DlgType /\ dlg.ver < MaxDialogEvents /\ dlg' = [dlg EXCEPT !.ver = dlg.ver + 1, !.auto = FALSE]
      BY <2>2 DEF ManagerTakesOver
    <3>2. dlg.ver + 1 \in 0..MaxDialogEvents BY <3>1, SelfBookingConstants DEF DlgType
    <3>3. QED BY <3>1, <3>2 DEF DlgType
  <2>3. CASE BotResumes BY <2>3 DEF BotResumes, DlgType
  <2>4. CASE OfferDelivered BY <2>4 DEF OfferDelivered, DlgType
  <2>5. QED BY <2>1, <2>2, <2>3, <2>4
<1>3. AdmitInv' BY <1>1, BookingSide
<1>4. ClaimInv' /\ InboundInv' /\ OneReady' /\ KeysInv'
  BY <1>1 DEF ClaimInv, BookerClaimed, InboundInv, OneReady, KeysInv, CreateKey
<1>5. QED BY <1>1, <1>2, <1>3, <1>4

LEMMA ConfirmStep ==
  ASSUME BookInv, (\E m \in ConfirmMsgs : ConfirmBegins(m)) \/ ConfirmCommits \/ ConfirmAborts
  PROVE  BookInv'
<1> USE BookTypes, BookTypesNext DEF BookInv
<1>1. ASSUME NEW m \in ConfirmMsgs, ConfirmBegins(m) PROVE BookInv'
  <2>1. UNCHANGED <<dlg, pairs, admission, admits, creates, booker, made, bookFaults>> BY <1>1 DEF ConfirmBegins
  <2>2. inbound' = [msg |-> m, verdict |-> ConfirmVerdict(m)] /\ ConfirmVerdict(m) \in {"admit", "skip"}
    BY <1>1 DEF ConfirmBegins, ConfirmVerdict
  <2>3. inbound' \in InboundType /\ inbound'.msg = m BY <2>2 DEF InboundType
  <2>4. InboundInv' BY <1>1, <2>1, <2>3 DEF ConfirmBegins, InboundInv
  <2>5. ClaimInv' /\ OneReady' /\ KeysInv' BY <2>1 DEF ClaimInv, BookerClaimed, OneReady, KeysInv, CreateKey
  <2>6. QED BY <2>1, <2>3, <2>4, <2>5, BookingSide
<1>2. CASE ConfirmCommits
  <2>1. UNCHANGED <<pairs, admission, admits, booker, made, bookFaults>> /\ inbound' = NoInbound
    BY <1>2 DEF ConfirmCommits
  <2>2. inbound # NoInbound BY <1>2 DEF ConfirmCommits
  <2>3. /\ inbound.msg \in ConfirmMsgs /\ creates[inbound.msg] = NoCreate /\ dlg.ver < MaxDialogEvents
    BY <2>2 DEF InboundInv
  <2>4. dlg' \in DlgType BY <1>2, <2>3, SelfBookingConstants DEF ConfirmCommits, DlgType
  <2>5. NoInbound \in InboundType BY DEF NoInbound, InboundType
  <2>6. InboundInv' BY <2>1 DEF InboundInv
  <2>7. CASE creates' = creates
    <3>1. ClaimInv' /\ OneReady' /\ KeysInv' BY <2>1, <2>7 DEF ClaimInv, BookerClaimed, OneReady, KeysInv, CreateKey
    <3>2. QED BY <2>1, <2>4, <2>5, <2>6, <2>7, <3>1, BookingSide
  <2>8. CASE creates' # creates
    <3> DEFINE r == [st |-> "READY", att |-> 0, fence |-> dlg.ver + 1, pair |-> admission.pair]
    <3>1. NoActive /\ creates' = [creates EXCEPT ![inbound.msg] = r] BY <1>2, <2>8 DEF ConfirmCommits
    <3>2. r \in CreateType
      BY <2>3, SelfBookingConstants DEF CreateType, CreateStates, DlgType, AdmissionType
    <3>3. \A m \in ConfirmMsgs : creates[m].st # "READY" BY <3>1 DEF NoActive, ActiveRows
    <3>4. \A w \in BookWorkers : ~BookerClaimed(w) BY <3>3 DEF ClaimInv, BookerClaimed
    <3>5. ClaimInv' BY <2>1, <3>4 DEF ClaimInv, BookerClaimed
    <3>6. OneReady' BY <2>3, <3>1, <3>3 DEF OneReady
    <3>7. KeysInv' BY <2>1 DEF KeysInv, CreateKey
    <3> HIDE DEF r
    <3>8. QED BY <2>1, <2>4, <2>5, <2>6, <3>1, <3>2, <3>5, <3>6, <3>7, BookingSide
  <2>9. QED BY <2>7, <2>8
<1>3. CASE ConfirmAborts
  <2>1. UNCHANGED <<dlg, pairs, admission, admits, creates, booker, made>> /\ inbound' = NoInbound
    BY <1>3 DEF ConfirmAborts
  <2>2. bookFaults' \in 0..MaxBookFaults BY <1>3, FaultOK DEF ConfirmAborts
  <2>3. NoInbound \in InboundType BY DEF NoInbound, InboundType
  <2>4. ClaimInv' /\ InboundInv' /\ OneReady' /\ KeysInv'
    BY <2>1 DEF ClaimInv, BookerClaimed, InboundInv, OneReady, KeysInv, CreateKey
  <2>5. QED BY <2>1, <2>2, <2>3, <2>4, BookingSide
<1>4. QED BY <1>1, <1>2, <1>3

LEMMA UnemployedOK == Unemployed \in BookerType /\ Unemployed.ph = "idle"
  BY DEF Unemployed, BookerType

\* A worker that lets its claim go, with its row as it was or in another state,
\* keeps the claims of the others.
LEMMA ClaimEnds ==
  ASSUME BookInv, NEW w \in BookWorkers, booker' = [booker EXCEPT ![w] = Unemployed],
         creates' \in [ConfirmMsgs -> CreateType],
         \A m \in ConfirmMsgs : creates'[m] = creates[m]
            \/ (creates[m].st = "READY" /\ ~\E v \in BookWorkers \ {w} : BookerClaimed(v) /\ booker[v].msg = m)
  PROVE  ClaimInv'
<1> USE BookTypes, UnemployedOK DEF BookInv
<1>1. booker' \in [BookWorkers -> BookerType] /\ \A v \in BookWorkers : v # w => booker'[v] = booker[v]
  OBVIOUS
<1>2. ~BookerClaimed(w)' /\ booker'[w].ph = "idle" BY DEF BookerClaimed
<1>3. \A v \in BookWorkers : BookerClaimed(v)' => BookerClaimed(v) /\ v # w /\ booker'[v].msg = booker[v].msg
  BY <1>1, <1>2 DEF BookerClaimed
<1>4. \A v \in BookWorkers : BookerClaimed(v)' => creates'[booker[v].msg] = creates[booker[v].msg]
  BY <1>3 DEF ClaimInv, BookerClaimed
<1>5. QED BY <1>1, <1>2, <1>3, <1>4 DEF ClaimInv

LEMMA BookerStep ==
  ASSUME BookInv, NEW w \in BookWorkers,
         (\E m \in ConfirmMsgs : WorkerPicks(w, m)) \/ WorkerClaims(w) \/ WorkerFinishes(w) \/ WorkerAborts(w)
           \/ WorkerDies(w)
  PROVE  BookInv'
<1> USE BookTypes, BookTypesNext DEF BookInv
<1>1. ASSUME NEW m \in ConfirmMsgs, WorkerPicks(w, m) PROVE BookInv'
  <2>1. UNCHANGED <<dlg, pairs, admission, admits, creates, inbound, made, bookFaults>> BY <1>1 DEF WorkerPicks
  <2>2. booker' = [booker EXCEPT ![w] = [ph |-> "picked", msg |-> m]] BY <1>1 DEF WorkerPicks
  <2>3. [ph |-> "picked", msg |-> m] \in BookerType BY DEF BookerType
  <2>4. ClaimInv' BY <2>1, <2>2 DEF ClaimInv, BookerClaimed
  <2>5. InboundInv' /\ OneReady' /\ KeysInv' BY <2>1 DEF InboundInv, OneReady, KeysInv, CreateKey
  <2>6. QED BY <2>1, <2>2, <2>3, <2>4, <2>5, BookingSide
<1>2. CASE WorkerClaims(w)
  <2> DEFINE m == booker[w].msg
  <2>1. UNCHANGED <<dlg, pairs, admission, admits, inbound, made, bookFaults>> BY <1>2 DEF WorkerClaims
  <2>2. m \in ConfirmMsgs /\ booker[w].ph = "picked" BY <1>2 DEF WorkerClaims, ClaimInv
  <2>3. \A v \in BookWorkers : BookerClaimed(v) => booker[v].msg # m
    <3>1. SUFFICES ASSUME NEW v \in BookWorkers, BookerClaimed(v), booker[v].msg = m PROVE FALSE OBVIOUS
    <3>2. booker[v] = [ph |-> "claimed", msg |-> m] BY <3>1 DEF BookerClaimed, BookerType
    <3>3. QED BY <1>2, <3>2 DEF WorkerClaims, RowHeld
  <2>4. KeysInv' BY <2>1 DEF KeysInv, CreateKey
  <2>5. CASE creates' = [creates EXCEPT ![m].st = "EXPIRED"] /\ booker' = [booker EXCEPT ![w] = Unemployed]
             /\ creates[m].st = "READY"
    <3>1. creates' \in [ConfirmMsgs -> CreateType] /\ \A n \in ConfirmMsgs : n # m => creates'[n] = creates[n]
      BY <2>5 DEF CreateType, CreateStates
    <3>2. creates'[m].st = "EXPIRED" BY <2>2, <2>5 DEF CreateType
    <3>3. ClaimInv' BY <2>2, <2>3, <2>5, <3>1, ClaimEnds
    <3>4. OneReady' BY <3>1, <3>2 DEF OneReady
    <3>5. InboundInv' BY <2>1, <2>5, <3>1 DEF InboundInv, NoCreate
    <3>6. QED BY <2>1, <2>4, <2>5, <3>1, <3>3, <3>4, <3>5, BookingSide, UnemployedOK
  <2>6. CASE creates' = creates /\ booker' = [booker EXCEPT ![w].ph = "claimed"]
             /\ creates[m].st = "READY" /\ ~Exhausted(m)
    <3>1. booker' = [booker EXCEPT ![w] = [ph |-> "claimed", msg |-> m]]
      <4>1. booker[w] \in BookerType OBVIOUS
      <4>2. [booker[w] EXCEPT !.ph = "claimed"] = [ph |-> "claimed", msg |-> m] BY <4>1 DEF BookerType
      <4>3. QED BY <2>6, <4>2
    <3>2. [ph |-> "claimed", msg |-> m] \in BookerType BY <2>2 DEF BookerType
    <3>3. creates[m].att < MaxCreateAttempts BY <2>2, <2>6, SelfBookingConstants DEF Exhausted, CreateType
    <3>4. ClaimInv' BY <2>2, <2>3, <2>6, <3>1, <3>3 DEF ClaimInv, BookerClaimed
    <3>5. InboundInv' /\ OneReady' BY <2>1, <2>6 DEF InboundInv, OneReady
    <3>6. QED BY <2>1, <2>4, <2>6, <3>1, <3>2, <3>4, <3>5, BookingSide
  <2>7. CASE creates' = creates /\ booker' = [booker EXCEPT ![w] = Unemployed]
    <3>1. ClaimInv' BY <2>7, ClaimEnds
    <3>2. InboundInv' /\ OneReady' BY <2>1, <2>7 DEF InboundInv, OneReady
    <3>3. QED BY <2>1, <2>4, <2>7, <3>1, <3>2, BookingSide, UnemployedOK
  <2>8. QED BY <1>2, <2>5, <2>6, <2>7 DEF WorkerClaims
<1>3. ASSUME NEW e \in ExecutionEnds(booker[w].msg), booker[w].ph = "claimed", BookFault(e.cost + 1) \/ BookFault(e.cost),
             made' = SalonAfter(booker[w].msg, e), pairs' = PairsAfter(booker[w].msg, e),
             booker' = [booker EXCEPT ![w] = Unemployed], UNCHANGED <<dlg, admission, admits, inbound>>,
             \/ creates' = creates
             \/ creates' = [creates EXCEPT ![booker[w].msg].st = e.st, ![booker[w].msg].att = @ + 1]
      PROVE  BookInv'
  <2> DEFINE m == booker[w].msg
  <2>1. m \in ConfirmMsgs /\ creates[m].st = "READY" /\ creates[m].att < MaxCreateAttempts
    BY <1>3 DEF ClaimInv, BookerClaimed
  <2>2. /\ e.st \in {"READY", "SUCCEEDED", "FAILED", "CANCELLED"}
        /\ e.deleted \subseteq Halves /\ e.cost \in Nat
    BY EndOfExecution
  <2>3. bookFaults' \in 0..MaxBookFaults BY <1>3, <2>2, FaultOK
  <2>4. /\ pairs' \in [AdmitCalls -> SUBSET Halves]
        /\ \A c \in AdmitCalls : pairs'[c] \subseteq pairs[c]
    BY <1>3 DEF PairsAfter
  <2>5. AdmitInv' BY <1>3, <2>4, BookingSide
  <2>6. KeysInv' BY <1>3, <2>1 DEF KeysInv, SalonAfter, CreateKey
  <2>7. /\ creates' \in [ConfirmMsgs -> CreateType]
        /\ \A n \in ConfirmMsgs : n # m => creates'[n] = creates[n]
    <3>1. CASE creates' = creates BY <3>1
    <3>2. CASE creates' = [creates EXCEPT ![m] = [creates[m] EXCEPT !.st = e.st, !.att = @ + 1]]
      <4>1. [creates[m] EXCEPT !.st = e.st, !.att = @ + 1] \in CreateType
        <5>1. creates[m] \in CreateType BY <2>1
        <5>2. creates[m].att + 1 \in 0..MaxCreateAttempts BY <2>1, <5>1, SelfBookingConstants DEF CreateType
        <5>3. e.st \in CreateStates BY <2>2 DEF CreateStates
        <5>4. QED BY <5>1, <5>2, <5>3 DEF CreateType
      <4>2. QED BY <2>1, <3>2, <4>1
    <3>3. QED BY <1>3, <3>1, <3>2
  <2>8. \A v \in BookWorkers \ {w} : BookerClaimed(v) => booker[v].msg # m BY <1>3 DEF ClaimInv, BookerClaimed
  <2>9. ClaimInv'
    <3>1. \A n \in ConfirmMsgs :
             \/ creates'[n] = creates[n]
             \/ creates[n].st = "READY" /\ ~\E v \in BookWorkers \ {w} : BookerClaimed(v) /\ booker[v].msg = n
      BY <2>1, <2>7, <2>8
    <3>2. QED BY <1>3, <2>7, <3>1, ClaimEnds
  <2>10. OneReady' BY <2>1, <2>7 DEF OneReady
  <2>11. InboundInv' BY <1>3, <2>1, <2>7 DEF InboundInv, NoCreate
  <2>12. QED BY <1>3, <2>3, <2>4, <2>5, <2>6, <2>7, <2>9, <2>10, <2>11, UnemployedOK
<1>4. CASE WorkerFinishes(w) BY <1>3, <1>4 DEF WorkerFinishes
<1>5. CASE WorkerDies(w) BY <1>3, <1>5 DEF WorkerDies
<1>6. CASE WorkerAborts(w)
  <2>1. UNCHANGED <<dlg, pairs, admission, admits, creates, inbound, made>> /\ booker' = [booker EXCEPT ![w] = Unemployed]
    BY <1>6 DEF WorkerAborts
  <2>2. bookFaults' \in 0..MaxBookFaults BY <1>6, FaultOK DEF WorkerAborts
  <2>3. ClaimInv' BY <2>1, ClaimEnds
  <2>4. InboundInv' /\ OneReady' /\ KeysInv' BY <2>1 DEF InboundInv, OneReady, KeysInv, CreateKey
  <2>5. QED BY <2>1, <2>2, <2>3, <2>4, BookingSide, UnemployedOK
<1>7. QED BY <1>1, <1>2, <1>4, <1>5, <1>6

LEMMA BookInductive ==
  ASSUME BookInv, [SelfBookingNext]_bookVars
  PROVE  BookInv'
<1>1. CASE UNCHANGED bookVars
  <2>1. UNCHANGED <<dlg, pairs, admission, admits, creates, inbound, booker, made, bookFaults>>
    BY <1>1 DEF bookVars
  <2>2. AdmitInv' BY <2>1, BookingSide, BookTypes DEF BookInv
  <2>3. QED BY <2>1, <2>2, AdmissionSide, BookTypes, BookTypesNext DEF BookInv
<1>2. CASE SelfBookingNext BY <1>2, AdmissionStep, DialogStep, ConfirmStep, BookerStep DEF SelfBookingNext
<1>3. QED BY <1>1, <1>2

\* Whatever the admission calls, the dialog and the workers do, every row keeps to
\* its states and no row counts more attempts than MaxCreateAttempts: the claim by
\* id looks at the attempts again under the row lock.
THEOREM SelfBookingTypeCorrect == SelfBookingSpec => []SelfBookingTypeOK
<1>1. BookInv => SelfBookingTypeOK BY DEF BookInv
<1>2. BookInv /\ [SelfBookingNext]_bookVars => BookInv' BY BookInductive
<1>3. QED BY <1>1, <1>2, BookInitially, PTL DEF SelfBookingSpec

\* However the calls, messages and workers interleave, crash and retry: one booking
\* per confirmation, one CREATE waiting in the conversation, one stored pair, which
\* every accepted admission call refers to.
THEOREM OneBookingCorrect == SelfBookingSpec => []OneBookingOnePair
<1>1. ASSUME BookInv PROVE OneBookingOnePair
  <2>1. ConfirmBooksOnce
    <3>1. SUFFICES ASSUME NEW j \in made, NEW k \in made, j[1] = k[1] PROVE j = k BY DEF ConfirmBooksOnce
    <3>2. PICK m \in ConfirmMsgs, n \in ConfirmMsgs : j = <<m, 0>> /\ k = <<n, 0>>
      BY <1>1 DEF BookInv, KeysInv, CreateKey
    <3>3. QED BY <3>1, <3>2
  <2>2. AdmissionExact BY <1>1 DEF BookInv, AdmitInv, AdmissionExact
  <2>3. \A m, n \in ActiveRows : m = n BY <1>1 DEF BookInv, OneReady, ActiveRows
  <2>4. OneActiveCreate BY <2>3, AtMostOne DEF OneActiveCreate
  <2>5. QED BY <2>1, <2>2, <2>4 DEF OneBookingOnePair
<1>2. BookInv /\ [SelfBookingNext]_bookVars => BookInv' BY BookInductive
<1>3. QED BY <1>1, <1>2, BookInitially, PTL DEF SelfBookingSpec

\* What a worker's execution, finished or cut off by a crash, adds to the salon's
\* books and takes from the stored pair.
LEMMA ExecutionHonest ==
  ASSUME BookInv, NEW w \in BookWorkers, NEW m, m = booker[w].msg, BookerClaimed(w), NEW e \in ExecutionEnds(m),
         made' = SalonAfter(m, e), pairs' = PairsAfter(m, e)
  PROVE  /\ \A k \in made' \ made : k = CreateKey(m) /\ m \in ConfirmMsgs /\ dlg.auto /\ creates[m].fence = dlg.ver
         /\ pairs' # pairs => CreateKey(m) \in made' /\ e.st = "SUCCEEDED"
<1>1. m \in ConfirmMsgs BY DEF BookInv, ClaimInv, BookerClaimed
<1>2. \A k \in made' \ made : k = CreateKey(m) /\ e.booked /\ CreateKey(m) \notin made BY DEF SalonAfter
<1>3. \A k \in made' \ made : dlg.auto /\ creates[m].fence = dlg.ver
  BY <1>2, EndOfExecution DEF FencesStale
<1>4. ASSUME pairs' # pairs PROVE CreateKey(m) \in made' /\ e.st = "SUCCEEDED"
  <2>1. pairs \in [AdmitCalls -> SUBSET Halves] BY BookTypes DEF BookInv
  <2>2. e.deleted # {} BY <1>4, <2>1 DEF PairsAfter
  <2>3. QED BY <2>2, EndOfExecution DEF SalonAfter
<1>5. QED BY <1>1, <1>2, <1>3, <1>4

\* A booking is made only while replies are automatic and nothing was said since the
\* confirmation; a worker takes a half of the pair away only with the booking made.
THEOREM BooksAsConfirmedCorrect == SelfBookingSpec => BooksAsConfirmed
<1> DEFINE Confirmed == \A k \in made' \ made :
                           dlg.auto /\ \E m \in ConfirmMsgs : k[1] = m /\ creates[m].fence = dlg.ver
           Kept == \A m \in ConfirmMsgs : \A w \in BookWorkers :
                     (booker[w] = [ph |-> "claimed", msg |-> m] /\ booker'[w] = Unemployed /\ pairs' # pairs)
                       => CreateKey(m) \in made' /\ (creates'[m].st = "READY" => creates' = creates)
<1>1. ASSUME BookInv, [SelfBookingNext]_bookVars PROVE [Confirmed /\ Kept]_bookVars
  <2> SUFFICES ASSUME SelfBookingNext PROVE Confirmed /\ Kept BY <1>1
  <2>1. ASSUME NEW w \in BookWorkers, WorkerFinishes(w) \/ WorkerDies(w) PROVE Confirmed /\ Kept
    <3> DEFINE m == booker[w].msg
    <3>1. PICK e \in ExecutionEnds(m) :
             /\ made' = SalonAfter(m, e) /\ pairs' = PairsAfter(m, e)
             /\ \/ creates' = creates
                \/ creates' = [creates EXCEPT ![m] = [creates[m] EXCEPT !.st = e.st, !.att = @ + 1]]
      BY <2>1 DEF WorkerFinishes, WorkerDies
    <3>2. BookerClaimed(w) /\ booker' = [booker EXCEPT ![w] = Unemployed]
      BY <2>1 DEF WorkerFinishes, WorkerDies, BookerClaimed
    <3>3. m \in ConfirmMsgs BY <1>1, <3>2 DEF BookInv, ClaimInv, BookerClaimed
    <3>4. \A k \in made' \ made : k = CreateKey(m) /\ dlg.auto /\ creates[m].fence = dlg.ver
      BY <1>1, <3>1, <3>2, ExecutionHonest
    <3>5. Confirmed BY <3>3, <3>4 DEF CreateKey
    <3>6. pairs' # pairs => CreateKey(m) \in made' /\ e.st = "SUCCEEDED"
      BY <1>1, <3>1, <3>2, ExecutionHonest
    <3>7. pairs' # pairs /\ creates'[m].st = "READY" => creates' = creates
      <4>1. creates \in [ConfirmMsgs -> CreateType] BY <1>1, BookTypes DEF BookInv
      <4>2. creates[m] \in CreateType BY <3>3, <4>1
      <4>3. [creates[m] EXCEPT !.st = e.st, !.att = @ + 1].st = e.st BY <4>2 DEF CreateType
      <4>4. QED BY <3>1, <3>3, <3>6, <4>1, <4>3
    <3>8. ASSUME NEW n \in ConfirmMsgs, NEW v \in BookWorkers,
                 booker[v] = [ph |-> "claimed", msg |-> n], booker'[v] = Unemployed
          PROVE  n = m
      <4>1. booker \in [BookWorkers -> BookerType] BY <1>1, BookTypes DEF BookInv
      <4>2. booker[v].ph # Unemployed.ph BY <3>8 DEF Unemployed
      <4>3. v = w BY <3>2, <3>8, <4>1, <4>2
      <4>4. QED BY <3>8, <4>3
    <3>9. Kept BY <3>6, <3>7, <3>8
    <3>10. QED BY <3>5, <3>9
  <2>2. ASSUME made' = made,
               pairs' = pairs \/ booker' = booker
        PROVE  Confirmed /\ Kept
    <3>1. \A n \in ConfirmMsgs : [ph |-> "claimed", msg |-> n] # Unemployed BY DEF Unemployed
    <3>2. QED BY <2>2, <3>1
  <2>3. ASSUME NEW c \in AdmitCalls,
               \/ \E x \in Contents : AdmitLooks(c, x)
               \/ AdmitStores(c) \/ AdmitFails(c) \/ \E h \in Halves : HalfExpires(c, h)
        PROVE  Confirmed /\ Kept
    BY <2>2, <2>3 DEF AdmitLooks, AdmitStores, AdmitFails, HalfExpires
  <2>4. CASE ClientWrites \/ ManagerTakesOver \/ BotResumes \/ OfferDelivered \/ ConfirmCommits \/ ConfirmAborts
             \/ \E m \in ConfirmMsgs : ConfirmBegins(m)
    <3>1. made' = made /\ pairs' = pairs
      BY <2>4 DEF ClientWrites, ManagerTakesOver, BotResumes, OfferDelivered, ConfirmCommits, ConfirmAborts,
                  ConfirmBegins
    <3>2. QED BY <2>2, <3>1
  <2>5. ASSUME NEW w \in BookWorkers,
               (\E m \in ConfirmMsgs : WorkerPicks(w, m)) \/ WorkerClaims(w) \/ WorkerAborts(w)
        PROVE  Confirmed /\ Kept
    <3>1. made' = made /\ pairs' = pairs BY <2>5 DEF WorkerPicks, WorkerClaims, WorkerAborts
    <3>2. QED BY <2>2, <3>1
  <2>6. QED BY <2>1, <2>3, <2>4, <2>5 DEF SelfBookingNext
<1>2. BookInv /\ [SelfBookingNext]_bookVars => BookInv' BY BookInductive
<1>3. QED BY <1>1, <1>2, BookInitially, PTL
        DEF SelfBookingSpec, BooksAsConfirmed, BooksOnlyWhileConfirmed, PairKeptForRetry

-----------------------------------------------------------------------------
(* The attachment spool *)

\* A removal that has begun; the states of the writer; the types.
Going == {"DELETE_PENDING", "NONE"}
WriterStates == {"new", "temp", "replace", "mark", "clean", "drop", "done", "failed"}
ObjType == [st : {"NONE", "WRITING", "STORED", "LEASED", "DELETE_PENDING"}, stale : BOOLEAN, dead : BOOLEAN,
            tok : 0..MaxTokens, lapsed : BOOLEAN]
FileType == [tmp : {"none", "part", "full"}, bin : {"none", "ok", "bad"}, aged : BOOLEAN]
LeaseType == [ph : {"idle", "held", "reading", "checked", "unlink", "finish"}, o : Objects \union {NoObject},
              tok : 0..MaxTokens]
MaintType == [pass : {"off", "finish", "writing", "orphans", "stored", "pending", "purge"}, step : {"pick", "act", "commit"},
              o : Objects \union {NoObject}, seen : {"none", "ok", "bad"}, rec : {"ok", "error"}, pur : {"ok", "error"},
              last : {"none", "SUCCESS", "FAILED", "PARTIAL"}]
SpoolTypes ==
  /\ obj \in [Objects -> ObjType] /\ disk \in [Objects -> FileType] /\ writer \in [Objects -> WriterStates]
  /\ reader \in [SpoolReaders -> LeaseType] /\ maint \in MaintType
  /\ lastToken \in 0..MaxTokens /\ spoolFaults \in Nat
  /\ handed \subseteq Objects /\ acked \subseteq Objects /\ damaged \subseteq Objects
\* One attachment: what is handed out has its file until it is removed, and a row handed out goes after its file.
ObjInv(o) ==
  /\ writer[o] = "new" => obj[o].st = "NONE" /\ disk[o].tmp = "none" /\ disk[o].bin = "none"
  /\ o \in handed => writer[o] = "done" /\ obj[o].st # "WRITING"
  /\ o \in acked => o \in handed /\ obj[o].st \in Going
  /\ o \in handed \ damaged /\ obj[o].st \in {"STORED", "LEASED"} => disk[o].bin = "ok"
  /\ o \in handed /\ obj[o].st = "NONE" => disk[o].bin = "none"
  /\ obj[o].st = "LEASED" => obj[o].tok > 0 
  /\ obj[o].st \in {"NONE", "WRITING", "STORED"} => obj[o].tok = 0
\* One consumer: what it holds was handed out, no lease is newer than the one on a LEASED row, and what it
\* unlinks is on its way out.
LeaseInv(r) ==
  /\ reader[r].ph # "idle" => reader[r].o \in handed
  /\ reader[r].tok <= lastToken
  /\ reader[r].o \in Objects /\ obj[reader[r].o].st = "LEASED" => reader[r].tok <= obj[reader[r].o].tok
  /\ reader[r].ph \in {"unlink", "finish"} => obj[reader[r].o].st \in Going
  /\ reader[r].ph = "finish" => disk[reader[r].o].bin = "none"
\* The maintenance cycle between two of its steps: what its pass found is still so where it decides on it.
MaintInv ==
  LET o == maint.o IN
  maint.step \in {"act", "commit"} =>
    /\ o \in Objects /\ writer[o] # "new"
    /\ maint.pass = "writing" => obj[o].st = "WRITING"
    /\ maint.pass = "orphans" => obj[o].st = "NONE"
    /\ maint.pass = "stored" =>
         /\ obj[o].st = "STORED" /\ (o \in handed \ damaged => maint.seen = "ok")
         /\ maint.step = "commit" => maint.seen # "ok"
         /\ o \in handed /\ (maint.seen = "none" \/ maint.step = "commit") => disk[o].bin = "none"
    /\ maint.pass \in {"pending", "purge"} =>
         /\ obj[o].st \in Going
         /\ o \in handed /\ maint.step = "commit" => disk[o].bin = "none"

SpoolInv ==
  /\ SpoolTypes /\ MaintInv
  /\ \A o \in Objects : ObjInv(o)
  /\ \A r \in SpoolReaders : LeaseInv(r)

\* What no step does to an attachment, whoever takes it: a removal that has begun is not undone, a file that is gone
\* does not come back to a consumer, and a lease is not renewed.
Steady(o) ==
  /\ writer[o] # "new" => /\ writer'[o] # "new"
                          /\ obj[o].st \in Going => obj'[o].st \in Going
                          /\ obj[o].st = "NONE" => obj'[o].st = "NONE"
  /\ o \in handed /\ disk[o].bin = "none" => disk'[o].bin = "none"
  /\ obj'[o].st = "LEASED" => obj[o].st = "LEASED" /\ obj'[o].tok = obj[o].tok

\* What a step of somebody else leaves to the maintenance cycle.
RowKept(o) ==
  /\ maint.step \in {"act", "commit"} /\ Locked(o) => obj'[o].st = obj[o].st
  /\ o \in handed' => o \in handed \/ (obj[o].st = "WRITING" /\ ~Locked(o))

LEMMA SpoolConsts == NoObject \notin Objects /\ MaxTokens \in Nat /\ MaxSpoolFaults \in Nat
  BY SpoolAssumption

LEMMA NoneTypes ==
  /\ NoRow \in ObjType /\ NoRow.st = "NONE" /\ NoRow.tok = 0
  /\ NoFile \in FileType /\ NoLease \in LeaseType /\ NoLease.ph = "idle" /\ NoLease.o = NoObject /\ NoLease.tok = 0
  /\ MaintOff \in MaintType /\ MaintOff.step = "pick"
  BY SpoolConsts DEF NoRow, NoFile, NoLease, MaintOff, ObjType, FileType, LeaseType, MaintType

LEMMA SpoolInitial == SpoolInit => SpoolInv
<1> SUFFICES ASSUME SpoolInit PROVE SpoolInv
  OBVIOUS
<1>1. SpoolTypes
  BY NoneTypes, SpoolConsts DEF SpoolInit, SpoolTypes, WriterStates
<1>2. MaintInv
  BY NoneTypes DEF SpoolInit, MaintInv
<1>3. \A o \in Objects : ObjInv(o)
  BY DEF SpoolInit, ObjInv, NoRow, NoFile
<1>4. \A r \in SpoolReaders : LeaseInv(r)
  BY NoneTypes, SpoolConsts DEF SpoolInit, LeaseInv
<1> QED
  BY <1>1, <1>2, <1>3, <1>4 DEF SpoolInv

\* A step that changes one attachment.
LEMMA ObjectMoves ==
  ASSUME SpoolInv, NEW o \in Objects, NEW x \in ObjType, NEW f \in FileType, NEW s \in WriterStates,
         obj' = [obj EXCEPT ![o] = x], disk' = [disk EXCEPT ![o] = f], writer' = [writer EXCEPT ![o] = s],
         handed' \in {handed, handed \union {o}}, acked' \in {acked, acked \union {o}}, damaged' \in {damaged, damaged \union {o}}
  PROVE  /\ obj' \in [Objects -> ObjType] /\ disk' \in [Objects -> FileType] /\ writer' \in [Objects -> WriterStates]
         /\ handed' \subseteq Objects /\ acked' \subseteq Objects /\ damaged' \subseteq Objects
         /\ obj'[o] = x /\ disk'[o] = f /\ writer'[o] = s
         /\ \A v \in Objects : v # o => ObjInv(v)' /\ Steady(v) /\ RowKept(v)
<1>1. /\ obj' \in [Objects -> ObjType] /\ disk' \in [Objects -> FileType] /\ writer' \in [Objects -> WriterStates]
      /\ obj'[o] = x /\ disk'[o] = f /\ writer'[o] = s
      /\ \A v \in Objects : v # o => obj'[v] = obj[v] /\ disk'[v] = disk[v] /\ writer'[v] = writer[v]
  BY DEF SpoolInv, SpoolTypes
<1>2. handed' \subseteq Objects /\ acked' \subseteq Objects /\ damaged' \subseteq Objects
  BY DEF SpoolInv, SpoolTypes
<1>3. ASSUME NEW v \in Objects, v # o PROVE ObjInv(v)' /\ Steady(v) /\ RowKept(v)
  <2>1. ObjInv(v) /\ obj'[v] = obj[v] /\ disk'[v] = disk[v] /\ writer'[v] = writer[v]
    BY <1>1, <1>3 DEF SpoolInv
  <2>2. (v \in handed') = (v \in handed) /\ (v \in acked') = (v \in acked) /\ (v \in damaged') = (v \in damaged)
    BY <1>3
  <2>3. ObjInv(v)'
    BY <2>1, <2>2 DEF ObjInv
  <2> QED
    BY <2>1, <2>2, <2>3 DEF Steady, RowKept
<1> QED
  BY <1>1, <1>2, <1>3

\* A consumer's lease under a step that leaves it alone, and the maintenance cycle under a step of somebody else.
LEMMA LeaseStays ==
  ASSUME SpoolInv, \A o \in Objects : Steady(o), handed \subseteq handed', UNCHANGED lastToken,
         NEW r \in SpoolReaders, reader'[r] = reader[r]
  PROVE  LeaseInv(r)'
<1>1. LeaseInv(r) /\ reader[r] \in LeaseType /\ handed \subseteq Objects
  BY DEF SpoolInv, SpoolTypes
<1>2. CASE reader[r].o \in Objects
  <2>1. Steady(reader[r].o) /\ ObjInv(reader[r].o)
    BY <1>2 DEF SpoolInv
  <2>2. reader[r].ph # "idle" => reader[r].o \in handed /\ writer[reader[r].o] = "done"
    BY <1>1, <2>1 DEF LeaseInv, ObjInv
  <2> QED
    BY <1>1, <2>1, <2>2 DEF LeaseInv, Steady
<1>3. CASE reader[r].o \notin Objects
  BY <1>1, <1>3 DEF LeaseInv
<1> QED
  BY <1>2, <1>3

LEMMA MaintStays ==
  ASSUME SpoolInv, \A o \in Objects : Steady(o) /\ RowKept(o), damaged \subseteq damaged', UNCHANGED maint
  PROVE  MaintInv'
<1> DEFINE o == maint.o
<1>1. CASE maint.step \in {"act", "commit"}
  <2>1. MaintInv /\ o \in Objects /\ writer[o] # "new" /\ Steady(o) /\ RowKept(o)
    BY <1>1 DEF SpoolInv, MaintInv
  <2>2. maint.pass \in {"writing", "stored"} => obj'[o].st = obj[o].st
    BY <1>1, <2>1 DEF RowKept, Locked
  <2>3. CASE maint.pass = "writing"
    BY <1>1, <2>1, <2>2, <2>3 DEF MaintInv, Steady
  <2>4. CASE maint.pass = "orphans"
    BY <1>1, <2>1, <2>4 DEF MaintInv, Steady
  <2>5. CASE maint.pass = "stored"
    <3>1. o \in handed' => o \in handed
      BY <2>1, <2>5 DEF RowKept, Locked
    <3> QED
      BY <1>1, <2>1, <2>2, <2>5, <3>1 DEF MaintInv, Steady
  <2>6. CASE maint.pass \in {"pending", "purge"}
    <3>1. obj[o].st \in Going
      BY <1>1, <2>1, <2>6 DEF MaintInv
    <3>2. o \in handed' => o \in handed
      BY <2>1, <3>1 DEF RowKept, Going
    <3> QED
      BY <1>1, <2>1, <2>6, <3>1, <3>2 DEF MaintInv, Steady
  <2>7. CASE maint.pass \in {"off", "finish"}
    BY <1>1, <2>1, <2>7 DEF MaintInv, Steady
  <2> QED
    BY <2>3, <2>4, <2>5, <2>6, <2>7 DEF SpoolInv, SpoolTypes, MaintType
<1>2. CASE maint.step \notin {"act", "commit"}
  BY <1>2 DEF MaintInv
<1> QED
  BY <1>1, <1>2

\* A step of one attachment's writer, of the clock or of the disk.
LEMMA AttachmentStep ==
  ASSUME SpoolInv, NEW o \in Objects, NEW x \in ObjType, NEW f \in FileType, NEW s \in WriterStates,
         obj' = [obj EXCEPT ![o] = x], disk' = [disk EXCEPT ![o] = f], writer' = [writer EXCEPT ![o] = s],
         handed' \in {handed, handed \union {o}}, UNCHANGED acked, damaged' \in {damaged, damaged \union {o}},
         UNCHANGED <<reader, maint, lastToken>>, spoolFaults' \in Nat, ObjInv(o)', Steady(o), RowKept(o)
  PROVE  SpoolInv'
<1>1. /\ obj' \in [Objects -> ObjType] /\ disk' \in [Objects -> FileType] /\ writer' \in [Objects -> WriterStates]
      /\ handed' \subseteq Objects /\ acked' \subseteq Objects /\ damaged' \subseteq Objects
      /\ \A v \in Objects : v # o => ObjInv(v)' /\ Steady(v) /\ RowKept(v)
  BY ObjectMoves
<1>2. SpoolTypes'
  BY <1>1 DEF SpoolInv, SpoolTypes
<1>3. \A v \in Objects : ObjInv(v)' /\ Steady(v) /\ RowKept(v)
  BY <1>1
<1>4. \A r \in SpoolReaders : LeaseInv(r)'
  BY <1>3, LeaseStays
<1>5. MaintInv'
  BY <1>3, MaintStays
<1> QED
  BY <1>2, <1>3, <1>4, <1>5 DEF SpoolInv

\* An attachment of the invariant, field by field.
LEMMA AttachmentHas ==
  ASSUME SpoolInv, NEW o \in Objects
  PROVE  /\ obj[o] \in ObjType /\ disk[o] \in FileType /\ writer[o] \in WriterStates /\ ObjInv(o)
         /\ obj = [obj EXCEPT ![o] = obj[o]] /\ disk = [disk EXCEPT ![o] = disk[o]]
         /\ writer = [writer EXCEPT ![o] = writer[o]] /\ spoolFaults \in Nat
  BY DEF SpoolInv, SpoolTypes

LEMMA FaultCounted == SpoolInv /\ SpoolFault => spoolFaults' \in Nat
  BY DEF SpoolInv, SpoolTypes, SpoolFault

\* Only the writer works on an attachment that it has not handed out.
LEMMA NotHandedYet ==
  ASSUME SpoolInv, NEW o \in Objects, writer[o] # "done"
  PROVE  o \notin handed /\ o \notin acked
  BY DEF SpoolInv, ObjInv

\* A step of the writer before the row is STORED: it writes its own file and leaves the row.
LEMMA WriterWrites ==
  ASSUME SpoolInv, NEW o \in Objects, writer[o] \notin {"new", "done"}, NEW f \in FileType,
         NEW s \in WriterStates \ {"new", "done"},
         disk' = [disk EXCEPT ![o] = f], writer' = [writer EXCEPT ![o] = s], spoolFaults' \in Nat,
         UNCHANGED <<obj, reader, maint, lastToken, handed, acked, damaged>>
  PROVE  SpoolInv'
<1>1. o \notin handed /\ o \notin acked
  BY NotHandedYet
<1>2. obj'[o] = obj[o] /\ disk'[o] = f /\ writer'[o] = s /\ ObjInv(o)
  BY AttachmentHas, ObjectMoves
<1>3. ObjInv(o)'
  BY <1>1, <1>2 DEF ObjInv
<1>4. Steady(o) /\ RowKept(o)
  BY <1>1, <1>2 DEF Steady, RowKept
<1> QED
  BY <1>3, <1>4, AttachmentHas, AttachmentStep

\* Removing the row that the writer gives up.
LEMMA WriterDrops ==
  ASSUME SpoolInv, NEW o \in Objects, DropRow(o)
  PROVE  SpoolInv'
<1>1. writer[o] = "drop" /\ o \notin handed /\ o \notin acked /\ ~Locked(o)
  BY NotHandedYet DEF DropRow
<1>2. /\ writer' = [writer EXCEPT ![o] = "failed"] /\ UNCHANGED <<disk, reader, maint, lastToken, handed, acked, damaged>>
      /\ obj' = [obj EXCEPT ![o] = NoRow] \/ UNCHANGED obj
      /\ spoolFaults' \in Nat
  BY FaultCounted, AttachmentHas DEF DropRow
<1>3. CASE UNCHANGED obj
  BY <1>1, <1>2, <1>3, AttachmentHas, WriterWrites DEF WriterStates
<1>4. CASE obj' = [obj EXCEPT ![o] = NoRow]
  <2>1. obj'[o] = NoRow /\ disk'[o] = disk[o] /\ writer'[o] = "failed" /\ ObjInv(o)
    BY <1>2, <1>4, AttachmentHas, NoneTypes DEF SpoolInv, SpoolTypes
  <2>2. ObjInv(o)'
    BY <1>1, <1>2, <2>1, NoneTypes DEF ObjInv
  <2>3. Steady(o) /\ RowKept(o)
    BY <1>1, <1>2, <2>1, NoneTypes DEF Steady, RowKept, Going
  <2> QED
    BY <1>2, <1>4, <2>2, <2>3, NoneTypes, AttachmentHas, AttachmentStep DEF WriterStates
<1> QED
  BY <1>2, <1>3, <1>4

LEMMA WriterInserts ==
  ASSUME SpoolInv, NEW o \in Objects, StoreInsert(o)
  PROVE  SpoolInv'
<1> DEFINE x == [obj[o] EXCEPT !.st = "WRITING"]
<1>1. writer[o] = "new" /\ o \notin handed /\ o \notin acked
  BY NotHandedYet DEF StoreInsert
<1>2. x \in ObjType /\ x.st = "WRITING" /\ x.tok = obj[o].tok
  BY AttachmentHas DEF ObjType
<1>3. /\ obj' = [obj EXCEPT ![o] = x] /\ writer' = [writer EXCEPT ![o] = "temp"]
      /\ UNCHANGED <<disk, reader, maint, lastToken, spoolFaults, handed, acked, damaged>>
  BY DEF StoreInsert
<1> HIDE DEF x
<1>4. obj'[o] = x /\ disk'[o] = disk[o] /\ writer'[o] = "temp" /\ ObjInv(o)
  BY <1>3, AttachmentHas DEF SpoolInv, SpoolTypes
<1>5. ObjInv(o)'
  BY <1>1, <1>2, <1>3, <1>4 DEF ObjInv
<1>6. Steady(o) /\ RowKept(o)
  BY <1>1, <1>2, <1>3, <1>4 DEF Steady, RowKept, Locked, SpoolInv, MaintInv
<1> QED
  BY <1>2, <1>3, <1>5, <1>6, AttachmentHas, AttachmentStep DEF WriterStates

\* The reference is handed out with the row STORED and the file verified.
LEMMA WriterMarks ==
  ASSUME SpoolInv, NEW o \in Objects, MarkStored(o)
  PROVE  SpoolInv'
<1>1. writer[o] = "mark" /\ o \notin handed /\ o \notin acked /\ ~Locked(o)
  BY NotHandedYet DEF MarkStored
<1>2. CASE obj[o].st = "WRITING" /\ disk[o].bin = "ok"
  <2> DEFINE x == [obj[o] EXCEPT !.st = "STORED"]
  <2>1. x \in ObjType /\ x.st = "STORED" /\ x.tok = obj[o].tok
    BY AttachmentHas DEF ObjType
  <2>2. /\ obj' = [obj EXCEPT ![o] = x] /\ writer' = [writer EXCEPT ![o] = "done"] /\ handed' = handed \union {o}
        /\ UNCHANGED <<disk, reader, maint, lastToken, spoolFaults, acked, damaged>>
    BY <1>2 DEF MarkStored
  <2> HIDE DEF x
  <2>3. obj'[o] = x /\ disk'[o] = disk[o] /\ writer'[o] = "done" /\ ObjInv(o)
    BY <2>2, AttachmentHas DEF SpoolInv, SpoolTypes
  <2>4. ObjInv(o)'
    BY <1>1, <1>2, <2>1, <2>2, <2>3 DEF ObjInv
  <2>5. Steady(o) /\ RowKept(o)
    BY <1>1, <1>2, <2>1, <2>2, <2>3 DEF Steady, RowKept, Going
  <2> QED
    BY <2>1, <2>2, <2>4, <2>5, AttachmentHas, AttachmentStep DEF WriterStates
<1>3. CASE ~(obj[o].st = "WRITING" /\ disk[o].bin = "ok")
  <2>1. /\ writer' = [writer EXCEPT ![o] = "failed"]
        /\ UNCHANGED <<obj, disk, reader, maint, lastToken, spoolFaults, handed, acked, damaged>>
    BY <1>3 DEF MarkStored
  <2> QED
    BY <1>1, <2>1, AttachmentHas, WriterWrites DEF WriterStates
<1> QED
  BY <1>2, <1>3

\* What the writer puts on the disk, and leaves there when it fails.
LEMMA WriterOnDisk ==
  ASSUME SpoolInv, NEW o \in Objects,
         WriteTemp(o) \/ ReplaceTemp(o) \/ WriteFails(o) \/ CleanFiles(o) \/ WriterCrash(o)
  PROVE  SpoolInv'
<1>1. writer[o] \notin {"new", "done"} /\ UNCHANGED <<obj, reader, maint, lastToken, handed, acked, damaged>>
  BY DEF WriteTemp, ReplaceTemp, WriteFails, CleanFiles, WriterCrash
<1>2. spoolFaults' \in Nat
  BY FaultCounted, AttachmentHas DEF WriteTemp, ReplaceTemp, WriteFails, CleanFiles, WriterCrash
<1>3. PICK s \in WriterStates \ {"new", "done"} : writer' = [writer EXCEPT ![o] = s]
  BY DEF WriteTemp, ReplaceTemp, WriteFails, CleanFiles, WriterCrash, WriterStates
<1>t. disk[o] \in FileType /\ disk = [disk EXCEPT ![o] = disk[o]]
  BY AttachmentHas
<1>4. \E f \in FileType : disk' = [disk EXCEPT ![o] = f]
  <2>1. ASSUME NEW t \in {"none", "part", "full"}, disk' = [disk EXCEPT ![o].tmp = t]
        PROVE \E f \in FileType : disk' = [disk EXCEPT ![o] = f]
    <3> DEFINE f == [disk[o] EXCEPT !.tmp = t]
    <3>1. f \in FileType
      BY <1>t DEF FileType
    <3>2. disk' = [disk EXCEPT ![o] = f]
      BY <2>1
    <3> QED
      BY <3>1, <3>2
  <2>2. ASSUME NEW b \in {"none", "ok"}, disk' = [disk EXCEPT ![o].tmp = "none", ![o].bin = b]
        PROVE  \E f \in FileType : disk' = [disk EXCEPT ![o] = f]
    <3> DEFINE f == [disk[o] EXCEPT !.tmp = "none", !.bin = b]
    <3>1. f \in FileType
      BY <1>t DEF FileType
    <3>2. disk' = [disk EXCEPT ![o] = f]
      BY <2>2
    <3> QED
      BY <3>1, <3>2
  <2>3. CASE WriteTemp(o)
    BY <2>1, <2>3 DEF WriteTemp
  <2>4. CASE ReplaceTemp(o)
    BY <2>2, <2>4 DEF ReplaceTemp
  <2>5. CASE WriteFails(o)
    BY <2>1, <2>5 DEF WriteFails
  <2>6. CASE CleanFiles(o)
    BY <2>2, <2>6, <1>t DEF CleanFiles
  <2>7. CASE WriterCrash(o)
    <3>1. disk[o].tmp \in {"none", "part", "full"}
      BY <1>t DEF FileType
    <3> QED
      BY <2>1, <2>7, <3>1 DEF WriterCrash
  <2> QED
    BY <2>3, <2>4, <2>5, <2>6, <2>7
<1> QED
  BY <1>1, <1>2, <1>3, <1>4, WriterWrites

\* Time and the disk.
LEMMA ClockOnRow ==
  ASSUME SpoolInv, NEW o \in Objects, NEW x \in ObjType, x.st = obj[o].st, x.tok = obj[o].tok,
         obj' = [obj EXCEPT ![o] = x],
         UNCHANGED <<disk, writer, reader, maint, lastToken, spoolFaults, handed, acked, damaged>>
  PROVE  SpoolInv'
<1>1. obj'[o] = x /\ disk'[o] = disk[o] /\ writer'[o] = writer[o] /\ ObjInv(o)
  BY AttachmentHas DEF SpoolInv, SpoolTypes
<1>2. ObjInv(o)' /\ Steady(o) /\ RowKept(o)
  BY <1>1 DEF ObjInv, Steady, RowKept
<1>3. /\ writer' = [writer EXCEPT ![o] = writer[o]] /\ writer[o] \in WriterStates
      /\ disk' = [disk EXCEPT ![o] = disk[o]] /\ disk[o] \in FileType /\ spoolFaults' \in Nat
  BY AttachmentHas
<1> QED
  BY <1>2, <1>3, AttachmentStep

LEMMA TimePasses ==
  ASSUME SpoolInv, NEW o \in Objects, SpoolClock(o)
  PROVE  SpoolInv'
<1>t. obj[o] \in ObjType /\ disk[o] \in FileType
  BY AttachmentHas
<1>1. CASE RowGrowsStale(o)
  <2> DEFINE x == [obj[o] EXCEPT !.stale = TRUE]
  <2>1. x \in ObjType /\ x.st = obj[o].st /\ x.tok = obj[o].tok
    BY <1>t DEF ObjType
  <2>2. obj' = [obj EXCEPT ![o] = x]
    BY <1>1 DEF RowGrowsStale
  <2> HIDE DEF x
  <2> QED
    BY <1>1, <2>1, <2>2, ClockOnRow DEF RowGrowsStale
<1>2. CASE ObjectExpires(o)
  <2> DEFINE x == [obj[o] EXCEPT !.dead = TRUE]
  <2>1. x \in ObjType /\ x.st = obj[o].st /\ x.tok = obj[o].tok
    BY <1>t DEF ObjType
  <2>2. obj' = [obj EXCEPT ![o] = x]
    BY <1>2 DEF ObjectExpires
  <2> HIDE DEF x
  <2> QED
    BY <1>2, <2>1, <2>2, ClockOnRow DEF ObjectExpires
<1>3. CASE ReadLeaseExpires(o)
  <2> DEFINE x == [obj[o] EXCEPT !.lapsed = TRUE]
  <2>1. x \in ObjType /\ x.st = obj[o].st /\ x.tok = obj[o].tok
    BY <1>t DEF ObjType
  <2>2. obj' = [obj EXCEPT ![o] = x]
    BY <1>3 DEF ReadLeaseExpires
  <2> HIDE DEF x
  <2> QED
    BY <1>3, <2>1, <2>2, ClockOnRow DEF ReadLeaseExpires
<1>4. CASE FileAges(o)
  <2> DEFINE f == [disk[o] EXCEPT !.aged = TRUE]
  <2>1. f \in FileType /\ f.tmp = disk[o].tmp /\ f.bin = disk[o].bin
    BY <1>t DEF FileType
  <2>2. disk' = [disk EXCEPT ![o] = f]
        /\ UNCHANGED <<obj, writer, reader, maint, lastToken, spoolFaults, handed, acked, damaged>>
    BY <1>4 DEF FileAges
  <2> HIDE DEF f
  <2>3. obj'[o] = obj[o] /\ disk'[o] = f /\ writer'[o] = writer[o] /\ ObjInv(o)
    BY <2>2, AttachmentHas DEF SpoolInv, SpoolTypes
  <2>4. ObjInv(o)' /\ Steady(o) /\ RowKept(o)
    BY <2>1, <2>2, <2>3 DEF ObjInv, Steady, RowKept
  <2>5. /\ writer' = [writer EXCEPT ![o] = writer[o]] /\ writer[o] \in WriterStates
        /\ obj' = [obj EXCEPT ![o] = obj[o]] /\ obj[o] \in ObjType /\ spoolFaults' \in Nat
    BY <2>2, AttachmentHas
  <2> QED
    BY <2>1, <2>2, <2>4, <2>5, AttachmentStep
<1> QED
  BY <1>1, <1>2, <1>3, <1>4 DEF SpoolClock

LEMMA DiskFails ==
  ASSUME SpoolInv, NEW o \in Objects, DiskDamages(o)
  PROVE  SpoolInv'
<1>1. PICK b \in {"none", "bad"} : disk' = [disk EXCEPT ![o].bin = b]
  BY DEF DiskDamages
<1>2. /\ disk[o].bin = "ok" /\ damaged' = damaged \union {o} /\ spoolFaults' \in Nat
      /\ UNCHANGED <<obj, writer, reader, maint, lastToken, handed, acked>>
  BY FaultCounted DEF DiskDamages
<1> DEFINE f == [disk[o] EXCEPT !.bin = b]
<1>3. f \in FileType /\ f.tmp = disk[o].tmp /\ f.bin = b
  BY AttachmentHas DEF FileType
<1>4. disk' = [disk EXCEPT ![o] = f]
  BY <1>1
<1> HIDE DEF f
<1>5. obj'[o] = obj[o] /\ disk'[o] = f /\ writer'[o] = writer[o] /\ ObjInv(o)
  BY <1>2, <1>4, AttachmentHas DEF SpoolInv, SpoolTypes
<1>6. ObjInv(o)'
  BY <1>2, <1>3, <1>5 DEF ObjInv
<1>7. Steady(o) /\ RowKept(o)
  BY <1>2, <1>3, <1>5 DEF Steady, RowKept
<1> QED
  BY <1>2, <1>3, <1>4, <1>6, <1>7, AttachmentHas, AttachmentStep

-----------------------------------------------------------------------------
\* A step of one consumer on the attachment it names.
LEMMA ConsumerStep ==
  ASSUME SpoolInv, NEW r \in SpoolReaders, NEW q \in LeaseType, reader' = [reader EXCEPT ![r] = q],
         NEW o \in Objects, NEW x \in ObjType, NEW f \in FileType,
         obj' = [obj EXCEPT ![o] = x], disk' = [disk EXCEPT ![o] = f], acked' \in {acked, acked \union {o}},
         UNCHANGED <<writer, maint, lastToken, handed, damaged>>, spoolFaults' \in Nat,
         ObjInv(o)', Steady(o), RowKept(o), LeaseInv(r)'
  PROVE  SpoolInv'
<1>0. writer' = [writer EXCEPT ![o] = writer[o]] /\ writer[o] \in WriterStates
  BY AttachmentHas
<1>1. /\ obj' \in [Objects -> ObjType] /\ disk' \in [Objects -> FileType] /\ writer' \in [Objects -> WriterStates]
      /\ handed' \subseteq Objects /\ acked' \subseteq Objects /\ damaged' \subseteq Objects
      /\ \A v \in Objects : v # o => ObjInv(v)' /\ Steady(v) /\ RowKept(v)
  BY <1>0, ObjectMoves
<1>2. reader' \in [SpoolReaders -> LeaseType] /\ \A v \in SpoolReaders : v # r => reader'[v] = reader[v]
  BY DEF SpoolInv, SpoolTypes
<1>3. SpoolTypes'
  BY <1>1, <1>2 DEF SpoolInv, SpoolTypes
<1>4. \A v \in Objects : ObjInv(v)' /\ Steady(v) /\ RowKept(v)
  BY <1>1
<1>5. \A v \in SpoolReaders : LeaseInv(v)'
  BY <1>2, <1>4, LeaseStays
<1>6. MaintInv'
  BY <1>4, MaintStays
<1> QED
  BY <1>3, <1>4, <1>5, <1>6 DEF SpoolInv

\* A step of one consumer that touches neither the row nor the file.
LEMMA ConsumerAlone ==
  ASSUME SpoolInv, NEW r \in SpoolReaders, NEW q \in LeaseType, reader' = [reader EXCEPT ![r] = q],
         UNCHANGED <<obj, disk, writer, maint, lastToken, handed, acked, damaged>>, spoolFaults' \in Nat,
         \/ q = NoLease
         \/ q.o = reader[r].o /\ q.tok = reader[r].tok /\ reader[r].ph # "idle" /\ q.ph \in {"held", "reading", "checked"}
  PROVE  SpoolInv'
<1>1. /\ reader' \in [SpoolReaders -> LeaseType] /\ reader'[r] = q
      /\ \A v \in SpoolReaders : v # r => reader'[v] = reader[v]
  BY DEF SpoolInv, SpoolTypes
<1>2. SpoolTypes'
  BY <1>1 DEF SpoolInv, SpoolTypes
<1>3. MaintInv' /\ \A o \in Objects : ObjInv(o)'
  BY DEF SpoolInv, MaintInv, ObjInv
<1>4. LeaseInv(r)'
  <2>1. LeaseInv(r) /\ lastToken \in Nat
    BY DEF SpoolInv, SpoolTypes
  <2>2. CASE q = NoLease
    BY <1>1, <2>1, <2>2, NoneTypes, SpoolConsts DEF LeaseInv
  <2>3. CASE q.o = reader[r].o /\ q.tok = reader[r].tok /\ reader[r].ph # "idle" /\ q.ph \in {"held", "reading", "checked"}
    BY <1>1, <2>1, <2>3 DEF LeaseInv
  <2> QED
    BY <2>2, <2>3
<1>5. ASSUME NEW v \in SpoolReaders, v # r PROVE LeaseInv(v)'
  BY <1>1, <1>5 DEF SpoolInv, LeaseInv
<1> QED
  BY <1>2, <1>3, <1>4, <1>5 DEF SpoolInv

\* A consumer at work has a handed-out attachment and its lease.
LEMMA ConsumerHas ==
  ASSUME SpoolInv, NEW r \in SpoolReaders, reader[r].ph # "idle"
  PROVE  /\ reader[r] \in LeaseType /\ reader[r].o \in Objects /\ reader[r].o \in handed
         /\ LeaseInv(r) /\ ObjInv(reader[r].o) /\ writer[reader[r].o] = "done"
<1>1. reader[r] \in LeaseType /\ LeaseInv(r) /\ handed \subseteq Objects
  BY DEF SpoolInv, SpoolTypes
<1>2. reader[r].o \in handed /\ reader[r].o \in Objects
  BY <1>1 DEF LeaseInv
<1> QED
  BY <1>1, <1>2 DEF SpoolInv, ObjInv

LEMMA ConsumerReads ==
  ASSUME SpoolInv, NEW r \in SpoolReaders, ReadBegin(r) \/ ReadFile(r) \/ ReadReturn(r) \/ ReaderCrash(r)
  PROVE  SpoolInv'
<1>1. /\ reader[r].ph # "idle" /\ spoolFaults' \in Nat
      /\ UNCHANGED <<obj, disk, writer, maint, lastToken, handed, acked, damaged>>
  BY FaultCounted DEF ReadBegin, ReadFile, ReadReturn, ReaderCrash, SpoolInv, SpoolTypes
<1>2. CASE ReaderCrash(r)
  BY <1>1, <1>2, NoneTypes, ConsumerAlone DEF ReaderCrash
<1>3. ASSUME NEW p \in {"held", "reading", "checked"}, reader' = [reader EXCEPT ![r].ph = p] PROVE SpoolInv'
  <2> DEFINE q == [reader[r] EXCEPT !.ph = p]
  <2>1. q \in LeaseType /\ q.o = reader[r].o /\ q.tok = reader[r].tok /\ q.ph = p
    BY <1>1, ConsumerHas DEF LeaseType
  <2>2. reader' = [reader EXCEPT ![r] = q]
    BY <1>3
  <2> HIDE DEF q
  <2> QED
    BY <1>1, <2>1, <2>2, ConsumerAlone
<1> QED
  BY <1>2, <1>3 DEF ReadBegin, ReadFile, ReadReturn

\* A new lease has the highest token there is.
LEMMA ConsumerAcquires ==
  ASSUME SpoolInv, NEW r \in SpoolReaders, NEW o \in Objects, Acquire(r, o)
  PROVE  SpoolInv'
<1> DEFINE k == lastToken + 1
           x == Leased(o, k)
           q == [ph |-> "held", o |-> o, tok |-> k]
<1>1. /\ lastToken \in Nat /\ k \in 0..MaxTokens /\ k > 0 /\ lastToken' = k /\ o \in handed /\ ~Locked(o)
      /\ obj[o].st \in {"STORED", "LEASED"}
  BY SpoolConsts DEF Acquire, Acquirable, SpoolInv, SpoolTypes
<1>2. /\ obj' = [obj EXCEPT ![o] = x] /\ reader' = [reader EXCEPT ![r] = q]
      /\ UNCHANGED <<disk, writer, maint, spoolFaults, handed, acked, damaged>>
  BY DEF Acquire
<1>3. q \in LeaseType /\ q.ph = "held" /\ q.o = o /\ q.tok = k
  BY <1>1 DEF LeaseType
<1> HIDE DEF q
<1>4. x \in ObjType /\ x.st = "LEASED" /\ x.tok = k
  BY <1>1, AttachmentHas DEF ObjType, Leased
<1> HIDE DEF x
<1>5. /\ disk' = [disk EXCEPT ![o] = disk[o]] /\ writer' = [writer EXCEPT ![o] = writer[o]]
      /\ disk[o] \in FileType /\ writer[o] \in WriterStates /\ ObjInv(o)
  BY <1>2, AttachmentHas
<1>6. /\ obj' \in [Objects -> ObjType] /\ disk' \in [Objects -> FileType] /\ writer' \in [Objects -> WriterStates]
      /\ handed' \subseteq Objects /\ acked' \subseteq Objects /\ damaged' \subseteq Objects
      /\ obj'[o] = x /\ \A v \in Objects : v # o => ObjInv(v)' /\ Steady(v) /\ RowKept(v)
  BY <1>2, <1>4, <1>5, ObjectMoves
<1>7. /\ reader' \in [SpoolReaders -> LeaseType] /\ reader'[r] = q
      /\ \A v \in SpoolReaders : v # r => reader'[v] = reader[v]
  BY <1>2, <1>3 DEF SpoolInv, SpoolTypes
<1>8. SpoolTypes'
  BY <1>1, <1>2, <1>6, <1>7 DEF SpoolInv, SpoolTypes
<1> HIDE DEF k
<1>9. ObjInv(o)'
  BY <1>1, <1>2, <1>4, <1>5, <1>6 DEF ObjInv, Going
<1>10. LeaseInv(r)'
  BY <1>1, <1>2, <1>3, <1>4, <1>6, <1>7 DEF LeaseInv
<1>11. ASSUME NEW v \in SpoolReaders, v # r PROVE LeaseInv(v)'
  <2>1. LeaseInv(v) /\ reader'[v] = reader[v] /\ reader[v] \in LeaseType /\ reader[v].tok \in Nat
    BY <1>7, <1>11, SpoolConsts DEF SpoolInv, SpoolTypes, LeaseType
  <2>2. reader[v].tok <= lastToken /\ reader[v].tok <= k /\ k \in Nat
    BY <2>1, <1>1 DEF LeaseInv, k
  <2>3. CASE reader[v].o = o
    <3>1. reader[v].ph \notin {"unlink", "finish"}
      BY <1>1, <2>1, <2>3 DEF LeaseInv, Going
    <3> QED
      BY <1>1, <1>2, <1>4, <1>6, <2>1, <2>2, <2>3, <3>1 DEF LeaseInv
  <2>4. CASE reader[v].o # o
    <3>1. reader[v].o \in Objects => obj'[reader[v].o] = obj[reader[v].o]
      BY <1>2, <2>4 DEF SpoolInv, SpoolTypes
    <3>2. reader[v].ph # "idle" => reader[v].o \in Objects
      BY <2>1 DEF LeaseInv, SpoolInv, SpoolTypes
    <3> QED
      BY <1>1, <1>2, <2>1, <2>2, <3>1, <3>2 DEF LeaseInv
  <2> QED
    BY <2>3, <2>4
<1>12. MaintInv'
  <2>1. CASE maint.step \in {"act", "commit"}
    <3>1. MaintInv /\ maint.o \in Objects
      BY <2>1 DEF SpoolInv, MaintInv
    <3>2. maint.o # o \/ maint.pass \in {"off", "finish"}
      <4>1. maint.pass \in {"off", "finish", "writing", "orphans", "stored", "pending", "purge"}
        BY DEF SpoolInv, SpoolTypes, MaintType
      <4> QED
        BY <2>1, <3>1, <4>1, <1>1 DEF MaintInv, Locked, Going
    <3>3. maint.o # o => obj'[maint.o] = obj[maint.o]
      BY <1>2, <3>1 DEF SpoolInv, SpoolTypes
    <3> QED
      BY <1>2, <2>1, <3>1, <3>2, <3>3 DEF MaintInv
  <2>2. CASE maint.step \notin {"act", "commit"}
    BY <1>2, <2>2 DEF MaintInv
  <2> QED
    BY <2>1, <2>2
<1>13. \A v \in Objects : ObjInv(v)'
  BY <1>6, <1>9
<1>14. \A v \in SpoolReaders : LeaseInv(v)'
  BY <1>10, <1>11
<1> QED
  BY <1>8, <1>12, <1>13, <1>14 DEF SpoolInv

LEMMA UnleasedRight ==
  ASSUME SpoolInv, NEW o \in Objects, obj[o].st = "LEASED"
  PROVE  Unleased(o) \in ObjType /\ Unleased(o).st = "STORED" /\ Unleased(o).tok = 0
<1>1. obj[o] \in ObjType /\ 0 \in 0..MaxTokens
  BY AttachmentHas, SpoolConsts
<1> QED
  BY <1>1 DEF ObjType, Unleased

\* A lease given up or reclaimed leaves the attachment STORED with its file.
LEMMA LeaseEnds ==
  ASSUME SpoolInv, NEW o \in Objects, obj[o].st = "LEASED", ~Locked(o), obj' = [obj EXCEPT ![o] = Unleased(o)],
         UNCHANGED <<disk, writer, handed, acked, damaged>>
  PROVE  ObjInv(o)' /\ Steady(o) /\ RowKept(o)
<1>1. obj'[o] = Unleased(o) /\ disk'[o] = disk[o] /\ writer'[o] = writer[o] /\ ObjInv(o)
  BY AttachmentHas, UnleasedRight DEF SpoolInv, SpoolTypes
<1>2. ObjInv(o)'
  BY <1>1, UnleasedRight DEF ObjInv, Going
<1> QED
  BY <1>1, <1>2, UnleasedRight DEF Steady, RowKept, Going

LEMMA LeaseReclaimed ==
  ASSUME SpoolInv, NEW o \in Objects, Reclaim(o)
  PROVE  SpoolInv'
<1>1. /\ obj[o].st = "LEASED" /\ ~Locked(o) /\ obj' = [obj EXCEPT ![o] = Unleased(o)]
      /\ UNCHANGED <<disk, writer, reader, maint, lastToken, spoolFaults, handed, acked, damaged>>
  BY DEF Reclaim
<1>2. ObjInv(o)' /\ Steady(o) /\ RowKept(o)
  BY <1>1, LeaseEnds
<1>3. /\ writer' = [writer EXCEPT ![o] = writer[o]] /\ writer[o] \in WriterStates
      /\ disk' = [disk EXCEPT ![o] = disk[o]] /\ disk[o] \in FileType /\ spoolFaults' \in Nat
  BY <1>1, AttachmentHas
<1> QED
  BY <1>1, <1>2, <1>3, UnleasedRight, AttachmentStep

LEMMA ConsumerReleases ==
  ASSUME SpoolInv, NEW r \in SpoolReaders, Release(r), NEW o, o = reader[r].o
  PROVE  SpoolInv'
<1>1. /\ reader[r].ph # "idle" /\ ~Locked(o) /\ reader' = [reader EXCEPT ![r] = NoLease]
      /\ obj' = (IF Owns(r) THEN [obj EXCEPT ![o] = Unleased(o)] ELSE obj)
      /\ UNCHANGED <<disk, writer, maint, lastToken, spoolFaults, handed, acked, damaged>>
  BY DEF Release
<1>2. o \in Objects /\ spoolFaults' \in Nat
  BY <1>1, ConsumerHas, AttachmentHas
<1>3. CASE ~Owns(r)
  BY <1>1, <1>2, <1>3, NoneTypes, ConsumerAlone
<1>4. CASE Owns(r)
  <2>1. obj[o].st = "LEASED" /\ obj' = [obj EXCEPT ![o] = Unleased(o)]
    BY <1>1, <1>4 DEF Owns
  <2>2. ObjInv(o)' /\ Steady(o) /\ RowKept(o)
    BY <1>1, <1>2, <2>1, LeaseEnds
  <2>3. reader'[r] = NoLease
    BY <1>1 DEF SpoolInv, SpoolTypes
  <2>4. LeaseInv(r)'
    BY <1>1, <2>3, NoneTypes, SpoolConsts DEF LeaseInv, SpoolInv, SpoolTypes
  <2>5. disk' = [disk EXCEPT ![o] = disk[o]] /\ disk[o] \in FileType
    BY <1>1, <1>2, AttachmentHas
  <2>6. Unleased(o) \in ObjType
    BY <1>2, <2>1, UnleasedRight
  <2> QED
    BY <1>1, <1>2, <2>1, <2>2, <2>4, <2>5, <2>6, NoneTypes, ConsumerStep
<1> QED
  BY <1>3, <1>4

LEMMA ConsumerAcknowledges ==
  ASSUME SpoolInv, NEW r \in SpoolReaders, Acknowledge(r), NEW o, o = reader[r].o
  PROVE  SpoolInv'
<1> DEFINE q == [reader[r] EXCEPT !.ph = "unlink"]
<1>1. /\ reader[r].ph # "idle" /\ ~Locked(o) /\ acked' = acked \union {o} /\ reader' = [reader EXCEPT ![r] = q]
      /\ UNCHANGED <<disk, writer, maint, lastToken, spoolFaults, handed, damaged>>
  BY DEF Acknowledge
<1>2. o \in Objects /\ o \in handed /\ writer[o] = "done" /\ LeaseInv(r) /\ ObjInv(o) /\ spoolFaults' \in Nat
  BY <1>1, ConsumerHas, AttachmentHas
<1>3. q \in LeaseType /\ q.ph = "unlink" /\ q.o = o /\ q.tok = reader[r].tok
  BY <1>1, ConsumerHas DEF LeaseType
<1>4. PICK x \in ObjType : obj' = [obj EXCEPT ![o] = x] /\ x.st = "DELETE_PENDING"
  <2>1. CASE obj' = [obj EXCEPT ![o].st = "DELETE_PENDING"]
    <3> DEFINE x == [obj[o] EXCEPT !.st = "DELETE_PENDING"]
    <3>1. x \in ObjType /\ x.st = "DELETE_PENDING"
      BY <1>2, AttachmentHas DEF ObjType
    <3>2. obj' = [obj EXCEPT ![o] = x]
      BY <2>1
    <3> QED
      BY <3>1, <3>2
  <2>2. CASE obj[o].st = "DELETE_PENDING" /\ UNCHANGED obj
    BY <1>2, <2>2, AttachmentHas
  <2> QED
    BY <2>1, <2>2 DEF Acknowledge
<1> HIDE DEF q
<1>5. obj'[o] = x /\ disk'[o] = disk[o] /\ writer'[o] = writer[o] /\ reader'[r] = q
  BY <1>1, <1>2, <1>4 DEF SpoolInv, SpoolTypes
<1>6. ObjInv(o)'
  BY <1>1, <1>2, <1>4, <1>5 DEF ObjInv, Going
<1>7. Steady(o) /\ RowKept(o)
  <2>1. obj[o].st # "NONE"
    BY DEF Acknowledge, Owns
  <2> QED
    BY <1>1, <1>2, <1>4, <1>5, <2>1 DEF Steady, RowKept, Going
<1>8. LeaseInv(r)'
  BY <1>1, <1>2, <1>3, <1>4, <1>5 DEF LeaseInv, Going
<1>9. disk' = [disk EXCEPT ![o] = disk[o]] /\ disk[o] \in FileType
  BY <1>1, <1>2, AttachmentHas
<1> QED
  BY <1>1, <1>2, <1>3, <1>4, <1>6, <1>7, <1>8, <1>9, ConsumerStep

\* A file unlinked, or refused by the disk.
LEMMA UnlinkedRight ==
  ASSUME SpoolInv, NEW o \in Objects, NEW file \in {"tmp", "bin"}, Unlinked(o, file)
  PROVE  /\ spoolFaults' \in Nat
         /\ \E f \in FileType : /\ disk' = [disk EXCEPT ![o] = f] /\ f.tmp \in {disk[o].tmp, "none"}
                                /\ f.bin \in {disk[o].bin, "none"}
<1>t. disk[o] \in FileType /\ disk = [disk EXCEPT ![o] = disk[o]] /\ spoolFaults \in Nat
  BY AttachmentHas
<1>1. spoolFaults' \in Nat
  BY <1>t, FaultCounted DEF Unlinked
<1>2. CASE UNCHANGED disk
  BY <1>1, <1>2, <1>t
<1>3. CASE disk' = [disk EXCEPT ![o].bin = "none"]
  <2> DEFINE f == [disk[o] EXCEPT !.bin = "none"]
  <2>1. f \in FileType /\ f.tmp = disk[o].tmp /\ f.bin = "none"
    BY <1>t DEF FileType
  <2>2. disk' = [disk EXCEPT ![o] = f]
    BY <1>3
  <2> QED
    BY <1>1, <2>1, <2>2
<1>4. CASE disk' = [disk EXCEPT ![o].tmp = "none"]
  <2> DEFINE f == [disk[o] EXCEPT !.tmp = "none"]
  <2>1. f \in FileType /\ f.bin = disk[o].bin /\ f.tmp = "none"
    BY <1>t DEF FileType
  <2>2. disk' = [disk EXCEPT ![o] = f]
    BY <1>4
  <2> QED
    BY <1>1, <2>1, <2>2
<1>5. CASE file = "bin" /\ disk' = [disk EXCEPT ![o][file] = "none"]
  BY <1>3, <1>5
<1>6. CASE file = "tmp" /\ disk' = [disk EXCEPT ![o][file] = "none"]
  BY <1>4, <1>6
<1> QED
  BY <1>2, <1>5, <1>6 DEF Unlinked

LEMMA ConsumerUnlinks ==
  ASSUME SpoolInv, NEW r \in SpoolReaders, AckUnlink(r), NEW o, o = reader[r].o
  PROVE  SpoolInv'
<1>1. /\ reader[r].ph = "unlink" /\ Unlinked(o, "bin")
      /\ reader' = [reader EXCEPT ![r].ph = IF UnlinkSucceeded(o) THEN "finish" ELSE "held"]
      /\ UNCHANGED <<obj, writer, maint, lastToken, handed, acked, damaged>>
  BY DEF AckUnlink
<1>2. /\ o \in Objects /\ o \in handed /\ writer[o] = "done" /\ LeaseInv(r) /\ ObjInv(o)
      /\ reader[r] \in LeaseType /\ obj[o].st \in Going
  BY <1>1, ConsumerHas DEF LeaseInv
<1>3. PICK f \in FileType : disk' = [disk EXCEPT ![o] = f] /\ f.tmp \in {disk[o].tmp, "none"} /\ f.bin \in {disk[o].bin, "none"}
  BY <1>1, <1>2, UnlinkedRight
<1>4. spoolFaults' \in Nat
  BY <1>1, <1>2, UnlinkedRight
<1>5. obj'[o] = obj[o] /\ disk'[o] = f /\ writer'[o] = writer[o]
  BY <1>1, <1>2, <1>3 DEF SpoolInv, SpoolTypes
<1> DEFINE p == IF f.bin = "none" THEN "finish" ELSE "held"
           q == [reader[r] EXCEPT !.ph = p]
<1>6. reader' = [reader EXCEPT ![r] = q]
  BY <1>1, <1>5 DEF UnlinkSucceeded
<1>7. q \in LeaseType /\ q.o = o /\ q.tok = reader[r].tok /\ q.ph = p
  BY <1>2 DEF LeaseType
<1> HIDE DEF q
<1>8. reader'[r] = q
  BY <1>6, <1>2 DEF SpoolInv, SpoolTypes
<1>9. ObjInv(o)'
  BY <1>1, <1>2, <1>3, <1>5 DEF ObjInv, Going
<1>10. Steady(o) /\ RowKept(o)
  BY <1>1, <1>2, <1>3, <1>5 DEF Steady, RowKept
<1>11. LeaseInv(r)'
  <2>1. reader'[r].ph \in {"finish", "held"} /\ (reader'[r].ph = "finish" => disk'[o].bin = "none")
    BY <1>5, <1>7, <1>8
  <2>2. reader'[r].o = o /\ reader'[r].tok = reader[r].tok /\ obj'[o].st = obj[o].st
    BY <1>5, <1>7, <1>8
  <2>3. obj[o].st # "LEASED" /\ reader[r].tok <= lastToken
    BY <1>2 DEF Going, LeaseInv
  <2> QED
    BY <1>1, <1>2, <2>1, <2>2, <2>3 DEF LeaseInv
<1>12. obj' = [obj EXCEPT ![o] = obj[o]] /\ obj[o] \in ObjType
  BY <1>1, <1>2, AttachmentHas
<1> QED
  BY <1>1, <1>2, <1>3, <1>4, <1>6, <1>7, <1>9, <1>10, <1>11, <1>12, ConsumerStep

\* The row that FinalizeRow leaves: gone, or not DELETE_PENDING and left alone.
LEMMA FinalizedRow ==
  ASSUME SpoolInv, NEW o \in Objects, obj' = FinalizeRow(o), ~Locked(o) \/ maint.pass \in {"pending", "purge"},
         writer[o] # "new", obj[o].st \in Going, o \in handed => disk[o].bin = "none",
         UNCHANGED <<disk, writer, handed, acked, damaged>>
  PROVE  /\ ObjInv(o)' /\ Steady(o) /\ RowKept(o)
         /\ \E x \in ObjType : obj' = [obj EXCEPT ![o] = x] /\ x.st = "NONE"
<1>1. PICK x \in ObjType : obj' = [obj EXCEPT ![o] = x] /\ x.st = "NONE" /\ x.tok = 0
  <2>1. CASE obj[o].st = "DELETE_PENDING"
    BY <2>1, NoneTypes DEF FinalizeRow
  <2>2. CASE obj[o].st = "NONE"
    BY <2>2, AttachmentHas DEF FinalizeRow, ObjInv
  <2> QED
    BY <2>1, <2>2 DEF Going
<1>2. obj'[o] = x /\ disk'[o] = disk[o] /\ writer'[o] = writer[o] /\ ObjInv(o)
  BY <1>1, AttachmentHas DEF SpoolInv, SpoolTypes
<1>3. ObjInv(o)'
  BY <1>1, <1>2 DEF ObjInv, Going
<1>4. Steady(o) /\ RowKept(o)
  BY <1>1, <1>2 DEF Steady, RowKept, Going, Locked
<1> QED
  BY <1>1, <1>3, <1>4

LEMMA ConsumerFinishes ==
  ASSUME SpoolInv, NEW r \in SpoolReaders, AckFinish(r), NEW o, o = reader[r].o
  PROVE  SpoolInv'
<1>1. /\ reader[r].ph = "finish" /\ ~Locked(o) /\ obj' = FinalizeRow(o) /\ reader' = [reader EXCEPT ![r] = NoLease]
      /\ UNCHANGED <<disk, writer, maint, lastToken, spoolFaults, handed, acked, damaged>>
  BY DEF AckFinish
<1>2. o \in Objects /\ writer[o] = "done" /\ obj[o].st \in Going /\ disk[o].bin = "none"
  BY <1>1, ConsumerHas DEF LeaseInv
<1>3. ObjInv(o)' /\ Steady(o) /\ RowKept(o)
  BY <1>1, <1>2, FinalizedRow
<1>4. PICK x \in ObjType : obj' = [obj EXCEPT ![o] = x]
  BY <1>1, <1>2, FinalizedRow
<1>5. reader'[r] = NoLease
  BY <1>1 DEF SpoolInv, SpoolTypes
<1>6. LeaseInv(r)'
  BY <1>1, <1>5, NoneTypes, SpoolConsts DEF LeaseInv, SpoolInv, SpoolTypes
<1>7. disk' = [disk EXCEPT ![o] = disk[o]] /\ disk[o] \in FileType /\ spoolFaults' \in Nat
  BY <1>1, <1>2, AttachmentHas
<1> QED
  BY <1>1, <1>2, <1>3, <1>4, <1>6, <1>7, NoneTypes, ConsumerStep

-----------------------------------------------------------------------------
\* A step of the maintenance cycle on the attachment it has taken.
LEMMA CycleStep ==
  ASSUME SpoolInv, maint' \in MaintType, MaintInv',
         NEW o \in Objects, NEW x \in ObjType, NEW f \in FileType,
         obj' = [obj EXCEPT ![o] = x], disk' = [disk EXCEPT ![o] = f],
         UNCHANGED <<writer, reader, lastToken, handed, acked, damaged>>, spoolFaults' \in Nat, ObjInv(o)', Steady(o)
  PROVE  SpoolInv'
<1>0. writer' = [writer EXCEPT ![o] = writer[o]] /\ writer[o] \in WriterStates
  BY AttachmentHas
<1>1. /\ obj' \in [Objects -> ObjType] /\ disk' \in [Objects -> FileType] /\ writer' \in [Objects -> WriterStates]
      /\ handed' \subseteq Objects /\ acked' \subseteq Objects /\ damaged' \subseteq Objects
      /\ \A v \in Objects : v # o => ObjInv(v)' /\ Steady(v)
  BY <1>0, ObjectMoves
<1>2. SpoolTypes'
  BY <1>1 DEF SpoolInv, SpoolTypes
<1>3. \A v \in Objects : ObjInv(v)' /\ Steady(v)
  BY <1>1
<1>4. \A r \in SpoolReaders : LeaseInv(r)'
  BY <1>3, LeaseStays
<1> QED
  BY <1>2, <1>3, <1>4 DEF SpoolInv

\* A step of the cycle alone.
LEMMA CycleAlone ==
  ASSUME SpoolInv, maint' \in MaintType, MaintInv', spoolFaults' \in Nat,
         UNCHANGED <<obj, disk, writer, reader, lastToken, handed, acked, damaged>>
  PROVE  SpoolInv'
<1>1. SpoolTypes'
  BY DEF SpoolInv, SpoolTypes
<1>2. \A o \in Objects : ObjInv(o)'
  BY DEF SpoolInv, ObjInv
<1>3. \A r \in SpoolReaders : LeaseInv(r)'
  BY DEF SpoolInv, LeaseInv
<1> QED
  BY <1>1, <1>2, <1>3 DEF SpoolInv

LEMMA PassDomain == DOMAIN PassAfter = {"writing", "orphans", "stored", "pending", "purge"}
  BY DEF PassAfter

LEMMA PassDoneRight ==
  ASSUME SpoolInv, maint.pass \in DOMAIN PassAfter
  PROVE  PassDone \in MaintType /\ PassDone.step = "pick" /\ PassDone.o = NoObject
<1> DEFINE p == PassAfter[maint.pass]
<1>1. p \in {"finish", "orphans", "stored", "pending", "purge"}
  BY PassDomain DEF PassAfter
<1>2. maint \in MaintType
  BY DEF SpoolInv, SpoolTypes
<1>3. PassDone = [maint EXCEPT !.pass = p, !.step = "pick", !.o = NoObject, !.seen = "none"]
  BY DEF PassDone
<1> HIDE DEF p
<1> QED
  BY <1>1, <1>2, <1>3 DEF MaintType

\* The cycle leaves a pass.
LEMMA PassLeft == SpoolInv /\ maint.pass \in DOMAIN PassAfter /\ maint' = PassDone => maint' \in MaintType /\ MaintInv'
  BY PassDoneRight DEF MaintInv

LEMMA CycleTurns ==
  ASSUME SpoolInv, CycleBegin \/ PassEmpty \/ CycleEnd \/ PassRaises \/ MaintCrash
  PROVE  SpoolInv'
<1>t. /\ UNCHANGED <<obj, disk, writer, reader, lastToken, handed, acked, damaged>> /\ spoolFaults' \in Nat
  BY FaultCounted DEF CycleBegin, PassEmpty, CycleEnd, PassRaises, MaintCrash, SpoolInv, SpoolTypes
<1>1. ASSUME NEW m \in MaintType, m.step = "pick", maint' = m PROVE SpoolInv'
  BY <1>1, <1>t, CycleAlone DEF MaintInv
<1>2. CASE CycleBegin
  <2> DEFINE m == [MaintOff EXCEPT !.pass = "writing"]
  <2>1. m \in MaintType /\ m.step = "pick"
    BY NoneTypes DEF MaintType
  <2>2. maint' = m
    BY <1>2 DEF CycleBegin
  <2> HIDE DEF m
  <2> QED
    BY <1>1, <2>1, <2>2
<1>3. CASE PassEmpty
  BY <1>1, <1>3, PassDoneRight DEF PassEmpty
<1>4. CASE CycleEnd
  <2> DEFINE c == CycleStatus
             m == [MaintOff EXCEPT !.last = c]
  <2>1. c \in {"SUCCESS", "FAILED", "PARTIAL"}
    BY DEF CycleStatus
  <2>2. maint' = m
    BY <1>4 DEF CycleEnd
  <2> HIDE DEF c
  <2>3. m \in MaintType /\ m.step = "pick"
    BY <2>1, NoneTypes DEF MaintType
  <2> HIDE DEF m
  <2> QED
    BY <1>1, <2>2, <2>3
<1>5. CASE PassRaises
  <2>1. PassDone \in MaintType /\ PassDone.step = "pick"
    BY <1>5, PassDoneRight DEF PassRaises
  <2>2. ASSUME NEW k \in MaintType, k.step = "pick"
        PROVE  /\ [k EXCEPT !.pur = "error"] \in MaintType /\ [k EXCEPT !.pur = "error"].step = "pick"
               /\ [k EXCEPT !.pass = "purge", !.rec = "error"] \in MaintType
               /\ [k EXCEPT !.pass = "purge", !.rec = "error"].step = "pick"
    BY <2>2 DEF MaintType
  <2>3. maint' \in {[PassDone EXCEPT !.pur = "error"], [PassDone EXCEPT !.pass = "purge", !.rec = "error"]}
    BY <1>5 DEF PassRaises
  <2> QED
    BY <1>1, <2>1, <2>2, <2>3
<1>6. CASE MaintCrash
  BY <1>1, <1>6, NoneTypes DEF MaintCrash
<1> QED
  BY <1>2, <1>3, <1>4, <1>5, <1>6

\* The cycle at work on an attachment.
LEMMA CycleHas ==
  ASSUME SpoolInv, maint.step \in {"act", "commit"}
  PROVE  /\ maint \in MaintType /\ MaintInv /\ maint.o \in Objects /\ ObjInv(maint.o) /\ writer[maint.o] # "new"
  BY DEF SpoolInv, SpoolTypes, MaintInv

\* A pass that goes on to its commit.
LEMMA StepCommits ==
  ASSUME NEW m \in MaintType
  PROVE  /\ [m EXCEPT !.step = "commit"] \in MaintType /\ [m EXCEPT !.step = "commit"].step = "commit"
         /\ [m EXCEPT !.step = "commit"].pass = m.pass /\ [m EXCEPT !.step = "commit"].o = m.o
         /\ [m EXCEPT !.step = "commit"].seen = m.seen
  BY DEF MaintType

\* A pass takes an attachment; purge turns the row DELETE_PENDING.
LEMMA CyclePicks ==
  ASSUME SpoolInv, NEW o \in Objects, PassPick(o)
  PROVE  SpoolInv'
<1>t. /\ maint \in MaintType /\ maint.pass \in DOMAIN PassAfter /\ disk[o] \in FileType /\ obj[o] \in ObjType /\ ObjInv(o)
      /\ UNCHANGED <<disk, writer, reader, lastToken, spoolFaults, handed, acked, damaged>> /\ spoolFaults' \in Nat
  BY AttachmentHas DEF PassPick, SpoolInv, SpoolTypes
<1>c. o \in SweepCandidates(maint.pass)
  BY DEF PassPick
<1>1. CASE maint.pass = "orphans" /\ HasRow(o)
  BY <1>1, <1>t, PassLeft, CycleAlone DEF PassPick
<1> DEFINE m == [maint EXCEPT !.step = "act", !.o = o, !.seen = Inspect(o)]
<1>m. m \in MaintType /\ m.pass = maint.pass /\ m.step = "act" /\ m.o = o /\ m.seen = disk[o].bin
  <2>1. Inspect(o) \in {"none", "ok", "bad"} /\ Inspect(o) = disk[o].bin
    BY <1>t DEF Inspect, FileType
  <2> QED
    BY <1>t, <2>1 DEF MaintType
<1> HIDE DEF m
<1>2. CASE ~(maint.pass = "orphans" /\ HasRow(o)) /\ maint.pass # "purge"
  <2>1. maint' = m /\ UNCHANGED obj
    BY <1>2 DEF PassPick, m
  <2>2. writer[o] # "new" /\ MaintInv'
    <3>1. CASE maint.pass = "writing"
      <4>1. obj[o].st = "WRITING"
        BY <1>c, <3>1 DEF SweepCandidates, StaleWriting
      <4> QED
        BY <1>t, <1>m, <2>1, <3>1, <4>1 DEF MaintInv, ObjInv
    <3>2. CASE maint.pass = "orphans"
      <4>1. obj[o].st = "NONE" /\ (disk[o].tmp # "none" \/ disk[o].bin # "none")
        BY <1>2, <1>c, <3>2 DEF SweepCandidates, OrphanFile, HasRow
      <4> QED
        BY <1>t, <1>m, <2>1, <3>2, <4>1 DEF MaintInv, ObjInv
    <3>3. CASE maint.pass = "stored"
      <4>1. obj[o].st = "STORED"
        BY <1>c, <3>3 DEF SweepCandidates
      <4> QED
        BY <1>t, <1>m, <2>1, <3>3, <4>1 DEF MaintInv, ObjInv
    <3>4. CASE maint.pass = "pending"
      <4>1. obj[o].st = "DELETE_PENDING"
        BY <1>c, <3>4 DEF SweepCandidates
      <4> QED
        BY <1>t, <1>m, <2>1, <3>4, <4>1 DEF MaintInv, ObjInv, Going
    <3> QED
      BY <1>2, <1>t, <3>1, <3>2, <3>3, <3>4, PassDomain
  <2>3. maint' \in MaintType
    BY <1>m, <2>1
  <2> QED
    BY <1>t, <2>1, <2>2, <2>3, CycleAlone
<1>3. CASE maint.pass = "purge"
  <2> DEFINE x == [obj[o] EXCEPT !.st = "DELETE_PENDING", !.tok = 0, !.lapsed = FALSE]
  <2>1. maint' = m /\ obj' = [obj EXCEPT ![o] = x]
    BY <1>3 DEF PassPick, m
  <2>2. x \in ObjType /\ x.st = "DELETE_PENDING" /\ x.tok = 0
    <3>1. 0 \in 0..MaxTokens
      BY SpoolConsts
    <3> QED
      BY <1>t, <3>1 DEF ObjType
  <2> HIDE DEF x
  <2>3. obj'[o] = x /\ disk'[o] = disk[o] /\ writer'[o] = writer[o]
    BY <1>t, <2>1 DEF SpoolInv, SpoolTypes
  <2>4. obj[o].st \in {"STORED", "LEASED"} /\ writer[o] # "new"
    BY <1>c, <1>t, <1>3 DEF SweepCandidates, Purgeable, ObjInv
  <2>5. ObjInv(o)'
    BY <1>t, <2>2, <2>3, <2>4 DEF ObjInv, Going
  <2>6. Steady(o)
    BY <1>t, <2>2, <2>3, <2>4 DEF Steady, Going
  <2>7. MaintInv' /\ maint' \in MaintType
    BY <1>t, <1>m, <1>3, <2>1, <2>2, <2>3, <2>4 DEF MaintInv, Going
  <2>8. disk' = [disk EXCEPT ![o] = disk[o]]
    BY <1>t, AttachmentHas
  <2> QED
    BY <1>t, <2>1, <2>2, <2>5, <2>6, <2>7, <2>8, CycleStep
<1> QED
  BY <1>1, <1>2, <1>3

\* A pass that unlinks from an attachment no consumer can ask for, or whose file is damaged.
LEMMA CycleUnlinks ==
  ASSUME SpoolInv, NEW o, o = maint.o, maint.step = "act", NEW f \in FileType, disk' = [disk EXCEPT ![o] = f],
         f.bin \in {disk[o].bin, "none"},
         o \in handed \ damaged /\ obj[o].st \in {"STORED", "LEASED"} => f.bin = disk[o].bin,
         UNCHANGED <<obj, writer, reader, lastToken, handed, acked, damaged>>, spoolFaults' \in Nat,
         \/ maint.pass \in DOMAIN PassAfter /\ maint' = PassDone
         \/ /\ maint' = [maint EXCEPT !.step = "commit"] /\ maint.pass \in {"writing", "stored", "pending", "purge"}
            /\ maint.pass # "writing" => f.bin = "none"
            /\ maint.pass = "stored" => maint.seen # "ok"
  PROVE  SpoolInv'
<1>1. maint \in MaintType /\ MaintInv /\ o \in Objects /\ ObjInv(o) /\ writer[o] # "new"
  BY CycleHas
<1>2. obj'[o] = obj[o] /\ disk'[o] = f /\ writer'[o] = writer[o]
  BY <1>1 DEF SpoolInv, SpoolTypes
<1>3. ObjInv(o)'
  BY <1>1, <1>2 DEF ObjInv
<1>4. Steady(o)
  BY <1>1, <1>2 DEF Steady
<1>5. maint' \in MaintType /\ MaintInv'
  <2>1. CASE maint.pass \in DOMAIN PassAfter /\ maint' = PassDone
    BY <2>1, PassLeft
  <2>2. CASE /\ maint' = [maint EXCEPT !.step = "commit"] /\ maint.pass \in {"writing", "stored", "pending", "purge"}
             /\ maint.pass # "writing" => f.bin = "none"
             /\ maint.pass = "stored" => maint.seen # "ok"
    <3>1. /\ maint' \in MaintType /\ maint'.step = "commit" /\ maint'.pass = maint.pass /\ maint'.o = o
          /\ maint'.seen = maint.seen
      BY <1>1, <2>2, StepCommits
    <3>2. CASE maint.pass = "writing"
      BY <1>1, <1>2, <2>2, <3>1, <3>2 DEF MaintInv
    <3>3. CASE maint.pass = "stored"
      BY <1>1, <1>2, <2>2, <3>1, <3>3 DEF MaintInv
    <3>4. CASE maint.pass \in {"pending", "purge"}
      BY <1>1, <1>2, <2>2, <3>1, <3>4 DEF MaintInv
    <3> QED
      BY <2>2, <3>1, <3>2, <3>3, <3>4
  <2> QED
    BY <2>1, <2>2
<1>6. obj' = [obj EXCEPT ![o] = obj[o]] /\ obj[o] \in ObjType
  BY <1>1, AttachmentHas
<1> QED
  BY <1>1, <1>3, <1>4, <1>5, <1>6, CycleStep

\* A pass that deletes the row it holds; a row that was handed out has lost its file before.
LEMMA CycleDeletes ==
  ASSUME SpoolInv, NEW o, o = maint.o, RowPassCommit
  PROVE  SpoolInv'
<1>1. /\ maint.pass \in {"writing", "stored"} /\ maint.step = "commit" /\ obj' = [obj EXCEPT ![o] = NoRow] /\ maint' = PassDone
      /\ UNCHANGED <<disk, writer, reader, lastToken, spoolFaults, handed, acked, damaged>>
  BY DEF RowPassCommit
<1>2. MaintInv /\ o \in Objects /\ ObjInv(o) /\ writer[o] # "new"
  BY <1>1, CycleHas
<1>3. obj[o].st \in {"WRITING", "STORED"} /\ (o \in handed => disk[o].bin = "none")
  BY <1>1, <1>2 DEF MaintInv, ObjInv
<1>4. obj'[o] = NoRow /\ disk'[o] = disk[o] /\ writer'[o] = writer[o]
  BY <1>1, <1>2 DEF SpoolInv, SpoolTypes
<1>5. ObjInv(o)'
  BY <1>1, <1>2, <1>3, <1>4, NoneTypes DEF ObjInv, Going
<1>6. Steady(o)
  BY <1>1, <1>2, <1>3, <1>4, NoneTypes DEF Steady, Going
<1>7. disk' = [disk EXCEPT ![o] = disk[o]] /\ disk[o] \in FileType /\ spoolFaults' \in Nat
  BY <1>1, <1>2, AttachmentHas
<1>8. maint' \in MaintType /\ MaintInv'
  BY <1>1, PassLeft, PassDomain
<1> QED
  BY <1>1, <1>2, <1>5, <1>6, <1>7, <1>8, NoneTypes, CycleStep

LEMMA CycleFinalizes ==
  ASSUME SpoolInv, NEW o, o = maint.o, FinalizeCommit
  PROVE  SpoolInv'
<1>1. /\ maint.pass \in {"pending", "purge"} /\ maint.step = "commit" /\ obj' = FinalizeRow(o) /\ maint' = PassDone
      /\ UNCHANGED <<disk, writer, reader, lastToken, spoolFaults, handed, acked, damaged>>
  BY DEF FinalizeCommit
<1>2. o \in Objects /\ writer[o] # "new" /\ obj[o].st \in Going /\ (o \in handed => disk[o].bin = "none")
  BY <1>1, CycleHas DEF MaintInv
<1>3. ObjInv(o)' /\ Steady(o)
  BY <1>1, <1>2, FinalizedRow
<1>4. PICK x \in ObjType : obj' = [obj EXCEPT ![o] = x]
  BY <1>1, <1>2, FinalizedRow
<1>5. disk' = [disk EXCEPT ![o] = disk[o]] /\ disk[o] \in FileType /\ spoolFaults' \in Nat
  BY <1>1, <1>2, AttachmentHas
<1>6. maint' \in MaintType /\ MaintInv'
  BY <1>1, PassLeft, PassDomain
<1> QED
  BY <1>1, <1>2, <1>3, <1>4, <1>5, <1>6, CycleStep

LEMMA CycleFinalizeUnlinks ==
  ASSUME SpoolInv, NEW o, o = maint.o, FinalizeUnlink
  PROVE  SpoolInv'
<1>1. /\ maint.pass \in {"pending", "purge"} /\ maint.step = "act" /\ Unlinked(o, "bin")
      /\ maint' = (IF UnlinkSucceeded(o) THEN [maint EXCEPT !.step = "commit"] ELSE PassDone)
      /\ UNCHANGED <<obj, writer, reader, lastToken, handed, acked, damaged>>
  BY DEF FinalizeUnlink
<1>2. o \in Objects /\ obj[o].st \in Going
  BY <1>1, CycleHas DEF MaintInv
<1>3. PICK f \in FileType : disk' = [disk EXCEPT ![o] = f] /\ f.bin \in {disk[o].bin, "none"}
  BY <1>1, <1>2, UnlinkedRight
<1>4. spoolFaults' \in Nat
  BY <1>1, <1>2, UnlinkedRight
<1>5. disk'[o] = f
  BY <1>2, <1>3 DEF SpoolInv, SpoolTypes
<1>6. \/ maint' = PassDone /\ maint.pass \in DOMAIN PassAfter
      \/ maint' = [maint EXCEPT !.step = "commit"] /\ f.bin = "none"
  BY <1>1, <1>5, PassDomain DEF UnlinkSucceeded
<1>7. obj[o].st \notin {"STORED", "LEASED"} /\ maint.pass \notin {"writing", "stored"}
  BY <1>1, <1>2 DEF Going
<1> QED
  BY <1>1, <1>3, <1>4, <1>6, <1>7, CycleUnlinks

LEMMA CycleOrphans ==
  ASSUME SpoolInv, NEW o, o = maint.o, OrphanAct
  PROVE  SpoolInv'
<1>1. /\ maint.pass = "orphans" /\ maint.step = "act" /\ maint' = PassDone
      /\ UNCHANGED <<obj, writer, reader, lastToken, handed, acked, damaged>>
  BY DEF OrphanAct
<1>2. PICK file \in {"tmp", "bin"} : Unlinked(o, file)
  BY DEF OrphanAct
<1>3. o \in Objects /\ obj[o].st = "NONE"
  BY <1>1, CycleHas DEF MaintInv
<1>4. PICK f \in FileType : disk' = [disk EXCEPT ![o] = f] /\ f.bin \in {disk[o].bin, "none"}
  BY <1>2, <1>3, UnlinkedRight
<1>5. spoolFaults' \in Nat
  BY <1>2, <1>3, UnlinkedRight
<1> QED
  BY <1>1, <1>3, <1>4, <1>5, PassDomain, CycleUnlinks

LEMMA CycleStored ==
  ASSUME SpoolInv, NEW o, o = maint.o, StoredAct
  PROVE  SpoolInv'
<1>1. maint.pass = "stored" /\ maint.step = "act" /\ UNCHANGED <<obj, writer, reader, lastToken, handed, acked, damaged>>
  BY DEF StoredAct
<1>2. /\ maint \in MaintType /\ MaintInv /\ o \in Objects /\ obj[o].st = "STORED" /\ (o \in handed \ damaged => maint.seen = "ok")
      /\ (o \in handed /\ maint.seen = "none" => disk[o].bin = "none") /\ writer[o] # "new" /\ spoolFaults \in Nat
  BY <1>1, CycleHas, AttachmentHas DEF MaintInv
<1>3. CASE maint.seen = "ok" /\ maint' = PassDone /\ UNCHANGED <<disk, spoolFaults>>
  BY <1>1, <1>2, <1>3, PassLeft, PassDomain, CycleAlone
<1>4. CASE maint.seen = "none" /\ maint' = [maint EXCEPT !.step = "commit"] /\ UNCHANGED <<disk, spoolFaults>>
  <2>1. /\ maint' \in MaintType /\ maint'.step = "commit" /\ maint'.pass = maint.pass /\ maint'.o = o
        /\ maint'.seen = maint.seen
    BY <1>2, <1>4, StepCommits
  <2>2. MaintInv'
    BY <1>1, <1>2, <1>4, <2>1 DEF MaintInv
  <2> QED
    BY <1>1, <1>2, <1>4, <2>1, <2>2, CycleAlone
<1>5. CASE /\ maint.seen = "bad" /\ Unlinked(o, "bin")
           /\ maint' = IF UnlinkSucceeded(o) THEN [maint EXCEPT !.step = "commit"] ELSE PassDone
  <2>1. PICK f \in FileType : disk' = [disk EXCEPT ![o] = f] /\ f.bin \in {disk[o].bin, "none"}
    BY <1>2, <1>5, UnlinkedRight
  <2>2. spoolFaults' \in Nat
    BY <1>2, <1>5, UnlinkedRight
  <2>3. disk'[o] = f
    BY <1>2, <2>1 DEF SpoolInv, SpoolTypes
  <2>4. \/ maint' = PassDone /\ maint.pass \in DOMAIN PassAfter
        \/ maint' = [maint EXCEPT !.step = "commit"] /\ f.bin = "none"
    BY <1>1, <1>5, <2>3, PassDomain DEF UnlinkSucceeded
  <2>5. o \notin handed \ damaged
    BY <1>2, <1>5
  <2> QED
    BY <1>1, <1>5, <2>1, <2>2, <2>4, <2>5, CycleUnlinks
<1> QED
  BY <1>3, <1>4, <1>5 DEF StoredAct

\* The first pass has only rows that nobody was given: it promotes one or clears its files away.
LEMMA CycleWriting ==
  ASSUME SpoolInv, NEW o, o = maint.o, WritingAct
  PROVE  SpoolInv'
<1>1. maint.pass = "writing" /\ maint.step = "act" /\ UNCHANGED <<writer, reader, lastToken, handed, acked, damaged>>
  BY DEF WritingAct
<1>2. /\ maint \in MaintType /\ MaintInv /\ o \in Objects /\ obj[o].st = "WRITING" /\ ObjInv(o) /\ writer[o] # "new"
      /\ spoolFaults \in Nat /\ disk[o] \in FileType /\ obj[o] \in ObjType
  BY <1>1, CycleHas, AttachmentHas DEF MaintInv
<1>3. o \notin handed /\ o \notin acked
  BY <1>2 DEF ObjInv
<1>4. CASE /\ obj' = [obj EXCEPT ![o].st = "STORED"] /\ disk' = [disk EXCEPT ![o].tmp = "none"]
           /\ maint' = PassDone /\ UNCHANGED spoolFaults
  <2> DEFINE x == [obj[o] EXCEPT !.st = "STORED"]
             f == [disk[o] EXCEPT !.tmp = "none"]
  <2>1. x \in ObjType /\ x.st = "STORED" /\ x.tok = obj[o].tok
    BY <1>2 DEF ObjType
  <2>2. f \in FileType
    BY <1>2 DEF FileType
  <2>3. obj' = [obj EXCEPT ![o] = x] /\ disk' = [disk EXCEPT ![o] = f]
    BY <1>4
  <2> HIDE DEF x, f
  <2>4. obj'[o] = x /\ disk'[o] = f /\ writer'[o] = writer[o]
    BY <1>1, <1>2, <2>3 DEF SpoolInv, SpoolTypes
  <2>5. ObjInv(o)'
    BY <1>1, <1>2, <1>3, <2>1, <2>4 DEF ObjInv
  <2>6. Steady(o)
    BY <1>1, <1>2, <1>3, <2>1, <2>4 DEF Steady, Going
  <2>7. maint' \in MaintType /\ MaintInv'
    BY <1>1, <1>4, PassLeft, PassDomain
  <2> QED
    BY <1>1, <1>2, <1>4, <2>1, <2>2, <2>3, <2>5, <2>6, <2>7, CycleStep
<1>5. ASSUME NEW f \in FileType, disk' = [disk EXCEPT ![o] = f], f.bin \in {disk[o].bin, "none"}, spoolFaults' \in Nat, UNCHANGED obj,
             maint' = PassDone \/ maint' = [maint EXCEPT !.step = "commit"]
      PROVE  SpoolInv'
  BY <1>1, <1>3, <1>5, PassDomain, CycleUnlinks
<1>6. CASE /\ disk' = [disk EXCEPT ![o].tmp = "none", ![o].bin = IF maint.seen = "bad" THEN "none" ELSE @]
           /\ maint' = [maint EXCEPT !.step = "commit"] /\ UNCHANGED <<obj, spoolFaults>>
  <2> DEFINE b == IF maint.seen = "bad" THEN "none" ELSE disk[o].bin
             f == [disk[o] EXCEPT !.tmp = "none", !.bin = b]
  <2>1. b \in {"none", disk[o].bin} /\ b \in {"none", "ok", "bad"}
    BY <1>2 DEF FileType
  <2>2. disk' = [disk EXCEPT ![o] = f]
    BY <1>2, <1>6 DEF SpoolInv, SpoolTypes
  <2> HIDE DEF b
  <2>3. f \in FileType /\ f.bin = b
    BY <1>2, <2>1 DEF FileType
  <2> HIDE DEF f
  <2> QED
    BY <1>2, <1>5, <1>6, <2>1, <2>2, <2>3
<1>7. CASE /\ SpoolFault /\ maint' = PassDone /\ UNCHANGED obj
           /\ disk' \in {disk, [disk EXCEPT ![o].bin = IF maint.seen = "bad" THEN "none" ELSE @]}
  <2> DEFINE b == IF maint.seen = "bad" THEN "none" ELSE disk[o].bin
             f == [disk[o] EXCEPT !.bin = b]
  <2>1. b \in {"none", disk[o].bin} /\ b \in {"none", "ok", "bad"}
    BY <1>2 DEF FileType
  <2>2. disk' = [disk EXCEPT ![o] = f] \/ disk' = [disk EXCEPT ![o] = disk[o]]
    BY <1>2, <1>7, AttachmentHas
  <2> HIDE DEF b
  <2>3. f \in FileType /\ f.bin = b
    BY <1>2, <2>1 DEF FileType
  <2> HIDE DEF f
  <2>4. spoolFaults' \in Nat
    BY <1>7, FaultCounted
  <2> QED
    BY <1>2, <1>5, <1>7, <2>1, <2>2, <2>3, <2>4
<1> QED
  BY <1>4, <1>6, <1>7 DEF WritingAct

-----------------------------------------------------------------------------
LEMMA SpoolStepKeeps == SpoolInv /\ [SpoolNext]_spoolVars => SpoolInv'
<1> SUFFICES ASSUME SpoolInv, [SpoolNext]_spoolVars PROVE SpoolInv'
  OBVIOUS
<1>1. CASE UNCHANGED spoolVars
  BY <1>1 DEF spoolVars, SpoolInv, SpoolTypes, MaintInv, ObjInv, LeaseInv
<1>2. ASSUME NEW o \in Objects, WriterStep(o) \/ WriteFails(o) \/ WriterCrash(o) PROVE SpoolInv'
  BY <1>2, WriterInserts, WriterOnDisk, WriterDrops, WriterMarks DEF WriterStep
<1>3. ASSUME NEW o \in Objects, Reclaim(o) \/ SpoolClock(o) \/ DiskDamages(o) PROVE SpoolInv'
  BY <1>3, LeaseReclaimed, TimePasses, DiskFails
<1>4. ASSUME NEW r \in SpoolReaders, ReaderStep(r) \/ ReaderCrash(r) PROVE SpoolInv'
  BY <1>4, ConsumerAcquires, ConsumerReads, ConsumerReleases, ConsumerAcknowledges, ConsumerUnlinks, ConsumerFinishes
     DEF ReaderStep
<1>5. CASE MaintStep \/ PassRaises \/ MaintCrash
  BY <1>5, CycleTurns, CyclePicks, CycleWriting, CycleOrphans, CycleStored, CycleDeletes, CycleFinalizeUnlinks, CycleFinalizes
     DEF MaintStep
<1> QED
  BY <1>1, <1>2, <1>3, <1>4, <1>5 DEF SpoolNext

\* Who may begin to remove an attachment that was handed out, and why.
LEMMA RemovalHasReason ==
  ASSUME SpoolInv, [SpoolNext]_spoolVars, NEW o \in handed, obj[o].st \in {"STORED", "LEASED"}, obj'[o].st \in Going
  PROVE  o \in acked' \/ obj[o].dead \/ o \in damaged
<1>t. o \in Objects /\ ObjInv(o) /\ writer[o] = "done" /\ obj \in [Objects -> ObjType] /\ obj'[o] # obj[o]
  <2>1. o \in Objects /\ obj \in [Objects -> ObjType]
    BY DEF SpoolInv, SpoolTypes
  <2> QED
    BY <2>1 DEF SpoolInv, ObjInv, Going
<1>n. \A v \in Objects : obj[v] \in ObjType
  BY <1>t
<1>1. ASSUME NEW v \in Objects, WriterStep(v) \/ WriteFails(v) \/ WriterCrash(v) PROVE FALSE
  <2>1. v # o => obj'[o] = obj[o]
    BY <1>1, <1>t DEF WriterStep, StoreInsert, WriteTemp, ReplaceTemp, CleanFiles, DropRow, MarkStored, WriteFails, WriterCrash
  <2>2. writer[v] # "done"
    BY <1>1 DEF WriterStep, StoreInsert, WriteTemp, ReplaceTemp, CleanFiles, DropRow, MarkStored, WriteFails, WriterCrash
  <2> QED
    BY <2>1, <2>2, <1>t
<1>2. ASSUME NEW v \in Objects, Reclaim(v) PROVE FALSE
  BY <1>2, <1>t, UnleasedRight DEF Reclaim, Going
<1>3. ASSUME NEW v \in Objects, SpoolClock(v) \/ DiskDamages(v) PROVE FALSE
  <2>1. obj'[o].st = obj[o].st
    BY <1>3, <1>t, <1>n DEF SpoolClock, RowGrowsStale, FileAges, ObjectExpires, ReadLeaseExpires, DiskDamages, ObjType
  <2> QED
    BY <2>1 DEF Going
<1>4. ASSUME NEW r \in SpoolReaders, ReaderStep(r) \/ ReaderCrash(r) PROVE o \in acked'
  <2>1. CASE ReadBegin(r) \/ ReadFile(r) \/ ReadReturn(r) \/ ReaderCrash(r) \/ AckUnlink(r)
    BY <2>1, <1>t DEF ReadBegin, ReadFile, ReadReturn, ReaderCrash, AckUnlink
  <2>2. ASSUME NEW v \in Objects, Acquire(r, v) PROVE FALSE
    <3>1. obj' = [obj EXCEPT ![v] = Leased(v, lastToken')] /\ Leased(v, lastToken').st = "LEASED"
      BY <2>2, <1>n DEF Acquire, Leased, ObjType
    <3> QED
      BY <3>1, <1>t DEF Going
  <2>3. CASE Release(r)
    <3>1. CASE Owns(r)
      <4>1. reader[r].o \in Objects
        BY <2>3, ConsumerHas DEF Release
      <4> QED
        BY <2>3, <3>1, <4>1, <1>t, UnleasedRight DEF Release, Owns, Going
    <3>2. CASE ~Owns(r)
      BY <2>3, <3>2, <1>t DEF Release
    <3> QED
      BY <3>1, <3>2
  <2>4. CASE Acknowledge(r)
    BY <2>4, <1>t DEF Acknowledge
  <2>5. CASE AckFinish(r)
    <3>1. obj[reader[r].o].st \in Going
      BY <2>5, ConsumerHas DEF AckFinish, LeaseInv
    <3> QED
      BY <2>5, <3>1, <1>t DEF AckFinish, FinalizeRow, Going
  <2> QED
    BY <1>4, <2>1, <2>2, <2>3, <2>4, <2>5 DEF ReaderStep
<1>5. CASE MaintStep \/ PassRaises \/ MaintCrash
  <2>1. CASE CycleBegin \/ PassEmpty \/ CycleEnd \/ PassRaises \/ MaintCrash \/ OrphanAct \/ StoredAct \/ FinalizeUnlink
    BY <2>1, <1>t DEF CycleBegin, PassEmpty, CycleEnd, PassRaises, MaintCrash, OrphanAct, StoredAct, FinalizeUnlink
  <2>2. ASSUME NEW v \in Objects, PassPick(v) PROVE obj[o].dead
    <3>1. maint.pass = "purge" /\ v = o
      BY <2>2, <1>t DEF PassPick
    <3> QED
      BY <2>2, <3>1 DEF PassPick, SweepCandidates, Purgeable
  <2>3. CASE WritingAct
    <3>1. maint.o \in Objects /\ obj[maint.o].st = "WRITING"
      BY <2>3, CycleHas DEF WritingAct, MaintInv
    <3>2. o # maint.o
      BY <3>1
    <3> QED
      BY <2>3, <3>2, <1>t DEF WritingAct
  <2>4. CASE RowPassCommit
    <3>1. o = maint.o
      BY <2>4, <1>t DEF RowPassCommit
    <3>2. maint.pass = "stored" /\ maint.seen # "ok" /\ (o \in handed \ damaged => maint.seen = "ok")
      BY <2>4, <3>1, CycleHas DEF RowPassCommit, MaintInv
    <3> QED
      BY <3>2
  <2>5. CASE FinalizeCommit
    <3>1. obj[maint.o].st \in Going
      BY <2>5, CycleHas DEF FinalizeCommit, MaintInv
    <3> QED
      BY <2>5, <3>1, <1>t DEF FinalizeCommit, FinalizeRow, Going
  <2> QED
    BY <1>5, <2>1, <2>2, <2>3, <2>4, <2>5 DEF MaintStep
<1>6. CASE UNCHANGED spoolVars
  BY <1>6, <1>t DEF spoolVars
<1> QED
  BY <1>1, <1>2, <1>3, <1>4, <1>5, <1>6 DEF SpoolNext

\* Plaintext leaves only through the second check of read().
LEMMA GivenUnderLease ==
  ASSUME SpoolInv, [SpoolNext]_spoolVars, NEW o \in Objects, NEW t \in 1..MaxTokens, <<o, t>> \in given' \ given
  PROVE  o \notin acked /\ \A r \in SpoolReaders : reader[r].o = o => reader[r].tok <= t
<1>1. PICK r \in SpoolReaders : ReadReturn(r)
  <2>1. given' # given
    OBVIOUS
  <2>2. UNCHANGED given \/ \E r \in SpoolReaders : ReadReturn(r)
    <3>1. ASSUME NEW v \in Objects, WriterStep(v) \/ WriteFails(v) \/ WriterCrash(v) \/ Reclaim(v) \/ SpoolClock(v) \/ DiskDamages(v)
          PROVE UNCHANGED given
      BY <3>1 DEF WriterStep, StoreInsert, WriteTemp, ReplaceTemp, CleanFiles, DropRow, MarkStored, WriteFails, WriterCrash, Reclaim,
                  SpoolClock, RowGrowsStale, FileAges, ObjectExpires, ReadLeaseExpires, DiskDamages
    <3>2. ASSUME NEW r \in SpoolReaders, ReaderStep(r) \/ ReaderCrash(r) PROVE UNCHANGED given \/ ReadReturn(r)
      BY <3>2 DEF ReaderStep, Acquire, ReadBegin, ReadFile, Acknowledge, Release, AckUnlink, AckFinish, ReaderCrash
    <3>3. CASE MaintStep \/ PassRaises \/ MaintCrash
      BY <3>3 DEF MaintStep, CycleBegin, PassEmpty, PassPick, WritingAct, OrphanAct, StoredAct, RowPassCommit, FinalizeUnlink,
                  FinalizeCommit, CycleEnd, PassRaises, MaintCrash
    <3> QED
      BY <3>1, <3>2, <3>3 DEF SpoolNext, spoolVars
  <2> QED
    BY <2>1, <2>2
<1>2. o = reader[r].o /\ t = reader[r].tok /\ Owns(r)
  BY <1>1 DEF ReadReturn, StillOwned
<1>3. obj[o].st = "LEASED" /\ obj[o].tok = t
  BY <1>2 DEF Owns
<1>4. o \notin acked
  BY <1>3 DEF SpoolInv, ObjInv, Going
<1> QED
  BY <1>3, <1>4 DEF SpoolInv, LeaseInv

LEMMA SpoolInvariant == SpoolSpec => []SpoolInv
  BY SpoolInitial, SpoolStepKeeps, PTL DEF SpoolSpec

\* Types of the spool, and a token on the row exactly while it is LEASED or acknowledged.
THEOREM SpoolTypeCorrect == SpoolSpec => []SpoolTypeOK
<1>1. SpoolInv => SpoolTypeOK
  <2> SUFFICES ASSUME SpoolInv PROVE SpoolTypeOK
    OBVIOUS
  <2>1. obj \in [Objects -> ObjType] /\ disk \in [Objects -> FileType] /\ writer \in [Objects -> WriterStates]
    BY DEF SpoolInv, SpoolTypes
  <2>2. \A r \in SpoolReaders : reader[r] \in LeaseType
    BY DEF SpoolInv, SpoolTypes
  <2>3. maint.pass \in {"off", "finish"} \union DOMAIN PassAfter
    BY PassDomain DEF SpoolInv, SpoolTypes, MaintType
  <2>4. \A o \in Objects : /\ obj[o].st = "LEASED" => obj[o].tok > 0
                           /\ obj[o].st \in {"NONE", "WRITING", "STORED"} => obj[o].tok = 0
    BY DEF SpoolInv, ObjInv
  <2>5. \A r \in SpoolReaders :
          /\ reader[r].ph \in {"idle", "held", "reading", "checked", "unlink", "finish"}
          /\ reader[r].o \in Objects \union {NoObject} /\ reader[r].tok \in 0..MaxTokens
    BY <2>2 DEF LeaseType
  <2> QED
    BY <2>1, <2>3, <2>4, <2>5 DEF SpoolTypeOK, ObjType, FileType, WriterStates
<1> QED
  BY <1>1, SpoolInvariant, PTL

\* For any attachments, consumers, leases and faults: what was handed out keeps its verified file until it is acknowledged,
\* expires or is damaged, and a row goes only after its file.
THEOREM SpoolKeepsCorrect == SpoolSpec => SpoolKeepsHanded
<1> DEFINE Body == \A o \in handed :
                     (obj[o].st \in {"STORED", "LEASED"} /\ obj'[o].st \in {"NONE", "DELETE_PENDING"})
                        => o \in acked' \/ obj[o].dead \/ o \in damaged
<1>1. SpoolInv => HandedIsReadable /\ NoCiphertextWithoutRow
  BY DEF SpoolInv, SpoolTypes, ObjInv, HandedIsReadable, NoCiphertextWithoutRow
<1>2. SpoolInv /\ [SpoolNext]_spoolVars => [Body]_spoolVars
  BY RemovalHasReason DEF Going
<1> QED
  BY <1>1, <1>2, SpoolInvariant, PTL DEF SpoolSpec, SpoolKeepsHanded, RetainedUntilDone

\* For any number of consumers and leases, read() returns plaintext neither after an acknowledge nor after the lease has
\* passed to another consumer.
THEOREM FencedReadCorrect == SpoolSpec => FencedRead
<1> DEFINE Body == \A o \in Objects, t \in 1..MaxTokens :
                     <<o, t>> \in given' \ given
                        => /\ o \notin acked
                           /\ \A r \in SpoolReaders : reader[r].o = o => reader[r].tok <= t
<1>1. SpoolInv /\ [SpoolNext]_spoolVars => [Body]_spoolVars
  BY GivenUnderLease
<1> QED
  BY <1>1, SpoolInvariant, PTL DEF SpoolSpec, FencedRead
=============================================================================
