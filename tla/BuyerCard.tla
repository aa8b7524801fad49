------------------------------ MODULE BuyerCard ------------------------------
(***************************************************************************)
(* Binding an amoCRM buyer card to a canonical identity, and reading the   *)
(* card of one.  Both flows snapshot the identity's links in a transaction *)
(* of their own, ask amoCRM (lookup of the contact, then the contact's     *)
(* customers, each read back), and look at the links again before they     *)
(* conclude: bind under the identity's row lock and in the transaction     *)
(* that inserts the link, read in two reads of which the second locks.     *)
(* Meanwhile links are attached and revoked, the identity is archived,     *)
(* amoCRM's own links change and the access token expires.                 *)
(*                                                                         *)
(* Abstractions: one identity; the identities that may hold a card instead *)
(* are one set; a reply of amoCRM is its parsed content or an error.       *)
(***************************************************************************)
EXTENDS Naturals, FiniteSets

CONSTANTS CrmContacts, CrmCards,  \* contacts and customers of amoCRM
          CardOps,                \* concurrent bind and read operations
          MaxLinkedCustomers,     \* MAX_LINKED_CUSTOMERS_PER_DISCOVERY
          MaxContactPages,        \* MAX_CONTACT_QUERY_PAGES
          MaxCardChanges          \* bound: changes of the links, of amoCRM and of the token, and failed calls

ASSUME BuyerCardConstants ==
  /\ CrmCards \subseteq Nat \ {0} /\ CardOps \subseteq Nat \ {0} /\ IsFiniteSet(CrmContacts)
  /\ 1 \in CrmContacts /\ 1 \in CrmCards   \* the contact linked at first and its customer
  /\ MaxLinkedCustomers \in Nat /\ MaxContactPages \in Nat \ {0} /\ MaxCardChanges \in Nat

VARIABLES holder,      \* the identity: active, its contact and card links, cards linked to other identities
          holderLock,  \* the operation that holds the identity's row lock (0: none)
          customers,   \* amoCRM: the customers of each contact
          tokenGood,   \* amoCRM accepts the stored access token
          cardOps,     \* the operations
          cardChanges

cardVars == <<holder, holderLock, customers, tokenGood, cardOps, cardChanges>>

NoCardOp == [ph |-> "idle", kind |-> "bind", contact |-> 0, card |-> 0, byPhone |-> FALSE, page |-> 0, more |-> FALSE,
             hits |-> {}, todo |-> {}, eligible |-> {}, spent |-> FALSE, out |-> "none"]

CardInit ==
  /\ holder = [active |-> TRUE, contacts |-> {1}, cards |-> {}, elsewhere |-> {}]
  /\ holderLock = 0
  /\ customers = [k \in CrmContacts |-> {1}]
  /\ tokenGood = TRUE
  /\ cardOps = [o \in CardOps |-> NoCardOp]
  /\ cardChanges = 0

Changes == cardChanges < MaxCardChanges /\ cardChanges' = cardChanges + 1
HolderFree(o) == holderLock \in {0, o}

\* The operation's next record; a finished one keeps its answer.
OpGoesOn(o, op) == cardOps' = [cardOps EXCEPT ![o] = op]
OpEnds(o, out) == cardOps' = [cardOps EXCEPT ![o] = [NoCardOp EXCEPT !.ph = "done", !.out = out]]

-----------------------------------------------------------------------------
(* The first snapshot.                                                     *)

\* Operations not begun are alike: the lowest of them begins.
NextToBegin(o) == cardOps[o].ph = "idle" /\ \A p \in CardOps : p < o => cardOps[p].ph # "idle"

\* bind_buyer_card up to the durable contact gate: exactly the expected contact is linked.
BindStarts(o, contact, card) ==
  /\ NextToBegin(o)
  /\ IF holder.active /\ holder.contacts = {contact}
       THEN OpGoesOn(o, [NoCardOp EXCEPT !.ph = "lookup", !.contact = contact, !.card = card])
       ELSE OpEnds(o, "refused")
  /\ UNCHANGED <<holder, holderLock, customers, tokenGood, cardChanges>>

\* read_buyer_card and _resolve_contact: the linked contact, else the phone, else nothing.
ReadStarts(o, phone) ==
  LET op == [NoCardOp EXCEPT !.kind = "read"] IN
  /\ NextToBegin(o)
  /\ CASE holder.active /\ Cardinality(holder.contacts) = 1 ->
            OpGoesOn(o, [op EXCEPT !.ph = "lookup", !.contact = CHOOSE k \in holder.contacts : TRUE])
       [] holder.active /\ holder.contacts = {} /\ phone ->
            OpGoesOn(o, [op EXCEPT !.ph = "phone", !.byPhone = TRUE, !.page = 1])
       [] OTHER -> OpEnds(o, "refused")
  /\ UNCHANGED <<holder, holderLock, customers, tokenGood, cardChanges>>

-----------------------------------------------------------------------------
(* Calls of amoCRM.                                                        *)

\* _with_401_retry: a rejected token is refreshed once per lookup or discovery and the call repeated.
Authorised(o) == tokenGood \/ ~cardOps[o].spent

\* A call that is answered with content; the operation continues as op, and one that comes to discovery has a new budget.
CrmAnswers(o, op) ==
  /\ Authorised(o)
  /\ tokenGood' = TRUE
  /\ OpGoesOn(o, [op EXCEPT !.spent = op.ph # "contact" /\ (@ \/ ~tokenGood)])
  /\ UNCHANGED <<holder, holderLock, customers, cardChanges>>

\* The ways a GET can fail, per endpoint: a search with no match is an empty page, not a 404.
ByIdFailures == {"not_found", "unauthorized", "transient", "permanent"}
PageFailures == {"unauthorized", "transient", "permanent"}
CustomersFailures == {"not_found", "unauthorized", "transient", "permanent"}
InspectFailures == {"not_found", "unauthorized", "transient", "permanent"}

\* What lookup and discovery make of them: a customer that is gone leaves the candidates incomplete.
ByIdOutcome(f) == IF f = "unauthorized" THEN "permanent" ELSE f
PageOutcome(f) == IF f = "unauthorized" THEN "permanent" ELSE f
CustomersOutcome(f) == IF f = "unauthorized" THEN "permanent" ELSE f
InspectOutcome(f) == CASE f = "not_found" -> "incomplete" [] f = "unauthorized" -> "permanent" [] OTHER -> f

\* What the flows make of a lookup.
BindLookup(out) == IF out = "ambiguous" THEN "review" ELSE out
ReadLookup(out) == IF out = "ambiguous" THEN "review" ELSE out

\* A call without usable content ends the operation, except that a read whose contact is gone looks at the links again
\* first.  A token that is refused twice, or cannot be refreshed, is such a call.
CrmFails(o, f) ==
  LET op == cardOps[o]
      looked(out) == IF op.kind = "bind" THEN BindLookup(out) ELSE ReadLookup(out) IN
  /\ IF Authorised(o) THEN Changes ELSE f = "unauthorized" /\ UNCHANGED cardChanges
  /\ \/ op.ph = "lookup" /\ f \in ByIdFailures /\ OpEnds(o, looked(ByIdOutcome(f)))
     \/ op.ph = "phone" /\ f \in PageFailures /\ OpEnds(o, looked(PageOutcome(f)))
     \/ op.ph = "contact" /\ f \in CustomersFailures
        /\ IF op.kind = "read" /\ f = "not_found" THEN OpGoesOn(o, [op EXCEPT !.ph = "finalize"])
           ELSE OpEnds(o, CustomersOutcome(f))
     \/ op.ph = "inspect" /\ op.todo # {} /\ f \in InspectFailures /\ OpEnds(o, InspectOutcome(f))
  /\ UNCHANGED <<holder, holderLock, customers, tokenGood>>

\* lookup_contact_by_id: the contact exists and is the one that was asked for.
LookupById(o) ==
  /\ cardOps[o].ph = "lookup"
  /\ CrmAnswers(o, [cardOps[o] EXCEPT !.ph = "contact"])

\* Mutant: a single match ends the search although amoCRM announced another page.
PhoneSettledEarly(hits, more) == ~more \/ hits # {}

\* The search ends on the last page, or as soon as two contacts have the number.
PhoneSettled(hits, more) == ~more \/ Cardinality(hits) >= 2

\* _finish_phone_exact, and the page limit.
PhoneOutcome(hits, more) ==
  CASE Cardinality(hits) >= 2 -> "ambiguous" [] hits = {} /\ ~more -> "not_found" [] OTHER -> "incomplete"

\* The contacts of a page whose number is exactly the client's; amoCRM's own search is wider.
PageMatches == SUBSET CrmContacts

\* One page of lookup_contact_by_phone.
PhonePage(o, found, more) ==
  LET op == cardOps[o]
      hits == op.hits \cup found IN
  /\ op.ph = "phone"
  /\ \/ /\ PhoneSettled(hits, more) /\ Cardinality(hits) = 1
        /\ CrmAnswers(o, [op EXCEPT !.ph = "contact", !.contact = CHOOSE k \in hits : TRUE, !.hits = hits, !.more = more])
     \/ /\ ~PhoneSettled(hits, more) /\ op.page < MaxContactPages
        /\ CrmAnswers(o, [op EXCEPT !.page = @ + 1, !.hits = hits])
     \/ /\ IF PhoneSettled(hits, more) THEN Cardinality(hits) # 1 ELSE op.page = MaxContactPages
        /\ Authorised(o) /\ tokenGood' = TRUE
        /\ OpEnds(o, ReadLookup(PhoneOutcome(hits, more))) /\ UNCHANGED <<holder, holderLock, customers, cardChanges>>

\* The parsed bodies: a contact lists its customers, a customer its contacts.
CustomersOf(k) == customers[k]
NamesContact(c, k) == c \in customers[k]

\* discover_buyer_card_candidates: the contact with its customers, no more than the limit.
DiscoverContact(o) ==
  LET linked == CustomersOf(cardOps[o].contact) IN
  /\ cardOps[o].ph = "contact"
  /\ IF Cardinality(linked) <= MaxLinkedCustomers
       THEN CrmAnswers(o, [cardOps[o] EXCEPT !.ph = "inspect", !.todo = linked])
       ELSE Authorised(o) /\ tokenGood' = TRUE /\ OpEnds(o, "incomplete")
            /\ UNCHANGED <<holder, holderLock, customers, cardChanges>>

\* Each customer is read and must name the contact in turn.
InspectCustomer(o) ==
  LET op == cardOps[o]
      next == CHOOSE c \in op.todo : \A d \in op.todo : c <= d IN
  /\ op.ph = "inspect" /\ op.todo # {}
  /\ IF NamesContact(next, op.contact)
       THEN CrmAnswers(o, [op EXCEPT !.todo = @ \ {next}, !.eligible = @ \cup {next}])
       ELSE Authorised(o) /\ tokenGood' = TRUE /\ OpEnds(o, "incomplete")
            /\ UNCHANGED <<holder, holderLock, customers, cardChanges>>

\* _finish_eligible and _map_discovery: bind goes on with the one expected card only; read goes on to its second look.
DiscoveryEnds(o) ==
  LET op == cardOps[o] IN
  /\ op.ph = "inspect" /\ op.todo = {}
  /\ IF op.kind = "read" \/ op.eligible = {op.card}
       THEN OpGoesOn(o, [op EXCEPT !.ph = "finalize"])
       ELSE OpEnds(o, IF op.eligible = {} THEN "not_found" ELSE "review")
  /\ UNCHANGED <<holder, holderLock, customers, tokenGood, cardChanges>>

-----------------------------------------------------------------------------
(* The second look.                                                        *)

\* _race_result of bind, and of read for a linked contact.
StillSoleContact(op) == holder.active /\ holder.contacts = {op.contact}

\* _race_result of read: a contact found by phone may be linked by now, another one may not.
StillCompatible(op) ==
  IF op.byPhone THEN holder.active /\ holder.contacts \subseteq {op.contact} ELSE StillSoleContact(op)

\* Mutant: a linked card is reused whatever amoCRM says of the contact.
ReconcileAny(candidates) ==
  IF holder.cards = {} THEN [out |-> "not_found", card |-> 0]
  ELSE [out |-> "reused", card |-> CHOOSE c \in holder.cards : TRUE]

\* Mutant: the cards already linked are not looked at.
ReconcileBlind(candidates) == [out |-> "not_found", card |-> 0]

\* reconcile_buyer_card: the linked card, if it is the only one and among the candidates.
NeedsReconcile(candidates) ==
  IF ~holder.active \/ (holder.cards = {} /\ Cardinality(candidates) <= 1) THEN [out |-> "not_found", card |-> 0]
  ELSE IF Cardinality(holder.cards) = 1 /\ (candidates = {} \/ holder.cards \subseteq candidates)
    THEN [out |-> "reused", card |-> CHOOSE c \in holder.cards : TRUE]
    ELSE [out |-> "review", card |-> 0]

\* Mutant: finalize without the row lock of the identity.
TakesHolderLockNot(o) == UNCHANGED holderLock

TakesHolderLock(o) == holderLock' = o

\* _finalize of bind under the lock: look again, reconcile, and if nothing is linked go on to the insert.
BindFinalizes(o) ==
  LET op == cardOps[o] IN
  /\ op.ph = "finalize" /\ op.kind = "bind" /\ HolderFree(o)
  /\ \/ /\ ~StillSoleContact(op) /\ OpEnds(o, "review") /\ UNCHANGED holderLock
     \/ /\ StillSoleContact(op) /\ NeedsReconcile({op.card}).out \in {"reused", "review"}
        /\ OpEnds(o, IF NeedsReconcile({op.card}).out = "reused" THEN "already_bound" ELSE "review")
        /\ UNCHANGED holderLock
     \/ /\ StillSoleContact(op) /\ NeedsReconcile({op.card}).out = "not_found"
        /\ OpGoesOn(o, [op EXCEPT !.ph = "attach"])
        /\ TakesHolderLock(o)
  /\ UNCHANGED <<holder, customers, tokenGood, cardChanges>>

\* attach of the card and commit: a card of another identity is a conflict.
BindAttaches(o) ==
  LET op == cardOps[o] IN
  /\ op.ph = "attach"
  /\ IF holder.active /\ op.card \notin holder.elsewhere
       THEN /\ OpEnds(o, IF op.card \in holder.cards THEN "already_bound" ELSE "bound")
            /\ holder' = [holder EXCEPT !.cards = @ \cup {op.card}]
       ELSE OpEnds(o, "review") /\ UNCHANGED holder
  /\ holderLock' = 0
  /\ UNCHANGED <<customers, tokenGood, cardChanges>>

\* read looks again without a lock ...
ReadRechecks(o) ==
  LET op == cardOps[o] IN
  /\ op.ph = "finalize" /\ op.kind = "read"
  /\ CASE ~StillCompatible(op) -> OpEnds(o, "review")
       [] StillCompatible(op) /\ op.eligible = {} -> OpEnds(o, "not_found")
       [] OTHER -> OpGoesOn(o, [op EXCEPT !.ph = "reconcile"])
  /\ UNCHANGED <<holder, holderLock, customers, tokenGood, cardChanges>>

\* ... and reconciles with it.
ReadReconciles(o) ==
  LET op == cardOps[o]
      r == NeedsReconcile(op.eligible) IN
  /\ op.ph = "reconcile" /\ HolderFree(o)
  /\ OpGoesOn(o, [NoCardOp EXCEPT !.ph = "done", !.out = r.out, !.card = r.card])
  /\ UNCHANGED <<holder, holderLock, customers, tokenGood, cardChanges>>

CardOpDies(o) ==
  /\ cardOps[o].ph \notin {"idle", "done"} /\ Changes
  /\ OpEnds(o, "error")
  /\ holderLock' = IF holderLock = o THEN 0 ELSE holderLock
  /\ UNCHANGED <<holder, customers, tokenGood>>

-----------------------------------------------------------------------------
(* What happens meanwhile.                                                 *)

\* Another caller attaches a contact (IdentityResolutionService.attach locks the identity) or revokes a link (revoke
\* does not), or another identity gets a card.
ContactAttached(k) == HolderFree(0) /\ holder.active /\ holder' = [holder EXCEPT !.contacts = @ \cup {k}]
ContactRevoked(k) == holder' = [holder EXCEPT !.contacts = @ \ {k}]
CardRevoked(c) == holder' = [holder EXCEPT !.cards = @ \ {c}]
CardElsewhere(c) == c \notin holder.cards /\ holder' = [holder EXCEPT !.elsewhere = @ \cup {c}]
HolderArchived == HolderFree(0) /\ holder' = [holder EXCEPT !.active = FALSE]

LinksChange ==
  /\ Changes
  /\ \/ \E k \in CrmContacts : ContactAttached(k) \/ ContactRevoked(k)
     \/ \E c \in CrmCards : CardRevoked(c) \/ CardElsewhere(c)
     \/ HolderArchived
  /\ holder' # holder
  /\ UNCHANGED <<holderLock, customers, tokenGood, cardOps>>

CrmRelinks(k, linked) ==
  /\ Changes /\ customers' = [customers EXCEPT ![k] = linked]
  /\ UNCHANGED <<holder, holderLock, tokenGood, cardOps>>

TokenExpires ==
  /\ Changes /\ tokenGood /\ tokenGood' = FALSE
  /\ UNCHANGED <<holder, holderLock, customers, cardOps>>

CardNext ==
  \/ \E o \in CardOps :
       \/ \E k \in CrmContacts, c \in CrmCards : BindStarts(o, k, c)
       \/ \E phone \in BOOLEAN : ReadStarts(o, phone)
       \/ LookupById(o) \/ DiscoverContact(o) \/ InspectCustomer(o) \/ DiscoveryEnds(o)
       \/ \E f \in ByIdFailures : CrmFails(o, f)
       \/ \E found \in PageMatches, more \in BOOLEAN : PhonePage(o, found, more)
       \/ BindFinalizes(o) \/ BindAttaches(o) \/ ReadRechecks(o) \/ ReadReconciles(o) \/ CardOpDies(o)
  \/ LinksChange
  \/ \E k \in CrmContacts, linked \in SUBSET CrmCards : CrmRelinks(k, linked)
  \/ TokenExpires

CardSpec == CardInit /\ [][CardNext]_cardVars

-----------------------------------------------------------------------------
(* Properties.                                                             *)

\* No schema constraint limits the cards of an identity: two concurrent binds of different cards, each verified when
\* its customer was the contact's only one, still link one card.
OneBuyerCard == Cardinality(holder.cards) <= 1

\* A card is bound only to an active identity that has no other contact than the one amoCRM was asked about, whatever
\* was attached while the calls were under way.
BoundOnSoleContact ==
  [][\A o \in CardOps : holder'.cards # holder.cards /\ cardOps[o].ph = "attach" /\ cardOps'[o].ph = "done" =>
       holder.active /\ holder.contacts \subseteq {cardOps[o].contact}]_cardVars

\* A card that read reports is linked at that moment and was among the contact's customers read back during the call.
ReusedIsLinkedAndListed ==
  [][\A o \in CardOps : cardOps'[o].out = "reused" /\ cardOps[o].out # "reused" =>
       cardOps'[o].card \in holder.cards \cap cardOps[o].eligible]_cardVars

\* A contact taken from the phone search is the only match on all of amoCRM's pages, not on the first ones.
PhoneUnambiguous ==
  \A o \in CardOps : cardOps[o].byPhone /\ cardOps[o].ph # "phone" => ~cardOps[o].more /\ cardOps[o].hits = {cardOps[o].contact}

\* A buyer card is bound and reported only for the one contact that was verified,
\* although contacts, links and cards change during the calls.
CardOnVerifiedContact ==
  /\ [](OneBuyerCard /\ PhoneUnambiguous)
  /\ BoundOnSoleContact
  /\ ReusedIsLinkedAndListed
=============================================================================
