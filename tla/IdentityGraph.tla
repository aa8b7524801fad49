---------------------------- MODULE IdentityGraph ----------------------------
(***************************************************************************)
(* The identity graph: canonical identities, the external links that point *)
(* to them, and the glue that attaches a conversation to an identity or    *)
(* opens a case for a human.  Sessions are database transactions that run  *)
(* concurrently: attach looks the key up, then inserts under a savepoint   *)
(* and may lose the race to the unique index; the glue holds the           *)
(* conversation's row lock from its first read to its commit; approve      *)
(* locks the case, then the conversation.                                  *)
(*                                                                         *)
(* Abstractions: one conversation; a normalised key is one of the members  *)
(* of IdKeys ("phone" and "phone2" are one number in two connection        *)
(* scopes, "deal" and "tech" the two roles of one amoCRM lead).  Of a link *)
(* the confidence is kept as the set of keys whose active row is CONFIRMED.*)
(***************************************************************************)
EXTENDS Naturals, FiniteSets, Sequences

CONSTANTS Canonicals,      \* identities that may be created
          IdSessions,      \* concurrent transactions
          NamedLinks,      \* links a caller may name in confirmed_links
          MaxReviews,      \* bound: review cases ever opened
          MaxLinkOps,      \* bound: attaches, revocations and archivings begun
          MaxGlueOps       \* bound: resolutions for the conversation and approvals begun

ASSUME GraphConstants ==
  /\ Canonicals \subseteq Nat \ {0} /\ IsFiniteSet(Canonicals)
  /\ NamedLinks \subseteq {"phone", "phone2", "email", "deal", "tech"}
  /\ IdSessions \subseteq Nat \ {0} /\ MaxReviews \in Nat /\ MaxLinkOps \in Nat /\ MaxGlueOps \in Nat

VARIABLES canonStatus,   \* canonical_identities.status, "absent" before the insert
          activeLinks,   \* ACTIVE rows of external_identity_links: <<key, canonical>>
          confirmed,     \* keys whose ACTIVE row has confidence CONFIRMED
          everLinked,    \* canonicals that some link row, of any status, names
          convCanonical, \* conversations.canonical_identity_id (0: none)
          reviews,       \* identity_review_cases in order of creation
          idTx,          \* the transactions
          idAnswer,      \* the link the last step reported to its caller, if it reported one
          graphOps       \* operations begun, on links and on the conversation

graphVars == <<canonStatus, activeLinks, confirmed, everLinked, convCanonical, reviews, idTx, idAnswer, graphOps>>

IdKeys == {"channel", "phone", "phone2", "email", "deal", "tech"}
LeadRoles == {"deal", "tech"}

\* What a caller may give as a signal beside the links it names.
Signals == {"channel", "phone", "email"}

NoIdTx == [ph |-> "idle", key |-> "channel", target |-> 0, conf |-> FALSE, seen |-> 0, review |-> 0]
NoAnswer == [key |-> "channel", canon |-> 0]

GraphInit ==
  /\ canonStatus = [c \in Canonicals |-> "absent"]
  /\ activeLinks = {} /\ confirmed = {} /\ everLinked = {}
  /\ convCanonical = 0 /\ reviews = <<>>
  /\ idTx = [s \in IdSessions |-> NoIdTx]
  /\ idAnswer = NoAnswer /\ graphOps = [link |-> 0, glue |-> 0]

-----------------------------------------------------------------------------
(* Queries.                                                                *)

LinkOwners(k) == {c \in Canonicals : <<k, c>> \in activeLinks}

\* _active_canonical_from_links: a link to an archived identity is no candidate.
ActiveOwners(k) == {c \in LinkOwners(k) : canonStatus[c] = "ACTIVE"}

\* list_active_by_kind_external: a phone or an e-mail is looked up in every connection scope.
KindOwners(k) == IF k = "phone" THEN ActiveOwners("phone") \cup ActiveOwners("phone2") ELSE ActiveOwners(k)

\* A link named in confirmed_links is looked up under its exact key and counts only when its row is CONFIRMED: one that is
\* not is passed over, whomever it names.
ConfirmedOwners(k) == IF k \in confirmed THEN ActiveOwners(k) ELSE {}

\* The candidates: channel, phone and confirmed links; the e-mail only corroborates.
Strong(sig, named) ==
  (UNION {KindOwners(k) : k \in sig \ {"email"}}) \cup (UNION {ConfirmedOwners(k) : k \in named})
Weak(sig) == UNION {KindOwners(k) : k \in sig \cap {"email"}}

\* Mutant: an e-mail that points elsewhere is ignored.
SignalsConflictStrong(sig, named) == Cardinality(Strong(sig, named)) > 1

\* The signals name two identities, or one identity and an e-mail of another.
SignalsConflict(sig, named) ==
  LET strong == Strong(sig, named)
      weak == Weak(sig) IN
  \/ Cardinality(strong) > 1
  \/ \E k \in named : Cardinality(ActiveOwners(k)) > 1
  \/ Cardinality(weak) > 1
  \/ strong # {} /\ ~ weak \subseteq strong

\* _resolve_validated: an e-mail alone never resolves.
ResolvedTo(sig, named) ==
  IF SignalsConflict(sig, named) THEN [o |-> "review", c |-> 0]
  ELSE IF Strong(sig, named) = {} THEN [o |-> "not_found", c |-> 0]
  ELSE [o |-> "resolved", c |-> CHOOSE c \in Canonicals : c \in Strong(sig, named)]

\* What the signals a caller may give resolve to.
Resolutions == UNION {{ResolvedTo(sig, named) : named \in SUBSET NamedLinks} : sig \in SUBSET Signals}

\* The unique indexes on active rows: one owner per key, one role per lead.
KeyTaken(k) == LinkOwners(k) # {}

\* Mutant: no index over the two roles of a lead.
RoleTakenNever(k) == FALSE

RoleTaken(k) == k \in LeadRoles /\ \E r \in LeadRoles \ {k} : KeyTaken(r)

-----------------------------------------------------------------------------
(* attach and revoke.                                                      *)

\* Idle sessions are alike: the lowest one begins.
Begins(s) == idTx[s].ph = "idle" /\ \A t \in IdSessions : t < s => idTx[t].ph # "idle"
LinkOp == graphOps.link < MaxLinkOps /\ graphOps' = [graphOps EXCEPT !.link = @ + 1]
GlueOp == graphOps.glue < MaxGlueOps /\ graphOps' = [graphOps EXCEPT !.glue = @ + 1]

\* The session's transaction ends and its caller is answered.
EndsWith(s, k, out, c) ==
  /\ idTx' = [idTx EXCEPT ![s] = NoIdTx]
  /\ idAnswer' = IF out = "linked" THEN [key |-> k, canon |-> c] ELSE NoAnswer
Ends(s, out) == EndsWith(s, "channel", out, 0)
Continues(s, tx) == idTx' = [idTx EXCEPT ![s] = tx] /\ idAnswer' = NoAnswer

\* What attach answers when an active row for the key is already there.
ExistingAnswer(k, target) ==
  LET owner == CHOOSE c \in Canonicals : c \in LinkOwners(k) IN
  IF canonStatus[owner] = "ACTIVE" /\ target \in {0, owner}
    THEN [out |-> "linked", c |-> owner] ELSE [out |-> "conflict", c |-> 0]

\* The confidence a caller asks for (TRUE: CONFIRMED, the default) is read only of links that are named.
Confidences(k) == IF k \in NamedLinks THEN BOOLEAN ELSE {TRUE}

\* Mutant: an e-mail link is stored with the confidence the caller asked for.
LinkConfidenceAsked(k, conf) == conf

\* An e-mail is SECONDARY by policy, whatever the caller asks for.
LinkConfidence(k, conf) == conf /\ k # "email"

\* attach up to the savepoint: the role of a lead first, then the key's own row; target 0 asks for a new canonical.
\* The CONFLICT on a lead's other role comes before any row of the key is read.  A target that is no identity will not
\* be found in the savepoint either: ids are random, nobody names one before it is inserted.
AttachLooks(s, k, target) ==
  /\ LinkOp /\ Begins(s)
  /\ CASE RoleTaken(k) -> Ends(s, "conflict")
       [] ~RoleTaken(k) /\ KeyTaken(k) -> EndsWith(s, k, ExistingAnswer(k, target).out, ExistingAnswer(k, target).c)
       [] ~RoleTaken(k) /\ ~KeyTaken(k) /\ target # 0 /\ canonStatus[target] = "absent" -> Ends(s, "invalid")
       [] OTHER -> \E conf \in Confidences(k) :
            Continues(s, [NoIdTx EXCEPT !.key = k, !.target = target, !.conf = LinkConfidence(k, conf), !.ph = "inserting"])
  /\ UNCHANGED <<canonStatus, activeLinks, confirmed, everLinked, convCanonical, reviews>>

\* Mutant: the loser of the race reports the identity it meant to create.
ClassifyRaceOwn(k, target) == [out |-> "linked", c |-> IF target = 0 THEN 2 ELSE target]

\* _classify_attach_integrity_race: only a caller with a target of its own can be in conflict with the winner, whose
\* row may be revoked again by now.
ClassifyRace(k, target) ==
  LET owner == CHOOSE c \in Canonicals : c \in LinkOwners(k) IN
  CASE RoleTaken(k) -> [out |-> "conflict", c |-> 0]
    [] ~RoleTaken(k) /\ ~KeyTaken(k) -> [out |-> "review", c |-> 0]
    [] OTHER -> IF target \in {0, owner} THEN [out |-> "linked", c |-> owner] ELSE [out |-> "conflict", c |-> 0]

NewCanonical == CHOOSE c \in Canonicals : canonStatus[c] = "absent"

\* Mutant: the identity is inserted outside the savepoint and stays when the link loses.
CanonAfterRaceKept(target) == IF target = 0 THEN [canonStatus EXCEPT ![NewCanonical] = "ACTIVE"] ELSE canonStatus

\* The savepoint's rollback takes the new identity with it.
CanonAfterRace(target) == canonStatus

\* The savepoint: insert or lock the identity, insert the link; an index violation rolls both back.
AttachInserts(s) ==
  LET k == idTx[s].key
      target == idTx[s].target
      owner == IF target = 0 THEN NewCanonical ELSE target
      unusable == target # 0 /\ canonStatus[target] # "ACTIVE" IN
  /\ idTx[s].ph = "inserting"
  /\ target = 0 => \E c \in Canonicals : canonStatus[c] = "absent"
  /\ CASE unusable ->
            /\ Ends(s, "conflict")
            /\ UNCHANGED <<canonStatus, activeLinks, confirmed, everLinked>>
       [] ~unusable /\ (KeyTaken(k) \/ RoleTaken(k)) ->
            /\ canonStatus' = CanonAfterRace(target)
            /\ Continues(s, [idTx[s] EXCEPT !.ph = "raced"])
            /\ UNCHANGED <<activeLinks, confirmed, everLinked>>
       [] OTHER ->
            /\ canonStatus' = [canonStatus EXCEPT ![owner] = "ACTIVE"]
            /\ activeLinks' = activeLinks \cup {<<k, owner>>}
            /\ confirmed' = IF idTx[s].conf THEN confirmed \cup {k} ELSE confirmed \ {k}
            /\ everLinked' = everLinked \cup {owner}
            /\ EndsWith(s, k, "linked", owner)
  /\ UNCHANGED <<convCanonical, reviews, graphOps>>

AttachClassifies(s) ==
  LET r == ClassifyRace(idTx[s].key, idTx[s].target) IN
  /\ idTx[s].ph = "raced"
  /\ EndsWith(s, idTx[s].key, r.out, r.c)
  /\ UNCHANGED <<canonStatus, activeLinks, confirmed, everLinked, convCanonical, reviews, graphOps>>

\* revoke: the active row of the key becomes REVOKED.
RevokeLink(k) ==
  /\ KeyTaken(k) /\ LinkOp
  /\ idAnswer' = NoAnswer
  /\ activeLinks' = {l \in activeLinks : l[1] # k} /\ confirmed' = confirmed \ {k}
  /\ UNCHANGED <<canonStatus, everLinked, convCanonical, reviews, idTx>>

OperatorArchives(c) ==
  /\ canonStatus[c] = "ACTIVE" /\ LinkOp
  /\ idAnswer' = NoAnswer
  /\ canonStatus' = [canonStatus EXCEPT ![c] = "ARCHIVED"]
  /\ UNCHANGED <<activeLinks, confirmed, everLinked, convCanonical, reviews, idTx>>

-----------------------------------------------------------------------------
(* The glue: resolve_for_conversation and approve_review.                  *)

\* Mutant: the conversation row is read without FOR UPDATE.
ConversationFreeAny(s) == TRUE

\* get_by_id_for_update: the row lock is held from here to the commit.
ConversationFree(s) == \A t \in IdSessions \ {s} : idTx[t].ph \notin {"glue", "approving"}

\* A review case: its reason, whether it is closed, the identity it proposes or was closed with.
OpenCase(reason, proposed) == [reason |-> reason, st |-> "OPEN", canon |-> proposed]

\* insert_open_review_idempotent: one OPEN case per reason.
OpensReview(reason, proposed) ==
  IF \E i \in DOMAIN reviews : reviews[i].reason = reason /\ reviews[i].st = "OPEN"
    THEN UNCHANGED reviews
    ELSE Len(reviews) < MaxReviews /\ reviews' = Append(reviews, OpenCase(reason, proposed))

\* resolve_for_conversation: lock the conversation, resolve the signals against the links of that moment.
GlueResolves(s) ==
  /\ GlueOp /\ Begins(s) /\ ConversationFree(s)
  /\ \E r \in Resolutions :
       CASE r.o = "not_found" -> Ends(s, "not_found") /\ UNCHANGED reviews
         [] r.o = "review" -> Ends(s, "review") /\ OpensReview("AMBIGUOUS_RESOLVE", 0)
         [] OTHER -> /\ Continues(s, [NoIdTx EXCEPT !.ph = "glue", !.target = r.c, !.seen = convCanonical])
                     /\ UNCHANGED reviews
  /\ UNCHANGED <<canonStatus, activeLinks, confirmed, everLinked, convCanonical>>

\* _attach_or_review: lock the identity; attach, find it attached, or ask a human.
AttachOrReview(s) ==
  LET target == idTx[s].target
      current == idTx[s].seen IN
  /\ idTx[s].ph = "glue"
  /\ CASE canonStatus[target] # "ACTIVE" ->
            OpensReview("CANONICAL_NOT_ACTIVE", target) /\ Ends(s, "review") /\ UNCHANGED convCanonical
       [] canonStatus[target] = "ACTIVE" /\ current \notin {0, target} ->
            OpensReview("CONFLICTING_CANONICAL", target) /\ Ends(s, "review") /\ UNCHANGED convCanonical
       [] OTHER -> convCanonical' = target /\ Ends(s, "attached") /\ UNCHANGED reviews
  /\ UNCHANGED <<canonStatus, activeLinks, confirmed, everLinked, graphOps>>

\* approve_review: lock the case; one that is not OPEN is refused, or confirmed when it names the same identity.
ApproveLocks(s, i, target) ==
  /\ GlueOp /\ Begins(s)
  /\ \A t \in IdSessions \ {s} : idTx[t].ph \in {"case", "approving"} => idTx[t].review # i
  /\ IF reviews[i].st = "OPEN"
       THEN Continues(s, [NoIdTx EXCEPT !.ph = "case", !.review = i, !.target = target])
       ELSE Ends(s, IF reviews[i].canon = target THEN "resolved" ELSE "refused")
  /\ UNCHANGED <<canonStatus, activeLinks, confirmed, everLinked, convCanonical, reviews>>

\* Then the conversation.
ApproveLocksConversation(s) ==
  /\ idTx[s].ph = "case" /\ ConversationFree(s)
  /\ Continues(s, [idTx[s] EXCEPT !.ph = "approving", !.seen = convCanonical])
  /\ UNCHANGED <<canonStatus, activeLinks, confirmed, everLinked, convCanonical, reviews, graphOps>>

\* Mutant: the operator's choice wins over the identity the conversation has.
OverridesCurrentNever(current, target) == FALSE

OverridesCurrent(current, target) == current \notin {0, target}

\* Then the identity: only an active one, and never in place of another.
ApproveDecides(s) ==
  LET i == idTx[s].review
      target == idTx[s].target
      current == idTx[s].seen IN
  /\ idTx[s].ph = "approving"
  /\ CASE canonStatus[target] = "absent" ->
            Ends(s, "refused") /\ UNCHANGED <<reviews, convCanonical>>
       [] canonStatus[target] = "ARCHIVED" ->
            OpensReview("CANONICAL_NOT_ACTIVE", target) /\ Ends(s, "refused") /\ UNCHANGED convCanonical
       [] canonStatus[target] = "ACTIVE" /\ OverridesCurrent(current, target) ->
            OpensReview("CONFLICTING_CANONICAL", target) /\ Ends(s, "refused") /\ UNCHANGED convCanonical
       [] OTHER -> /\ convCanonical' = IF current = 0 THEN target ELSE convCanonical
                   /\ reviews' = [reviews EXCEPT ![i].st = "RESOLVED", ![i].canon = target]
                   /\ Ends(s, "approved")
  /\ UNCHANGED <<canonStatus, activeLinks, confirmed, everLinked, graphOps>>

\* The transaction of a session aborts: nothing of it was visible.
IdTxAborts(s) == idTx[s].ph # "idle" /\ Ends(s, "aborted")
                 /\ UNCHANGED <<canonStatus, activeLinks, confirmed, everLinked, convCanonical, reviews, graphOps>>

GraphNext ==
  \/ \E s \in IdSessions :
       \/ \E k \in IdKeys, t \in Canonicals \cup {0} : AttachLooks(s, k, t)
       \/ AttachInserts(s) \/ AttachClassifies(s)
       \/ GlueResolves(s) \/ AttachOrReview(s)
       \/ \E i \in DOMAIN reviews, t \in Canonicals : ApproveLocks(s, i, t)
       \/ ApproveLocksConversation(s) \/ ApproveDecides(s) \/ IdTxAborts(s)
  \/ \E k \in IdKeys : RevokeLink(k)
  \/ \E c \in Canonicals : OperatorArchives(c)

GraphSpec == GraphInit /\ [][GraphNext]_graphVars

-----------------------------------------------------------------------------
(* Properties.                                                             *)

\* However attaches and revocations interleave, an amoCRM lead is never at once the deal of one identity and a
\* technical deal, and an external account never belongs to two identities.
LinkExclusive ==
  /\ \A k \in IdKeys : Cardinality(LinkOwners(k)) <= 1
  /\ \E k \in LeadRoles : ~KeyTaken(k)

\* An attach that loses the race for its key leaves no identity behind that nothing ever pointed to.
NoOrphanCanonical == \A c \in Canonicals : canonStatus[c] # "absent" => c \in everLinked

\* The identity attach returns is the one the key's active link names when the answer is given: never the loser's own.
AnswerNamesOwner == idAnswer # NoAnswer => <<idAnswer.key, idAnswer.canon>> \in activeLinks

\* No combination of resolve, approve and abort moves a conversation from one identity to another.
NeverRebound == [][convCanonical # 0 => convCanonical' = convCanonical]_graphVars

\* A case closed by an operator names the identity its conversation has, also after every later operation.
ResolvedCaseMatches == \A i \in DOMAIN reviews : reviews[i].st = "RESOLVED" => reviews[i].canon = convCanonical

\* In every reachable graph the resolver picks an identity only when no channel, phone or e-mail of the client and no
\* CONFIRMED link the caller names belongs to another one, and never on the strength of an e-mail, not even of one named
\* among the confirmed links: attach stores no e-mail as CONFIRMED.  (A link that is not CONFIRMED decides nothing and
\* stops nothing.  A graph reached with transactions open is also reached with none: they may abort.)
ResolvesUnanimously ==
  activeLinks # {} /\ (\A s \in IdSessions : idTx[s].ph = "idle") =>
    \A sig \in SUBSET Signals, named \in SUBSET NamedLinks :
      LET r == ResolvedTo(sig, named)
      IN  r.o = "resolved" =>
            /\ \A k \in sig : KindOwners(k) \subseteq {r.c}
            /\ \A k \in named \cap confirmed : ActiveOwners(k) \subseteq {r.c}
            /\ \E k \in (sig \cup named) \ {"email"} : r.c \in KindOwners(k)

\* One identity per person: keys are exclusive, lost races leave nothing behind,
\* the conversation is bound once and everything that names its identity agrees.
OneIdentity ==
  /\ [](LinkExclusive /\ NoOrphanCanonical /\ AnswerNamesOwner)
  /\ NeverRebound
  /\ [](ResolvedCaseMatches /\ ResolvesUnanimously)
=============================================================================
