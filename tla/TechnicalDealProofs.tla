------------------------ MODULE TechnicalDealProofs ------------------------
(***************************************************************************)
(* Theorems about TechnicalDeal, for any set of workers and any bound on   *)
(* reservations and deletions: type correctness, and one tracked deal      *)
(* unless a link is revoked on the 404 of another deal.  Then about        *)
(* MirrorQueue, whose workers drive the deal: it implements TechnicalDeal, *)
(* and what a mirror row says of its operation is true.                    *)
(***************************************************************************)
EXTENDS MirrorQueue, TLAPS

LinkType == [status : LinkStatuses, ext : Nat, owner : Workers \union {NoWorker},
             token : Nat, lease : {"none", "live", "expired"}, submitted : BOOLEAN]
WkType == [ph : Phases, seen : Nat, token : Nat]

Busy(w) == wk[w].ph \in {"post", "created", "ambiguous", "refused"}

\* A worker that may make or has made its POST holds a token of its own.
TokenInv ==
    /\ \A w \in Workers : Busy(w) => wk[w].token \in 1..tokens
    /\ \A v, w \in Workers :
          Busy(v) /\ Busy(w) /\ wk[v].token = wk[w].token => v = w
    /\ link.token <= tokens
    /\ op <= tokens

TypeInv == TypeOK /\ TokenInv

-----------------------------------------------------------------------------
(* Type correctness *)

LEMMA RowTypes ==
    /\ NoLink \in LinkType
    /\ Reconcile \in LinkType
    /\ \A d \in Nat : Active(d) \in LinkType
    /\ \A w \in Workers, t \in Nat, l \in {"none", "live", "expired"}, b \in BOOLEAN :
          Reserved(w, t, l, b) \in LinkType
    /\ Idle \in WkType
  BY DEF LinkType, LinkStatuses, NoLink, Reconcile, Active, Reserved, Idle, WkType,
         Phases

\* The part of TypeOK and TokenInv that concerns the row.
LinkOK ==
    /\ link \in LinkType
    /\ (link.status = "RESERVED") = (link.token # 0)
    /\ (link.status = "RESERVED") = (link.owner # NoWorker)
    /\ (link.status = "RESERVED") = (link.lease # "none")
    /\ (link.status = "ACTIVE") = (link.ext # 0)

\* The part of TypeOK that concerns everything else.
RestOK ==
    /\ tokens \in Nat
    /\ wk \in [Workers -> WkType]
    /\ op \in Nat
    /\ deals \subseteq 1..tokens
    /\ wire \subseteq 1..tokens
    /\ deleted \in Nat
    /\ raced \in BOOLEAN

LEMMA LinkOKIsType ==
    /\ TypeOK <=> LinkOK /\ RestOK
    /\ TypeOK' <=> LinkOK' /\ RestOK'
  BY DEF TypeOK, LinkOK, RestOK, LinkType, WkType

LEMMA LinkValues ==
    /\ link' = NoLink => LinkOK' /\ link'.token = 0
    /\ link' = Reconcile => LinkOK' /\ link'.token = 0
    /\ \A d \in Nat \ {0} : link' = Active(d) => LinkOK' /\ link'.token = 0
    /\ \A w \in Workers, t \in Nat \ {0}, l \in {"live", "expired"}, b \in BOOLEAN :
          link' = Reserved(w, t, l, b) => LinkOK' /\ link'.token = t
<1>1. link' = NoLink => LinkOK' /\ link'.token = 0
  BY RowTypes DEF LinkOK, NoLink
<1>2. link' = Reconcile => LinkOK' /\ link'.token = 0
  BY RowTypes DEF LinkOK, NoLink, Reconcile
<1>3. \A d \in Nat \ {0} : link' = Active(d) => LinkOK' /\ link'.token = 0
  BY RowTypes DEF LinkOK, NoLink, Active
<1>4. \A w \in Workers, t \in Nat \ {0}, l \in {"live", "expired"}, b \in BOOLEAN :
         link' = Reserved(w, t, l, b) => LinkOK' /\ link'.token = t
  BY RowTypes, DealAssumption DEF LinkOK, Reserved
<1>5. QED BY <1>1, <1>2, <1>3, <1>4

\* A worker that goes idle, or goes on with its token, keeps the token facts.
LEMMA TokenKept ==
    ASSUME TypeInv, NEW w \in Workers, NEW r \in WkType,
           wk' = [wk EXCEPT ![w] = r],
           r.ph \in {"idle", "get", "revoke", "reserve"} \/ (Busy(w) /\ r.token = wk[w].token),
           tokens' = tokens, link'.token <= tokens, op' <= tokens
    PROVE  TokenInv'
  BY DEF TypeInv, TypeOK, TokenInv, Busy, WkType

LEMMA TypeInductive ==
    ASSUME TypeInv, [Next]_vars
    PROVE  TypeInv'
<1> USE LinkOKIsType
<1> USE DEF TypeInv, RestOK
<1>1. ASSUME NEW w \in Workers, Snapshot(w) PROVE TypeInv'
  <2>1. \E r \in WkType : wk' = [wk EXCEPT ![w] = r] /\ r.ph \in {"get", "reserve"}
    <3>1. link.ext \in Nat BY <1>1 DEF LinkOK, LinkType
    <3>2. /\ [ph |-> "get", seen |-> link.ext, token |-> 0] \in WkType
          /\ [ph |-> "reserve", seen |-> 0, token |-> 0] \in WkType
      BY <3>1 DEF WkType, Phases
    <3>3. QED BY <1>1, <3>2 DEF Snapshot
  <2>2. TypeOK' BY <1>1, <2>1 DEF Snapshot, LinkOK
  <2>3. TokenInv' BY <1>1, <2>1, TokenKept DEF Snapshot, TokenInv
  <2>4. QED BY <2>2, <2>3
<1>2. ASSUME NEW w \in Workers, GetLead(w) PROVE TypeInv'
  <2>1. \E r \in WkType : wk' = [wk EXCEPT ![w] = r] /\ r.ph \in {"idle", "revoke"}
    <3>1. [wk[w] EXCEPT !.ph = "revoke"] \in WkType BY <1>2 DEF WkType, Phases
    <3>2. [wk[w] EXCEPT !.ph = "revoke"].ph = "revoke" BY <1>2 DEF WkType
    <3>3. QED BY <1>2, <3>1, <3>2, RowTypes DEF GetLead, Return, Goto, Idle
  <2>2. TypeOK' BY <1>2, <2>1 DEF GetLead, LinkOK
  <2>3. TokenInv' BY <1>2, <2>1, TokenKept DEF GetLead, TokenInv
  <2>4. QED BY <2>2, <2>3
<1>3. ASSUME NEW w \in Workers, RevokeActive(w) PROVE TypeInv'
  <2>1. \E r \in WkType : wk' = [wk EXCEPT ![w] = r] /\ r.ph = "reserve"
    <3>1. [wk[w] EXCEPT !.ph = "reserve"] \in WkType BY <1>3 DEF WkType, Phases
    <3>2. [wk[w] EXCEPT !.ph = "reserve"].ph = "reserve" BY <1>3 DEF WkType
    <3>3. QED BY <1>3, <3>1, <3>2 DEF RevokeActive, Goto
  <2>2. LinkOK' /\ link'.token <= tokens
    BY <1>3, LinkValues DEF RevokeActive, TokenInv, LinkOK
  <2>3. TypeOK' BY <1>3, <2>1, <2>2 DEF RevokeActive
  <2>4. TokenInv' BY <1>3, <2>1, <2>2, TokenKept DEF RevokeActive, TokenInv
  <2>5. QED BY <2>3, <2>4
<1>4. ASSUME NEW w \in Workers, Reserve(w) PROVE TypeInv'
  <2>1. tokens + 1 \in Nat \ {0} BY <1>4
  <2>2. LinkOK' /\ link'.token = tokens + 1 BY <1>4, <2>1, LinkValues DEF Reserve
  <2>4. wk' = [wk EXCEPT ![w] = [ph |-> "post", seen |-> 0, token |-> tokens + 1]]
    BY <1>4 DEF Reserve
  <2>5. [ph |-> "post", seen |-> 0, token |-> tokens + 1] \in WkType
    BY <2>1 DEF WkType, Phases
  <2>6. TypeOK' BY <1>4, <2>1, <2>2, <2>4, <2>5 DEF Reserve
  <2>7. TokenInv'
    <3>1. \A v \in Workers : v # w => wk'[v] = wk[v] BY <2>4
    <3>2. wk'[w].token = tokens + 1 BY <2>4
    <3>3. \A v \in Workers : v # w /\ Busy(v)' => Busy(v) /\ wk'[v].token \in 1..tokens
      BY <3>1 DEF TokenInv, Busy
    <3>4. \A v \in Workers : Busy(v)' => wk'[v].token \in 1..tokens'
      BY <1>4, <2>1, <3>2, <3>3 DEF Reserve
    <3>5. \A u, v \in Workers :
             Busy(u)' /\ Busy(v)' /\ wk'[u].token = wk'[v].token => u = v
      BY <2>1, <3>1, <3>2, <3>3 DEF TokenInv
    <3>6. link'.token <= tokens' /\ op' <= tokens'
      <4>1. tokens \in Nat /\ op \in Nat /\ op <= tokens BY <1>4 DEF TokenInv
      <4>2. tokens' = tokens + 1 /\ op' = op BY <1>4 DEF Reserve
      <4>3. QED BY <2>2, <4>1, <4>2
    <3>7. QED BY <3>4, <3>5, <3>6 DEF TokenInv
  <2>8. QED BY <2>6, <2>7
<1>5. ASSUME NEW w \in Workers, ReserveUnsubmitted(w) PROVE TypeInv'
  <2>1. tokens + 1 \in Nat \ {0} BY <1>5
  <2>2. LinkOK' /\ link'.token = tokens + 1
    BY <1>5, <2>1, LinkValues DEF ReserveUnsubmitted
  <2>3. wk' = [wk EXCEPT ![w] = Idle] /\ Idle \in WkType /\ Idle.ph = "idle"
    BY <1>5, RowTypes DEF ReserveUnsubmitted, Return, Idle
  <2>4. TypeOK' BY <1>5, <2>1, <2>2, <2>3 DEF ReserveUnsubmitted
  <2>5. TokenInv'
    <3>1. \A v \in Workers : Busy(v)' => Busy(v) /\ wk'[v] = wk[v]
      BY <2>3 DEF Busy
    <3>2. \A v \in Workers : Busy(v)' => wk'[v].token \in 1..tokens'
      BY <1>5, <2>1, <3>1 DEF ReserveUnsubmitted, TokenInv
    <3>3. \A u, v \in Workers :
             Busy(u)' /\ Busy(v)' /\ wk'[u].token = wk'[v].token => u = v
      BY <3>1 DEF TokenInv
    <3>4. link'.token <= tokens' /\ op' <= tokens'
      <4>1. tokens \in Nat /\ op \in Nat /\ op <= tokens BY <1>5 DEF TokenInv
      <4>2. tokens' = tokens + 1 /\ op' = op BY <1>5 DEF ReserveUnsubmitted
      <4>3. QED BY <2>2, <4>1, <4>2
    <3>5. QED BY <3>2, <3>3, <3>4 DEF TokenInv
  <2>6. QED BY <2>4, <2>5
<1>6. ASSUME NEW w \in Workers,
             ReserveRefused(w) \/ CompleteToActive(w) \/ MarkReconcile(w) \/ ReleaseForRetry(w)
      PROVE TypeInv'
  <2>1. wk' = [wk EXCEPT ![w] = Idle] /\ Idle \in WkType /\ Idle.ph = "idle"
    BY <1>6, RowTypes
       DEF ReserveRefused, CompleteToActive, MarkReconcile, ReleaseForRetry, Return, Idle
  <2>2. UNCHANGED <<tokens, op, deals, wire, deleted, raced>>
    BY <1>6 DEF ReserveRefused, CompleteToActive, MarkReconcile, ReleaseForRetry
  <2>3. \/ link' \in {link, NoLink, Reconcile}
        \/ CompleteToActive(w) /\ link' = Active(wk[w].token)
    BY <1>6 DEF ReserveRefused, CompleteToActive, MarkReconcile, ReleaseForRetry
  <2>4. LinkOK' /\ link'.token <= tokens
    <3>1. CASE link' \in {link, NoLink, Reconcile}
      BY <3>1, LinkValues DEF TokenInv, LinkOK
    <3>2. CASE CompleteToActive(w) /\ link' = Active(wk[w].token)
      <4>1. wk[w].token \in Nat \ {0}
        BY <3>2, SMT DEF CompleteToActive, TokenInv, Busy
      <4>2. QED BY <3>2, <4>1, LinkValues
    <3>3. QED BY <2>3, <3>1, <3>2
  <2>5. TypeOK' BY <2>1, <2>2, <2>4
  <2>6. TokenInv' BY <2>1, <2>2, <2>4, TokenKept DEF TokenInv
  <2>7. QED BY <2>5, <2>6
<1>7. ASSUME NEW w \in Workers, PostCreated(w) \/ PostAmbiguous(w) \/ PostRefused(w)
      PROVE TypeInv'
  <2>1. PICK p \in {"created", "ambiguous", "refused"} :
           wk' = [wk EXCEPT ![w] = [wk[w] EXCEPT !.ph = p]]
    BY <1>7 DEF PostCreated, PostAmbiguous, PostRefused, Goto
  <2>2. wk[w].token \in 1..tokens /\ Busy(w)
    BY <1>7 DEF PostCreated, PostAmbiguous, PostRefused, TokenInv, Busy
  <2>3. [wk[w] EXCEPT !.ph = p] \in WkType /\ [wk[w] EXCEPT !.ph = p].token = wk[w].token
    BY <2>1 DEF WkType, Phases
  <2>4. /\ UNCHANGED <<link, tokens, op, deleted, raced>>
        /\ deals' \subseteq deals \union {wk[w].token}
        /\ wire' \subseteq wire \union {wk[w].token}
    BY <1>7 DEF PostCreated, PostAmbiguous, PostRefused
  <2>5. TypeOK' BY <2>1, <2>2, <2>3, <2>4 DEF LinkOK
  <2>6. TokenInv' BY <2>1, <2>2, <2>3, <2>4, TokenKept DEF TokenInv
  <2>7. QED BY <2>5, <2>6
<1>8. ASSUME NEW w \in Workers, Crash(w) PROVE TypeInv'
  <2>1. wk' = [wk EXCEPT ![w] = Idle] /\ Idle \in WkType /\ Idle.ph = "idle"
    BY <1>8, RowTypes DEF Crash, Return, Idle
  <2>2. wire' \subseteq 1..tokens BY <1>8 DEF Crash, TokenInv, Busy
  <2>3. TypeOK' BY <1>8, <2>1, <2>2 DEF Crash, LinkOK
  <2>4. TokenInv' BY <1>8, <2>1, TokenKept DEF Crash, TokenInv
  <2>5. QED BY <2>3, <2>4
<1>9. ASSUME NEW d \in deals, OperatorConfirms(d) PROVE TypeInv'
  BY <1>9 DEF OperatorConfirms, LinkOK, TokenInv, Busy
<1>10. ASSUME ActivateReconcileRequired PROVE TypeInv'
  <2>1. LinkOK' /\ link'.token <= tokens
    BY <1>10, LinkValues DEF ActivateReconcileRequired, TokenInv, LinkOK
  <2>2. QED BY <1>10, <2>1 DEF ActivateReconcileRequired, TokenInv, Busy
<1>11. ASSUME NEW t \in wire, DealLands(t) PROVE TypeInv'
  BY <1>11 DEF DealLands, LinkOK, TokenInv, Busy
<1>12. ASSUME NEW d \in deals, DealDeleted(d) PROVE TypeInv'
  BY <1>12 DEF DealDeleted, LinkOK, TokenInv, Busy
<1>13. ASSUME LeaseExpires PROVE TypeInv'
  <2>1. LinkOK' /\ link'.token = link.token
    BY <1>13 DEF LeaseExpires, LinkOK, LinkType
  <2>2. QED BY <1>13, <2>1 DEF LeaseExpires, TokenInv, Busy
<1>14. CASE UNCHANGED vars
  BY <1>14 DEF vars, LinkOK, TokenInv, Busy
<1>15. QED
  BY <1>1, <1>2, <1>3, <1>4, <1>5, <1>6, <1>7, <1>8, <1>9, <1>10, <1>11, <1>12, <1>13,
     <1>14
     DEF Next, WorkerStep

LEMMA TypeInitially == Init => TypeInv
<1>1. ASSUME Init PROVE LinkOK
  BY <1>1, RowTypes DEF Init, NoLink, LinkOK
<1>2. ASSUME Init PROVE wk \in [Workers -> WkType] /\ \A w \in Workers : wk[w].ph = "idle"
  BY <1>2, RowTypes DEF Init, Idle
<1>3. ASSUME Init PROVE RestOK BY <1>2, <1>3 DEF Init, RestOK
<1>4. ASSUME Init PROVE TokenInv
  <2>1. link.token = 0 /\ tokens = 0 /\ op = 0 BY <1>4 DEF Init, NoLink
  <2>2. QED BY <1>2, <1>4, <2>1 DEF TokenInv, Busy
<1>5. QED BY <1>1, <1>3, <1>4, LinkOKIsType DEF TypeInv

\* Types and the CHECK constraints of the row hold in every reachable state of
\* ensure_technical_deal and resolve_reconcile, crashes and deletions included.
THEOREM TypeCorrect == Spec => []TypeOK
<1>1. TypeInv => TypeOK BY DEF TypeInv
<1>2. TypeInv /\ [Next]_vars => TypeInv' BY TypeInductive
<1>3. QED BY <1>1, <1>2, TypeInitially, PTL DEF Spec

-----------------------------------------------------------------------------
(* One tracked deal *)

Posting(d) == \E w \in Workers : wk[w].ph = "post" /\ wk[w].token = d

\* A token whose deal exists, may still appear or is being created.
Out(d) == d \in deals \union wire \/ Posting(d)

\* A token whose deal will not appear again once it is deleted.
Answered(d) == d \in 0..tokens /\ d \notin wire /\ ~Posting(d)

\* What the row, the operator and the workers know of a deal is settled.
Known ==
    /\ \A d \in deals : d \notin wire
    /\ link.status = "ACTIVE" => Answered(link.ext)
    /\ op # 0 => link.status = "RECONCILE_REQUIRED" /\ Answered(op)
    /\ \A w \in Workers :
          /\ wk[w].ph \in {"get", "revoke"} => Answered(wk[w].seen)
          /\ wk[w].ph = "revoke" => wk[w].seen \notin deals
          /\ wk[w].ph = "created" => Answered(wk[w].token)
          /\ wk[w].ph \in {"post", "refused"} => wk[w].token \notin deals \union wire

\* The open row says which token may be out: none, its own, the one it names.
OneOut == \A a, b : Out(a) /\ Out(b) => a = b
FreeRow ==
    (link.status = "NONE" \/ (link.status = "RESERVED" /\ ~link.submitted))
        => \A a : ~Out(a)
ReservedRow ==
    (link.status = "RESERVED" /\ link.submitted) => \A a : Out(a) => a = link.token
ActiveRow == link.status = "ACTIVE" => \A a : Out(a) => a = link.ext
ConfirmedRow == op # 0 => \A a : Out(a) => a = op

Rows == OneOut /\ FreeRow /\ ReservedRow /\ ActiveRow /\ ConfirmedRow

DealInv == TypeInv /\ Known /\ (raced \/ Rows)

\* A step after which no more tokens are out, on a row that admits no more.
LEMMA NotMoreOut ==
    ASSUME Rows, \A a : Out(a)' => Out(a), op' = op \/ op' = 0,
           \/ link'.status = link.status /\ link'.submitted = link.submitted
              /\ link'.token = link.token /\ link'.ext = link.ext
           \/ link' = Reconcile
           \/ \E d : link' = Active(d) /\ \A a : Out(a) => a = d
           \/ \A a : ~Out(a)
    PROVE  Rows'
<1>1. OneOut' /\ ConfirmedRow' BY DEF Rows, OneOut, ConfirmedRow
<1>2. CASE link'.status = link.status /\ link'.submitted = link.submitted
           /\ link'.token = link.token /\ link'.ext = link.ext
  BY <1>1, <1>2 DEF Rows, FreeRow, ReservedRow, ActiveRow
<1>3. CASE link' = Reconcile
  BY <1>1, <1>3 DEF Rows, FreeRow, ReservedRow, ActiveRow, Reconcile, NoLink
<1>4. CASE \E d : link' = Active(d) /\ \A a : Out(a) => a = d
  <2>1. PICK d : link' = Active(d) /\ \A a : Out(a) => a = d BY <1>4
  <2>2. link'.status = "ACTIVE" /\ link'.ext = d BY <2>1 DEF Active, NoLink
  <2>3. QED BY <1>1, <2>1, <2>2 DEF Rows, FreeRow, ReservedRow, ActiveRow
<1>5. CASE \A a : ~Out(a)
  BY <1>1, <1>5 DEF Rows, FreeRow, ReservedRow, ActiveRow
<1>6. QED BY <1>2, <1>3, <1>4, <1>5

\* A worker w moves on and neither posts nor puts a token on the wire: what is
\* answered stays answered, and only a deal may be added to what is out.
LEMMA QuietWorker ==
    ASSUME NEW w \in Workers, wk \in [Workers -> WkType], tokens \in Nat,
           NEW r \in WkType, wk' = [wk EXCEPT ![w] = r],
           r.ph # "post", tokens' = tokens, wire' \subseteq wire
    PROVE  /\ wk'[w] = r /\ \A v \in Workers : v # w => wk'[v] = wk[v]
           /\ \A d : Posting(d)' => Posting(d)
           /\ \A d : Answered(d) => Answered(d)'
<1>1. wk'[w] = r /\ \A v \in Workers : v # w => wk'[v] = wk[v] OBVIOUS
<1>2. \A d : Posting(d)' => Posting(d) BY <1>1 DEF Posting
<1>3. QED BY <1>1, <1>2 DEF Answered

\* The worker facts of Known after w has moved on quietly.
LEMMA KnownWorkers ==
    ASSUME DealInv, NEW w \in Workers, NEW r \in WkType, wk' = [wk EXCEPT ![w] = r],
           r.ph # "post", tokens' = tokens, wire' \subseteq wire, deals' = deals,
           r.ph \in {"get", "revoke"} => Answered(r.seen),
           r.ph = "revoke" => r.seen \notin deals,
           r.ph = "created" => Answered(r.token),
           r.ph = "refused" => r.token \notin deals \union wire,
           link'.status = "ACTIVE" => Answered(link'.ext),
           op' # 0 => link'.status = "RECONCILE_REQUIRED" /\ Answered(op')
    PROVE  Known'
<1>t. wk \in [Workers -> WkType] /\ tokens \in Nat
  BY LinkOKIsType DEF DealInv, TypeInv, RestOK
<1> DEFINE Settled(d) == /\ d \notin wire' /\ d \in 0..tokens'
                         /\ \A v \in Workers : ~(wk'[v].ph = "post" /\ wk'[v].token = d)
<1>1. /\ wk'[w] = r /\ \A v \in Workers : v # w => wk'[v] = wk[v]
      /\ \A d : Answered(d) => Settled(d)
  BY <1>t, QuietWorker DEF Answered, Posting
<1>2. ASSUME NEW v \in Workers
      PROVE /\ wk'[v].ph \in {"get", "revoke"} => Settled(wk'[v].seen)
            /\ wk'[v].ph = "revoke" => wk'[v].seen \notin deals'
            /\ wk'[v].ph = "created" => Settled(wk'[v].token)
            /\ wk'[v].ph \in {"post", "refused"} => wk'[v].token \notin deals' \union wire'
  <2> HIDE DEF Settled
  <2>1. CASE v = w BY <1>1, <2>1
  <2>2. CASE v # w BY <1>1, <2>2 DEF DealInv, Known
  <2>3. QED BY <2>1, <2>2
<1>3. /\ link'.status = "ACTIVE" => Settled(link'.ext)
      /\ op' # 0 => link'.status = "RECONCILE_REQUIRED" /\ Settled(op')
  <2> HIDE DEF Settled
  <2>1. QED BY <1>1
<1>4. \A d \in deals' : d \notin wire' BY DEF DealInv, Known
<1>5. QED BY <1>2, <1>3, <1>4 DEF Known, Answered, Posting

\* A worker returns or goes on, the CRM unchanged, the row as NotMoreOut allows.
LEMMA QuietStep ==
    ASSUME DealInv, NEW w \in Workers, NEW r \in WkType, wk' = [wk EXCEPT ![w] = r],
           r.ph # "post", UNCHANGED <<tokens, op, deals, wire, raced>>,
           r.ph \in {"get", "revoke"} => Answered(r.seen),
           r.ph = "revoke" => r.seen \notin deals,
           r.ph = "created" => Answered(r.token),
           r.ph = "refused" => r.token \notin deals \union wire,
           \/ link' = link
           \/ link' = Reconcile
           \/ op = 0 /\ \E d : link' = Active(d) /\ Answered(d)
                                /\ (raced \/ \A a : Out(a) => a = d)
           \/ op = 0 /\ link' = NoLink /\ (raced \/ \A a : ~Out(a)')
    PROVE  Known' /\ (raced' \/ Rows')
<1>t. wk \in [Workers -> WkType] /\ tokens \in Nat
  BY LinkOKIsType DEF DealInv, TypeInv, RestOK
<1>1. \A a : Out(a)' => Out(a) BY <1>t, QuietWorker DEF Out
<1>2. /\ link'.status = "ACTIVE" => Answered(link'.ext)
      /\ op' # 0 => link'.status = "RECONCILE_REQUIRED" /\ Answered(op')
  <2>1. CASE link' = link BY <2>1 DEF DealInv, Known
  <2>2. CASE link' = Reconcile BY <2>2 DEF DealInv, Known, Reconcile, NoLink
  <2>3. CASE op = 0 /\ \E d : link' = Active(d) /\ Answered(d)
    BY <2>3 DEF Active, NoLink
  <2>4. CASE op = 0 /\ link' = NoLink BY <2>4 DEF NoLink
  <2>5. QED BY <2>1, <2>2, <2>3, <2>4
<1>3. Known' BY <1>2, KnownWorkers
<1>4. ASSUME ~raced PROVE Rows'
  <2>1. Rows BY <1>4 DEF DealInv
  <2>2. CASE link' = link BY <1>1, <2>1, <2>2, NotMoreOut
  <2>3. CASE link' = Reconcile BY <1>1, <2>1, <2>3, NotMoreOut
  <2>4. CASE op = 0 /\ \E d : link' = Active(d) /\ \A a : Out(a) => a = d
    BY <1>1, <2>1, <2>4, NotMoreOut
  <2>5. CASE op = 0 /\ link' = NoLink /\ \A a : ~Out(a)'
    BY <2>5 DEF Rows, OneOut, FreeRow, ReservedRow, ActiveRow, ConfirmedRow
  <2>6. QED BY <1>4, <2>2, <2>3, <2>4, <2>5
<1>5. QED BY <1>3, <1>4

\* The POST of w has been made: its token moves from the worker to the CRM.
LEMMA PostStep ==
    ASSUME DealInv, NEW w \in Workers, wk[w].ph = "post", NEW r \in WkType,
           wk' = [wk EXCEPT ![w] = r],
           UNCHANGED <<link, tokens, op, raced>>,
           \/ /\ r.ph = "created" /\ r.token = wk[w].token
              /\ deals' = deals \union {wk[w].token} /\ wire' = wire
           \/ /\ r.ph \in {"ambiguous", "idle"}
              /\ wire' = wire \union {wk[w].token} /\ deals' = deals
    PROVE  Known' /\ (raced' \/ Rows')
<1> DEFINE t == wk[w].token
<1>t. /\ wk \in [Workers -> WkType] /\ tokens \in Nat
      /\ Posting(t) /\ t \in 1..tokens /\ t \notin deals \union wire
      /\ \A v \in Workers : v # w /\ wk[v].ph \in {"post", "refused"} => wk[v].token # t
  BY LinkOKIsType DEF DealInv, TypeInv, RestOK, TokenInv, Busy, Posting, Known
<1>1. wk'[w] = r /\ \A v \in Workers : v # w => wk'[v] = wk[v] BY <1>t
<1>2. \A d : Posting(d)' <=> Posting(d) /\ d # t
  BY <1>t, <1>1 DEF Posting
<1>3. \A a : Out(a)' <=> Out(a) BY <1>t, <1>2 DEF Out
<1> DEFINE Settled(d) == /\ d \notin wire' /\ d \in 0..tokens'
                         /\ \A v \in Workers : ~(wk'[v].ph = "post" /\ wk'[v].token = d)
<1>4. \A d : Answered(d) => Settled(d) /\ d # t BY <1>t, <1>2 DEF Answered, Posting
<1>5. r.ph = "created" => Settled(r.token) BY <1>t, <1>1
<1>6. Known'
  <2>1. ASSUME NEW v \in Workers
        PROVE /\ wk'[v].ph \in {"get", "revoke"} => Settled(wk'[v].seen)
              /\ wk'[v].ph = "revoke" => wk'[v].seen \notin deals'
              /\ wk'[v].ph = "created" => Settled(wk'[v].token)
              /\ wk'[v].ph \in {"post", "refused"} => wk'[v].token \notin deals' \union wire'
    <3> HIDE DEF Settled
    <3>1. CASE v = w BY <1>1, <1>5, <3>1
    <3>2. CASE v # w BY <1>1, <1>4, <1>t, <3>2 DEF DealInv, Known
    <3>3. QED BY <3>1, <3>2
  <2>2. /\ link'.status = "ACTIVE" => Settled(link'.ext)
        /\ op' # 0 => link'.status = "RECONCILE_REQUIRED" /\ Settled(op')
    <3> HIDE DEF Settled
    <3>1. QED BY <1>4 DEF DealInv, Known
  <2>3. \A d \in deals' : d \notin wire' BY <1>t DEF DealInv, Known
  <2>4. QED BY <2>1, <2>2, <2>3 DEF Known, Answered, Posting
<1>7. ASSUME ~raced PROVE Rows' BY <1>3, <1>7, NotMoreOut DEF DealInv
<1>8. QED BY <1>6, <1>7

LEMMA DealInductive ==
    ASSUME DealInv, [Next]_vars
    PROVE  DealInv'
<1>0. TypeInv' BY TypeInductive DEF DealInv
<1>t. /\ wk \in [Workers -> WkType] /\ link \in LinkType /\ op \in Nat
      /\ tokens \in Nat /\ deals \subseteq 1..tokens /\ wire \subseteq 1..tokens
      /\ Idle \in WkType /\ Idle.ph = "idle"
  BY LinkOKIsType, RowTypes DEF DealInv, TypeInv, LinkOK, RestOK, Idle
<1> DEFINE Goal == Known' /\ (raced' \/ Rows')
<1> SUFFICES Goal BY <1>0 DEF DealInv
<1>g. ASSUME NEW w \in Workers, NEW ph \in Phases
      PROVE LET r == [wk[w] EXCEPT !.ph = ph]
            IN  r \in WkType /\ r.ph = ph /\ r.seen = wk[w].seen /\ r.token = wk[w].token
  <2>1. wk[w] \in WkType BY <1>t
  <2>2. QED BY <2>1 DEF WkType
<1>1. ASSUME NEW w \in Workers, Snapshot(w) PROVE Goal
  <2>1. link.ext \in Nat BY <1>t DEF LinkType
  <2>2. PICK r \in WkType : /\ wk' = [wk EXCEPT ![w] = r]
                            /\ r.ph = "reserve" \/ (r.ph = "get" /\ Answered(r.seen))
    <3>1. CASE link.status = "ACTIVE"
      <4>1. [ph |-> "get", seen |-> link.ext, token |-> 0] \in WkType
        BY <2>1 DEF WkType, Phases
      <4>2. Answered(link.ext) BY <3>1 DEF DealInv, Known
      <4>3. QED BY <1>1, <3>1, <4>1, <4>2 DEF Snapshot
    <3>2. CASE link.status # "ACTIVE"
      <4>1. [ph |-> "reserve", seen |-> 0, token |-> 0] \in WkType
        BY DEF WkType, Phases
      <4>2. QED BY <1>1, <3>2, <4>1 DEF Snapshot
    <3>3. QED BY <3>1, <3>2
  <2>3. QED BY <1>1, <2>2, QuietStep DEF Snapshot
<1>2. ASSUME NEW w \in Workers, GetLead(w) PROVE Goal
  <2>1. CASE Return(w) BY <1>2, <1>t, <2>1, QuietStep DEF GetLead, Return
  <2>2. CASE wk[w].seen \notin deals /\ Goto(w, "revoke")
    <3> DEFINE r == [wk[w] EXCEPT !.ph = "revoke"]
    <3>1. r \in WkType /\ r.ph = "revoke" /\ r.seen = wk[w].seen
      BY <1>g DEF Phases
    <3>2. wk' = [wk EXCEPT ![w] = r] BY <2>2 DEF Goto
    <3>3. Answered(wk[w].seen) BY <1>2 DEF GetLead, DealInv, Known
    <3> HIDE DEF r
    <3>4. QED BY <1>2, <2>2, <3>1, <3>2, <3>3, QuietStep DEF GetLead
  <2>3. QED BY <1>2, <2>1, <2>2 DEF GetLead
<1>3. ASSUME NEW w \in Workers, RevokeActive(w) PROVE Goal
  <2> DEFINE r == [wk[w] EXCEPT !.ph = "reserve"]
  <2>1. r \in WkType /\ r.ph = "reserve" BY <1>g DEF Phases
  <2>2. wk' = [wk EXCEPT ![w] = r] /\ UNCHANGED <<tokens, op, deals, wire>>
    BY <1>3 DEF RevokeActive, Goto
  <2>3. Answered(wk[w].seen) /\ wk[w].seen \notin deals
    BY <1>3 DEF RevokeActive, DealInv, Known
  <2> HIDE DEF r
  <2>4. CASE link.status # "ACTIVE"
    <3>1. link' = link /\ raced' = raced
      <4>1. raced \in BOOLEAN BY LinkOKIsType DEF DealInv, TypeInv, RestOK
      <4>2. QED BY <1>3, <2>4, <4>1 DEF RevokeActive
    <3>2. QED BY <2>1, <2>2, <3>1, QuietStep
  <2>5. CASE link.status = "ACTIVE" /\ link.ext # wk[w].seen
    <3>1. raced' /\ link' = NoLink BY <1>3, <2>5 DEF RevokeActive
    <3>2. op = 0 BY <2>5 DEF DealInv, Known
    <3>3. link'.status # "ACTIVE" BY <3>1 DEF NoLink
    <3>4. Known' BY <2>1, <2>2, <3>2, <3>3, KnownWorkers
    <3>5. QED BY <3>1, <3>4
  <2>6. CASE link.status = "ACTIVE" /\ link.ext = wk[w].seen
    <3>1. raced' = raced /\ link' = NoLink
      <4>1. raced \in BOOLEAN BY LinkOKIsType DEF DealInv, TypeInv, RestOK
      <4>2. QED BY <1>3, <2>6, <4>1 DEF RevokeActive
    <3>2. op = 0 BY <2>6 DEF DealInv, Known
    <3>3. \A a : Out(a)' => Out(a) BY <1>t, <2>1, <2>2, QuietWorker DEF Out
    <3>4. raced \/ \A a : ~Out(a)'
      BY <2>3, <2>6, <3>3 DEF DealInv, Rows, ActiveRow, Out, Answered
    <3>5. QED BY <2>1, <2>2, <3>1, <3>2, <3>4, QuietStep
  <2>7. QED BY <2>4, <2>5, <2>6
<1>4. ASSUME NEW w \in Workers, Reserve(w) \/ ReserveUnsubmitted(w) PROVE Goal
  <2> DEFINE n == tokens + 1
  <2>1. /\ tokens' = n /\ UNCHANGED <<op, deals, wire, raced>>
        /\ link.status \in {"NONE", "RESERVED"}
        /\ link.status = "RESERVED" => ~link.submitted
        /\ link'.status = "RESERVED" /\ link'.token = n
        /\ \A v \in Workers : v # w => wk'[v] = wk[v]
        /\ \/ wk'[w].ph = "post" /\ wk'[w].token = n /\ link'.submitted
           \/ wk'[w].ph = "idle" /\ ~link'.submitted
    BY <1>4, <1>t DEF Reserve, ReserveUnsubmitted, Takeable, Reserved, Return
  <2>2. op = 0 BY <2>1 DEF DealInv, Known
  <2>3. n \notin deals \union wire BY <1>t
  <2>4. \A d : Posting(d)' => Posting(d) \/ (d = n /\ link'.submitted) BY <2>1 DEF Posting
  <2> DEFINE Settled(d) == /\ d \notin wire' /\ d \in 0..tokens'
                           /\ \A v \in Workers : ~(wk'[v].ph = "post" /\ wk'[v].token = d)
  <2>5. \A d : Answered(d) => Settled(d) BY <1>t, <2>1, <2>4 DEF Answered, Posting
  <2>6. Known'
    <3> HIDE DEF n, Settled
    <3>1. ASSUME NEW v \in Workers
          PROVE /\ wk'[v].ph \in {"get", "revoke"} => Settled(wk'[v].seen)
                /\ wk'[v].ph = "revoke" => wk'[v].seen \notin deals'
                /\ wk'[v].ph = "created" => Settled(wk'[v].token)
                /\ wk'[v].ph \in {"post", "refused"} => wk'[v].token \notin deals' \union wire'
      <4>1. CASE v = w BY <2>1, <2>3, <4>1
      <4>2. CASE v # w BY <2>1, <2>5, <4>2 DEF DealInv, Known
      <4>3. QED BY <4>1, <4>2
    <3>2. \A d \in deals' : d \notin wire' BY <2>1 DEF DealInv, Known
    <3>3. QED BY <2>1, <2>2, <3>1, <3>2 DEF Known, Answered, Posting, Settled
  <2>7. ASSUME ~raced PROVE Rows'
    <3> HIDE DEF n
    <3>1. \A a : ~Out(a) BY <2>1, <2>7 DEF DealInv, Rows, FreeRow
    <3>2. \A a : Out(a)' => a = n /\ link'.submitted BY <2>1, <2>4, <3>1 DEF Out
    <3>3. QED
      BY <2>1, <2>2, <3>2 DEF Rows, OneOut, FreeRow, ReservedRow, ActiveRow, ConfirmedRow
  <2>8. QED BY <2>1, <2>6, <2>7
<1>5. ASSUME NEW w \in Workers, ReserveRefused(w) \/ MarkReconcile(w) PROVE Goal
  BY <1>5, <1>t, QuietStep DEF ReserveRefused, MarkReconcile, Return
<1>6. ASSUME NEW w \in Workers, CompleteToActive(w) PROVE Goal
  <2>1. wk' = [wk EXCEPT ![w] = Idle] /\ UNCHANGED <<tokens, op, deals, wire, raced>>
    BY <1>6 DEF CompleteToActive, Return
  <2>2. CASE link' = link BY <1>t, <2>1, <2>2, QuietStep
  <2>3. CASE HoldsReservation(w) /\ link' = Active(wk[w].token)
    <3>1. op = 0 BY <2>3 DEF HoldsReservation, DealInv, Known
    <3>2. Answered(wk[w].token) BY <1>6 DEF CompleteToActive, DealInv, Known
    <3>3. raced \/ \A a : Out(a) => a = wk[w].token
      BY <2>3 DEF HoldsReservation, DealInv, Rows, FreeRow, ReservedRow
    <3>4. QED BY <1>t, <2>1, <2>3, <3>1, <3>2, <3>3, QuietStep
  <2>4. QED BY <1>6, <2>2, <2>3 DEF CompleteToActive
<1>7. ASSUME NEW w \in Workers, ReleaseForRetry(w) PROVE Goal
  <2>1. wk' = [wk EXCEPT ![w] = Idle] /\ UNCHANGED <<tokens, op, deals, wire, raced>>
    BY <1>7 DEF ReleaseForRetry, Return
  <2>2. CASE link' = link BY <1>t, <2>1, <2>2, QuietStep
  <2>3. CASE HoldsReservation(w) /\ link' = NoLink
    <3>1. op = 0 BY <2>3 DEF HoldsReservation, DealInv, Known
    <3>2. ~Out(wk[w].token)
      BY <1>7 DEF ReleaseForRetry, Out, Posting, DealInv, Known, TypeInv, TokenInv, Busy
    <3>3. \A a : Out(a)' => Out(a) BY <1>t, <2>1, QuietWorker DEF Out
    <3>4. raced \/ \A a : ~Out(a)'
      BY <2>3, <3>2, <3>3 DEF HoldsReservation, DealInv, Rows, FreeRow, ReservedRow
    <3>5. QED BY <1>t, <2>1, <2>3, <3>1, <3>4, QuietStep
  <2>4. QED BY <1>7, <2>2, <2>3 DEF ReleaseForRetry
<1>8. ASSUME NEW w \in Workers, PostCreated(w) PROVE Goal
  <2>1. wk' = [wk EXCEPT ![w] = [wk[w] EXCEPT !.ph = "created"]]
    BY <1>8 DEF PostCreated, Goto
  <2>2. QED BY <1>8, <1>g, <2>1, PostStep DEF PostCreated, Phases
<1>9. ASSUME NEW w \in Workers, PostAmbiguous(w) PROVE Goal
  <2>1. wk' = [wk EXCEPT ![w] = [wk[w] EXCEPT !.ph = "ambiguous"]]
    BY <1>9 DEF PostAmbiguous, Goto
  <2>2. QED BY <1>9, <1>g, <2>1, PostStep DEF PostAmbiguous, Phases
<1>10. ASSUME NEW w \in Workers, PostRefused(w) PROVE Goal
  <2> DEFINE r == [wk[w] EXCEPT !.ph = "refused"]
  <2>1. r \in WkType /\ r.ph = "refused" /\ r.token = wk[w].token BY <1>g DEF Phases
  <2>2. wk' = [wk EXCEPT ![w] = r] BY <1>10 DEF PostRefused, Goto
  <2>3. wk[w].token \notin deals \union wire BY <1>10 DEF PostRefused, DealInv, Known
  <2> HIDE DEF r
  <2>4. QED BY <1>10, <2>1, <2>2, <2>3, QuietStep DEF PostRefused
<1>11. ASSUME NEW w \in Workers, Crash(w) PROVE Goal
  <2>1. CASE wk[w].ph = "post" BY <1>11, <1>t, <2>1, PostStep DEF Crash, Return
  <2>2. CASE wk[w].ph # "post" BY <1>11, <1>t, <2>2, QuietStep DEF Crash, Return
  <2>3. QED BY <2>1, <2>2
<1>12. ASSUME NEW d \in deals, OperatorConfirms(d) PROVE Goal
  <2>1. Answered(d) BY <1>t DEF Answered, Posting, DealInv, Known
  <2>2. \A a : Out(a)' <=> Out(a) BY <1>12 DEF OperatorConfirms, Out, Posting
  <2>3. \A a : Answered(a)' <=> Answered(a)
    BY <1>12 DEF OperatorConfirms, Answered, Posting
  <2>4. Known' BY <1>12, <2>1 DEF OperatorConfirms, DealInv, Known, Answered, Posting
  <2>5. ASSUME ~raced PROVE Rows'
    <3>1. \A a : Out(a) => a = d BY <1>12, <2>5 DEF DealInv, Rows, OneOut, Out
    <3>2. QED
      BY <1>12, <2>2, <2>5, <3>1
         DEF OperatorConfirms, DealInv, Rows, OneOut, FreeRow, ReservedRow, ActiveRow, ConfirmedRow
  <2>6. QED BY <1>12, <2>4, <2>5 DEF OperatorConfirms
<1>13. ASSUME ActivateReconcileRequired PROVE Goal
  <2>1. /\ link' = Active(op) /\ op' = 0 /\ Answered(op)
        /\ UNCHANGED <<tokens, wk, deals, wire, raced>>
    BY <1>13 DEF ActivateReconcileRequired, DealInv, Known
  <2>2. link'.status = "ACTIVE" /\ link'.ext = op BY <2>1 DEF Active, NoLink
  <2>3. Known' BY <2>1, <2>2 DEF DealInv, Known, Answered, Posting
  <2>4. \A a : Out(a)' <=> Out(a) BY <2>1 DEF Out, Posting
  <2>5. ASSUME ~raced PROVE Rows'
    <3>1. Rows /\ \A a : Out(a) => a = op
      BY <1>13, <2>5 DEF ActivateReconcileRequired, DealInv, Rows, ConfirmedRow
    <3>2. QED BY <2>1, <2>4, <3>1, NotMoreOut
  <2>6. QED BY <2>1, <2>3, <2>5
<1>14. ASSUME NEW t \in wire, DealLands(t) PROVE Goal
  <2>1. \A a : Out(a)' <=> Out(a) BY <1>14 DEF DealLands, Out, Posting
  <2>2. Known' BY <1>14 DEF DealLands, DealInv, Known, Answered, Posting
  <2>3. ASSUME ~raced PROVE Rows' BY <1>14, <2>1, <2>3, NotMoreOut DEF DealLands, DealInv
  <2>4. QED BY <1>14, <2>2, <2>3 DEF DealLands
<1>15. ASSUME NEW d \in deals, DealDeleted(d) PROVE Goal
  <2>1. \A a : Out(a)' => Out(a) BY <1>15 DEF DealDeleted, Out, Posting
  <2>2. Known' BY <1>15 DEF DealDeleted, DealInv, Known, Answered, Posting
  <2>3. ASSUME ~raced PROVE Rows' BY <1>15, <2>1, <2>3, NotMoreOut DEF DealDeleted, DealInv
  <2>4. QED BY <1>15, <2>2, <2>3 DEF DealDeleted
<1>16. ASSUME LeaseExpires PROVE Goal
  <2>1. /\ link'.status = link.status /\ link'.submitted = link.submitted
        /\ link'.token = link.token /\ link'.ext = link.ext
        /\ UNCHANGED <<tokens, wk, op, deals, wire, raced>>
    BY <1>16, <1>t DEF LeaseExpires, LinkType
  <2>2. \A a : Out(a)' <=> Out(a) BY <2>1 DEF Out, Posting
  <2>3. Known' BY <2>1 DEF DealInv, Known, Answered, Posting
  <2>4. ASSUME ~raced PROVE Rows' BY <2>1, <2>2, <2>4, NotMoreOut DEF DealInv
  <2>5. QED BY <2>1, <2>3, <2>4
<1>17. CASE UNCHANGED vars
  BY <1>17 DEF vars, DealInv, Known, Answered, Posting, Rows, OneOut, FreeRow, ReservedRow,
               ActiveRow, ConfirmedRow, Out
<1>18. QED
  BY <1>1, <1>2, <1>3, <1>4, <1>5, <1>6, <1>7, <1>8, <1>9, <1>10, <1>11, <1>12, <1>13,
     <1>14, <1>15, <1>16, <1>17
     DEF Next, WorkerStep

LEMMA DealInitially == Init => DealInv
<1>1. ASSUME Init PROVE \A w \in Workers : wk[w].ph = "idle" BY <1>1 DEF Init, Idle
<1>2. ASSUME Init PROVE \A a : ~Out(a) BY <1>1, <1>2 DEF Init, Out, Posting
<1>3. ASSUME Init PROVE Known BY <1>1, <1>3 DEF Init, Known, NoLink
<1>4. ASSUME Init PROVE Rows
  BY <1>2, <1>4 DEF Init, Rows, OneOut, FreeRow, ReservedRow, ActiveRow, ConfirmedRow
<1>5. QED BY <1>3, <1>4, TypeInitially DEF DealInv

\* However many workers ensure the deal at once, whatever leases expire, workers
\* crash, answers are lost or late and people delete deals: the CRM never holds
\* two deals of the conversation and none is forgotten, unless revoke_active has
\* revoked a link on the 404 of another deal.
THEOREM OneTrackedDealCorrect == Spec => []OneTrackedDeal
<1>1. Rows => AtMostOneDeal BY DEF Rows, OneOut, AtMostOneDeal, Out
<1>2. ASSUME TypeInv, Rows PROVE DealIsTracked
  <2>1. ASSUME NEW d \in deals \union wire
        PROVE \/ link.status = "ACTIVE" /\ link.ext = d
              \/ link.status = "RESERVED" /\ link.submitted /\ link.token = d
              \/ link.status = "RECONCILE_REQUIRED"
    <3>1. Out(d) BY <2>1 DEF Out
    <3>2. link.status \in LinkStatuses
      BY <1>2, LinkOKIsType DEF TypeInv, LinkOK, LinkType
    <3>3. QED BY <1>2, <3>1, <3>2 DEF Rows, FreeRow, ReservedRow, ActiveRow, LinkStatuses
  <2>2. QED BY <2>1 DEF DealIsTracked
<1>3. DealInv => OneTrackedDeal BY <1>1, <1>2 DEF DealInv, OneTrackedDeal
<1>4. DealInv /\ [Next]_vars => DealInv' BY DealInductive
<1>5. QED BY <1>3, <1>4, DealInitially, PTL DEF Spec

-----------------------------------------------------------------------------
(* MirrorQueue: the workers that drain the mirror's jobs make the deal's    *)
(* steps, and only those.                                                   *)

LEMMA MirrorMakesDealSteps ==
    ASSUME [MirrorNext]_<<vars, mirrorVars>>
    PROVE  [Next]_vars
<1>1. ASSUME NEW w \in Workers, AdapterCalls(w) \/ AdapterProceeds(w) PROVE Next
  <2>1. WorkerStep(w) BY <1>1 DEF AdapterCalls, AdapterProceeds, DealStep, WorkerStep
  <2>2. QED BY <2>1 DEF Next
<1>2. ASSUME NEW w \in Workers, MirrorDies(w) PROVE Next \/ UNCHANGED vars
  BY <1>2 DEF MirrorDies, Next, WorkerStep
<1>3. CASE DealSurroundings BY <1>3 DEF DealSurroundings, Next
<1>4. ASSUME NEW w \in Workers,
             \/ \E j \in MirrorJobs : MirrorClaims(w, j)
             \/ MirrorRecovers(w) \/ MirrorFences(w) \/ AdapterRefuses(w) \/ MirrorCompletes(w)
             \/ MirrorFails(w) \/ MirrorTxFails(w)
      PROVE  UNCHANGED vars
  BY <1>4 DEF MirrorClaims, MirrorRecovers, MirrorFences, AdapterRefuses, MirrorCompletes, MirrorFails,
              MirrorTxFails
<1>5. ASSUME NEW j \in MirrorJobs,
             \/ \E b \in BOOLEAN, c \in 0..MaxMoves : MirrorEnqueued(j, b, c)
             \/ MirrorLeaseLapses(j) \/ MirrorRetryDue(j)
      PROVE  UNCHANGED vars
  BY <1>5 DEF MirrorEnqueued, MirrorLeaseLapses, MirrorRetryDue
<1>6. CASE ContextMoves \/ OwnerChanges BY <1>6 DEF ContextMoves, OwnerChanges
<1>7. CASE UNCHANGED <<vars, mirrorVars>> BY <1>7
<1>8. QED BY <1>1, <1>2, <1>3, <1>4, <1>5, <1>6, <1>7 DEF MirrorNext

\* The mirror queue implements TechnicalDeal: claims, fences, retries and deaths of
\* the mirror's workers add no step to the deal that ensure_technical_deal and its
\* surroundings do not have.
THEOREM MirrorImplementsDeal == MirrorSpec => Spec
<1>1. MirrorInit => Init BY DEF MirrorInit
<1>2. [MirrorNext]_<<vars, mirrorVars>> => [Next]_vars BY MirrorMakesDealSteps
<1>3. QED BY <1>1, <1>2, PTL DEF MirrorSpec, Spec

-----------------------------------------------------------------------------
(* MirrorQueue: the verdicts of the mirror's jobs.                          *)

JobType == [st : {"none", "PENDING", "PROCESSING", "FAILED", "MIRRORED", "SKIPPED", "DEAD"}, bot : BOOLEAN,
            ctx : Nat, att : Nat, ver : Nat, live : BOOLEAN, due : BOOLEAN, late : BOOLEAN]
ClaimType == [ph : {"idle", "claimed", "call", "deal", "ok", "bad"}, job : MirrorJobs \cup {NoClaim.job},
              ver : Nat, saw : BOOLEAN]
DialogType == [ctx : Nat, taken : BOOLEAN]

MirrorTypes == mjobs \in [MirrorJobs -> JobType] /\ mwork \in [Workers -> ClaimType] /\ dialog \in DialogType

\* A job was late at its claim only if the dialog had moved past its context, and
\* contexts never move back; verdicts are what OutdatedNotMirrored says.
VerdictOf(job) ==
    /\ job.ctx <= dialog.ctx /\ (job.late => job.ctx < dialog.ctx)
    /\ job.st = "MIRRORED" /\ job.bot => ~job.late
    /\ job.st = "SKIPPED" => job.bot

\* A claim names a job and a version the job has reached.
ClaimOf(w) ==
    mwork[w].ph # "idle" => /\ mwork[w].job \in MirrorJobs
                            /\ mjobs[mwork[w].job].st # "none"
                            /\ mwork[w].ver <= mjobs[mwork[w].job].ver

\* Past the first transaction a worker that still owns its job has one that was not late.
FencedOf(w) ==
    mwork[w].ph \in {"call", "deal", "ok"} /\ OwnsJob(w) /\ mjobs[mwork[w].job].bot => ~mjobs[mwork[w].job].late

\* A success, and a deal being validated, come from an ACTIVE link.
SawOf(w) ==
    /\ mwork[w].ph = "ok" => mwork[w].saw
    /\ mwork[w].ph = "deal" /\ wk[w].ph = "get" => mwork[w].saw

MirrorInv ==
    /\ MirrorTypes
    /\ \A j \in MirrorJobs : VerdictOf(mjobs[j])
    /\ \A w \in Workers : ClaimOf(w) /\ FencedOf(w) /\ SawOf(w)

LEMMA MirrorRows == NoJob \in JobType /\ NoClaim \in ClaimType /\ NoClaim.ph = "idle"
  BY DEF NoJob, JobType, NoClaim, ClaimType

LEMMA MirrorInitially == MirrorInit => MirrorInv
<1> SUFFICES ASSUME MirrorInit PROVE MirrorInv OBVIOUS
<1>1. MirrorTypes BY MirrorRows DEF MirrorInit, MirrorTypes, DialogType
<1>2. \A j \in MirrorJobs : VerdictOf(mjobs[j]) BY DEF MirrorInit, VerdictOf, NoJob
<1>3. \A w \in Workers : ClaimOf(w) /\ FencedOf(w) /\ SawOf(w)
  BY MirrorRows DEF MirrorInit, ClaimOf, FencedOf, SawOf
<1>4. QED BY <1>1, <1>2, <1>3 DEF MirrorInv

\* How a row may change under a claim on it: a new claim raises the version, and
\* without one the claimed job is the same.
Fits(a, b) ==
    a.st # "none" => /\ b.st # "none" /\ a.ver <= b.ver
                     /\ b.st = "PROCESSING" /\ b.ver = a.ver =>
                          a.st = "PROCESSING" /\ b.bot = a.bot /\ b.late = a.late

LEMMA JobsChange ==
    ASSUME MirrorInv, mjobs' \in [MirrorJobs -> JobType], mwork' \in [Workers -> ClaimType],
           \A j \in MirrorJobs : Fits(mjobs[j], mjobs'[j]),
           \A v \in Workers : wk'[v] = wk[v] \/ mwork'[v] = NoClaim,
           \A v \in Workers :
              \/ mwork'[v] = mwork[v] \/ mwork'[v] = NoClaim
              \/ /\ mwork'[v].ph = "claimed" /\ mwork'[v].job \in MirrorJobs
                 /\ mjobs'[mwork'[v].job].st # "none" /\ mwork'[v].ver <= mjobs'[mwork'[v].job].ver
    PROVE  \A v \in Workers : ClaimOf(v)' /\ FencedOf(v)' /\ SawOf(v)'
<1> SUFFICES ASSUME NEW v \in Workers PROVE ClaimOf(v)' /\ FencedOf(v)' /\ SawOf(v)' OBVIOUS
<1> USE DEF MirrorInv, MirrorTypes
<1>1. CASE mwork'[v] = NoClaim BY <1>1, MirrorRows DEF ClaimOf, FencedOf, SawOf
<1>2. CASE mwork'[v].ph = "claimed" /\ mwork'[v].job \in MirrorJobs
           /\ mjobs'[mwork'[v].job].st # "none" /\ mwork'[v].ver <= mjobs'[mwork'[v].job].ver
  BY <1>2 DEF ClaimOf, FencedOf, SawOf
<1>3. CASE mwork'[v] = mwork[v] /\ mwork[v] # NoClaim
  <2> DEFINE j == mwork[v].job
  <2>1. CASE mwork[v].ph = "idle" BY <1>3, <2>1 DEF ClaimOf, FencedOf, SawOf
  <2>2. CASE mwork[v].ph # "idle"
    <3>1. j \in MirrorJobs /\ mjobs[j].st # "none" /\ mwork[v].ver <= mjobs[j].ver BY <2>2 DEF ClaimOf
    <3>2. Fits(mjobs[j], mjobs'[j]) /\ mjobs[j].ver \in Nat /\ mjobs'[j].ver \in Nat /\ mwork[v].ver \in Nat
      BY <3>1 DEF JobType, ClaimType
    <3>3. mjobs'[j].st # "none" /\ mwork[v].ver <= mjobs'[j].ver BY <3>1, <3>2 DEF Fits
    <3>4. ClaimOf(v)' BY <1>3, <3>1, <3>3 DEF ClaimOf
    <3>5. OwnsJob(v)' => OwnsJob(v) /\ mjobs'[j].bot = mjobs[j].bot /\ mjobs'[j].late = mjobs[j].late
      BY <1>3, <3>1, <3>2 DEF Fits, OwnsJob
    <3>6. FencedOf(v)' BY <1>3, <3>5 DEF FencedOf
    <3>7. SawOf(v)' BY <1>3 DEF SawOf
    <3>8. QED BY <3>4, <3>6, <3>7
  <2>3. QED BY <2>1, <2>2
<1>4. QED BY <1>1, <1>2, <1>3

\* A worker goes on with its claim while the jobs stay as they are.
LEMMA ClaimMoves ==
    ASSUME MirrorInv, NEW w \in Workers, NEW c \in ClaimType, mwork' = [mwork EXCEPT ![w] = c],
           UNCHANGED <<mjobs, dialog>>, \A v \in Workers : v # w => wk'[v] = wk[v],
           c.job = mwork[w].job, c.ver = mwork[w].ver, mwork[w].ph # "idle",
           c.ph \in {"call", "deal", "ok"} =>
              mwork[w].ph \in {"call", "deal"} \/ (mjobs[mwork[w].job].bot => ~mjobs[mwork[w].job].late),
           c.ph = "ok" => c.saw, c.ph = "deal" /\ wk'[w].ph = "get" => c.saw
    PROVE  MirrorInv'
<1> USE DEF MirrorInv, MirrorTypes
<1>1. mwork' \in [Workers -> ClaimType] /\ mwork'[w] = c /\ \A v \in Workers : v # w => mwork'[v] = mwork[v]
  OBVIOUS
<1>2. \A j \in MirrorJobs : VerdictOf(mjobs[j])' BY DEF VerdictOf
<1>3. \A v \in Workers : v # w => ClaimOf(v)' /\ FencedOf(v)' /\ SawOf(v)'
  BY <1>1 DEF ClaimOf, FencedOf, SawOf, OwnsJob
<1>4. ClaimOf(w)' BY <1>1 DEF ClaimOf
<1>5. FencedOf(w)'
  <2>1. OwnsJob(w)' <=> OwnsJob(w) BY <1>1 DEF OwnsJob
  <2>2. QED BY <1>1, <2>1 DEF FencedOf
<1>6. SawOf(w)' BY <1>1 DEF SawOf
<1>7. QED BY <1>1, <1>2, <1>3, <1>4, <1>5, <1>6

\* One job changes; workers keep their claims or let go of them.
LEMMA OneJobChanges ==
    ASSUME MirrorInv, NEW j \in MirrorJobs, NEW b \in JobType, mjobs' = [mjobs EXCEPT ![j] = b],
           UNCHANGED <<dialog, wk>>, Fits(mjobs[j], b), VerdictOf(b),
           mwork' = mwork \/ \E w \in Workers : LetsGo(w)
    PROVE  MirrorInv'
<1> USE DEF MirrorInv, MirrorTypes
<1>1. mjobs' \in [MirrorJobs -> JobType] /\ mjobs'[j] = b /\ \A k \in MirrorJobs : k # j => mjobs'[k] = mjobs[k]
  OBVIOUS
<1>2. /\ mwork' \in [Workers -> ClaimType]
      /\ \A v \in Workers : mwork'[v] = mwork[v] \/ mwork'[v] = NoClaim
  BY MirrorRows DEF LetsGo
<1>3. \A k \in MirrorJobs : Fits(mjobs[k], mjobs'[k])
  BY <1>1 DEF Fits, JobType
<1>4. \A v \in Workers : ClaimOf(v)' /\ FencedOf(v)' /\ SawOf(v)' BY <1>1, <1>2, <1>3, JobsChange
<1>5. \A k \in MirrorJobs : VerdictOf(mjobs'[k])
  BY <1>1 DEF VerdictOf
<1>6. \A k \in MirrorJobs : VerdictOf(mjobs[k])' BY <1>5 DEF VerdictOf
<1>7. QED BY <1>1, <1>2, <1>4, <1>6

\* Nothing of the jobs changes; workers may let go of their claims.
LEMMA OnlyLetsGo ==
    ASSUME MirrorInv, UNCHANGED <<mjobs, dialog>>, mwork' \in [Workers -> ClaimType],
           \A v \in Workers : mwork'[v] = mwork[v] \/ mwork'[v] = NoClaim,
           \A v \in Workers : wk'[v] = wk[v] \/ mwork'[v] = NoClaim
    PROVE  MirrorInv'
<1> USE DEF MirrorInv, MirrorTypes
<1>1. \A j \in MirrorJobs : Fits(mjobs[j], mjobs'[j]) BY DEF Fits, JobType
<1>2. \A v \in Workers : ClaimOf(v)' /\ FencedOf(v)' /\ SawOf(v)' BY <1>1, JobsChange
<1>3. \A k \in MirrorJobs : VerdictOf(mjobs[k])' BY DEF VerdictOf
<1>4. QED BY <1>2, <1>3

LEMMA EnqueueKeeps ==
    ASSUME MirrorInv, NEW j \in MirrorJobs, NEW b \in BOOLEAN, NEW c \in 0..MaxMoves, MirrorEnqueued(j, b, c)
    PROVE  MirrorInv'
<1>1. UNCHANGED <<dialog, mwork, wk>> /\ mjobs[j].st = "none" /\ c <= dialog.ctx /\ c \in Nat
  BY MirrorConstants DEF MirrorEnqueued, vars
<1>2. PICK r \in JobType : r = [NoJob EXCEPT !.st = "PENDING", !.bot = b, !.ctx = c] BY <1>1 DEF NoJob, JobType
<1>3. VerdictOf(r) BY <1>1, <1>2 DEF VerdictOf, NoJob
<1>4. Fits(mjobs[j], r) BY <1>1 DEF Fits
<1>5. mjobs' = [mjobs EXCEPT ![j] = r] BY <1>2 DEF MirrorEnqueued
<1>6. QED BY <1>1, <1>3, <1>4, <1>5, OneJobChanges

LEMMA DialogKeeps ==
    ASSUME MirrorInv, ContextMoves \/ OwnerChanges
    PROVE  MirrorInv'
<1> USE DEF MirrorInv, MirrorTypes
<1>1. UNCHANGED <<mjobs, mwork, wk>> BY DEF ContextMoves, OwnerChanges, vars
<1>2. dialog' \in DialogType /\ dialog.ctx <= dialog'.ctx /\ dialog.ctx \in Nat
  <2>1. CASE ContextMoves BY <2>1 DEF ContextMoves, DialogType
  <2>2. CASE OwnerChanges
    <3> DEFINE b == ~dialog.taken
    <3>1. b \in BOOLEAN /\ dialog' = [dialog EXCEPT !.taken = b] BY <2>2 DEF OwnerChanges
    <3> HIDE DEF b
    <3>2. QED BY <3>1 DEF DialogType
  <2>3. QED BY <2>1, <2>2
<1>3. \A j \in MirrorJobs : VerdictOf(mjobs[j])'
  <2>1. dialog'.ctx \in Nat BY <1>2 DEF DialogType
  <2>2. \A j \in MirrorJobs : mjobs[j].ctx \in Nat BY DEF JobType
  <2>3. QED BY <1>1, <1>2, <2>1, <2>2 DEF VerdictOf
<1>4. \A w \in Workers : ClaimOf(w)' /\ FencedOf(w)' /\ SawOf(w)'
  BY <1>1 DEF ClaimOf, FencedOf, SawOf, OwnsJob
<1>5. QED BY <1>1, <1>2, <1>3, <1>4

\* Recovery ends jobs nobody holds and leaves the others alone.
LEMMA RecoveredRows ==
    ASSUME MirrorInv
    PROVE  /\ Recovered \in [MirrorJobs -> JobType]
           /\ \A k \in MirrorJobs : /\ Fits(mjobs[k], Recovered[k]) /\ VerdictOf(Recovered[k])
                                    /\ Recovered[k].ver = mjobs[k].ver /\ Recovered[k].st # "none" => mjobs[k].st # "none"
                                    /\ \/ Recovered[k] = mjobs[k]
                                       \/ mjobs[k].st = "PROCESSING" /\ Recovered[k].st = "DEAD"
<1> USE DEF MirrorInv, MirrorTypes
<1>1. SUFFICES ASSUME NEW k \in MirrorJobs
               PROVE  /\ Recovered[k] \in JobType /\ Fits(mjobs[k], Recovered[k]) /\ VerdictOf(Recovered[k])
                      /\ Recovered[k].ver = mjobs[k].ver /\ Recovered[k].st # "none" => mjobs[k].st # "none"
                      /\ \/ Recovered[k] = mjobs[k]
                         \/ mjobs[k].st = "PROCESSING" /\ Recovered[k].st = "DEAD"
  BY DEF Recovered
<1>2. mjobs[k] \in JobType /\ VerdictOf(mjobs[k]) OBVIOUS
<1>3. CASE MirrorExhausted(mjobs[k])
  <2>1. PICK r \in JobType : r = [mjobs[k] EXCEPT !.st = "DEAD"] BY <1>2 DEF JobType
  <2>2. Recovered[k] = r BY <1>3, <2>1 DEF Recovered
  <2>3. r.st = "DEAD" /\ r.ver = mjobs[k].ver /\ r.ctx = mjobs[k].ctx /\ r.late = mjobs[k].late
    BY <1>2, <2>1 DEF JobType
  <2>4. Fits(mjobs[k], r) /\ VerdictOf(r) BY <1>2, <2>3 DEF Fits, VerdictOf, JobType
  <2>5. QED BY <1>3, <2>2, <2>3, <2>4 DEF MirrorExhausted
<1>4. CASE ~MirrorExhausted(mjobs[k])
  <2>1. Recovered[k] = mjobs[k] BY <1>4 DEF Recovered
  <2>2. QED BY <1>2, <2>1 DEF Fits, JobType
<1>5. QED BY <1>3, <1>4

\* A claim: the job gets a version nobody holds, and is late exactly if the dialog moved on.
LEMMA ClaimKeeps ==
    ASSUME MirrorInv, NEW w \in Workers, NEW j \in MirrorJobs, MirrorClaims(w, j)
    PROVE  MirrorInv'
<1> USE DEF MirrorInv, MirrorTypes
<1> DEFINE job == Recovered[j]
           late == dialog.ctx # job.ctx
<1>1. UNCHANGED <<dialog, wk>> BY DEF MirrorClaims, vars
<1>2. job \in JobType /\ VerdictOf(job) /\ dialog \in DialogType BY RecoveredRows
<1>3. job = mjobs[j] /\ job.st # "none"
  BY RecoveredRows DEF MirrorClaims, MirrorClaimable
<1>4. late \in BOOLEAN /\ (late => job.ctx < dialog.ctx) BY <1>2 DEF VerdictOf, JobType, DialogType
<1>5. /\ mjobs' = [Recovered EXCEPT ![j] = [job EXCEPT !.st = "PROCESSING", !.att = @ + 1, !.ver = @ + 1,
                                              !.live = TRUE, !.due = FALSE, !.late = late]]
      /\ mwork' = [mwork EXCEPT ![w] = [NoClaim EXCEPT !.ph = "claimed", !.job = j, !.ver = job.ver + 1]]
  BY DEF MirrorClaims
<1> HIDE DEF late
<1>6. PICK r \in JobType : r = [job EXCEPT !.st = "PROCESSING", !.att = @ + 1, !.ver = @ + 1,
                                   !.live = TRUE, !.due = FALSE, !.late = late]
  <2>1. job.att + 1 \in Nat /\ job.ver + 1 \in Nat BY <1>2 DEF JobType
  <2> HIDE DEF job
  <2>2. QED BY <1>2, <1>4, <2>1 DEF JobType
<1>7. r.st = "PROCESSING" /\ r.ver = job.ver + 1 /\ r.ctx = job.ctx /\ r.late = late
  BY <1>2, <1>6 DEF JobType
<1>8. PICK c \in ClaimType : c = [NoClaim EXCEPT !.ph = "claimed", !.job = j, !.ver = job.ver + 1]
  <2>1. job.ver + 1 \in Nat BY <1>2 DEF JobType
  <2> HIDE DEF job
  <2>2. QED BY <2>1, MirrorRows DEF ClaimType
<1>9. c.ph = "claimed" /\ c.job = j /\ c.ver = r.ver BY <1>7, <1>8, MirrorRows DEF ClaimType
<1>10. Fits(mjobs[j], r) /\ VerdictOf(r)
  BY <1>2, <1>3, <1>4, <1>7 DEF Fits, VerdictOf, JobType
<1>11. mjobs' = [Recovered EXCEPT ![j] = r] /\ mwork' = [mwork EXCEPT ![w] = c] BY <1>5, <1>6, <1>8
<1>12. /\ mjobs' \in [MirrorJobs -> JobType] /\ mjobs'[j] = r
       /\ \A k \in MirrorJobs : Fits(mjobs[k], mjobs'[k]) /\ VerdictOf(mjobs'[k])
  BY <1>10, <1>11, RecoveredRows
<1>13. mwork' \in [Workers -> ClaimType] /\ mwork'[w] = c /\ \A v \in Workers : v # w => mwork'[v] = mwork[v]
  BY <1>11
<1>14. r.ver \in Nat BY DEF JobType
<1>15. \A v \in Workers : ClaimOf(v)' /\ FencedOf(v)' /\ SawOf(v)'
  <2>1. \A v \in Workers :
           \/ mwork'[v] = mwork[v] \/ mwork'[v] = NoClaim
           \/ /\ mwork'[v].ph = "claimed" /\ mwork'[v].job \in MirrorJobs
              /\ mjobs'[mwork'[v].job].st # "none" /\ mwork'[v].ver <= mjobs'[mwork'[v].job].ver
    BY <1>7, <1>9, <1>12, <1>13, <1>14
  <2>2. QED BY <1>1, <1>12, <1>13, <2>1, JobsChange
<1>16. \A k \in MirrorJobs : VerdictOf(mjobs[k])' BY <1>1, <1>12 DEF VerdictOf
<1>17. QED BY <1>1, <1>12, <1>13, <1>15, <1>16

LEMMA RowsKeep ==
    ASSUME MirrorInv, (\E w \in Workers : MirrorRecovers(w))
                        \/ \E j \in MirrorJobs : MirrorLeaseLapses(j) \/ MirrorRetryDue(j)
    PROVE  MirrorInv'
<1> USE DEF MirrorInv, MirrorTypes
<1>1. UNCHANGED <<dialog, wk, mwork>> BY DEF MirrorRecovers, MirrorLeaseLapses, MirrorRetryDue, vars
<1>2. CASE \E w \in Workers : MirrorRecovers(w)
  <2>1. mjobs' = Recovered BY <1>2 DEF MirrorRecovers
  <2>2. \A v \in Workers : ClaimOf(v)' /\ FencedOf(v)' /\ SawOf(v)' BY <1>1, <2>1, RecoveredRows, JobsChange
  <2>3. \A k \in MirrorJobs : VerdictOf(mjobs[k])' BY <1>1, <2>1, RecoveredRows DEF VerdictOf
  <2>4. QED BY <1>1, <2>1, <2>2, <2>3, RecoveredRows
<1>3. ASSUME NEW j \in MirrorJobs, MirrorLeaseLapses(j) \/ MirrorRetryDue(j) PROVE MirrorInv'
  <2>1. mjobs[j] \in JobType /\ VerdictOf(mjobs[j]) OBVIOUS
  <2>2. PICK r \in JobType : /\ mjobs' = [mjobs EXCEPT ![j] = r]
                             /\ \/ r = [mjobs[j] EXCEPT !.live = FALSE]
                                \/ r = [mjobs[j] EXCEPT !.due = TRUE]
    BY <1>3, <2>1 DEF MirrorLeaseLapses, MirrorRetryDue, JobType
  <2>3. r.st = mjobs[j].st /\ r.ver = mjobs[j].ver /\ r.bot = mjobs[j].bot /\ r.ctx = mjobs[j].ctx
        /\ r.late = mjobs[j].late
    BY <2>1, <2>2 DEF JobType
  <2>4. Fits(mjobs[j], r) /\ VerdictOf(r) BY <2>1, <2>3 DEF Fits, VerdictOf, JobType
  <2>5. QED BY <1>1, <2>2, <2>4, OneJobChanges
<1>4. QED BY <1>2, <1>3

\* A verdict by the claim's owner: it ends the claim on the row.
LEMMA SettleKeeps ==
    ASSUME MirrorInv, NEW w \in Workers, mwork[w].ph # "idle", OwnsJob(w), LetsGo(w), UNCHANGED <<dialog, wk>>,
           NEW st \in {"MIRRORED", "SKIPPED", "DEAD", "FAILED"}, JobSettles(w, st),
           st = "MIRRORED" => mwork[w].ph = "ok", st = "SKIPPED" => mjobs[mwork[w].job].bot
    PROVE  MirrorInv'
<1> USE DEF MirrorInv, MirrorTypes
<1>1. PICK j \in MirrorJobs : j = mwork[w].job BY DEF ClaimOf
<1>2. mjobs[j] \in JobType /\ VerdictOf(mjobs[j]) OBVIOUS
<1>3. PICK r \in JobType : r = [mjobs[j] EXCEPT !.st = st, !.live = FALSE] BY <1>2 DEF JobType
<1>4. mjobs' = [mjobs EXCEPT ![j] = r] BY <1>1, <1>3 DEF JobSettles
<1>5. r.st = st /\ r.ver = mjobs[j].ver /\ r.bot = mjobs[j].bot /\ r.ctx = mjobs[j].ctx /\ r.late = mjobs[j].late
  BY <1>2, <1>3 DEF JobType
<1>6. st = "MIRRORED" /\ r.bot => ~r.late BY <1>1, <1>5 DEF FencedOf
<1>7. Fits(mjobs[j], r) BY <1>2, <1>5 DEF Fits, JobType
<1>8. VerdictOf(r) BY <1>1, <1>2, <1>5, <1>6 DEF VerdictOf
<1>9. QED BY <1>4, <1>7, <1>8, OneJobChanges

LEMMA LetsGoKeeps ==
    ASSUME MirrorInv, NEW w \in Workers, LetsGo(w), UNCHANGED <<mjobs, dialog, wk>>
    PROVE  MirrorInv'
  BY OnlyLetsGo, MirrorRows DEF MirrorInv, MirrorTypes, LetsGo

\* A change of phase alone.
LEMMA GotoKeeps ==
    ASSUME MirrorInv, NEW w \in Workers, NEW ph \in {"call", "bad"}, MirrorGoto(w, ph),
           UNCHANGED <<mjobs, dialog, wk>>, mwork[w].ph # "idle",
           ph = "call" => (mjobs[mwork[w].job].bot => ~mjobs[mwork[w].job].late)
    PROVE  MirrorInv'
<1>1. mwork[w] \in ClaimType BY DEF MirrorInv, MirrorTypes
<1>2. PICK c \in ClaimType : c = [mwork[w] EXCEPT !.ph = ph] BY <1>1 DEF ClaimType
<1>3. c.ph = ph /\ c.job = mwork[w].job /\ c.ver = mwork[w].ver BY <1>1, <1>2 DEF ClaimType
<1>4. mwork' = [mwork EXCEPT ![w] = c] BY <1>2 DEF MirrorGoto
<1>5. QED BY <1>3, <1>4, ClaimMoves

\* The first transaction: only a job that is not outdated goes on to the call.
LEMMA FencesKeep ==
    ASSUME MirrorInv, NEW w \in Workers, MirrorFences(w)
    PROVE  MirrorInv'
<1> DEFINE job == mjobs[mwork[w].job]
<1>1. UNCHANGED <<dialog, wk>> /\ mwork[w].ph = "claimed" BY DEF MirrorFences, vars
<1>2. CASE ~OwnsJob(w) /\ LetsGo(w) /\ UNCHANGED mjobs BY <1>1, <1>2, LetsGoKeeps
<1>3. CASE OwnsJob(w) /\ Outdated(job) /\ JobSettles(w, "SKIPPED") /\ LetsGo(w)
  <2>1. job.bot BY <1>3 DEF Outdated
  <2>2. QED BY <1>1, <1>3, <2>1, SettleKeeps
<1>4. CASE OwnsJob(w) /\ ~Outdated(job) /\ MirrorGoto(w, "call") /\ UNCHANGED mjobs
  <2>1. mwork[w].job \in MirrorJobs BY <1>1 DEF MirrorInv, ClaimOf
  <2>2. VerdictOf(job) /\ job \in JobType /\ dialog \in DialogType BY <2>1 DEF MirrorInv, MirrorTypes
  <2>3. job.bot => ~job.late BY <1>4, <2>2 DEF Outdated, VerdictOf, JobType, DialogType
  <2>4. QED BY <1>1, <1>4, <2>3, GotoKeeps
<1>5. QED BY <1>2, <1>3, <1>4 DEF MirrorFences

\* What a step of the deal's call does to the callers.
LEMMA DealStepFrame ==
    ASSUME TypeOK, NEW w \in Workers, DealStep(w) \/ Crash(w)
    PROVE  /\ \A v \in Workers : v # w => wk'[v] = wk[v]
           /\ wk'[w].ph # "get"
<1>1. wk \in [Workers -> WkType] BY DEF TypeOK, WkType
<1>2. PICK c : wk' = [wk EXCEPT ![w] = c] /\ c.ph # "get"
  <2>1. wk[w] \in WkType BY <1>1
  <2>2. ASSUME NEW ph \in {"revoke", "reserve", "created", "ambiguous", "refused"}, Goto(w, ph)
        PROVE  \E c : wk' = [wk EXCEPT ![w] = c] /\ c.ph # "get"
    <3>1. [wk[w] EXCEPT !.ph = ph].ph = ph BY <2>1 DEF WkType
    <3>2. QED BY <2>2, <3>1 DEF Goto
  <2>3. ASSUME Return(w) PROVE \E c : wk' = [wk EXCEPT ![w] = c] /\ c.ph # "get"
    <3>1. Idle.ph # "get" BY DEF Idle
    <3>2. QED BY <2>3, <3>1 DEF Return
  <2>4. CASE Reserve(w)
    <3> DEFINE r == [ph |-> "post", seen |-> 0, token |-> tokens + 1]
    <3>1. r.ph # "get" /\ wk' = [wk EXCEPT ![w] = r] BY <2>4 DEF Reserve
    <3> HIDE DEF r
    <3>2. QED BY <3>1
  <2>5. CASE GetLead(w) \/ RevokeActive(w) \/ PostCreated(w) \/ PostAmbiguous(w) \/ PostRefused(w)
    BY <2>2, <2>3, <2>5 DEF GetLead, RevokeActive, PostCreated, PostAmbiguous, PostRefused
  <2>6. CASE ReserveUnsubmitted(w) \/ ReserveRefused(w) \/ CompleteToActive(w) \/ MarkReconcile(w)
             \/ ReleaseForRetry(w) \/ Crash(w)
    BY <2>3, <2>6 DEF ReserveUnsubmitted, ReserveRefused, CompleteToActive, MarkReconcile, ReleaseForRetry, Crash
  <2>7. QED BY <2>4, <2>5, <2>6 DEF DealStep
<1>3. QED BY <1>1, <1>2

LEMMA AdapterKeeps ==
    ASSUME MirrorInv, TypeOK, NEW w \in Workers, AdapterCalls(w) \/ AdapterProceeds(w)
    PROVE  MirrorInv'
<1>1. mwork[w] \in ClaimType /\ UNCHANGED <<mjobs, dialog>> /\ mwork[w].ph \in {"call", "deal"}
  BY DEF MirrorInv, MirrorTypes, AdapterCalls, AdapterProceeds
<1> DEFINE s == Meets(w)
<1>2. s \in BOOLEAN BY <1>1 DEF Meets, ClaimType
<1>3. ASSUME NEW ph \in {"deal", "ok", "bad"}, mwork' = [mwork EXCEPT ![w].ph = ph, ![w].saw = s],
             \A v \in Workers : v # w => wk'[v] = wk[v], ph = "ok" => s, ph = "deal" /\ wk'[w].ph = "get" => s
      PROVE  MirrorInv'
  <2> HIDE DEF s
  <2>1. PICK c \in ClaimType : c = [mwork[w] EXCEPT !.ph = ph, !.saw = s] BY <1>1, <1>2 DEF ClaimType
  <2>2. c.ph = ph /\ c.job = mwork[w].job /\ c.ver = mwork[w].ver /\ c.saw = s BY <1>1, <2>1 DEF ClaimType
  <2>3. mwork' = [mwork EXCEPT ![w] = c] BY <1>3, <2>1
  <2>4. QED BY <1>1, <1>3, <2>2, <2>3, ClaimMoves
<1>4. CASE AdapterCalls(w)
  <2>1. mwork' = [mwork EXCEPT ![w].ph = "deal", ![w].saw = s] BY <1>4 DEF AdapterCalls
  <2>2. wk \in [Workers -> WkType] BY DEF TypeOK, WkType
  <2>3. \A v \in Workers : v # w => wk'[v] = wk[v] BY <1>4, <2>2 DEF AdapterCalls, Snapshot
  <2>4. wk'[w].ph = "get" => link.status = "ACTIVE" BY <1>4, <2>2 DEF AdapterCalls, Snapshot
  <2>5. QED BY <1>3, <2>1, <2>3, <2>4 DEF Meets
<1>5. CASE AdapterProceeds(w)
  <2>1. PICK ph \in {"deal", "ok", "bad"} :
           (ph = "ok" => Ensured(w)) /\ mwork' = [mwork EXCEPT ![w].ph = ph, ![w].saw = s]
    BY <1>5 DEF AdapterProceeds
  <2>2. mwork[w].ph = "deal" /\ DealStep(w) BY <1>5 DEF AdapterProceeds
  <2>3. Ensured(w) => s BY <2>2 DEF Ensured, Meets, MirrorInv, SawOf
  <2>4. QED BY <1>3, <2>1, <2>2, <2>3, DealStepFrame
<1>6. QED BY <1>4, <1>5

LEMMA MirrorInductive ==
    ASSUME MirrorInv, TypeOK, [MirrorNext]_<<vars, mirrorVars>>
    PROVE  MirrorInv'
<1>1. ASSUME NEW w \in Workers, AdapterRefuses(w) \/ MirrorTxFails(w) PROVE MirrorInv'
  <2>1. MirrorGoto(w, "bad") /\ UNCHANGED <<mjobs, dialog, wk>> /\ mwork[w].ph # "idle"
    BY <1>1 DEF AdapterRefuses, MirrorTxFails, vars
  <2>2. QED BY <2>1, GotoKeeps
<1>2. ASSUME NEW w \in Workers, MirrorCompletes(w) \/ MirrorFails(w) PROVE MirrorInv'
  <2>1. LetsGo(w) /\ UNCHANGED <<dialog, wk>> /\ mwork[w].ph # "idle" BY <1>2 DEF MirrorCompletes, MirrorFails, vars
  <2>2. CASE ~OwnsJob(w)
    <3>1. UNCHANGED mjobs BY <1>2, <2>2 DEF MirrorCompletes, MirrorFails
    <3>2. QED BY <2>1, <3>1, LetsGoKeeps
  <2>3. CASE OwnsJob(w)
    <3>1. CASE MirrorCompletes(w)
      <4>1. JobSettles(w, "MIRRORED") /\ mwork[w].ph = "ok" BY <2>3, <3>1 DEF MirrorCompletes
      <4>2. QED BY <2>1, <2>3, <4>1, SettleKeeps
    <3>2. CASE MirrorFails(w)
      <4>1. JobSettles(w, "DEAD") \/ JobSettles(w, "FAILED") BY <2>3, <3>2 DEF MirrorFails
      <4>2. QED BY <2>1, <2>3, <4>1, SettleKeeps
    <3>3. QED BY <1>2, <3>1, <3>2
  <2>4. QED BY <2>2, <2>3
<1>3. ASSUME NEW w \in Workers, MirrorDies(w) PROVE MirrorInv'
  <2>1. LetsGo(w) /\ UNCHANGED <<mjobs, dialog>> BY <1>3 DEF MirrorDies
  <2>2. /\ mwork' \in [Workers -> ClaimType] /\ mwork'[w] = NoClaim
        /\ \A v \in Workers : mwork'[v] = mwork[v] \/ mwork'[v] = NoClaim
    BY <2>1, MirrorRows DEF LetsGo, MirrorInv, MirrorTypes
  <2>3. \A v \in Workers : v # w => wk'[v] = wk[v] BY <1>3, DealStepFrame DEF MirrorDies, vars
  <2>4. QED BY <2>1, <2>2, <2>3, OnlyLetsGo
<1>4. CASE DealSurroundings
  <2>1. UNCHANGED <<mjobs, mwork, dialog, wk>>
    BY <1>4 DEF DealSurroundings, mirrorVars, OperatorConfirms, ActivateReconcileRequired, DealLands, DealDeleted,
                LeaseExpires
  <2>2. QED BY <2>1, OnlyLetsGo DEF MirrorInv, MirrorTypes
<1>5. CASE UNCHANGED <<vars, mirrorVars>>
  <2>1. UNCHANGED <<mjobs, mwork, dialog, wk>> BY <1>5 DEF vars, mirrorVars
  <2>2. QED BY <2>1, OnlyLetsGo DEF MirrorInv, MirrorTypes
<1>6. QED BY <1>1, <1>2, <1>3, <1>4, <1>5, EnqueueKeeps, DialogKeeps, ClaimKeeps, RowsKeep, FencesKeep, AdapterKeeps
        DEF MirrorNext

\* The verdicts on the jobs: only the owner of a claim gives one, MIRRORED only
\* after an ACTIVE link was met.
LEMMA VerdictStep ==
    ASSUME MirrorInv, TypeOK, MirrorNext, NEW j \in MirrorJobs
    PROVE  /\ mjobs[j].st \in MirrorSettled => mjobs'[j].st = mjobs[j].st
           /\ mjobs[j].st # "MIRRORED" /\ mjobs'[j].st = "MIRRORED" =>
                \E w \in Workers : mwork[w].job = j /\ mwork[w].ver = mjobs[j].ver /\ mwork[w].saw
<1> USE DEF MirrorInv, MirrorTypes
<1> DEFINE Goal == /\ mjobs[j].st \in MirrorSettled => mjobs'[j].st = mjobs[j].st
                   /\ mjobs[j].st # "MIRRORED" /\ mjobs'[j].st = "MIRRORED" =>
                        \E w \in Workers : mwork[w].job = j /\ mwork[w].ver = mjobs[j].ver /\ mwork[w].saw
<1>0. ASSUME mjobs'[j].st = mjobs[j].st \/ (mjobs[j].st \notin MirrorSettled /\ mjobs'[j].st # "MIRRORED") PROVE Goal
  BY <1>0 DEF MirrorSettled
<1>1. ASSUME NEW k \in MirrorJobs, NEW b \in BOOLEAN, NEW c \in 0..MaxMoves, MirrorEnqueued(k, b, c) PROVE Goal
  <2>1. PICK r : r.st = "PENDING" /\ mjobs' = [mjobs EXCEPT ![k] = r] /\ mjobs[k].st = "none"
    <3> DEFINE r == [NoJob EXCEPT !.st = "PENDING", !.bot = b, !.ctx = c]
    <3>1. r.st = "PENDING" BY DEF NoJob
    <3>2. mjobs' = [mjobs EXCEPT ![k] = r] /\ mjobs[k].st = "none" BY <1>1 DEF MirrorEnqueued
    <3> HIDE DEF r
    <3>3. QED BY <3>1, <3>2
  <2>2. QED BY <2>1, <1>0 DEF MirrorSettled
<1>2. ASSUME NEW w \in Workers, NEW k \in MirrorJobs, MirrorClaims(w, k) PROVE Goal
  <2>1. PICK r : r.st = "PROCESSING" /\ mjobs' = [Recovered EXCEPT ![k] = r]
    <3> DEFINE job == Recovered[k]
               r == [job EXCEPT !.st = "PROCESSING", !.att = @ + 1, !.ver = @ + 1,
                                !.live = TRUE, !.due = FALSE, !.late = dialog.ctx # job.ctx]
    <3>1. job \in JobType BY RecoveredRows
    <3>2. r.st = "PROCESSING" BY <3>1 DEF JobType
    <3>3. mjobs' = [Recovered EXCEPT ![k] = r] BY <1>2 DEF MirrorClaims
    <3> HIDE DEF r
    <3>4. QED BY <3>2, <3>3
  <2>2. Recovered[k] = mjobs[k] /\ mjobs[k].st \notin MirrorSettled
    BY <1>2, RecoveredRows DEF MirrorClaims, MirrorClaimable, MirrorSettled
  <2>3. CASE j = k BY <1>0, <2>1, <2>2, <2>3, RecoveredRows
  <2>4. CASE j # k
    <3>1. mjobs'[j] = Recovered[j] BY <2>1, <2>4, RecoveredRows
    <3>2. QED BY <1>0, <3>1, RecoveredRows DEF MirrorSettled
  <2>5. QED BY <2>3, <2>4
<1>3. ASSUME NEW w \in Workers, MirrorRecovers(w) PROVE Goal
  <2>1. mjobs' = Recovered BY <1>3 DEF MirrorRecovers
  <2>2. QED BY <1>0, <2>1, RecoveredRows DEF MirrorSettled
<1>4. ASSUME NEW k \in MirrorJobs, MirrorLeaseLapses(k) \/ MirrorRetryDue(k) PROVE Goal
  <2>1. mjobs[k] \in JobType OBVIOUS
  <2>2. PICK r : r.st = mjobs[k].st /\ mjobs' = [mjobs EXCEPT ![k] = r]
    <3>1. [mjobs[k] EXCEPT !.live = FALSE].st = mjobs[k].st /\ [mjobs[k] EXCEPT !.due = TRUE].st = mjobs[k].st
      BY <2>1 DEF JobType
    <3>2. mjobs' = [mjobs EXCEPT ![k] = [mjobs[k] EXCEPT !.live = FALSE]]
          \/ mjobs' = [mjobs EXCEPT ![k] = [mjobs[k] EXCEPT !.due = TRUE]]
      BY <1>4 DEF MirrorLeaseLapses, MirrorRetryDue
    <3>3. QED BY <3>1, <3>2
  <2>3. QED BY <1>0, <2>2
<1>5. ASSUME NEW w \in Workers, NEW st, JobSettles(w, st), OwnsJob(w), mwork[w].ph # "idle",
             st = "MIRRORED" => mwork[w].ph = "ok"
      PROVE  Goal
  <2>1. mwork[w].job \in MirrorJobs BY <1>5 DEF ClaimOf
  <2>2. mjobs[mwork[w].job].st = "PROCESSING" /\ mjobs[mwork[w].job].ver = mwork[w].ver BY <1>5 DEF OwnsJob
  <2>3. [mjobs[mwork[w].job] EXCEPT !.st = st, !.live = FALSE].st = st BY <2>1 DEF JobType
  <2>4. mjobs' = [mjobs EXCEPT ![mwork[w].job] = [mjobs[mwork[w].job] EXCEPT !.st = st, !.live = FALSE]]
    BY <1>5 DEF JobSettles
  <2>5. CASE j # mwork[w].job BY <1>0, <2>4, <2>5
  <2>6. CASE j = mwork[w].job
    <3>1. mjobs'[j].st = st BY <2>1, <2>3, <2>4, <2>6
    <3>2. st = "MIRRORED" => mwork[w].saw BY <1>5 DEF SawOf
    <3>3. QED BY <2>2, <2>6, <3>1, <3>2 DEF MirrorSettled
  <2>7. QED BY <2>5, <2>6
<1>6. CASE mjobs' = mjobs BY <1>0, <1>6
<1>7. ASSUME NEW w \in Workers, MirrorFences(w) PROVE Goal BY <1>5, <1>6, <1>7 DEF MirrorFences
<1>8. ASSUME NEW w \in Workers, MirrorCompletes(w) PROVE Goal BY <1>5, <1>6, <1>8 DEF MirrorCompletes
<1>9. ASSUME NEW w \in Workers, MirrorFails(w) PROVE Goal
  <2>1. mwork[w].ph = "bad" BY <1>9 DEF MirrorFails
  <2>2. mjobs' = mjobs \/ (OwnsJob(w) /\ (JobSettles(w, "DEAD") \/ JobSettles(w, "FAILED"))) BY <1>9 DEF MirrorFails
  <2>3. QED BY <1>5, <1>6, <2>1, <2>2
<1>10. ASSUME NEW w \in Workers,
              AdapterCalls(w) \/ AdapterRefuses(w) \/ AdapterProceeds(w) \/ MirrorTxFails(w) \/ MirrorDies(w)
       PROVE  mjobs' = mjobs
  BY <1>10 DEF AdapterCalls, AdapterRefuses, AdapterProceeds, MirrorTxFails, MirrorDies
<1>11. CASE ContextMoves \/ OwnerChanges \/ DealSurroundings
  BY <1>6, <1>11 DEF ContextMoves, OwnerChanges, DealSurroundings, mirrorVars
<1>12. QED BY <1>1, <1>2, <1>3, <1>4, <1>6, <1>7, <1>8, <1>9, <1>10, <1>11 DEF MirrorNext

\* Whatever a worker does whose lease was taken over, and however the deal's call
\* ends: MIRRORED is given only by the owner of the claim after it met an ACTIVE
\* link, never to an outdated action of the bot, and no verdict is changed.
THEOREM MirrorTruthfulCorrect == MirrorSpec => MirrorTruthful
<1> DEFINE Had == \A j \in MirrorJobs : mjobs[j].st # "MIRRORED" /\ mjobs'[j].st = "MIRRORED" =>
                    \E w \in Workers : mwork[w].job = j /\ mwork[w].ver = mjobs[j].ver /\ mwork[w].saw
           Once == \A j \in MirrorJobs : mjobs[j].st \in MirrorSettled => mjobs'[j].st = mjobs[j].st
<1>1. MirrorSpec => []TypeOK BY MirrorImplementsDeal, TypeCorrect, PTL
<1>2. MirrorInv /\ TypeOK /\ [MirrorNext]_<<vars, mirrorVars>> => MirrorInv' BY MirrorInductive
<1>3. MirrorInv /\ TypeOK /\ [MirrorNext]_<<vars, mirrorVars>> => [Had /\ Once]_<<vars, mirrorVars>>
  BY VerdictStep
<1>4. MirrorInv => OutdatedNotMirrored BY DEF MirrorInv, VerdictOf, OutdatedNotMirrored
<1>5. QED BY <1>1, <1>2, <1>3, <1>4, MirrorInitially, PTL
        DEF MirrorSpec, MirrorTruthful, MirroredHadDeal, SettledOnce

\* The deal stays single and tracked when it is the mirror's workers that make it.
THEOREM MirrorKeepsOneDeal == MirrorSpec => []OneTrackedDeal
  BY MirrorImplementsDeal, OneTrackedDealCorrect, PTL
=============================================================================
