----------------------- MODULE ChatProjectionProofs -----------------------
(***************************************************************************)
(* Theorems about ChatProjection for any sets of projections and workers   *)
(* and any number of attempts: types, at most one copy of a message, and   *)
(* settled rows stay settled.  Then about ManagerEcho, which composes the  *)
(* worker with the manager's webhooks and the binding: it implements       *)
(* ChatProjection, hears every webhook for what it is, changes a known     *)
(* integration id only in a transaction that had read none, and decides    *)
(* each acknowledged webhook once, as EventPromise says.                   *)
(***************************************************************************)
EXTENDS ManagerEcho, FiniteSetTheorems, TLAPS

RowType == [status : Statuses, lease : {"none", "live", "expired"},
            ver : Nat, att : Nat, amo : BOOLEAN, delayed : BOOLEAN]
WkType == [ph : Phases, p : Projections \union {NoProjection},
           ver : Nat, att : Nat, amo : BOOLEAN]

RowOK(r) == r \in RowType /\ (r.status = "PROCESSING") = (r.lease # "none")

-----------------------------------------------------------------------------
(* Rows *)

LEMMA TypeParts ==
    /\ TypeOK <=> /\ row \in [Projections -> RowType]
                  /\ \A p \in Projections : RowOK(row[p])
                  /\ wk \in [Workers -> WkType]
                  /\ bound \in BOOLEAN
                  /\ copies \in [Projections -> Nat]
                  /\ reported \subseteq Projections
    /\ TypeOK' <=> /\ row' \in [Projections -> RowType]
                   /\ \A p \in Projections : RowOK(row'[p])
                   /\ wk' \in [Workers -> WkType]
                   /\ bound' \in BOOLEAN
                   /\ copies' \in [Projections -> Nat]
                   /\ reported' \subseteq Projections
  BY DEF TypeOK, RowType, WkType, RowOK

LEMMA ClaimedRow ==
    ASSUME NEW r \in RowType
    PROVE  /\ RowOK(Claimed(r))
           /\ Claimed(r).ver = r.ver + 1 /\ Claimed(r).att = r.att + 1
           /\ Claimed(r).status = "PROCESSING" /\ Claimed(r).lease = "live"
           /\ Claimed(r).amo = r.amo
<1>1. r.ver + 1 \in Nat /\ r.att + 1 \in Nat BY DEF RowType
<1>2. Claimed(r) \in RowType BY <1>1 DEF Claimed, RowType, Statuses
<1>3. /\ Claimed(r).ver = r.ver + 1 /\ Claimed(r).att = r.att + 1
      /\ Claimed(r).status = "PROCESSING" /\ Claimed(r).lease = "live"
      /\ Claimed(r).amo = r.amo
  BY DEF Claimed, RowType
<1>4. QED BY <1>2, <1>3 DEF RowOK

LEMMA TerminatedRow ==
    ASSUME NEW r \in RowType, NEW s \in {"PROJECTED", "DEAD", "FAILED"}
    PROVE  /\ Terminated(r, s) \in RowType
           /\ Terminated(r, s).ver = r.ver /\ Terminated(r, s).att = r.att
           /\ Terminated(r, s).status = s /\ Terminated(r, s).lease = "none"
           /\ Terminated(r, s).amo = r.amo
<1>1. Terminated(r, s) \in RowType BY DEF Terminated, RowType, Statuses
<1>2. QED BY <1>1 DEF Terminated, RowType

LEMMA FailedRow ==
    ASSUME NEW r \in RowType
    PROVE  /\ Failed(r) \in RowType
           /\ Failed(r).ver = r.ver /\ Failed(r).att = r.att
           /\ Failed(r).status = "FAILED" /\ Failed(r).lease = "none"
           /\ Failed(r).amo = r.amo
<1>1. PICK t \in RowType : t = Terminated(r, "FAILED") BY TerminatedRow
<1>2. [t EXCEPT !.delayed = TRUE] \in RowType BY DEF RowType
<1>3. QED BY <1>1, <1>2, TerminatedRow DEF Failed, RowType

LEMMA ProjectedRow ==
    ASSUME NEW r \in RowType
    PROVE  LET t == [Terminated(r, "PROJECTED") EXCEPT !.amo = TRUE]
           IN  /\ t \in RowType /\ t.ver = r.ver /\ t.att = r.att
               /\ t.status = "PROJECTED" /\ t.lease = "none"
<1>1. PICK t \in RowType : t = Terminated(r, "PROJECTED") BY TerminatedRow
<1>2. [t EXCEPT !.amo = TRUE] \in RowType BY DEF RowType
<1>3. QED BY <1>1, <1>2, TerminatedRow DEF RowType

-----------------------------------------------------------------------------
(* The inductive invariant *)

Busy(w) == wk[w].ph # "idle"

\* Claims are of existing versions, and no two workers hold the same one.
ClaimInv ==
    /\ \A w \in Workers : Busy(w) =>
          /\ wk[w].p \in Projections
          /\ wk[w].ver \in 1..row[wk[w].p].ver
          /\ wk[w].att = wk[w].ver
    /\ \A v, w \in Workers :
          Busy(v) /\ Busy(w) /\ wk[v].p = wk[w].p /\ wk[v].ver = wk[w].ver => v = w
    /\ \A p \in Projections :
          /\ row[p].att = row[p].ver
          /\ row[p].status = "ABSENT" => row[p].ver = 0

\* Whoever may still send holds the row and knows that nothing has landed.
SendInv ==
    /\ \A w \in Workers : wk[w].ph = "send" => Owns(w)
    /\ \A w \in Workers :
          Fenced(w) /\ (wk[w].ph \in {"renew", "send"} \/ (wk[w].ph = "claimed" /\ wk[w].ver = 1))
              => copies[wk[w].p] = 0
    /\ \A p \in Projections : row[p].ver = 0 => copies[p] = 0

\* An id, stored or in memory, stands for a message that landed.
IdInv ==
    /\ ProjectedIsVisible
    /\ \A w \in Workers :
          Busy(w) /\ (wk[w].amo \/ wk[w].ph \in {"attach", "complete"}) => copies[wk[w].p] > 0

Inv == TypeOK /\ ClaimInv /\ SendInv /\ IdInv /\ AtMostOneCopy

\* Steps that neither claim a row nor put a message into the chat.
LEMMA QuietStep ==
    ASSUME Inv, TypeOK', copies' = copies,
           \A p \in Projections :
              /\ row'[p].ver = row[p].ver /\ row'[p].att = row[p].att
              /\ row'[p].status = "ABSENT" => row[p].status = "ABSENT"
              /\ row'[p].status = "PROCESSING" => row[p].status = "PROCESSING",
           \A w \in Workers : Busy(w)' =>
              /\ Busy(w)
              /\ wk'[w].p = wk[w].p /\ wk'[w].ver = wk[w].ver
              /\ wk'[w].att = wk[w].att /\ wk'[w].amo = wk[w].amo
              /\ wk'[w].ph = "claimed" => wk[w].ph = "claimed",
           \A w \in Workers : wk'[w].ph = "send" => Owns(w)',
           \A w \in Workers : wk'[w].ph \in {"renew", "send"} /\ Fenced(w)
              => copies[wk[w].p] = 0,
           \A w \in Workers : wk'[w].ph \in {"attach", "complete"}
              => copies[wk[w].p] > 0,
           ProjectedIsVisible'
    PROVE  Inv'
<1>1. ClaimInv' BY DEF Inv, ClaimInv, Busy
<1>2. \A w \in Workers : Fenced(w)' /\ Busy(w)' => Fenced(w)
  BY DEF Fenced, Inv, ClaimInv
<1>3. SendInv'
  <2>1. \A w \in Workers :
           Fenced(w)' /\ (wk'[w].ph \in {"renew", "send"} \/ (wk'[w].ph = "claimed" /\ wk'[w].ver = 1))
              => copies'[wk'[w].p] = 0
    BY <1>2 DEF Inv, SendInv, Busy
  <2>2. QED BY <2>1 DEF Inv, SendInv
<1>4. IdInv' BY DEF Inv, IdInv, Busy
<1>5. AtMostOneCopy' BY DEF Inv, AtMostOneCopy
<1>6. QED BY <1>1, <1>3, <1>4, <1>5 DEF Inv

\* A worker that only changes what it remembers.
LEMMA MemoryStep ==
    ASSUME Inv, NEW w \in Workers, NEW r \in WkType,
           wk' = [wk EXCEPT ![w] = r], UNCHANGED <<row, copies, bound>>,
           reported' \subseteq Projections, r.ph # "claimed",
           r.ph = "idle" \/ (/\ Busy(w) /\ r.p = wk[w].p /\ r.ver = wk[w].ver
                             /\ r.att = wk[w].att /\ r.amo = wk[w].amo),
           r.ph = "send" => Owns(w),
           r.ph \in {"renew", "send"} /\ Fenced(w) => copies[wk[w].p] = 0,
           r.ph \in {"attach", "complete"} => copies[wk[w].p] > 0
    PROVE  Inv'
<1>1. TypeOK' BY TypeParts DEF Inv
<1>2. wk'[w] = r /\ \A v \in Workers : v # w => wk'[v] = wk[v]
  BY TypeParts DEF Inv
<1>3. \A v \in Workers : Busy(v)' =>
              /\ Busy(v)
              /\ wk'[v].p = wk[v].p /\ wk'[v].ver = wk[v].ver
              /\ wk'[v].att = wk[v].att /\ wk'[v].amo = wk[v].amo
              /\ wk'[v].ph = "claimed" => wk[v].ph = "claimed"
  BY <1>2 DEF Busy
<1>4. \A v \in Workers : wk'[v].ph = "send" => Owns(v)'
  <2>1. \A v \in Workers : wk'[v].ph = "send" => Owns(v)
    BY <1>2 DEF Inv, SendInv
  <2>2. QED BY <1>3, <2>1 DEF Owns, Fenced, Busy
<1>5. \A v \in Workers : wk'[v].ph \in {"renew", "send"} /\ Fenced(v)
              => copies[wk[v].p] = 0
  BY <1>2 DEF Inv, SendInv
<1>6. \A v \in Workers : wk'[v].ph \in {"attach", "complete"} => copies[wk[v].p] > 0
  BY <1>2 DEF Inv, IdInv, Busy
<1>7. ProjectedIsVisible' BY DEF Inv, IdInv, ProjectedIsVisible
<1>8. QED BY <1>1, <1>3, <1>4, <1>5, <1>6, <1>7, QuietStep

\* A worker that goes on with its claim only changes its phase.
LEMMA GotoKeeps ==
    ASSUME TypeOK, NEW w \in Workers, NEW ph \in Phases
    PROVE  LET r == [wk[w] EXCEPT !.ph = ph]
           IN  /\ r \in WkType /\ r.ph = ph /\ r.p = wk[w].p /\ r.ver = wk[w].ver
               /\ r.att = wk[w].att /\ r.amo = wk[w].amo
<1>1. wk[w] \in WkType BY TypeParts
<1>2. QED BY <1>1 DEF WkType

LEMMA IdleKeeps == Idle \in WkType /\ Idle.ph = "idle"
  BY DEF Idle, WkType, Phases

\* A message lands: its sender holds the row and had seen none.
LEMMA LandingStep ==
    ASSUME Inv, NEW w \in Workers, wk[w].ph = "send", Landed(w), NEW r \in WkType,
           wk' = [wk EXCEPT ![w] = r], UNCHANGED <<row, bound, reported>>,
           r.ph = "idle" \/ (/\ r.ph \in {"attach", "fail"}
                             /\ r.p = wk[w].p /\ r.ver = wk[w].ver
                             /\ r.att = wk[w].att /\ r.amo = wk[w].amo)
    PROVE  Inv'
<1>1. Owns(w) /\ Fenced(w) BY DEF Inv, SendInv, Owns
<1>2. wk[w].p \in Projections /\ copies[wk[w].p] = 0 BY <1>1 DEF Inv, SendInv, Fenced
<1>3. /\ copies'[wk[w].p] = 1
      /\ \A p \in Projections : p # wk[w].p => copies'[p] = copies[p]
      /\ copies' \in [Projections -> Nat]
  BY <1>2, TypeParts DEF Inv, Landed
<1>4. wk'[w] = r /\ \A v \in Workers : v # w => wk'[v] = wk[v]
  BY TypeParts DEF Inv
<1>5. TypeOK' BY <1>3, TypeParts DEF Inv
<1>6. ClaimInv' BY <1>4 DEF Inv, ClaimInv, Busy
<1>7. \A v \in Workers : v # w /\ Busy(v) /\ Fenced(v) => wk[v].p # wk[w].p
  BY <1>1 DEF Fenced, Inv, ClaimInv, Busy
<1>8. SendInv'
  <2>1. \A v \in Workers : wk'[v].ph = "send" => Owns(v)'
    BY <1>4 DEF Inv, SendInv, Owns, Fenced
  <2>2. ASSUME NEW v \in Workers, Fenced(v)',
               wk'[v].ph \in {"renew", "send"} \/ (wk'[v].ph = "claimed" /\ wk'[v].ver = 1)
        PROVE  copies'[wk'[v].p] = 0
    <3>1. v # w BY <1>4, <2>2
    <3>2. wk'[v] = wk[v] /\ Fenced(v) BY <1>4, <2>2, <3>1 DEF Fenced
    <3>3. Busy(v) BY <2>2, <3>2 DEF Busy
    <3>4. wk[v].p # wk[w].p /\ wk[v].p \in Projections BY <1>7, <3>1, <3>2, <3>3 DEF Fenced
    <3>5. copies[wk[v].p] = 0 BY <2>2, <3>2 DEF Inv, SendInv
    <3>6. QED BY <1>3, <3>2, <3>4, <3>5
  <2>3. \A p \in Projections : row'[p].ver = 0 => copies'[p] = 0
    <3>1. row[wk[w].p].ver # 0 BY <1>2 DEF Inv, ClaimInv, Busy
    <3>2. QED BY <1>3, <3>1 DEF Inv, SendInv
  <2>4. QED BY <2>1, <2>2, <2>3 DEF SendInv
<1>9. \A p \in Projections : copies[p] > 0 => copies'[p] > 0
  BY <1>2, <1>3
<1>10. IdInv'
  <2>1. ProjectedIsVisible' BY <1>9 DEF Inv, IdInv, ProjectedIsVisible
  <2>2. ASSUME NEW v \in Workers, Busy(v)', wk'[v].amo \/ wk'[v].ph \in {"attach", "complete"}
        PROVE copies'[wk'[v].p] > 0
    <3>1. CASE v = w BY <1>3, <1>4, <2>2, <3>1 DEF Busy
    <3>2. CASE v # w
      <4>1. wk'[v] = wk[v] /\ Busy(v) BY <1>4, <2>2, <3>2 DEF Busy
      <4>2. wk[v].p \in Projections /\ copies[wk[v].p] > 0
        BY <2>2, <4>1 DEF Inv, IdInv, ClaimInv
      <4>3. QED BY <1>9, <4>1, <4>2
    <3>3. QED BY <3>1, <3>2
  <2>3. QED BY <2>1, <2>2 DEF IdInv
<1>11. AtMostOneCopy' BY <1>3 DEF Inv, AtMostOneCopy
<1>12. QED BY <1>5, <1>6, <1>8, <1>10, <1>11 DEF Inv

\* What claim_next does to the rows: one may be claimed, exhausted ones die.
LEMMA AfterClaimRows ==
    ASSUME TypeOK, NEW c \in Projections \union {NoProjection}
    PROVE  /\ AfterClaim(c) \in [Projections -> RowType]
           /\ \A p \in Projections :
                /\ RowOK(AfterClaim(c)[p])
                /\ p # c => /\ AfterClaim(c)[p].ver = row[p].ver
                            /\ AfterClaim(c)[p].att = row[p].att
                            /\ AfterClaim(c)[p].amo = row[p].amo
                            /\ \/ AfterClaim(c)[p] = row[p]
                               \/ Exhausted(p) /\ AfterClaim(c)[p].status = "DEAD"
                /\ p = c => AfterClaim(c)[p] = Claimed(row[p])
<1>1. \A p \in Projections : row[p] \in RowType /\ RowOK(row[p]) BY TypeParts
<1>2. \A p \in Projections :
        /\ Terminated(row[p], "DEAD") \in RowType
        /\ RowOK(Terminated(row[p], "DEAD"))
        /\ Terminated(row[p], "DEAD").ver = row[p].ver
        /\ Terminated(row[p], "DEAD").att = row[p].att
        /\ Terminated(row[p], "DEAD").amo = row[p].amo
        /\ Terminated(row[p], "DEAD").status = "DEAD"
  BY <1>1, TerminatedRow DEF RowOK
<1>3. \A p \in Projections : Claimed(row[p]) \in RowType /\ RowOK(Claimed(row[p]))
  BY <1>1, ClaimedRow DEF RowOK
<1>4. QED BY <1>1, <1>2, <1>3 DEF AfterClaim

LEMMA ClaimNothingStep ==
    ASSUME Inv, NEW w \in Workers, ClaimNothing(w)
    PROVE  Inv'
<1>1. row' = AfterClaim(NoProjection) /\ UNCHANGED <<wk, bound, copies, reported>>
  BY DEF ClaimNothing
<1>2. \A p \in Projections : p # NoProjection BY ProjectionAssumption
<1>3. TypeOK' BY <1>1, AfterClaimRows, TypeParts DEF Inv
<1>4. \A p \in Projections :
        /\ row'[p].ver = row[p].ver /\ row'[p].att = row[p].att /\ row'[p].amo = row[p].amo
        /\ row'[p] = row[p] \/ (Exhausted(p) /\ row'[p].status = "DEAD")
  BY <1>1, <1>2, AfterClaimRows DEF Inv
<1>5. \A v \in Workers : wk'[v].ph = "send" => Owns(v)'
  BY <1>1, <1>4 DEF Inv, SendInv, Owns, Fenced, Exhausted
<1>6. ProjectedIsVisible' BY <1>1, <1>4 DEF Inv, IdInv, ProjectedIsVisible
<1>7. /\ \A p \in Projections :
              /\ row'[p].ver = row[p].ver /\ row'[p].att = row[p].att
              /\ row'[p].status = "ABSENT" => row[p].status = "ABSENT"
              /\ row'[p].status = "PROCESSING" => row[p].status = "PROCESSING"
      /\ \A v \in Workers : Busy(v)' => Busy(v)
      /\ \A v \in Workers : wk'[v].ph \in {"renew", "send"} /\ Fenced(v)
              => copies[wk[v].p] = 0
      /\ \A v \in Workers : wk'[v].ph \in {"attach", "complete"} => copies[wk[v].p] > 0
  BY <1>1, <1>4 DEF Inv, SendInv, IdInv, Busy
<1>8. QED BY <1>1, <1>3, <1>5, <1>6, <1>7, QuietStep

LEMMA ClaimStep ==
    ASSUME Inv, NEW w \in Workers, NEW c \in Projections, Claim(w, c)
    PROVE  Inv'
<1> DEFINE r == [ph |-> "claimed", p |-> c, ver |-> row[c].ver + 1,
                 att |-> row[c].att + 1, amo |-> row[c].amo]
<1>1. /\ row' = AfterClaim(c) /\ wk' = [wk EXCEPT ![w] = r]
      /\ UNCHANGED <<bound, copies, reported>>
      /\ wk[w].ph = "idle" /\ Claimable(c)
  BY DEF Claim
<1>2. row[c] \in RowType /\ row[c].ver + 1 \in Nat /\ row[c].att + 1 \in Nat /\ row[c].amo \in BOOLEAN
  BY TypeParts DEF Inv, RowType
<1>3. r \in WkType BY <1>2 DEF WkType, Phases
<1>4. TypeOK' BY <1>1, <1>3, AfterClaimRows, TypeParts DEF Inv
<1>5. /\ wk'[w] = r /\ \A v \in Workers : v # w => wk'[v] = wk[v]
      /\ r.ph = "claimed" /\ r.p = c /\ r.ver = row[c].ver + 1
      /\ r.att = row[c].att + 1 /\ r.amo = row[c].amo
  BY <1>1, TypeParts DEF Inv
<1>6. /\ row'[c].ver = row[c].ver + 1 /\ row'[c].att = row[c].att + 1
      /\ row'[c].amo = row[c].amo /\ row'[c].status = "PROCESSING"
  BY <1>1, <1>2, AfterClaimRows, ClaimedRow DEF Inv
<1>7. \A p \in Projections : p # c =>
        /\ row'[p].ver = row[p].ver /\ row'[p].att = row[p].att /\ row'[p].amo = row[p].amo
        /\ row'[p] = row[p] \/ (Exhausted(p) /\ row'[p].status = "DEAD")
  BY <1>1, AfterClaimRows DEF Inv
<1>8. \A v \in Workers : v # w /\ Busy(v)' =>
        /\ Busy(v) /\ wk'[v] = wk[v] /\ wk[v].p \in Projections
        /\ wk[v].ver \in 1..row[wk[v].p].ver
  BY <1>5 DEF Inv, ClaimInv, Busy
<1>9. \A p \in Projections : row[p].ver \in Nat /\ row'[p].ver \in Nat /\ row[p].ver <= row'[p].ver
  <2>1. \A p \in Projections : row[p] \in RowType /\ row'[p] \in RowType
    BY <1>4, TypeParts DEF Inv
  <2>2. \A p \in Projections : row[p].ver \in Nat /\ row'[p].ver \in Nat
    BY <2>1 DEF RowType
  <2>3. QED BY <1>6, <1>7, <2>2
<1>10. ClaimInv'
  <2>1. \A v \in Workers : Busy(v)' =>
           /\ wk'[v].p \in Projections
           /\ wk'[v].ver \in 1..row'[wk'[v].p].ver
    BY <1>2, <1>5, <1>6, <1>8, <1>9
  <2>2. \A v \in Workers : Busy(v)' => wk'[v].att = wk'[v].ver
    BY <1>5, <1>8 DEF Inv, ClaimInv
  <2>3. \A v \in Workers : v # w /\ Busy(v)' /\ wk'[v].p = c => wk'[v].ver <= row[c].ver
    BY <1>8, <1>9
  <2>4. \A u, v \in Workers :
           Busy(u)' /\ Busy(v)' /\ wk'[u].p = wk'[v].p /\ wk'[u].ver = wk'[v].ver => u = v
    <3>1. \A v \in Workers : v # w /\ Busy(v)' /\ wk'[v].p = c => wk'[v].ver # row[c].ver + 1
      BY <1>8, <1>9, <2>3
    <3>2. QED BY <1>5, <1>8, <3>1 DEF Inv, ClaimInv
  <2>5. \A p \in Projections :
          /\ row'[p].att = row'[p].ver
          /\ row'[p].status = "ABSENT" => row'[p].ver = 0
    BY <1>6, <1>7 DEF Inv, ClaimInv
  <2>6. QED BY <2>1, <2>2, <2>4, <2>5 DEF ClaimInv
<1>11. SendInv'
  <2>1. ASSUME NEW v \in Workers, wk'[v].ph = "send" PROVE Owns(v)'
    <3>1. v # w /\ wk'[v] = wk[v] /\ Owns(v) /\ wk[v].p \in Projections
      BY <1>5, <2>1 DEF Inv, SendInv, Owns, Fenced
    <3>2. wk[v].p # c BY <1>1, <3>1 DEF Owns, Fenced, Claimable
    <3>3. ~Exhausted(wk[v].p) BY <3>1 DEF Owns, Exhausted
    <3>4. QED BY <1>7, <3>1, <3>2, <3>3 DEF Owns, Fenced
  <2>2. ASSUME NEW v \in Workers, Fenced(v)',
               wk'[v].ph \in {"renew", "send"} \/ (wk'[v].ph = "claimed" /\ wk'[v].ver = 1)
        PROVE  copies'[wk'[v].p] = 0
    <3>1. CASE v = w
      <4>1. row[c].ver = 0 BY <1>5, <1>9, <2>2, <3>1
      <4>2. QED BY <1>1, <1>5, <3>1, <4>1 DEF Inv, SendInv
    <3>2. CASE v # w
      <4>1. Busy(v)' BY <2>2 DEF Busy
      <4>2. wk'[v] = wk[v] /\ wk[v].p \in Projections BY <1>8, <3>2, <4>1
      <4>3. wk[v].p # c BY <1>6, <1>8, <1>9, <2>2, <3>2, <4>1, <4>2 DEF Fenced
      <4>4. Fenced(v) BY <1>7, <2>2, <4>2, <4>3 DEF Fenced
      <4>5. QED BY <1>1, <2>2, <4>2, <4>4 DEF Inv, SendInv
    <3>3. QED BY <3>1, <3>2
  <2>3. \A p \in Projections : row'[p].ver = 0 => copies'[p] = 0
    BY <1>1, <1>6, <1>7, <1>9 DEF Inv, SendInv
  <2>4. QED BY <2>1, <2>2, <2>3 DEF SendInv
<1>12. IdInv'
  <2>1. ProjectedIsVisible'
    BY <1>1, <1>6, <1>7 DEF Inv, IdInv, ProjectedIsVisible
  <2>2. row[c].amo => copies[c] > 0 BY DEF Inv, IdInv, ProjectedIsVisible
  <2>3. \A v \in Workers :
          Busy(v)' /\ (wk'[v].amo \/ wk'[v].ph \in {"attach", "complete"}) => copies'[wk'[v].p] > 0
    BY <1>1, <1>5, <1>8, <2>2 DEF Inv, IdInv
  <2>4. QED BY <2>1, <2>3 DEF IdInv
<1>13. AtMostOneCopy' BY <1>1 DEF Inv, AtMostOneCopy
<1>14. QED BY <1>4, <1>10, <1>11, <1>12, <1>13 DEF Inv

\* A row of w's claim is changed by its owner: attached, completed or failed.
LEMMA OwnerStep ==
    ASSUME Inv, NEW w \in Workers, Owns(w), Busy(w), wk[w].ph # "send",
           NEW t \in RowType, row' = [row EXCEPT ![wk[w].p] = t], RowOK(t),
           t.ver = row[wk[w].p].ver, t.att = row[wk[w].p].att, t.status # "ABSENT",
           t.status = "PROJECTED" \/ t.amo => copies[wk[w].p] > 0,
           NEW r \in WkType, wk' = [wk EXCEPT ![w] = r],
           r.ph = "idle" \/ (/\ r.ph = "complete" /\ copies[wk[w].p] > 0
                             /\ r.p = wk[w].p /\ r.ver = wk[w].ver
                             /\ r.att = wk[w].att /\ r.amo = wk[w].amo),
           UNCHANGED <<bound, copies, reported>>
    PROVE  Inv'
<1>1. wk[w].p \in Projections /\ row[wk[w].p].status = "PROCESSING"
  BY DEF Owns, Fenced
<1>2. TypeOK' BY <1>1, TypeParts DEF Inv
<1>3. row'[wk[w].p] = t /\ \A p \in Projections : p # wk[w].p => row'[p] = row[p]
  BY <1>1, TypeParts DEF Inv
<1>4. wk'[w] = r /\ \A v \in Workers : v # w => wk'[v] = wk[v]
  BY TypeParts DEF Inv
<1>5. Busy(w) /\ w \in Workers OBVIOUS
<1>6. ASSUME NEW v \in Workers, wk'[v].ph = "send" PROVE Owns(v)'
  <2>1. v # w /\ wk'[v] = wk[v] BY <1>4, <1>6
  <2>2. Owns(v) /\ Busy(v) BY <1>6, <2>1 DEF Inv, SendInv, Busy
  <2>3. wk[v].p # wk[w].p
    BY <1>5, <2>1, <2>2 DEF Owns, Fenced, Inv, ClaimInv
  <2>4. QED BY <1>3, <2>1, <2>2, <2>3 DEF Owns, Fenced
<1>7. ProjectedIsVisible'
  BY <1>3 DEF Inv, IdInv, ProjectedIsVisible
<1>8. \A p \in Projections :
         /\ row'[p].ver = row[p].ver /\ row'[p].att = row[p].att
         /\ row'[p].status = "ABSENT" => row[p].status = "ABSENT"
         /\ row'[p].status = "PROCESSING" => row[p].status = "PROCESSING"
  BY <1>1, <1>3
<1>9. \A v \in Workers : Busy(v)' =>
              /\ Busy(v)
              /\ wk'[v].p = wk[v].p /\ wk'[v].ver = wk[v].ver
              /\ wk'[v].att = wk[v].att /\ wk'[v].amo = wk[v].amo
              /\ wk'[v].ph = "claimed" => wk[v].ph = "claimed"
  BY <1>4, <1>5 DEF Busy
<1>10. \A v \in Workers : wk'[v].ph \in {"renew", "send"} /\ Fenced(v)
              => copies[wk[v].p] = 0
  BY <1>4 DEF Inv, SendInv
<1>11. \A v \in Workers : wk'[v].ph \in {"attach", "complete"} => copies[wk[v].p] > 0
  BY <1>4 DEF Inv, IdInv, Busy
<1>12. QED BY <1>2, <1>6, <1>7, <1>8, <1>9, <1>10, <1>11, QuietStep

\* A row changed by its writer or by the clock: enqueued, expired, due again.
LEMMA ClockStep ==
    ASSUME Inv, NEW p \in Projections, NEW t \in RowType, RowOK(t),
           row' = [row EXCEPT ![p] = t], UNCHANGED <<wk, bound, copies, reported>>,
           t.ver = row[p].ver, t.att = row[p].att, t.amo = row[p].amo,
           t.status = row[p].status \/ (row[p].status = "ABSENT" /\ t.status = "PENDING"),
           Sending(p) => t.lease = row[p].lease
    PROVE  Inv'
<1>1. TypeOK' BY TypeParts DEF Inv
<1>2. row'[p] = t /\ \A q \in Projections : q # p => row'[q] = row[q]
  BY TypeParts DEF Inv
<1>3. ASSUME NEW v \in Workers, wk'[v].ph = "send" PROVE Owns(v)'
  BY <1>2, <1>3 DEF Inv, SendInv, Owns, Fenced, Sending
<1>4. ProjectedIsVisible' BY <1>2 DEF Inv, IdInv, ProjectedIsVisible
<1>5. /\ \A q \in Projections :
              /\ row'[q].ver = row[q].ver /\ row'[q].att = row[q].att
              /\ row'[q].status = "ABSENT" => row[q].status = "ABSENT"
              /\ row'[q].status = "PROCESSING" => row[q].status = "PROCESSING"
      /\ \A v \in Workers : Busy(v)' => Busy(v)
      /\ \A v \in Workers : wk'[v].ph \in {"renew", "send"} /\ Fenced(v)
              => copies[wk[v].p] = 0
      /\ \A v \in Workers : wk'[v].ph \in {"attach", "complete"} => copies[wk[v].p] > 0
  BY <1>2 DEF Inv, SendInv, IdInv, Busy
<1>6. QED BY <1>1, <1>3, <1>4, <1>5, QuietStep

LEMMA Inductive ==
    ASSUME Inv, [Next]_vars
    PROVE  Inv'
<1>t. /\ \A p \in Projections : row[p] \in RowType /\ RowOK(row[p])
      /\ \A w \in Workers : wk[w] \in WkType
  BY TypeParts DEF Inv
<1>1. ASSUME NEW p \in Projections, Enqueue(p) PROVE Inv'
  <2>1. /\ [row[p] EXCEPT !.status = "PENDING"] \in RowType
        /\ RowOK([row[p] EXCEPT !.status = "PENDING"])
    BY <1>1, <1>t DEF RowType, RowOK, Statuses, Enqueue
  <2>2. QED BY <1>1, <1>t, <2>1, ClockStep DEF Enqueue, RowType
<1>2. ASSUME NEW p \in Projections, LeaseExpires(p) PROVE Inv'
  <2>1. /\ [row[p] EXCEPT !.lease = "expired"] \in RowType
        /\ RowOK([row[p] EXCEPT !.lease = "expired"])
    BY <1>2, <1>t DEF RowType, RowOK, LeaseExpires
  <2>2. QED BY <1>2, <1>t, <2>1, ClockStep DEF LeaseExpires, RowType
<1>3. ASSUME NEW p \in Projections, DelayPasses(p) PROVE Inv'
  <2>1. /\ [row[p] EXCEPT !.delayed = FALSE] \in RowType
        /\ RowOK([row[p] EXCEPT !.delayed = FALSE])
    BY <1>3, <1>t DEF RowType, RowOK, DelayPasses
  <2>2. QED BY <1>3, <1>t, <2>1, ClockStep DEF DelayPasses, RowType
<1>4. ASSUME NEW w \in Workers, ClaimOne(w) PROVE Inv'
  BY <1>4, ClaimStep, ClaimNothingStep DEF ClaimOne
<1>5. ASSUME NEW w \in Workers, StaleLease(w) \/ PrepareSkip(w) PROVE Inv'
  <2>1. wk' = [wk EXCEPT ![w] = Idle] /\ UNCHANGED <<row, copies, bound>>
    BY <1>5 DEF StaleLease, PrepareSkip, Return
  <2>2. reported' \subseteq Projections
    BY <1>5, TypeParts DEF StaleLease, PrepareSkip, Inv, Owns, Fenced
  <2>3. QED BY <2>1, <2>2, MemoryStep, IdleKeeps
<1>6. ASSUME NEW w \in Workers, NEW ph \in Phases, Goto(w, ph), ph # "claimed", ph # "idle",
             Busy(w), UNCHANGED <<row, bound, copies, reported>>,
             ph = "send" => Owns(w),
             ph \in {"renew", "send"} /\ Fenced(w) => copies[wk[w].p] = 0,
             ph \in {"attach", "complete"} => copies[wk[w].p] > 0
      PROVE Inv'
  <2>1. wk' = [wk EXCEPT ![w] = [wk[w] EXCEPT !.ph = ph]] BY <1>6 DEF Goto
  <2>2. reported' \subseteq Projections BY <1>6, TypeParts DEF Inv
  <2> DEFINE r == [wk[w] EXCEPT !.ph = ph]
  <2>3. TypeOK /\ ph \in Phases BY <1>6 DEF Inv
  <2>4. /\ r \in WkType /\ r.ph = ph /\ r.p = wk[w].p /\ r.ver = wk[w].ver
        /\ r.att = wk[w].att /\ r.amo = wk[w].amo
    BY <2>3, GotoKeeps
  <2>5. wk' = [wk EXCEPT ![w] = r] BY <2>1
  <2> HIDE DEF r
  <2>6. QED BY <1>6, <2>2, <2>4, <2>5, MemoryStep
<1>7. ASSUME NEW w \in Workers, CompleteAttached(w) PROVE Inv'
  <2>1. Busy(w) /\ copies[wk[w].p] > 0 BY <1>7 DEF CompleteAttached, Busy, Inv, IdInv
  <2>2. QED BY <1>6, <1>7, <2>1 DEF CompleteAttached, Phases
<1>8. ASSUME NEW w \in Workers, PrepareSend(w) PROVE Inv'
  <2>1. Busy(w) BY <1>8 DEF PrepareSend, Busy
  <2>2. wk[w].ver \in 1..row[wk[w].p].ver /\ wk[w].att = wk[w].ver BY <2>1 DEF Inv, ClaimInv
  <2>3. CASE wk[w].att > 1
    BY <1>6, <1>8, <2>1, <2>3 DEF PrepareSend, NextAfterPrepare, Phases
  <2>4. CASE ~(wk[w].att > 1)
    <3>1. wk[w].ver = 1
      <4>1. wk[w].p \in Projections BY <2>1 DEF Inv, ClaimInv
      <4>2. row[wk[w].p].ver \in Nat BY <1>t, <4>1 DEF RowType
      <4>3. QED BY <2>2, <2>4, <4>2
    <3>2. Fenced(w) => copies[wk[w].p] = 0
      BY <1>8, <3>1 DEF PrepareSend, Inv, SendInv
    <3>3. QED BY <1>6, <1>8, <2>1, <2>4, <3>2 DEF PrepareSend, NextAfterPrepare, Phases
  <2>5. QED BY <2>3, <2>4
<1>9. ASSUME NEW w \in Workers, RenewBeforeHttp(w) PROVE Inv'
  <2>1. Busy(w) BY <1>9 DEF RenewBeforeHttp, Busy
  <2>2. wk[w].ph = "renew" /\ Fenced(w) => copies[wk[w].p] = 0 BY DEF Inv, SendInv
  <2>3. QED BY <1>6, <1>9, <2>1, <2>2 DEF RenewBeforeHttp, Phases
<1>10. ASSUME NEW w \in Workers, ScanHistory(w) PROVE Inv'
  <2>1. Busy(w) BY <1>10 DEF ScanHistory, Busy
  <2>2. QED BY <1>6, <1>10, <2>1 DEF ScanHistory, Phases
<1>11. ASSUME NEW w \in Workers, SendRefused(w) PROVE Inv'
  <2>1. Busy(w) BY <1>11 DEF SendRefused, Busy
  <2>2. QED BY <1>6, <1>11, <2>1 DEF SendRefused, Phases
<1>12. ASSUME NEW w \in Workers, SendSucceeds(w) PROVE Inv'
  <2>1. TypeOK /\ wk' = [wk EXCEPT ![w] = [wk[w] EXCEPT !.ph = "attach"]]
    BY <1>12 DEF SendSucceeds, Goto, Inv
  <2>2. QED BY <1>12, <2>1, LandingStep, GotoKeeps DEF SendSucceeds, Phases
<1>13. ASSUME NEW w \in Workers, SendAmbiguous(w) PROVE Inv'
  <2>1. TypeOK /\ wk' = [wk EXCEPT ![w] = [wk[w] EXCEPT !.ph = "fail"]] /\ Busy(w)
    BY <1>13 DEF SendAmbiguous, Goto, Inv, Busy
  <2>2. CASE Landed(w)
    BY <1>13, <2>1, <2>2, LandingStep, GotoKeeps DEF SendAmbiguous, Phases
  <2>3. CASE UNCHANGED copies
    BY <1>6, <1>13, <2>1, <2>3 DEF SendAmbiguous, Phases
  <2>4. QED BY <1>13, <2>2, <2>3 DEF SendAmbiguous
<1>14. ASSUME NEW w \in Workers, AttachAmoId(w) PROVE Inv'
  <2> DEFINE t == [row[wk[w].p] EXCEPT !.amo = TRUE]
  <2>1. Busy(w) /\ copies[wk[w].p] > 0 BY <1>14 DEF AttachAmoId, Inv, IdInv, Busy
  <2>2. wk[w].p \in Projections /\ row[wk[w].p].status = "PROCESSING"
    BY <1>14 DEF AttachAmoId, Owns, Fenced
  <2>3. /\ t \in RowType /\ RowOK(t) /\ t.ver = row[wk[w].p].ver
        /\ t.att = row[wk[w].p].att /\ t.status = "PROCESSING"
    BY <1>t, <2>2 DEF RowType, RowOK
  <2>4. TypeOK /\ wk' = [wk EXCEPT ![w] = [wk[w] EXCEPT !.ph = "complete"]]
        /\ row' = [row EXCEPT ![wk[w].p] = t]
    BY <1>14 DEF AttachAmoId, Goto, Inv
  <2>5. QED BY <1>14, <2>1, <2>3, <2>4, OwnerStep, GotoKeeps DEF AttachAmoId, Phases
<1>15. ASSUME NEW w \in Workers, Complete(w) PROVE Inv'
  <2> DEFINE t == [Terminated(row[wk[w].p], "PROJECTED") EXCEPT !.amo = TRUE]
  <2>1. Busy(w) /\ copies[wk[w].p] > 0 BY <1>15 DEF Complete, Inv, IdInv, Busy
  <2>2. wk[w].p \in Projections BY <1>15 DEF Complete, Owns, Fenced
  <2>3. /\ t \in RowType /\ RowOK(t) /\ t.ver = row[wk[w].p].ver
        /\ t.att = row[wk[w].p].att /\ t.status = "PROJECTED"
    BY <1>t, <2>2, ProjectedRow DEF RowOK
  <2>4. wk' = [wk EXCEPT ![w] = Idle] /\ row' = [row EXCEPT ![wk[w].p] = t]
    BY <1>15 DEF Complete, Return
  <2>5. QED BY <1>15, <2>1, <2>3, <2>4, OwnerStep, IdleKeeps DEF Complete
<1>16. ASSUME NEW w \in Workers, FailClaimed(w) PROVE Inv'
  <2> DEFINE old == row[wk[w].p]
  <2>1. wk[w].p \in Projections BY <1>16 DEF FailClaimed, Owns, Fenced
  <2>2. PICK t : /\ t \in {Terminated(old, "DEAD"), Failed(old)}
                 /\ row' = [row EXCEPT ![wk[w].p] = t]
    BY <1>16 DEF FailClaimed
  <2>3. /\ t \in RowType /\ RowOK(t) /\ t.ver = old.ver /\ t.att = old.att
        /\ t.status \in {"DEAD", "FAILED"} /\ t.amo = old.amo
    BY <1>t, <2>1, <2>2, TerminatedRow, FailedRow DEF RowOK
  <2>4. wk' = [wk EXCEPT ![w] = Idle] BY <1>16 DEF FailClaimed, Return
  <2>5. t.amo => copies[wk[w].p] > 0 BY <2>1, <2>3 DEF Inv, IdInv, ProjectedIsVisible
  <2>6. Busy(w) BY <1>16 DEF FailClaimed, Busy
  <2>7. QED BY <1>16, <2>2, <2>3, <2>4, <2>5, <2>6, OwnerStep, IdleKeeps DEF FailClaimed
<1>17. ASSUME NEW w \in Workers, Crash(w) PROVE Inv'
  <2>1. wk' = [wk EXCEPT ![w] = Idle] BY <1>17 DEF Crash, Return
  <2>2. CASE wk[w].ph = "send" /\ Landed(w)
    BY <1>17, <2>1, <2>2, LandingStep, IdleKeeps DEF Crash
  <2>3. CASE UNCHANGED copies
    BY <1>17, <2>1, <2>3, MemoryStep, IdleKeeps, TypeParts DEF Crash, Inv
  <2>4. QED BY <1>17, <2>2, <2>3 DEF Crash
<1>18. ASSUME BindingChanges PROVE Inv'
  BY <1>18 DEF BindingChanges, Inv, TypeOK, ClaimInv, SendInv, IdInv, AtMostOneCopy,
               ProjectedIsVisible, Busy, Owns, Fenced
<1>19. CASE UNCHANGED vars
  BY <1>19 DEF vars, Inv, TypeOK, ClaimInv, SendInv, IdInv, AtMostOneCopy,
               ProjectedIsVisible, Busy, Owns, Fenced
<1>20. QED
  BY <1>1, <1>2, <1>3, <1>4, <1>5, <1>7, <1>8, <1>9, <1>10, <1>11, <1>12, <1>13, <1>14,
     <1>15, <1>16, <1>17, <1>18, <1>19
     DEF Next, Handle

LEMMA Initially == Init => Inv
<1>1. NoRow \in RowType /\ RowOK(NoRow) /\ NoRow.status = "ABSENT"
      /\ NoRow.ver = 0 /\ NoRow.att = 0 /\ NoRow.amo = FALSE
  BY DEF NoRow, RowType, RowOK, Statuses
<1>2. ASSUME Init PROVE TypeOK
  BY <1>1, <1>2, IdleKeeps, TypeParts DEF Init
<1>3. ASSUME Init PROVE /\ \A w \in Workers : wk[w].ph = "idle"
                        /\ \A p \in Projections : row[p] = NoRow /\ copies[p] = 0
  BY <1>3, IdleKeeps DEF Init
<1>4. QED
  BY <1>1, <1>2, <1>3
     DEF Inv, ClaimInv, SendInv, IdInv, AtMostOneCopy, ProjectedIsVisible, Busy

\* The row types and the lease CHECK hold for any number of workers and attempts.
THEOREM TypeCorrect == Spec => []TypeOK
<1>1. Inv /\ [Next]_vars => Inv' BY Inductive
<1>2. Inv => TypeOK BY DEF Inv
<1>3. QED BY <1>1, <1>2, Initially, PTL DEF Spec

\* process_claimed puts a message into the amoCRM chat at most once, and a row
\* that is PROJECTED or carries an id has its message there: for any number of
\* workers, attempts, crashes, lost answers and expired leases.
THEOREM CopiesCorrect == Spec => []CopiesExact
<1>1. Inv /\ [Next]_vars => Inv' BY Inductive
<1>2. Inv => CopiesExact BY DEF Inv, IdInv, CopiesExact
<1>3. QED BY <1>1, <1>2, Initially, PTL DEF Spec

-----------------------------------------------------------------------------
(* What is settled stays settled *)

\* Only a failed attempt waits for its next_attempt_at.
DelayedFailed == \A p \in Projections : row[p].delayed => row[p].status = "FAILED"

\* The two halves of SettledIsFinal for one row, with what they need of the next state.
RowKept(p) ==
    /\ row[p].status \in Settled => row'[p] = row[p]
    /\ row[p].amo => row'[p].amo
    /\ row'[p].delayed => row'[p].status = "FAILED"

\* A step that gives one unsettled row another value, and keeps its id.
LEMMA OneRowKept ==
    ASSUME TypeOK, DelayedFailed, NEW q \in Projections, row[q].status \notin Settled,
           NEW t \in RowType, row' = [row EXCEPT ![q] = t], row[q].amo => t.amo,
           t.delayed => t.status = "FAILED"
    PROVE  \A p \in Projections : RowKept(p)
<1>1. row'[q] = t /\ \A p \in Projections : p # q => row'[p] = row[p] BY TypeParts
<1>2. QED BY <1>1 DEF RowKept, DelayedFailed

LEMMA RowsKept ==
    ASSUME TypeOK, DelayedFailed, [Next]_vars
    PROVE  \A p \in Projections : RowKept(p)
<1>t. \A p \in Projections : row[p] \in RowType /\ RowOK(row[p]) BY TypeParts
<1>1. ASSUME UNCHANGED row PROVE \A p \in Projections : RowKept(p)
  BY <1>1 DEF RowKept, DelayedFailed
<1>2. ASSUME NEW p \in Projections, Enqueue(p) PROVE \A q \in Projections : RowKept(q)
  <2>1. PICK t \in RowType : /\ t = [row[p] EXCEPT !.status = "PENDING"] /\ t.amo = row[p].amo
                             /\ t.delayed = row[p].delayed
                             /\ row' = [row EXCEPT ![p] = t]
    BY <1>2, <1>t DEF Enqueue, RowType, Statuses
  <2>2. row[p].status = "ABSENT" BY <1>2 DEF Enqueue
  <2>3. ~t.delayed /\ row[p].status \notin Settled BY <2>1, <2>2 DEF DelayedFailed, Settled
  <2>4. QED BY <2>1, <2>3, OneRowKept
<1>3. ASSUME NEW p \in Projections, LeaseExpires(p) PROVE \A q \in Projections : RowKept(q)
  <2>1. PICK t \in RowType : /\ t = [row[p] EXCEPT !.lease = "expired"] /\ t.amo = row[p].amo
                             /\ t.delayed = row[p].delayed /\ t.status = row[p].status
                             /\ row' = [row EXCEPT ![p] = t]
    BY <1>3, <1>t DEF LeaseExpires, RowType
  <2>2. row[p].status \notin Settled BY <1>3, <1>t DEF LeaseExpires, RowOK, Settled
  <2>3. QED BY <1>3, <2>1, <2>2, OneRowKept DEF DelayedFailed
<1>4. ASSUME NEW p \in Projections, DelayPasses(p) PROVE \A q \in Projections : RowKept(q)
  <2>1. PICK t \in RowType : /\ t = [row[p] EXCEPT !.delayed = FALSE] /\ t.amo = row[p].amo
                             /\ ~t.delayed
                             /\ row' = [row EXCEPT ![p] = t]
    BY <1>4, <1>t DEF DelayPasses, RowType
  <2>2. row[p].status \notin Settled BY <1>4 DEF DelayPasses, DelayedFailed, Settled
  <2>3. QED BY <1>4, <2>1, <2>2, OneRowKept
<1>5. ASSUME NEW w \in Workers, ClaimOne(w) PROVE \A q \in Projections : RowKept(q)
  <2>1. PICK c \in Projections \union {NoProjection} :
           row' = AfterClaim(c) /\ (c \in Projections => Claimable(c))
    BY <1>5, ProjectionAssumption DEF ClaimOne, Claim, ClaimNothing
  <2>2. ASSUME NEW q \in Projections PROVE RowKept(q)
    <3>1. CASE q = c
      <4>1. row'[q] = Claimed(row[q]) BY <2>1, <3>1, AfterClaimRows
      <4>2. ~Claimed(row[q]).delayed BY <1>t DEF Claimed, RowType
      <4>3. QED BY <2>1, <3>1, <4>1, <4>2, <1>t, ClaimedRow DEF RowKept, Claimable, Settled
    <3>2. CASE q # c
      <4>1. row'[q].amo = row[q].amo /\ (row'[q] = row[q] \/ Exhausted(q))
        BY <2>1, <3>2, AfterClaimRows
      <4>2. Exhausted(q) => row'[q] = Terminated(row[q], "DEAD") BY <2>1, <3>2 DEF AfterClaim
      <4>3. ~Terminated(row[q], "DEAD").delayed BY <1>t DEF Terminated, RowType
      <4>4. QED BY <4>1, <4>2, <4>3 DEF RowKept, Exhausted, Settled, DelayedFailed
    <3>3. QED BY <3>1, <3>2
  <2>3. QED BY <2>2
<1>6. ASSUME NEW w \in Workers, AttachAmoId(w) \/ Complete(w) \/ FailClaimed(w)
      PROVE  \A q \in Projections : RowKept(q)
  <2>1. /\ wk[w].p \in Projections /\ row[wk[w].p].status \notin Settled
        /\ row[wk[w].p] \in RowType
    BY <1>6, <1>t DEF AttachAmoId, Complete, FailClaimed, Owns, Fenced, Settled
  <2>2. \E t \in RowType : /\ row' = [row EXCEPT ![wk[w].p] = t]
                           /\ row[wk[w].p].amo => t.amo
                           /\ t.delayed => t.status = "FAILED"
    <3>1. CASE AttachAmoId(w)
      <4> DEFINE t == [row[wk[w].p] EXCEPT !.amo = TRUE]
      <4>1. t \in RowType BY <2>1 DEF RowType
      <4>2. t.amo /\ t.delayed = row[wk[w].p].delayed /\ t.status = row[wk[w].p].status
        BY <2>1 DEF RowType
      <4>3. row' = [row EXCEPT ![wk[w].p] = t] BY <3>1 DEF AttachAmoId
      <4>4. t.delayed => t.status = "FAILED" BY <2>1, <4>2 DEF DelayedFailed
      <4>5. QED
        <5> HIDE DEF t
        <5>1. QED BY <4>1, <4>2, <4>3, <4>4
    <3>2. CASE Complete(w)
      <4>1. PICK t \in RowType : t = [Terminated(row[wk[w].p], "PROJECTED") EXCEPT !.amo = TRUE]
        BY <2>1, ProjectedRow
      <4>2. t.amo /\ ~t.delayed
        <5>1. Terminated(row[wk[w].p], "PROJECTED") \in RowType BY <2>1, TerminatedRow
        <5>2. ~Terminated(row[wk[w].p], "PROJECTED").delayed BY <2>1 DEF Terminated, RowType
        <5>3. QED BY <4>1, <5>1, <5>2 DEF RowType
      <4>3. QED BY <3>2, <4>1, <4>2 DEF Complete
    <3>3. CASE FailClaimed(w)
      <4>1. ~Terminated(row[wk[w].p], "DEAD").delayed BY <2>1 DEF Terminated, RowType
      <4>2. \/ row' = [row EXCEPT ![wk[w].p] = Terminated(row[wk[w].p], "DEAD")]
            \/ row' = [row EXCEPT ![wk[w].p] = Failed(row[wk[w].p])]
        BY <3>3 DEF FailClaimed
      <4>3. QED BY <2>1, <4>1, <4>2, TerminatedRow, FailedRow
    <3>4. QED BY <1>6, <3>1, <3>2, <3>3
  <2>3. QED BY <2>1, <2>2, OneRowKept
<1>7. ASSUME NEW w \in Workers, Handle(w) PROVE \A q \in Projections : RowKept(q)
  BY <1>1, <1>6, <1>7
     DEF Handle, StaleLease, CompleteAttached, PrepareSend, PrepareSkip, RenewBeforeHttp,
         ScanHistory, SendSucceeds, SendAmbiguous, SendRefused
<1>8. QED
  BY <1>1, <1>2, <1>3, <1>4, <1>5, <1>7 DEF Next, Crash, BindingChanges, vars

\* The terminal UPDATEs and attach_amo_message_id are final: no claim, retry or
\* lost lease reopens a settled row or drops an id that was stored.
THEOREM SettledCorrect == Spec => SettledIsFinal
<1> DEFINE Kept == \A p \in Projections : RowKept(p)
<1>1. /\ TypeOK /\ DelayedFailed /\ [Next]_vars => [Kept]_vars
      /\ TypeOK /\ DelayedFailed /\ [Next]_vars => DelayedFailed'
  BY RowsKept DEF RowKept, DelayedFailed
<1>i. Init => DelayedFailed BY DEF Init, NoRow, DelayedFailed
<1>2. [Kept]_vars => [\A p \in Projections :
                        /\ row[p].status \in Settled => row'[p] = row[p]
                        /\ row[p].amo => row'[p].amo]_vars
  BY DEF RowKept
<1>3. QED BY <1>1, <1>i, <1>2, TypeCorrect, PTL DEF Spec, SettledIsFinal

-----------------------------------------------------------------------------
(* The webhook beside the projections *)

\* To the projections the webhook and the operator's seed are nothing but changes of the binding.
LEMMA EchoStepIsNext ==
    ASSUME bound \in BOOLEAN, [EchoNext]_<<vars, echoVars>>
    PROVE  [Next]_vars /\ bound' \in BOOLEAN
<1>1. ASSUME UNCHANGED vars PROVE [Next]_vars /\ bound' \in BOOLEAN
  BY <1>1 DEF vars
<1>2. ASSUME NEW b, BindingIs(b), UNCHANGED <<row, wk, copies, reported>>
      PROVE  [Next]_vars /\ bound' \in BOOLEAN
  <2>1. bound' \in BOOLEAN BY <1>2 DEF BindingIs
  <2>2. bound' = bound \/ bound' = ~bound BY <2>1
  <2>3. QED BY <1>2, <2>1, <2>2 DEF Next, BindingChanges, vars
<1>3. ASSUME ProjectionStep PROVE [Next]_vars /\ bound' \in BOOLEAN
  <2>1. Next BY <1>3 DEF ProjectionStep, Next
  <2>2. bound' = bound
    BY <1>3
       DEF ProjectionStep, Enqueue, LeaseExpires, DelayPasses, ClaimOne, ClaimNothing, Claim,
           Crash, Handle, StaleLease, CompleteAttached, PrepareSend, PrepareSkip,
           RenewBeforeHttp, ScanHistory, SendSucceeds, SendAmbiguous, SendRefused,
           AttachAmoId, Complete, FailClaimed
  <2>3. QED BY <2>1, <2>2
<1>4. ASSUME NEW i \in HookWorkers, HandleHook(i) PROVE [Next]_vars /\ bound' \in BOOLEAN
  <2>1. CASE HookCommits(i) BY <2>1, <1>2 DEF HookCommits
  <2>2. QED BY <1>1, <1>4, <2>1 DEF HandleHook, HookReads, HookRaises, HookFails, HookStale
<1>5. ASSUME NEW cid \in IntegrationIds, SeedReads(cid) PROVE [Next]_vars /\ bound' \in BOOLEAN
  BY <1>1, <1>2, <1>5 DEF SeedReads, vars
<1>6. ASSUME SeedFills PROVE [Next]_vars /\ bound' \in BOOLEAN
  BY <1>2, <1>6 DEF SeedFills
<1>7. ASSUME \/ \E e \in Hooks, cid \in IntegrationIds \union {0} : HookAccepted(e, cid)
             \/ \E i \in HookWorkers : NoHookClaimed(i) \/ HookWorkerDies(i)
             \/ \E i \in HookWorkers, e \in Hooks : HookClaimed(i, e)
             \/ \E e \in Hooks : HookLeaseLapses(e)
             \/ SeedAborts
             \/ UNCHANGED <<vars, echoVars>>
      PROVE  UNCHANGED vars
  BY <1>7 DEF HookAccepted, NoHookClaimed, HookWorkerDies, HookClaimed, HookLeaseLapses, SeedAborts
<1>8. QED BY <1>1, <1>3, <1>4, <1>5, <1>6, <1>7 DEF EchoNext

\* The webhook, its queue and the operator's seed do nothing to the projections that
\* ChatProjection does not allow: what is proved of the projection worker alone
\* (one copy of a message, settled rows) also holds beside them.
THEOREM EchoImplementsProjection == EchoSpec => Spec
<1>1. EchoInit => Init /\ bound \in BOOLEAN BY DEF EchoInit
<1>2. bound \in BOOLEAN /\ [EchoNext]_<<vars, echoVars>> => [Next]_vars /\ (bound \in BOOLEAN)'
  BY EchoStepIsNext
<1>3. QED BY <1>1, <1>2, PTL DEF EchoSpec, Spec

HookStates == {"NONE", "RECEIVED", "PROCESSING", "PROCESSED", "FAILED", "DEAD"}
HookType == [st : HookStates, ver : Nat, live : BOOLEAN, cid : Nat, kn : BOOLEAN]
HwType == [ph : {"idle", "claimed", "read", "fail"}, e : Hooks \union {NoProjection}, ver : Nat,
           own : BOOLEAN, active : BOOLEAN, integ : Nat]
ChatType == [active : BOOLEAN, integ : Nat]
SeedType == [ph : {"idle", "fill"}, cid : Nat]

EchoTypes ==
    /\ hook \in [Hooks -> HookType]
    /\ hw \in [HookWorkers -> HwType]
    /\ chat \in ChatType
    /\ seed \in SeedType

\* What a worker holds of its event: a claim that was really made, and with the latest
\* claim, once read, that the message is our own whenever the event says it was known to be.
ClaimRight(i) ==
    hw[i].ph # "idle" =>
        /\ hw[i].e \in Hooks /\ hw[i].ver <= hook[hw[i].e].ver
        /\ hw[i].own => hw[i].e \in Projections
        /\ hw[i].ph = "read" /\ hw[i].ver = hook[hw[i].e].ver /\ hook[hw[i].e].kn => hw[i].own

\* What an event says of its message: known ids are still carried, a PROCESSED message of
\* a person was heard, and what was heard is PROCESSED and was not known as our own.
EventRight(e) ==
    /\ hook[e].st = "NONE" => hook[e] = NoHook
    /\ hook[e].kn => CarriesId(e)
    /\ e \in People /\ hook[e].st = "PROCESSED" => e \in heard
    /\ e \in heard => hook[e].st = "PROCESSED" /\ ~hook[e].kn

EchoInv ==
    /\ EchoTypes
    /\ \A i \in HookWorkers : ClaimRight(i)
    /\ \A e \in Hooks : EventRight(e)
    /\ heard \subseteq Hooks

\* The worker holds the claim it held, and has read nothing new.
ClaimKept(i) ==
    \/ hw'[i].ph = "idle"
    \/ /\ hw[i].ph # "idle" /\ (hw'[i].ph = "read" => hw[i].ph = "read")
       /\ hw'[i].e = hw[i].e /\ hw'[i].ver = hw[i].ver /\ hw'[i].own = hw[i].own

LEMMA EchoTyped ==
    ASSUME EchoTypes
    PROVE  /\ \A e \in Hooks : hook[e] \in HookType
           /\ \A i \in HookWorkers : hw[i] \in HwType
           /\ chat \in ChatType /\ seed \in SeedType
  BY DEF EchoTypes

\* Steps that claim no event and end none with an effect.
LEMMA QuietEvents ==
    ASSUME EchoInv, EchoTypes', heard' = heard,
           \A e \in Hooks :
               /\ CarriesId(e) => CarriesId(e)'
               /\ hook'[e].ver = hook[e].ver /\ hook'[e].kn = hook[e].kn
               /\ (hook'[e].st = "PROCESSED") = (hook[e].st = "PROCESSED")
               /\ hook'[e].st = "NONE" => hook'[e] = NoHook,
           \A i \in HookWorkers : ClaimKept(i) \/ ClaimRight(i)'
    PROVE  EchoInv'
<1>1. \A e \in Hooks : EventRight(e)' BY DEF EventRight, EchoInv
<1>2. ASSUME NEW i \in HookWorkers, ClaimKept(i) PROVE ClaimRight(i)'
  <2>1. ClaimRight(i) BY DEF EchoInv
  <2>2. SUFFICES ASSUME hw'[i].ph # "idle" PROVE ClaimRight(i)' BY DEF ClaimRight
  <2>3. /\ hw[i].ph # "idle" /\ (hw'[i].ph = "read" => hw[i].ph = "read")
        /\ hw'[i].e = hw[i].e /\ hw'[i].ver = hw[i].ver /\ hw'[i].own = hw[i].own
    BY <1>2, <2>2 DEF ClaimKept
  <2>4. hw[i].e \in Hooks BY <2>1, <2>3 DEF ClaimRight
  <2>5. hook'[hw[i].e].ver = hook[hw[i].e].ver /\ hook'[hw[i].e].kn = hook[hw[i].e].kn BY <2>4
  <2>6. QED BY <2>1, <2>3, <2>4, <2>5 DEF ClaimRight
<1>3. QED BY <1>1, <1>2 DEF EchoInv

\* Steps that change one worker's claim only.
LEMMA HwStep ==
    ASSUME EchoInv, NEW i \in HookWorkers, NEW r \in HwType, hw' = [hw EXCEPT ![i] = r],
           UNCHANGED <<vars, hook, heard, chat, seed>>, ClaimKept(i) \/ ClaimRight(i)'
    PROVE  EchoInv'
<1>1. EchoTypes' BY DEF EchoInv, EchoTypes
<1>2. hw'[i] = r /\ \A j \in HookWorkers : j # i => hw'[j] = hw[j] BY DEF EchoInv, EchoTypes
<1>3. \A j \in HookWorkers : ClaimKept(j) \/ ClaimRight(j)' BY <1>2 DEF ClaimKept
<1>4. \A e \in Hooks : CarriesId(e) => CarriesId(e)' BY DEF CarriesId, vars
<1>5. \A e \in Hooks : hook'[e] = hook[e] /\ EventRight(e) BY DEF EchoInv
<1>6. heard' = heard OBVIOUS
<1>7. QED
  <2>1. \A e \in Hooks :
            /\ CarriesId(e) => CarriesId(e)'
            /\ hook'[e].ver = hook[e].ver /\ hook'[e].kn = hook[e].kn
            /\ (hook'[e].st = "PROCESSED") = (hook[e].st = "PROCESSED")
            /\ hook'[e].st = "NONE" => hook'[e] = NoHook
    BY <1>4, <1>5 DEF EventRight
  <2>2. QED BY <1>1, <1>3, <1>6, <2>1, QuietEvents

LEMMA IdleHwType == IdleHw \in HwType /\ IdleHw.ph = "idle"
  BY DEF IdleHw, HwType

\* Steps that change one event only.
LEMMA EventStep ==
    ASSUME EchoInv, NEW e \in Hooks, NEW t \in HookType, hook' = [hook EXCEPT ![e] = t],
           t.ver = hook[e].ver, t.kn = hook[e].kn, t.st # "NONE",
           (t.st = "PROCESSED") = (hook[e].st = "PROCESSED"),
           \A i \in HookWorkers : ClaimKept(i), hw' \in [HookWorkers -> HwType],
           UNCHANGED <<vars, heard, chat, seed>>
    PROVE  EchoInv'
<1>1. EchoTypes' BY DEF EchoInv, EchoTypes
<1>2. hook'[e] = t /\ \A d \in Hooks : d # e => hook'[d] = hook[d] BY DEF EchoInv, EchoTypes
<1>3. \A d \in Hooks : EventRight(d) BY DEF EchoInv
<1>4. \A d \in Hooks : CarriesId(d) => CarriesId(d)' BY DEF CarriesId, vars
<1>5. \A d \in Hooks :
            /\ CarriesId(d) => CarriesId(d)'
            /\ hook'[d].ver = hook[d].ver /\ hook'[d].kn = hook[d].kn
            /\ (hook'[d].st = "PROCESSED") = (hook[d].st = "PROCESSED")
            /\ hook'[d].st = "NONE" => hook'[d] = NoHook
  BY <1>2, <1>3, <1>4 DEF EventRight
<1>6. heard' = heard OBVIOUS
<1>7. QED BY <1>1, <1>5, <1>6, QuietEvents

\* recover_exhausted buries events whose last attempt was lost, and touches no other.
LEMMA Recovered ==
    ASSUME EchoTypes
    PROVE  /\ HooksRecovered \in [Hooks -> HookType]
           /\ \A e \in Hooks :
                /\ HooksRecovered[e].ver = hook[e].ver /\ HooksRecovered[e].kn = hook[e].kn
                /\ HooksRecovered[e].cid = hook[e].cid
                /\ \/ HooksRecovered[e] = hook[e]
                   \/ HooksRecovered[e].st = "DEAD" /\ hook[e].st = "PROCESSING"
<1>1. ASSUME NEW e \in Hooks
      PROVE  /\ [hook[e] EXCEPT !.st = "DEAD"] \in HookType
             /\ [hook[e] EXCEPT !.st = "DEAD"].ver = hook[e].ver
             /\ [hook[e] EXCEPT !.st = "DEAD"].kn = hook[e].kn
             /\ [hook[e] EXCEPT !.st = "DEAD"].cid = hook[e].cid
             /\ [hook[e] EXCEPT !.st = "DEAD"].st = "DEAD"
  BY EchoTyped DEF HookType, HookStates
<1>2. QED BY <1>1, EchoTyped DEF HooksRecovered, HookExhausted

\* accept_event and the clock.
LEMMA AcceptedStep ==
    ASSUME EchoInv, NEW e \in Hooks, NEW cid \in IntegrationIds \union {0}, HookAccepted(e, cid)
    PROVE  EchoInv'
<1>1. hook[e] = NoHook BY DEF HookAccepted, EchoInv, EventRight
<1>2. cid \in Nat BY EchoAssumption
<1> DEFINE t == [NoHook EXCEPT !.st = "RECEIVED", !.cid = cid]
<1>3. t \in HookType /\ t.ver = NoHook.ver /\ t.kn = NoHook.kn /\ t.st = "RECEIVED" /\ NoHook.st = "NONE"
  BY <1>2 DEF HookType, NoHook, HookStates
<1>4. hook' = [hook EXCEPT ![e] = t] /\ UNCHANGED <<vars, heard, chat, seed, hw>> BY DEF HookAccepted
<1>5. (\A i \in HookWorkers : ClaimKept(i)) /\ hw' \in [HookWorkers -> HwType]
  BY <1>4 DEF ClaimKept, EchoInv, EchoTypes
<1> HIDE DEF t
<1>6. QED BY <1>1, <1>3, <1>4, <1>5, EventStep

LEMMA LapseStep ==
    ASSUME EchoInv, NEW e \in Hooks, HookLeaseLapses(e)
    PROVE  EchoInv'
<1> DEFINE t == [hook[e] EXCEPT !.live = FALSE]
<1>1. hook[e] \in HookType BY EchoTyped DEF EchoInv
<1>2. t \in HookType /\ t.ver = hook[e].ver /\ t.kn = hook[e].kn /\ t.st = hook[e].st
  BY <1>1 DEF HookType
<1>3. hook' = [hook EXCEPT ![e] = t] /\ UNCHANGED <<vars, heard, chat, seed, hw>>
  BY DEF HookLeaseLapses
<1>4. (\A i \in HookWorkers : ClaimKept(i)) /\ hw' \in [HookWorkers -> HwType]
  BY <1>3 DEF ClaimKept, EchoInv, EchoTypes
<1>5. hook[e].st # "NONE"
  <2>1. hook[e].st = "NONE" => hook[e] = NoHook BY DEF EchoInv, EventRight
  <2>2. NoHook.live = FALSE BY DEF NoHook
  <2>3. QED BY <2>1, <2>2 DEF HookLeaseLapses
<1> HIDE DEF t
<1>6. QED BY <1>2, <1>3, <1>4, <1>5, EventStep

\* claim_next without a candidate.
LEMMA NothingClaimedStep ==
    ASSUME EchoInv, NEW i \in HookWorkers, NoHookClaimed(i)
    PROVE  EchoInv'
<1>1. EchoTypes BY DEF EchoInv
<1>2. hook' = HooksRecovered /\ UNCHANGED <<vars, hw, chat, seed, heard>> BY DEF NoHookClaimed
<1>3. EchoTypes' BY <1>1, <1>2, Recovered DEF EchoTypes
<1>4. \A e \in Hooks : EventRight(e) BY DEF EchoInv
<1>5. \A e \in Hooks : CarriesId(e) => CarriesId(e)' BY <1>2 DEF CarriesId, vars
<1>6. \A e \in Hooks :
            /\ CarriesId(e) => CarriesId(e)'
            /\ hook'[e].ver = hook[e].ver /\ hook'[e].kn = hook[e].kn
            /\ (hook'[e].st = "PROCESSED") = (hook[e].st = "PROCESSED")
            /\ hook'[e].st = "NONE" => hook'[e] = NoHook
  BY <1>1, <1>2, <1>4, <1>5, Recovered DEF EventRight
<1>7. \A j \in HookWorkers : ClaimKept(j) BY <1>2 DEF ClaimKept
<1>8. heard' = heard BY <1>2
<1>9. QED BY <1>3, <1>6, <1>7, <1>8, QuietEvents

\* A claim takes a new version: what other workers still hold of the event is stale.
LEMMA HookClaimedStep ==
    ASSUME EchoInv, NEW i \in HookWorkers, NEW e \in Hooks, HookClaimed(i, e)
    PROVE  EchoInv'
<1>1. /\ EchoTypes /\ hook[e] \in HookType /\ HooksRecovered[e] \in HookType
  BY EchoTyped, Recovered DEF EchoInv
<1>2. /\ HookClaimable(hook[e]) /\ UNCHANGED <<vars, chat, seed, heard>>
      /\ hook' = [HooksRecovered EXCEPT ![e] = HookTaken(HooksRecovered[e], CarriesId(e))]
      /\ hw' = [hw EXCEPT ![i] = [IdleHw EXCEPT !.ph = "claimed", !.e = e, !.ver = hook[e].ver + 1]]
  BY DEF HookClaimed
<1>3. CarriesId(e) \in BOOLEAN BY DEF CarriesId
<1>4. HooksRecovered[e].ver = hook[e].ver /\ hook[e].ver + 1 \in Nat BY <1>1, Recovered DEF HookType
<1>5. PICK t \in HookType : /\ hook' = [HooksRecovered EXCEPT ![e] = t]
                            /\ t.st = "PROCESSING" /\ t.ver = hook[e].ver + 1
                            /\ t.kn = CarriesId(e)
  <2> DEFINE t == HookTaken(HooksRecovered[e], CarriesId(e))
  <2>1. t \in HookType BY <1>1, <1>3, <1>4 DEF HookTaken, HookType, HookStates
  <2>2. t.st = "PROCESSING" /\ t.ver = HooksRecovered[e].ver + 1 /\ t.kn = CarriesId(e)
    BY <1>1 DEF HookTaken, HookType
  <2>3. hook' = [HooksRecovered EXCEPT ![e] = t] BY <1>2
  <2> HIDE DEF t
  <2>4. QED BY <1>4, <2>1, <2>2, <2>3
<1>6. PICK r \in HwType : /\ hw' = [hw EXCEPT ![i] = r]
                          /\ r.ph = "claimed" /\ r.e = e /\ r.ver = hook[e].ver + 1 /\ r.own = FALSE
  <2> DEFINE r == [IdleHw EXCEPT !.ph = "claimed", !.e = e, !.ver = hook[e].ver + 1]
  <2>1. r \in HwType BY <1>4 DEF HwType, IdleHw
  <2>2. r.ph = "claimed" /\ r.e = e /\ r.ver = hook[e].ver + 1 /\ r.own = FALSE BY DEF IdleHw
  <2>3. hw' = [hw EXCEPT ![i] = r] BY <1>2
  <2> HIDE DEF r
  <2>4. QED BY <2>1, <2>2, <2>3
<1>7. hook'[e] = t /\ \A d \in Hooks : d # e => hook'[d] = HooksRecovered[d]
  BY <1>1, <1>5, Recovered
<1>8. hw'[i] = r /\ \A j \in HookWorkers : j # i => hw'[j] = hw[j] BY <1>1, <1>6 DEF EchoTypes
<1>9. EchoTypes' BY <1>1, <1>2, <1>5, <1>6, Recovered DEF EchoTypes
<1>10. ASSUME NEW j \in HookWorkers PROVE ClaimRight(j)'
  <2>1. CASE j = i
    <3>1. r.ver <= t.ver BY <1>4, <1>5, <1>6
    <3>2. QED BY <1>5, <1>6, <1>7, <1>8, <2>1, <3>1 DEF ClaimRight
  <2>2. CASE j # i /\ hw[j].ph # "idle"
    <3>1. ClaimRight(j) /\ hw'[j] = hw[j] /\ hw[j] \in HwType /\ hw[j].e \in Hooks
      BY <1>1, <1>8, <2>2, EchoTyped DEF EchoInv, ClaimRight
    <3>2. CASE hw[j].e = e
      <4>1. hw[j].ver <= hook[e].ver BY <2>2, <3>1, <3>2 DEF ClaimRight
      <4>2. hw[j].ver \in Nat /\ hook[e].ver \in Nat BY <1>1, <3>1 DEF HookType, HwType
      <4>3. hw[j].ver <= t.ver /\ hw[j].ver # t.ver BY <1>5, <4>1, <4>2
      <4>4. QED BY <2>2, <3>1, <3>2, <4>3, <1>7 DEF ClaimRight
    <3>3. CASE hw[j].e # e
      <4>1. /\ hook'[hw[j].e].ver = hook[hw[j].e].ver /\ hook'[hw[j].e].kn = hook[hw[j].e].kn
        BY <1>1, <1>7, <3>1, <3>3, Recovered
      <4>2. QED BY <2>2, <3>1, <4>1 DEF ClaimRight
    <3>4. QED BY <3>2, <3>3
  <2>3. QED BY <1>8, <2>1, <2>2 DEF ClaimRight
<1>11. ASSUME NEW d \in Hooks PROVE EventRight(d)'
  <2>1. EventRight(d) /\ CarriesId(d)' = CarriesId(d) /\ heard' = heard
    BY <1>2 DEF EchoInv, CarriesId, vars
  <2>2. CASE d = e
    <3>1. e \notin heard BY <1>2, <2>1, <2>2 DEF EventRight, HookClaimable
    <3>2. QED BY <1>5, <1>7, <2>1, <2>2, <3>1 DEF EventRight
  <2>3. CASE d # e
    BY <1>1, <1>7, <2>1, <2>3, Recovered DEF EventRight
  <2>4. QED BY <2>2, <2>3
<1>12. heard' \subseteq Hooks BY <1>2 DEF EchoInv
<1>13. QED BY <1>9, <1>10, <1>11, <1>12 DEF EchoInv

\* The transaction's reads: with the latest claim they see every id the claim saw.
LEMMA HookReadsStep ==
    ASSUME EchoInv, NEW i \in HookWorkers, HookReads(i)
    PROVE  EchoInv'
<1>1. hw[i] \in HwType /\ chat \in ChatType /\ ClaimRight(i) BY EchoTyped DEF EchoInv
<1>2. hw[i].ph = "claimed" /\ UNCHANGED <<vars, hook, chat, seed, heard>> BY DEF HookReads
<1>3. OwnCopy(hw[i].e) \in BOOLEAN BY DEF OwnCopy, CarriesId
<1> DEFINE r == [hw[i] EXCEPT !.ph = "read", !.own = OwnCopy(hw[i].e),
                              !.active = chat.active, !.integ = chat.integ]
<1>4. r \in HwType BY <1>1, <1>3 DEF HwType, ChatType
<1>5. r.ph = "read" /\ r.e = hw[i].e /\ r.ver = hw[i].ver /\ r.own = OwnCopy(hw[i].e)
  BY <1>1 DEF HwType
<1>6. hw' = [hw EXCEPT ![i] = r] BY DEF HookReads
<1> HIDE DEF r
<1>7. hw'[i] = r BY <1>6 DEF EchoInv, EchoTypes
<1>8. hw[i].e \in Hooks /\ hw[i].ver <= hook[hw[i].e].ver BY <1>1, <1>2 DEF ClaimRight
<1>9. hook[hw[i].e].kn => CarriesId(hw[i].e) BY <1>8 DEF EchoInv, EventRight
<1>10. ClaimRight(i)' BY <1>2, <1>5, <1>7, <1>8, <1>9 DEF ClaimRight, OwnCopy, CarriesId
<1>11. QED BY <1>2, <1>4, <1>6, <1>10, HwStep

LEMMA HookRaisesStep ==
    ASSUME EchoInv, NEW i \in HookWorkers, HookRaises(i)
    PROVE  EchoInv'
<1>1. hw[i] \in HwType BY EchoTyped DEF EchoInv
<1> DEFINE r == [hw[i] EXCEPT !.ph = "fail"]
<1>2. r \in HwType BY <1>1 DEF HwType
<1>3. r.ph = "fail" /\ r.e = hw[i].e /\ r.ver = hw[i].ver /\ r.own = hw[i].own BY <1>1 DEF HwType
<1>4. hw' = [hw EXCEPT ![i] = r] /\ UNCHANGED <<vars, hook, heard, chat, seed>> BY DEF HookRaises
<1> HIDE DEF r
<1>5. hw'[i] = r BY <1>4 DEF EchoInv, EchoTypes
<1>6. ClaimKept(i) BY <1>3, <1>5 DEF ClaimKept, HookRaises
<1>7. QED BY <1>2, <1>4, <1>6, HwStep

\* The claim is dropped: StaleIngressLeaseError, or the process is gone.
LEMMA HookDroppedStep ==
    ASSUME EchoInv, NEW i \in HookWorkers, HookStale(i) \/ HookWorkerDies(i)
    PROVE  EchoInv'
<1>1. hw' = [hw EXCEPT ![i] = IdleHw] /\ UNCHANGED <<vars, hook, heard, chat, seed>>
  BY DEF HookStale, HookWorkerDies
<1>2. hw'[i] = IdleHw BY <1>1 DEF EchoInv, EchoTypes
<1>3. ClaimKept(i) BY <1>2, IdleHwType DEF ClaimKept
<1>4. QED BY <1>1, <1>3, IdleHwType, HwStep

\* What settling an event does to the tables, for either outcome.
LEMMA SettledHook ==
    ASSUME EchoInv, NEW i \in HookWorkers, hw[i].ph # "idle", OwnsHook(i),
           NEW st \in {"PROCESSED", "FAILED", "DEAD"}, HookSettles(i, st)
    PROVE  LET e == hw[i].e
           IN  /\ e \in Hooks /\ hook[e] \in HookType /\ hook[e].st = "PROCESSING"
               /\ hw[i].ver = hook[e].ver
               /\ \E t \in HookType : /\ hook' = [hook EXCEPT ![e] = t] /\ t.st = st
                                      /\ t.ver = hook[e].ver /\ t.kn = hook[e].kn
               /\ hw' = [hw EXCEPT ![i] = IdleHw] /\ hw' \in [HookWorkers -> HwType]
               /\ \A j \in HookWorkers : ClaimKept(j)
<1> DEFINE e == hw[i].e
<1>1. e \in Hooks BY DEF EchoInv, ClaimRight
<1>2. hook[e] \in HookType BY <1>1, EchoTyped DEF EchoInv
<1>3. hook[e].st = "PROCESSING" /\ hw[i].ver = hook[e].ver BY DEF OwnsHook
<1>4. \E t \in HookType : /\ hook' = [hook EXCEPT ![e] = t] /\ t.st = st
                          /\ t.ver = hook[e].ver /\ t.kn = hook[e].kn
  <2> DEFINE t == [hook[e] EXCEPT !.st = st, !.live = FALSE]
  <2>1. t \in HookType BY <1>2 DEF HookType, HookStates
  <2>2. t.st = st /\ t.ver = hook[e].ver /\ t.kn = hook[e].kn BY <1>2 DEF HookType
  <2>3. hook' = [hook EXCEPT ![e] = t] BY DEF HookSettles
  <2> HIDE DEF t
  <2>4. QED BY <2>1, <2>2, <2>3
<1>5. hw' = [hw EXCEPT ![i] = IdleHw] BY DEF HookSettles
<1>6. hw' \in [HookWorkers -> HwType] BY <1>5, IdleHwType DEF EchoInv, EchoTypes
<1>7. \A j \in HookWorkers : ClaimKept(j)
  BY <1>5, IdleHwType DEF ClaimKept, EchoInv, EchoTypes
<1>8. QED BY <1>1, <1>2, <1>3, <1>4, <1>5, <1>6, <1>7

LEMMA HookFailsStep ==
    ASSUME EchoInv, NEW i \in HookWorkers, HookFails(i)
    PROVE  EchoInv'
<1>1. PICK st \in {"FAILED", "DEAD"} : HookSettles(i, st) BY DEF HookFails
<1>2. hw[i].ph # "idle" /\ OwnsHook(i) /\ UNCHANGED <<vars, heard, chat, seed>> BY DEF HookFails
<1>3. /\ hw[i].e \in Hooks /\ hook[hw[i].e].st = "PROCESSING"
      /\ \E t \in HookType : /\ hook' = [hook EXCEPT ![hw[i].e] = t] /\ t.st = st
                             /\ t.ver = hook[hw[i].e].ver /\ t.kn = hook[hw[i].e].kn
      /\ hw' \in [HookWorkers -> HwType] /\ \A j \in HookWorkers : ClaimKept(j)
  BY <1>1, <1>2, SettledHook
<1>4. PICK t \in HookType : /\ hook' = [hook EXCEPT ![hw[i].e] = t] /\ t.st = st
                            /\ t.ver = hook[hw[i].e].ver /\ t.kn = hook[hw[i].e].kn
  BY <1>3
<1>5. QED BY <1>1, <1>2, <1>3, <1>4, EventStep

\* capture_integration_conversation_id leaves a binding a binding.
LEMMA CapturedType ==
    ASSUME NEW b \in ChatType, NEW read, NEW cid \in Nat
    PROVE  Captured(b, read, cid) \in ChatType
  BY DEF Captured, ChatType

\* The only step that makes a message heard: the worker has the latest claim, so it has
\* recognised a copy that was known.
LEMMA HookCommitsStep ==
    ASSUME EchoInv, NEW i \in HookWorkers, HookCommits(i)
    PROVE  EchoInv'
<1> DEFINE e == hw[i].e
<1>1. /\ hw[i].ph = "read" /\ OwnsHook(i) /\ HookSettles(i, "PROCESSED")
      /\ UNCHANGED <<row, seed>> /\ chat' = Captured(chat, hw[i], hook[e].cid)
      /\ heard' = IF hw[i].own THEN heard ELSE heard \union {e}
  BY DEF HookCommits, BindingIs
<1>2. /\ e \in Hooks /\ hook[e] \in HookType /\ hook[e].st = "PROCESSING"
      /\ hw[i].ver = hook[e].ver
      /\ \E t \in HookType : /\ hook' = [hook EXCEPT ![e] = t] /\ t.st = "PROCESSED"
                             /\ t.ver = hook[e].ver /\ t.kn = hook[e].kn
      /\ hw' = [hw EXCEPT ![i] = IdleHw] /\ hw' \in [HookWorkers -> HwType]
      /\ \A j \in HookWorkers : ClaimKept(j)
  BY <1>1, SettledHook
<1>3. PICK t \in HookType : /\ hook' = [hook EXCEPT ![e] = t] /\ t.st = "PROCESSED"
                            /\ t.ver = hook[e].ver /\ t.kn = hook[e].kn
  BY <1>2
<1>4. hook[e].kn => hw[i].own BY <1>1, <1>2 DEF EchoInv, ClaimRight
<1>5. hw[i].own => e \in Projections BY <1>1 DEF EchoInv, ClaimRight
<1> HIDE DEF e
<1>6. EchoTypes'
  <2>1. chat \in ChatType /\ hook[e].cid \in Nat BY <1>2 DEF EchoInv, EchoTypes, HookType
  <2>2. chat' \in ChatType BY <1>1, <2>1, CapturedType
  <2>3. QED BY <1>1, <1>2, <1>3, <2>2 DEF EchoInv, EchoTypes
<1>7. hook'[e] = t /\ \A d \in Hooks : d # e => hook'[d] = hook[d]
  BY <1>2, <1>3 DEF EchoInv, EchoTypes
<1>8. ASSUME NEW j \in HookWorkers PROVE ClaimRight(j)'
  <2>1. ClaimRight(j) /\ ClaimKept(j) BY <1>2 DEF EchoInv
  <2>2. SUFFICES ASSUME hw'[j].ph # "idle" PROVE ClaimRight(j)' BY DEF ClaimRight
  <2>3. /\ hw[j].ph # "idle" /\ (hw'[j].ph = "read" => hw[j].ph = "read")
        /\ hw'[j].e = hw[j].e /\ hw'[j].ver = hw[j].ver /\ hw'[j].own = hw[j].own
    BY <2>1, <2>2 DEF ClaimKept
  <2>4. hw[j].e \in Hooks BY <2>1, <2>3 DEF ClaimRight
  <2>5. hook'[hw[j].e].ver = hook[hw[j].e].ver /\ hook'[hw[j].e].kn = hook[hw[j].e].kn
    BY <1>3, <1>7, <2>4
  <2>6. QED BY <2>1, <2>3, <2>4, <2>5 DEF ClaimRight
<1>9. ASSUME NEW d \in Hooks PROVE EventRight(d)'
  <2>1. EventRight(d) /\ (CarriesId(d) => CarriesId(d)') BY <1>1 DEF EchoInv, CarriesId
  <2>2. CASE d = e
    <3>1. e \notin heard BY <1>2, <2>1, <2>2 DEF EventRight
    <3>2. e \in People => ~hw[i].own BY <1>5, EchoAssumption
    <3>3. QED BY <1>1, <1>3, <1>4, <1>7, <2>1, <2>2, <3>1, <3>2 DEF EventRight
  <2>3. CASE d # e
    <3>1. hook'[d] = hook[d] /\ (d \in heard' <=> d \in heard) BY <1>1, <1>7, <2>3
    <3>2. QED BY <2>1, <3>1 DEF EventRight
  <2>4. QED BY <2>2, <2>3
<1>10. heard' \subseteq Hooks BY <1>1, <1>2 DEF EchoInv
<1>11. QED BY <1>6, <1>8, <1>9, <1>10 DEF EchoInv

\* The operator's seed, and the projections' own steps, leave the events alone.
LEMMA ElsewhereStep ==
    ASSUME EchoInv, UNCHANGED <<hook, hw, heard>>, chat' \in ChatType, seed' \in SeedType,
           \A p \in Projections : row[p].amo => row'[p].amo
    PROVE  EchoInv'
<1>1. EchoTypes' BY DEF EchoInv, EchoTypes
<1>2. \A e \in Hooks : EventRight(e) /\ (CarriesId(e) => CarriesId(e)') BY DEF EchoInv, CarriesId
<1>3. \A e \in Hooks :
            /\ CarriesId(e) => CarriesId(e)'
            /\ hook'[e].ver = hook[e].ver /\ hook'[e].kn = hook[e].kn
            /\ (hook'[e].st = "PROCESSED") = (hook[e].st = "PROCESSED")
            /\ hook'[e].st = "NONE" => hook'[e] = NoHook
  BY <1>2 DEF EventRight
<1>4. \A i \in HookWorkers : ClaimKept(i) BY DEF ClaimKept
<1>5. heard' = heard OBVIOUS
<1>6. QED BY <1>1, <1>3, <1>4, <1>5, QuietEvents

LEMMA SeedStep ==
    ASSUME EchoInv, (\E cid \in IntegrationIds : SeedReads(cid)) \/ SeedFills \/ SeedAborts
    PROVE  EchoInv'
<1>1. chat \in ChatType /\ seed \in SeedType BY DEF EchoInv, EchoTypes
<1>2. ASSUME NEW cid \in IntegrationIds, SeedReads(cid) PROVE chat' \in ChatType /\ seed' \in SeedType
  <2>1. cid \in Nat BY EchoAssumption
  <2>2. [active |-> TRUE, integ |-> cid] \in ChatType /\ [ph |-> "fill", cid |-> cid] \in SeedType
    BY <2>1 DEF ChatType, SeedType
  <2>3. QED BY <1>1, <1>2, <2>2 DEF SeedReads, BindingIs
<1>3. NoSeed \in SeedType BY DEF NoSeed, SeedType
<1>4. ASSUME SeedFills PROVE chat' \in ChatType /\ seed' \in SeedType
  <2>1. [chat EXCEPT !.integ = seed.cid] \in ChatType BY <1>1 DEF ChatType, SeedType
  <2>2. QED BY <1>3, <1>4, <2>1 DEF SeedFills, BindingIs
<1>5. ASSUME SeedAborts PROVE chat' \in ChatType /\ seed' \in SeedType
  BY <1>1, <1>3, <1>5 DEF SeedAborts
<1>6. UNCHANGED <<row, hook, hw, heard>> BY DEF SeedReads, SeedFills, SeedAborts, vars
<1>7. \A p \in Projections : row[p].amo => row'[p].amo BY <1>6
<1>8. QED BY <1>2, <1>4, <1>5, <1>6, <1>7, ElsewhereStep

LEMMA EchoInductive ==
    ASSUME EchoInv, TypeOK, DelayedFailed, [EchoNext]_<<vars, echoVars>>
    PROVE  EchoInv'
<1>1. ASSUME ProjectionStep \/ UNCHANGED <<vars, echoVars>> PROVE EchoInv'
  <2>1. [Next]_vars BY <1>1 DEF ProjectionStep, Next
  <2>2. \A p \in Projections : row[p].amo => row'[p].amo BY <2>1, RowsKept DEF RowKept
  <2>3. UNCHANGED <<hook, hw, heard, chat, seed>> BY <1>1 DEF ProjectionStep, echoVars
  <2>4. chat' \in ChatType /\ seed' \in SeedType BY <2>3 DEF EchoInv, EchoTypes
  <2>5. QED BY <2>2, <2>3, <2>4, ElsewhereStep
<1>2. ASSUME NEW i \in HookWorkers, HandleHook(i) PROVE EchoInv'
  BY <1>2, HookReadsStep, HookCommitsStep, HookRaisesStep, HookFailsStep, HookDroppedStep
     DEF HandleHook
<1>3. QED
  BY <1>1, <1>2, AcceptedStep, NothingClaimedStep, HookClaimedStep, HookDroppedStep, LapseStep, SeedStep
     DEF EchoNext

LEMMA EchoInitially == EchoInit => EchoInv
<1>1. SUFFICES ASSUME EchoInit PROVE EchoInv OBVIOUS
<1>2. NoHook \in HookType /\ NoHook.kn = FALSE /\ NoHook.st = "NONE" BY DEF NoHook, HookType, HookStates
<1>3. NoSeed \in SeedType BY DEF NoSeed, SeedType
<1>4. EchoTypes BY <1>1, <1>2, <1>3, IdleHwType DEF EchoInit, EchoTypes, ChatType
<1>5. /\ \A i \in HookWorkers : hw[i].ph = "idle"
      /\ \A e \in Hooks : hook[e] = NoHook
      /\ heard = {}
  BY <1>1, IdleHwType DEF EchoInit
<1>6. QED BY <1>2, <1>4, <1>5 DEF EchoInv, ClaimRight, EventRight

LEMMA EchoAlways == EchoSpec => []EchoInv
<1>1. EchoInv /\ TypeOK /\ DelayedFailed /\ [EchoNext]_<<vars, echoVars>> => EchoInv'
  BY EchoInductive
<1>2. TypeOK /\ DelayedFailed /\ [Next]_vars => DelayedFailed' BY RowsKept DEF RowKept, DelayedFailed
<1>3. Init => DelayedFailed BY DEF Init, NoRow, DelayedFailed
<1>4. QED BY <1>1, <1>2, <1>3, EchoInitially, EchoImplementsProjection, TypeCorrect, PTL DEF EchoSpec, Spec

\* _process_amocrm_manager hears what it should, for any number of ingress workers,
\* messages, attempts, lost leases and crashes: a copy of the bot's own message whose
\* id the projection carried when its event was claimed never takes the dialog over,
\* and a person's message does so exactly when its event ends PROCESSED.
THEOREM HeardCorrect == EchoSpec => []WebhookHeardRight
<1>1. EchoInv => WebhookHeardRight
  BY DEF EchoInv, EventRight, WebhookHeardRight, KnownEchoHarmless, HeardExactly, Hooks
<1>2. QED BY <1>1, EchoAlways, PTL

\* No binding, no id: what reads of an ACTIVE binding stays true, because nothing revokes one.
BindingInv ==
    /\ ~chat.active => chat.integ = 0
    /\ seed.ph = "fill" => chat.active
    /\ \A i \in HookWorkers : hw[i].ph = "read" /\ hw[i].active => chat.active

LEMMA BindingStep ==
    ASSUME EchoInv, BindingInv, [EchoNext]_<<vars, echoVars>>
    PROVE  BindingInv'
<1>t. /\ \A i \in HookWorkers : hw[i] \in HwType
      /\ chat \in ChatType /\ seed \in SeedType /\ hw \in [HookWorkers -> HwType]
  BY EchoTyped DEF EchoInv, EchoTypes
<1>1. ASSUME UNCHANGED <<chat, seed>>,
             \A i \in HookWorkers : hw'[i].ph = "read" => hw'[i] = hw[i] \/ hw'[i].active = chat.active
      PROVE  BindingInv'
  BY <1>1 DEF BindingInv
<1>2. ASSUME UNCHANGED hw, seed'.ph = "fill" => chat'.active, chat.active => chat'.active,
             ~chat'.active => chat'.integ = 0
      PROVE  BindingInv'
  BY <1>2 DEF BindingInv
<1>3. ASSUME NEW i \in HookWorkers, HookReads(i) PROVE BindingInv'
  <2> DEFINE r == [hw[i] EXCEPT !.ph = "read", !.own = OwnCopy(hw[i].e),
                                !.active = chat.active, !.integ = chat.integ]
  <2>1. r.active = chat.active BY <1>t DEF HwType
  <2>2. hw' = [hw EXCEPT ![i] = r] /\ UNCHANGED <<chat, seed>> BY <1>3 DEF HookReads
  <2> HIDE DEF r
  <2>3. QED BY <1>1, <1>t, <2>1, <2>2
<1>4. ASSUME NEW i \in HookWorkers, HookCommits(i) PROVE BindingInv'
  <2>1. hw' = [hw EXCEPT ![i] = IdleHw] /\ seed' = seed BY <1>4 DEF HookCommits, HookSettles
  <2>2. chat'.active = chat.active /\ (chat'.integ # chat.integ => hw[i].active)
    BY <1>4, <1>t DEF HookCommits, BindingIs, Captured, ChatType
  <2>3. hw[i].ph = "read" BY <1>4 DEF HookCommits
  <2>4. \A j \in HookWorkers : hw'[j].ph = "read" => hw'[j] = hw[j] BY <1>t, <2>1, IdleHwType
  <2>5. QED BY <2>1, <2>2, <2>3, <2>4 DEF BindingInv
<1>5. ASSUME NEW i \in HookWorkers, NEW r \in HwType, r.ph # "read",
             hw' = [hw EXCEPT ![i] = r], UNCHANGED <<chat, seed>>
      PROVE  BindingInv'
  BY <1>1, <1>5, <1>t
<1>6. ASSUME NEW i \in HookWorkers, HookRaises(i) PROVE BindingInv'
  <2> DEFINE r == [hw[i] EXCEPT !.ph = "fail"]
  <2>1. r \in HwType /\ r.ph = "fail" BY <1>t DEF HwType
  <2>2. hw' = [hw EXCEPT ![i] = r] /\ UNCHANGED <<chat, seed>> BY <1>6 DEF HookRaises
  <2> HIDE DEF r
  <2>3. QED BY <1>5, <2>1, <2>2
<1>7. ASSUME NEW i \in HookWorkers, HookFails(i) \/ HookStale(i) \/ HookWorkerDies(i) PROVE BindingInv'
  BY <1>5, <1>7, IdleHwType DEF HookFails, HookSettles, HookStale, HookWorkerDies
<1>8. ASSUME NEW i \in HookWorkers, NEW e \in Hooks, HookClaimed(i, e) PROVE BindingInv'
  <2> DEFINE r == [IdleHw EXCEPT !.ph = "claimed", !.e = e, !.ver = hook[e].ver + 1]
  <2>1. hook[e].ver + 1 \in Nat BY EchoTyped DEF EchoInv, HookType
  <2>2. r \in HwType /\ r.ph = "claimed" BY <2>1 DEF IdleHw, HwType
  <2>3. hw' = [hw EXCEPT ![i] = r] /\ UNCHANGED <<chat, seed>> BY <1>8 DEF HookClaimed
  <2> HIDE DEF r
  <2>4. QED BY <1>5, <2>2, <2>3
<1>9. ASSUME NEW cid \in IntegrationIds, SeedReads(cid) PROVE BindingInv'
  <2>1. CASE chat.active
    BY <1>2, <1>9, <2>1 DEF SeedReads
  <2>2. CASE ~chat.active
    BY <1>2, <1>9, <2>2 DEF SeedReads, BindingIs
  <2>3. QED BY <2>1, <2>2
<1>10. ASSUME SeedFills PROVE BindingInv'
  <2>1. chat'.active = chat.active BY <1>10, <1>t DEF SeedFills, BindingIs, ChatType
  <2>2. seed'.ph = "idle" /\ UNCHANGED hw /\ chat.active BY <1>10 DEF SeedFills, NoSeed, BindingInv
  <2>3. QED BY <1>2, <2>1, <2>2
<1>11. ASSUME SeedAborts PROVE BindingInv'
  BY <1>2, <1>11 DEF SeedAborts, NoSeed, BindingInv
<1>12. ASSUME UNCHANGED <<hw, chat, seed>> PROVE BindingInv' BY <1>1, <1>12
<1>13. QED
  BY <1>3, <1>4, <1>6, <1>7, <1>8, <1>9, <1>10, <1>11, <1>12
     DEF EchoNext, ProjectionStep, HandleHook, HookAccepted, NoHookClaimed, HookLeaseLapses, echoVars

\* "Do not silently remap a known integration conversation": however webhooks and the
\* operator's seed interleave, a stored id changes only at the commit of a transaction
\* that had already read a binding without one.
THEOREM RemapCorrect == EchoSpec => RemapOnlyInFlight
<1> DEFINE Body == chat.integ # 0 /\ chat'.integ # chat.integ =>
                     \/ seed.ph = "fill"
                     \/ \E i \in HookWorkers : hw[i].ph = "read" /\ hw[i].active /\ hw[i].integ = 0
<1>1. ASSUME BindingInv, [EchoNext]_<<vars, echoVars>> PROVE [Body]_<<vars, echoVars>>
  <2>1. ASSUME UNCHANGED chat PROVE Body BY <2>1
  <2>2. ASSUME NEW i \in HookWorkers, HookCommits(i) PROVE Body
    BY <2>2 DEF HookCommits, BindingIs, Captured
  <2>3. ASSUME NEW cid \in IntegrationIds, SeedReads(cid) PROVE Body
    BY <1>1, <2>3 DEF SeedReads, BindingInv
  <2>4. QED
    BY <1>1, <2>1, <2>2, <2>3
       DEF EchoNext, ProjectionStep, HandleHook, HookReads, HookRaises, HookFails, HookStale, HookAccepted,
           NoHookClaimed, HookClaimed, HookWorkerDies, HookLeaseLapses, SeedFills, SeedAborts, echoVars
<1>2. EchoInv /\ BindingInv /\ [EchoNext]_<<vars, echoVars>> => BindingInv' BY BindingStep
<1>3. EchoInit => BindingInv
  BY IdleHwType DEF EchoInit, BindingInv, NoSeed
<1>4. EchoSpec => []EchoInv BY EchoAlways
<1>5. QED BY <1>1, <1>2, <1>3, <1>4, PTL DEF EchoSpec, RemapOnlyInFlight

-----------------------------------------------------------------------------
(* The webhooks keep the promise of EventPromise                            *)

LEMMA HookFates ==
    /\ HookFateOf("NONE") = "absent" /\ HookFateOf("PROCESSED") = "done" /\ HookFateOf("DEAD") = "dead"
    /\ \A st \in {"RECEIVED", "PROCESSING", "FAILED"} : HookFateOf(st) = "open"
  BY DEF HookFateOf

\* Everything but a decision leaves the fates and the dialog alone.
HookQuiet == HookFate' = HookFate /\ heard' = heard

LEMMA SameFates ==
    ASSUME \A e \in Hooks : HookFateOf(hook'[e].st) = HookFateOf(hook[e].st), heard' = heard
    PROVE  HookQuiet
  BY DEF HookQuiet, HookFate

\* Every claim_next gives up the events whose last attempt was lost, and no other.
LEMMA RecoveryDrops ==
    ASSUME EchoInv, heard' = heard,
           \A e \in Hooks :
               \/ HookFateOf(hook'[e].st) = HookFateOf(hook[e].st)
               \/ hook'[e].st = "DEAD" /\ hook[e].st = "PROCESSING"
    PROVE  HookPromise!Next
<1> DEFINE lost == {e \in Hooks : hook'[e].st = "DEAD" /\ hook[e].st = "PROCESSING"}
<1>1. \A e \in lost : HookFate[e] = "open" BY HookFates DEF HookFate
<1>2. HookFate' = [e \in Hooks |-> IF e \in lost THEN "dead" ELSE HookFate[e]]
  BY HookFates DEF HookFate
<1>3. Cardinality(heard)' = Cardinality(heard) OBVIOUS
<1>4. HookPromise!Drop(lost) BY <1>1, <1>2, <1>3 DEF HookPromise!Drop
<1>5. lost \in SUBSET Hooks OBVIOUS
<1> HIDE DEF lost
<1>6. QED BY <1>4, <1>5 DEF HookPromise!Next

LEMMA AcceptAcknowledges ==
    ASSUME EchoInv, NEW e \in Hooks, NEW cid, HookAccepted(e, cid)
    PROVE  HookPromise!Next
<1> DEFINE t == [NoHook EXCEPT !.st = "RECEIVED", !.cid = cid]
<1>1. t.st = "RECEIVED" BY DEF NoHook
<1>2. hook' = [hook EXCEPT ![e] = t] /\ heard' = heard /\ hook[e].st = "NONE" BY DEF HookAccepted
<1> HIDE DEF t
<1>3. hook'[e] = t /\ \A d \in Hooks : d # e => hook'[d] = hook[d] BY <1>2 DEF EchoInv, EchoTypes
<1>4. HookFate[e] = "absent" BY <1>2, HookFates DEF HookFate
<1>5. HookFate' = [HookFate EXCEPT ![e] = "open"] BY <1>1, <1>3, HookFates DEF HookFate
<1>6. HookPromise!Acknowledge(e) BY <1>2, <1>4, <1>5 DEF HookPromise!Acknowledge
<1>7. QED BY <1>6 DEF HookPromise!Next

LEMMA ClaimDrops ==
    ASSUME EchoInv, NEW i \in HookWorkers, NEW e \in Hooks, HookClaimed(i, e)
    PROVE  HookPromise!Next
<1>1. EchoTypes /\ HookClaimable(hook[e]) /\ heard' = heard BY DEF HookClaimed, EchoInv
<1>2. hook' = [HooksRecovered EXCEPT ![e] = HookTaken(HooksRecovered[e], CarriesId(e))] BY DEF HookClaimed
<1>3. HooksRecovered[e] \in HookType BY <1>1, Recovered
<1>4. HookTaken(HooksRecovered[e], CarriesId(e)).st = "PROCESSING" BY <1>3 DEF HookTaken, HookType
<1>5. hook'[e].st = "PROCESSING" /\ \A d \in Hooks : d # e => hook'[d] = HooksRecovered[d]
  BY <1>1, <1>2, <1>4, Recovered
<1>6. HookFateOf(hook'[e].st) = HookFateOf(hook[e].st) BY <1>1, <1>5, HookFates DEF HookClaimable
<1>7. \A d \in Hooks : \/ HookFateOf(hook'[d].st) = HookFateOf(hook[d].st)
                       \/ hook'[d].st = "DEAD" /\ hook[d].st = "PROCESSING"
  BY <1>1, <1>5, <1>6, Recovered
<1>8. QED BY <1>1, <1>7, RecoveryDrops

LEMMA NoClaimDrops ==
    ASSUME EchoInv, NEW i \in HookWorkers, NoHookClaimed(i)
    PROVE  HookPromise!Next
<1>1. EchoTypes /\ hook' = HooksRecovered /\ heard' = heard BY DEF NoHookClaimed, EchoInv
<1>2. \A d \in Hooks : \/ HookFateOf(hook'[d].st) = HookFateOf(hook[d].st)
                       \/ hook'[d].st = "DEAD" /\ hook[d].st = "PROCESSING"
  BY <1>1, Recovered
<1>3. QED BY <1>1, <1>2, RecoveryDrops

LEMMA FailureDrops ==
    ASSUME EchoInv, NEW i \in HookWorkers, HookFails(i)
    PROVE  HookPromise!Next
<1>1. PICK st \in {"FAILED", "DEAD"} : HookSettles(i, st) BY DEF HookFails
<1>2. hw[i].ph # "idle" /\ OwnsHook(i) /\ heard' = heard BY DEF HookFails
<1>3. PICK e \in Hooks, t \in HookType :
        /\ hook' = [hook EXCEPT ![e] = t] /\ t.st = st /\ hook[e].st = "PROCESSING"
  BY <1>1, <1>2, SettledHook
<1>4. hook'[e] = t /\ \A d \in Hooks : d # e => hook'[d] = hook[d] BY <1>3 DEF EchoInv, EchoTypes
<1>5. \A d \in Hooks : \/ HookFateOf(hook'[d].st) = HookFateOf(hook[d].st)
                       \/ hook'[d].st = "DEAD" /\ hook[d].st = "PROCESSING"
  BY <1>1, <1>3, <1>4, HookFates
<1>6. QED BY <1>2, <1>5, RecoveryDrops

\* The commit decides the event; a message is heard with the first decision only, because
\* what was heard is PROCESSED already.
LEMMA CommitDecides ==
    ASSUME EchoInv, IsFiniteSet(heard), NEW i \in HookWorkers, HookCommits(i)
    PROVE  HookPromise!Next
<1>1. /\ hw[i].ph = "read" /\ OwnsHook(i) /\ HookSettles(i, "PROCESSED")
      /\ heard' = IF hw[i].own THEN heard ELSE heard \union {hw[i].e}
  BY DEF HookCommits
<1>2. PICK e \in Hooks, t \in HookType :
        /\ e = hw[i].e /\ hook' = [hook EXCEPT ![e] = t] /\ t.st = "PROCESSED" /\ hook[e].st = "PROCESSING"
  BY <1>1, SettledHook
<1>3. hook'[e].st = "PROCESSED" /\ \A d \in Hooks : d # e => hook'[d] = hook[d]
  BY <1>2 DEF EchoInv, EchoTypes
<1>4. HookFate[e] = "open" BY <1>2, HookFates DEF HookFate
<1>5. HookFate' = [HookFate EXCEPT ![e] = "done"] BY <1>3, HookFates DEF HookFate
<1>6. HookPromise!Decide(e) BY <1>4, <1>5 DEF HookPromise!Decide
<1>7. e \notin heard BY <1>2 DEF EchoInv, EventRight
<1>8. Cardinality(heard)' \in {Cardinality(heard), Cardinality(heard) + 1}
  <2>1. CASE hw[i].own BY <1>1, <2>1
  <2>2. CASE ~hw[i].own
    <3>1. heard' = heard \union {e} BY <1>1, <1>2, <2>2
    <3>2. QED BY <1>7, <3>1, FS_AddElement
  <2>3. QED BY <2>1, <2>2
<1>9. HookPromise!Apply(e) \/ HookPromise!Ignore(e)
  BY <1>6, <1>8 DEF HookPromise!Apply, HookPromise!Ignore
<1>10. QED BY <1>9 DEF HookPromise!Next

LEMMA HookRefines ==
    ASSUME EchoInv, IsFiniteSet(heard), [EchoNext]_<<vars, echoVars>>
    PROVE  HookPromise!Next \/ HookQuiet
<1>1. ASSUME UNCHANGED <<hook, heard>> PROVE HookQuiet BY <1>1 DEF HookQuiet, HookFate
<1>2. ASSUME ProjectionStep \/ UNCHANGED <<vars, echoVars>> PROVE HookQuiet
  BY <1>1, <1>2 DEF ProjectionStep, echoVars
<1>3. ASSUME NEW i \in HookWorkers, HookReads(i) \/ HookRaises(i) \/ HookStale(i) \/ HookWorkerDies(i)
      PROVE  HookQuiet
  BY <1>1, <1>3 DEF HookReads, HookRaises, HookStale, HookWorkerDies
<1>4. ASSUME NEW e \in Hooks, HookLeaseLapses(e) PROVE HookQuiet
  <2>1. hook' = [hook EXCEPT ![e] = [hook[e] EXCEPT !.live = FALSE]] /\ heard' = heard
    BY <1>4 DEF HookLeaseLapses
  <2>2. [hook[e] EXCEPT !.live = FALSE].st = hook[e].st BY EchoTyped DEF EchoInv, HookType
  <2>3. \A d \in Hooks : hook'[d].st = hook[d].st BY <2>1, <2>2 DEF EchoInv, EchoTypes
  <2>4. QED BY <2>1, <2>3, SameFates
<1>5. ASSUME (\E cid \in IntegrationIds : SeedReads(cid)) \/ SeedFills \/ SeedAborts PROVE HookQuiet
  BY <1>1, <1>5 DEF SeedReads, SeedFills, SeedAborts
<1>6. QED
  BY <1>2, <1>3, <1>4, <1>5, AcceptAcknowledges, ClaimDrops, NoClaimDrops, FailureDrops, CommitDecides
     DEF EchoNext, HandleHook

\* One message at a time is heard.
LEMMA HeardFinite ==
    ASSUME IsFiniteSet(heard), [EchoNext]_<<vars, echoVars>>
    PROVE  IsFiniteSet(heard')
<1>1. heard' = heard \/ \E e : heard' = heard \union {e}
  BY DEF EchoNext, ProjectionStep, HandleHook, HookReads, HookCommits, HookRaises, HookFails, HookStale,
         HookAccepted, NoHookClaimed, HookClaimed, HookWorkerDies, HookLeaseLapses,
         SeedReads, SeedFills, SeedAborts, echoVars
<1>2. QED BY <1>1, FS_AddElement

\* "Persist first; ACK only after commit" for the amoCRM webhooks as well: for any messages,
\* workers, crashes, lost leases and retries an acknowledged event is decided once, and what
\* managers said grows with the decision that applies it and with nothing else.
THEOREM WebhookPromiseKept == EchoSpec => HookPromise!Spec
<1>1. EchoInit => HookPromise!Init
  <2>1. SUFFICES ASSUME EchoInit PROVE HookPromise!Init OBVIOUS
  <2>2. HookFate = [e \in Hooks |-> "absent"] BY <2>1, HookFates DEF EchoInit, HookFate, NoHook
  <2>3. Cardinality(heard) = 0 BY <2>1, FS_EmptySet DEF EchoInit
  <2>4. QED BY <2>2, <2>3 DEF HookPromise!Init
<1>2. EchoInv /\ IsFiniteSet(heard) /\ [EchoNext]_<<vars, echoVars>>
        => [HookPromise!Next]_<<HookFate, Cardinality(heard)>>
  BY HookRefines DEF HookQuiet
<1>3. EchoInit => IsFiniteSet(heard) BY FS_EmptySet DEF EchoInit
<1>4. IsFiniteSet(heard) /\ [EchoNext]_<<vars, echoVars>> => IsFiniteSet(heard)' BY HeardFinite
<1>5. QED BY <1>1, <1>2, <1>3, <1>4, EchoAlways, PTL DEF EchoSpec, HookPromise!Spec

\* What a webhook does to the dialog and to the binding happens once.
THEOREM WebhookEffectsCorrect == EchoSpec => WebhookEffectsOnce
  BY WebhookPromiseKept, RemapCorrect, PTL DEF WebhookEffectsOnce
=============================================================================
