------------------------- MODULE JobLifecycleProofs -------------------------
(***************************************************************************)
(* The orders of a job's stages stay distinct, and dense where only the    *)
(* web form adds stages, for any number of stages and requests and any     *)
(* template.                                                               *)
(*                                                                         *)
(* And of the pages that MCPages puts beside it: what a page itself wrote  *)
(* is on its way to the page (LiveUpdates), and a candidate's badge counts *)
(* within bounds (PortalBadge).                                            *)
(***************************************************************************)
EXTENDS MCPages, FiniteSetTheorems, WellFoundedInduction, TLAPS

\* What the constants stand for: the template names no stage twice, and a bound
\* on the orders that leaves every stage one.
ConstantsOK ==
    /\ IsFiniteSet(Stage)
    /\ \E n \in Nat : Template \in [1..n -> Stage]
    /\ IsInjective(Template)
    /\ MaxOrder \in Nat /\ Cardinality(Stage) <= MaxOrder + 1

-----------------------------------------------------------------------------
(* The inductive invariant *)

Distinct == \A s, t \in Existing : order[s] = order[t] => s = t

Dense == tidy => {order[s] : s \in Existing} = 0 .. Count - 1

\* What a pending request has read has at most become too small.
Pending ==
    \A q \in Request :
      /\ tidy /\ At(q, "add") /\ req[q].web => req[q].at <= Count
      /\ tidy /\ At(q, "reorder") => Len(req[q].list) <= Count

RequestsAreSlots == req = [q \in Request |-> req[q]]

IInv == TypeOK /\ RequestsAreSlots /\ Distinct /\ Dense /\ Pending

-----------------------------------------------------------------------------
(* Numbers and finite sets *)

LEMMA LeastNumber ==
    ASSUME NEW T \in SUBSET Nat, T # {}
    PROVE  \E x \in T : \A y \in T : x <= y
<1> DEFINE R == OpToRel(<, Nat)
<1>1. IsWellFoundedOn(R, Nat)
  BY NatLessThanWellFounded
<1>2. PICK x \in T : \A y \in T : ~ (<<y, x>> \in R)
  <2> HIDE DEF R
  <2>1. QED
    BY <1>1, WFMin
<1>3. \A y \in T : <<y, x>> \in R <=> y < x
  BY DEF OpToRel
<1> HIDE DEF R
<1>4. x \in Nat /\ \A y \in T : y \in Nat /\ ~(y < x)
  BY <1>2, <1>3
<1>5. QED
  BY <1>4

LEMMA ExistingFacts ==
    ASSUME ConstantsOK, TypeOK
    PROVE  /\ Existing \subseteq Stage
           /\ IsFiniteSet(Existing)
           /\ Count \in Nat /\ Count <= Cardinality(Stage)
           /\ Cardinality(Stage) \in Nat
           /\ \A s \in Existing : order[s] \in 0..MaxOrder
           /\ \A s \in Stage : s \in Existing <=> order[s] # None
<1>1. Existing \in SUBSET Stage
  BY DEF Existing
<1>2. /\ IsFiniteSet(Existing) /\ Count <= Cardinality(Stage)
      /\ Count \in Nat /\ Cardinality(Stage) \in Nat
  BY <1>1, FS_Subset, FS_CardinalityType DEF ConstantsOK, Count
<1>3. QED
  BY <1>1, <1>2 DEF TypeOK, Existing

\* A stage that is in the list has a last place in it.
LEMMA PlaceOf ==
    ASSUME NEW n \in Nat, NEW list \in [1..n -> Stage], NEW s \in Range(list)
    PROVE  Place(list, s) \in 1..n /\ list[Place(list, s)] = s
<1> DEFINE I == {i \in 1..n : list[i] = s}
           T == {n - i : i \in I}
<1>1. DOMAIN list = 1..n
  OBVIOUS
<1>2. I # {}
  BY DEF Range
<1>3. T \in SUBSET Nat /\ T # {}
  <2>1. \A i \in I : n - i \in Nat
    OBVIOUS
  <2>2. T # {}
    BY <1>2
  <2>3. QED
    BY <2>1, <2>2
<1>4. PICK x \in T : \A y \in T : x <= y
  BY <1>3, LeastNumber
<1>5. PICK i \in I : x = n - i
  BY <1>4
<1>6. \A j \in I : j <= i
  <2> SUFFICES ASSUME NEW j \in I PROVE j <= i
    OBVIOUS
  <2>1. n - i <= n - j
    BY <1>4, <1>5
  <2>2. QED
    BY <2>1
<1>7. /\ i \in DOMAIN list /\ list[i] = s
      /\ \A j \in DOMAIN list : list[j] = s => j <= i
  BY <1>1, <1>6
<1>8. QED
  BY <1>1, <1>7 DEF Place

-----------------------------------------------------------------------------
(* Reordering *)

\* On a dense job a list that meets no clash names exactly the stages that hold
\* the lowest orders, each once: those stages are as many as the list is long,
\* and all of them are in it.
LEMMA ListsTheLowest ==
    ASSUME ConstantsOK, TypeOK, Distinct, Dense, tidy,
           NEW n \in Nat, NEW list \in [1..n -> Stage], n <= Count, ~Clash(list)
    PROVE  /\ IsInjective(list)
           /\ Range(list) = {s \in Existing : order[s] < n}
<1> DEFINE Low == {s \in Existing : order[s] < n}
           R == Range(list)
           f == [s \in Low |-> order[s] + 1]
<1>1. /\ R \subseteq Existing /\ Low \subseteq R
      /\ Len(list) = n /\ DOMAIN list = 1..n
  <2>1. list \in Seq(Stage) /\ Len(list) = n /\ DOMAIN list = 1..n
    OBVIOUS
  <2>2. QED
    BY <2>1 DEF Clash
<1>2. \A k \in 0..(n - 1) : \E s \in Low : order[s] = k
  <2> SUFFICES ASSUME NEW k \in 0..(n - 1) PROVE \E s \in Low : order[s] = k
    OBVIOUS
  <2>1. k \in 0..(Count - 1)
    BY ExistingFacts
  <2>2. k \in {order[s] : s \in Existing}
    BY <2>1 DEF Dense
  <2>3. QED
    BY <2>2
<1>3. f \in Surjection(Low, 1..n)
  <2>1. \A s \in Low : f[s] \in 1..n
    BY ExistingFacts
  <2>2. ASSUME NEW k \in 1..n PROVE \E s \in Low : f[s] = k
    <3>1. k - 1 \in 0..(n - 1)
      OBVIOUS
    <3>2. PICK s \in Low : order[s] = k - 1
      BY <1>2, <3>1
    <3>3. QED
      BY <3>2
  <2>3. QED
    BY <2>1, <2>2 DEF Surjection
<1>4. list \in Surjection(1..n, R)
  BY <1>1 DEF Surjection, Range
<1>5. IsFiniteSet(1..n) /\ Cardinality(1..n) = n
  BY FS_Interval
<1>6. IsFiniteSet(R) /\ Cardinality(R) <= n
      /\ (Cardinality(R) = n <=> list \in Injection(1..n, R))
  BY <1>4, <1>5, FS_Surjection
<1>7. Low \in SUBSET R
  BY <1>1
<1> HIDE DEF Low, R, f
<1>8. /\ IsFiniteSet(Low) /\ Cardinality(Low) <= Cardinality(R)
      /\ Cardinality(R) = Cardinality(Low) => R = Low
  BY <1>6, <1>7, FS_Subset
<1>9. n <= Cardinality(Low)
  BY <1>3, <1>5, <1>8, FS_Surjection
<1>10. Cardinality(R) = n /\ R = Low
  BY <1>6, <1>8, <1>9, FS_CardinalityType
<1>11. IsInjective(list)
  BY <1>6, <1>10 DEF Injection
<1>12. QED
  BY <1>10, <1>11 DEF R, Low

\* What a reordering that meets no clash writes.
LEMMA Reorders ==
    ASSUME ConstantsOK, IInv, NEW q \in Request, ReorderCommit(q), order' # order
    PROVE  /\ \E n \in 0..Cardinality(Stage) : req[q].list \in [1..n -> Stage]
           /\ ~Clash(req[q].list)
           /\ Range(req[q].list) \subseteq Existing
           /\ \A s \in Existing \ Range(req[q].list) :
                order[s] >= Len(req[q].list)
           /\ order' = [s \in Stage |-> IF s \in Range(req[q].list)
                                         THEN Place(req[q].list, s) - 1 ELSE order[s]]
<1>1. ~Clash(req[q].list)
  BY DEF ReorderCommit
<1>2. \E n \in 0..Cardinality(Stage) : req[q].list \in [1..n -> Stage]
  BY DEF ReorderCommit, At, IInv, TypeOK, Lists
<1>3. Len(req[q].list) \in Nat
  BY <1>2, ExistingFacts DEF IInv
<1>4. order' = [s \in Stage |-> IF s \in Range(req[q].list)
                                THEN Place(req[q].list, s) - 1 ELSE order[s]]
  BY <1>1 DEF ReorderCommit, NewOrder
<1>5. \A s \in Existing : order[s] \in Nat
  BY ExistingFacts DEF IInv, ConstantsOK
<1>6. QED
  BY <1>1, <1>2, <1>3, <1>4, <1>5 DEF Clash

LEMMA ReorderKeepsOrders ==
    ASSUME ConstantsOK, IInv, NEW q \in Request, ReorderCommit(q), order' # order
    PROVE  /\ order' \in [Stage -> {None} \union 0..MaxOrder]
           /\ Existing' = Existing
           /\ Distinct' /\ Dense'
<1> DEFINE list == req[q].list
           R == Range(list)
<1>1. PICK n \in 0..Cardinality(Stage) : list \in [1..n -> Stage]
  BY Reorders
<1>2. n \in Nat /\ n <= Cardinality(Stage) /\ Len(list) = n /\ DOMAIN list = 1..n
  BY <1>1, ExistingFacts DEF IInv
<1>3. /\ ~Clash(list) /\ R \subseteq Existing
      /\ \A s \in Existing \ R : order[s] >= n
      /\ order' = [s \in Stage |-> IF s \in R THEN Place(list, s) - 1 ELSE order[s]]
      /\ tidy' = tidy
  BY <1>2, Reorders DEF ReorderCommit
<1>4. /\ \A s \in R : Place(list, s) \in 1..n /\ list[Place(list, s)] = s
  BY <1>1, <1>2, PlaceOf
<1> HIDE DEF list
<1>5. /\ R \subseteq Stage /\ \A s \in R : order'[s] = Place(list, s) - 1 /\ order'[s] \in 0..(n - 1)
      /\ \A s \in Stage \ R : order'[s] = order[s]
  <2>1. R \subseteq Stage
    BY <1>3, ExistingFacts DEF IInv
  <2>2. QED
    BY <1>2, <1>3, <1>4, <2>1
<1> HIDE DEF R
<1>6. order' \in [Stage -> {None} \union 0..MaxOrder]
  <2>1. \A s \in R : order'[s] \in 0..MaxOrder
    BY <1>2, <1>5, ExistingFacts DEF IInv, ConstantsOK
  <2>2. \A s \in Stage \ R : order'[s] \in {None} \union 0..MaxOrder
    BY <1>5 DEF IInv, TypeOK
  <2>3. QED
    BY <1>3, <2>1, <2>2
<1>7. Existing' = Existing
  <2>1. \A s \in Stage : order'[s] # None <=> order[s] # None
    <3>1. ASSUME NEW s \in R PROVE order'[s] # None /\ order[s] # None
      BY <1>2, <1>3, <1>5, <3>1 DEF Existing, None
    <3>2. QED
      BY <1>5, <3>1
  <2>2. QED
    BY <2>1 DEF Existing
<1>8. Distinct'
  <2> SUFFICES ASSUME NEW s \in Existing, NEW t \in Existing, order'[s] = order'[t]
               PROVE  s = t
    BY <1>7 DEF Distinct
  <2>1. s \in Stage /\ t \in Stage /\ order[s] \in Nat /\ order[t] \in Nat
    BY ExistingFacts DEF IInv, ConstantsOK
  <2>2. CASE s \in R /\ t \in R
    <3>1. Place(list, s) = Place(list, t)
      BY <1>4, <1>5, <2>2
    <3>2. QED
      BY <1>4, <2>2, <3>1
  <2>3. CASE s \notin R /\ t \notin R
    BY <1>5, <2>1, <2>3 DEF IInv, Distinct
  <2>4. ASSUME NEW x \in R, NEW y \in Existing \ R PROVE order'[x] # order'[y]
    <3>1. order'[x] \in 0..(n - 1)
      BY <1>5
    <3>2. y \in Stage /\ order[y] \in Nat
      BY ExistingFacts DEF IInv, ConstantsOK
    <3>3. order'[y] = order[y] /\ order[y] >= n
      BY <1>3, <1>5, <3>2
    <3>4. QED
      BY <1>2, <3>1, <3>2, <3>3
  <2>5. (s \in R /\ t \notin R) \/ (s \notin R /\ t \in R) => FALSE
    BY <2>4
  <2>6. QED
    BY <2>2, <2>3, <2>5
<1>9. ASSUME tidy PROVE {order'[s] : s \in Existing} = 0 .. Count - 1
  <2>1. n <= Count /\ Count \in Nat
    BY <1>2, <1>9, ExistingFacts DEF IInv, Pending, ReorderCommit, list
  <2>2. /\ IsInjective(list)
        /\ R = {s \in Existing : order[s] < n}
    BY <1>1, <1>2, <1>3, <1>9, <2>1, ListsTheLowest DEF IInv, R
  <2>3. {order[s] : s \in Existing} = 0 .. Count - 1
    BY <1>9 DEF IInv, Dense
  <2>4. ASSUME NEW s \in Existing PROVE order'[s] \in 0 .. Count - 1
    <3>1. s \in Stage /\ order[s] \in 0 .. Count - 1
      BY <2>3, ExistingFacts DEF IInv
    <3>2. QED
      BY <1>2, <1>5, <2>1, <3>1
  <2>5. ASSUME NEW k \in 0 .. Count - 1 PROVE \E s \in Existing : order'[s] = k
    <3>1. CASE k < n
      <4>1. k + 1 \in 1..n /\ k \in Int
        BY <1>2, <3>1
      <4>2. list[k + 1] \in R
        BY <1>2, <4>1 DEF R, Range
      <4>3. Place(list, list[k + 1]) = k + 1
        BY <1>2, <1>4, <2>2, <4>1, <4>2 DEF IsInjective
      <4>4. order'[list[k + 1]] = k
        BY <1>5, <4>1, <4>2, <4>3
      <4>5. QED
        BY <1>3, <4>2, <4>4
    <3>2. CASE ~(k < n)
      <4>1. PICK s \in Existing : order[s] = k
        BY <2>3
      <4>2. s \notin R
        BY <2>2, <3>2, <4>1
      <4>3. order'[s] = k
        BY <1>5, <4>1, <4>2, ExistingFacts DEF IInv
      <4>4. QED
        BY <4>3
    <3>3. QED
      BY <3>1, <3>2
  <2>6. QED
    BY <2>4, <2>5
<1>10. Dense'
  BY <1>3, <1>7, <1>9 DEF Dense, Count
<1>11. QED
  BY <1>6, <1>7, <1>8, <1>10

-----------------------------------------------------------------------------
(* The other steps *)

LEMMA InitIInv == ASSUME ConstantsOK, Init PROVE IInv
<1>1. PICK n \in Nat : Template \in [1..n -> Stage]
  BY DEF ConstantsOK
<1>2. DOMAIN Template = 1..n /\ IsInjective(Template)
  BY <1>1 DEF ConstantsOK
<1>3. n <= MaxOrder + 1
  <2>1. Template \in Injection(1..n, Stage)
    BY <1>1, <1>2 DEF Injection
  <2>2. Cardinality(1..n) <= Cardinality(Stage)
    BY <2>1, FS_Injection DEF ConstantsOK
  <2>3. Cardinality(1..n) = n
    BY FS_Interval
  <2>4. Cardinality(Stage) \in Nat
    BY FS_CardinalityType DEF ConstantsOK
  <2>5. QED
    BY <2>2, <2>3, <2>4 DEF ConstantsOK
<1>4. order = [s \in Stage |->
         IF \E i \in DOMAIN Template : Template[i] = s
           THEN (CHOOSE i \in DOMAIN Template : Template[i] = s) - 1 ELSE None]
  BY DEF Init
<1>5. ASSUME NEW i \in 1..n PROVE order[Template[i]] = i - 1 /\ Template[i] \in Stage
  <2>1. (CHOOSE j \in DOMAIN Template : Template[j] = Template[i]) = i
    BY <1>2 DEF IsInjective
  <2>2. QED
    BY <1>1, <1>2, <1>4, <2>1
<1>6. ASSUME NEW s \in Stage, \A i \in 1..n : Template[i] # s PROVE order[s] = None
  BY <1>2, <1>4, <1>6
<1>7. \A s \in Existing : \E i \in 1..n : s = Template[i]
  BY <1>6 DEF Existing
<1>8. \A i \in 1..n : Template[i] \in Existing
  BY <1>5 DEF Existing, None
<1>9. Count = n
  <2>1. Template \in Bijection(1..n, Existing)
    BY <1>1, <1>2, <1>7, <1>8 DEF Bijection, Injection, Surjection
  <2>2. Cardinality(Existing) = Cardinality(1..n)
    BY <2>1, FS_Bijection, FS_Interval DEF ExistsBijection
  <2>3. QED
    BY <2>2, FS_Interval DEF Count
<1>10. Distinct
  <2> SUFFICES ASSUME NEW s \in Existing, NEW t \in Existing, order[s] = order[t]
               PROVE  s = t
    BY DEF Distinct
  <2>1. PICK i \in 1..n, j \in 1..n : s = Template[i] /\ t = Template[j]
    BY <1>7
  <2>2. i - 1 = j - 1
    BY <1>5, <2>1
  <2>3. QED
    BY <2>1, <2>2
<1>11. Dense
  <2>1. \A s \in Existing : order[s] \in 0..(n - 1)
    BY <1>5, <1>7
  <2>2. ASSUME NEW k \in 0..(n - 1) PROVE \E s \in Existing : order[s] = k
    <3>1. k + 1 \in 1..n /\ k \in Int
      OBVIOUS
    <3>2. Template[k + 1] \in Existing /\ order[Template[k + 1]] = k
      BY <1>5, <1>8, <3>1
    <3>3. QED
      BY <3>2
  <2>3. QED
    BY <1>9, <2>1, <2>2 DEF Dense
<1>12. \A q \in Request : req[q].pc = "idle"
  BY DEF Init, Idle
<1>13. TypeOK
  <2>1. order \in [Stage -> {None} \union 0..MaxOrder]
    <3>1. ASSUME NEW s \in Stage PROVE order[s] \in {None} \union 0..MaxOrder
      <4>1. CASE \E i \in 1..n : Template[i] = s
        BY <1>3, <1>5, <4>1 DEF ConstantsOK
      <4>2. CASE \A i \in 1..n : Template[i] # s
        BY <1>6, <4>2
      <4>3. QED
        BY <4>1, <4>2
    <3>2. QED
      BY <1>4, <3>1
  <2>2. status \in {"DRAFT", "PUBLISHED", "CLOSED"} /\ tidy \in BOOLEAN
    BY DEF Init
  <2>3. QED
    BY <1>12, <2>1, <2>2 DEF TypeOK
<1>14. Pending /\ RequestsAreSlots
  BY <1>12 DEF Pending, At, Init, RequestsAreSlots
<1>15. QED
  BY <1>10, <1>11, <1>13, <1>14 DEF IInv

\* Steps that leave the stages alone need only leave the requests as they
\* should be.
LEMMA StagesUntouched ==
    ASSUME ConstantsOK, IInv, NEW q \in Request, NEW r,
           order' = order, tidy' = tidy, status' \in {"DRAFT", "PUBLISHED", "CLOSED"},
           req' = [req EXCEPT ![q] = r],
           \/ r.pc \in {"idle", "publish", "close"}
           \/ /\ r.pc = "add" /\ r.at \in 0..MaxOrder /\ r.web \in BOOLEAN
              /\ r.web => r.at <= Count
           \/ r.pc = "remove" /\ r.stage \in Stage
           \/ /\ r.pc = "reorder" /\ r.list \in Lists(Count)
    PROVE  IInv'
<1>1. /\ Existing' = Existing /\ Count' = Count
  BY DEF Existing, Count
<1>2. Distinct' /\ Dense'
  BY <1>1 DEF IInv, Distinct, Dense
<1>3. RequestsAreSlots' /\ req'[q] = r /\ \A p \in Request \ {q} : req'[p] = req[p]
  BY DEF IInv, RequestsAreSlots
<1>4. Count \in 0..Cardinality(Stage) /\ Count \in Nat
  BY ExistingFacts DEF IInv
<1>5. TypeOK'
  <2>1. ASSUME NEW p \in Request
        PROVE  \/ req'[p].pc \in {"idle", "publish", "close"}
               \/ req'[p].pc = "add" /\ req'[p].at \in 0..MaxOrder /\ req'[p].web \in BOOLEAN
               \/ req'[p].pc = "remove" /\ req'[p].stage \in Stage
               \/ req'[p].pc = "reorder"
                    /\ \E n \in 0..Cardinality(Stage) : req'[p].list \in Lists(n)
    <3>1. CASE p = q
      BY <1>3, <1>4, <3>1
    <3>2. CASE p # q
      BY <1>3, <3>2 DEF IInv, TypeOK
    <3>3. QED
      BY <3>1, <3>2
  <2>2. QED
    BY <2>1 DEF IInv, TypeOK
<1>6. Pending'
  <2>1. r.pc = "reorder" => Len(r.list) <= Count
    <3>1. ASSUME r.list \in Lists(Count) PROVE Len(r.list) = Count
      BY <1>4, <3>1 DEF Lists
    <3>2. QED
      BY <1>4, <3>1
  <2>2. QED
    BY <1>1, <1>3, <2>1 DEF IInv, Pending, At
<1>7. QED
  BY <1>2, <1>3, <1>5, <1>6 DEF IInv

\* A request ends and the stages have changed.
LEMMA RequestEnds ==
    ASSUME ConstantsOK, IInv, NEW q \in Request, End(q),
           status' = status, tidy' \in BOOLEAN, tidy' => tidy,
           order' \in [Stage -> {None} \union 0..MaxOrder],
           Distinct', Dense',
           tidy' => Count' >= Count /\ Count' \in Nat
    PROVE  IInv'
<1>1. RequestsAreSlots' /\ req'[q].pc = "idle" /\ \A p \in Request \ {q} : req'[p] = req[p]
  BY DEF IInv, RequestsAreSlots, End, Idle
<1>2. TypeOK'
  <2>1. ASSUME NEW p \in Request
        PROVE  \/ req'[p].pc \in {"idle", "publish", "close"}
               \/ req'[p].pc = "add" /\ req'[p].at \in 0..MaxOrder /\ req'[p].web \in BOOLEAN
               \/ req'[p].pc = "remove" /\ req'[p].stage \in Stage
               \/ req'[p].pc = "reorder"
                    /\ \E n \in 0..Cardinality(Stage) : req'[p].list \in Lists(n)
    BY <1>1 DEF IInv, TypeOK
  <2>2. QED
    BY <2>1 DEF IInv, TypeOK
<1>3. Pending'
  <2> SUFFICES ASSUME NEW p \in Request, tidy'
               PROVE  /\ At(p, "add")' /\ req'[p].web => req'[p].at <= Count'
                      /\ At(p, "reorder")' => Len(req'[p].list) <= Count'
    BY DEF Pending
  <2>1. CASE p = q
    BY <1>1, <2>1 DEF At
  <2>2. CASE p # q
    <3>1. Count \in Nat /\ Count' \in Nat /\ Count <= Count'
      BY ExistingFacts DEF IInv
    <3>2. At(p, "add") => req[p].at \in Nat
      BY DEF IInv, TypeOK, At, ConstantsOK
    <3>3. At(p, "reorder") => Len(req[p].list) \in Nat
      <4>1. At(p, "reorder") => \E n \in Nat : req[p].list \in [1..n -> Stage]
        BY ExistingFacts DEF IInv, TypeOK, At, Lists
      <4>2. \A n \in Nat : \A l \in [1..n -> Stage] : Len(l) \in Nat
        OBVIOUS
      <4>3. QED
        BY <4>1, <4>2
    <3>4. QED
      BY <1>1, <2>2, <3>1, <3>2, <3>3 DEF IInv, Pending, At
  <2>3. QED
    BY <2>1, <2>2
<1>4. QED
  BY <1>1, <1>2, <1>3 DEF IInv

\* The order that the web form sends is the number of stages or, by the time of
\* the insert, that of one of them.
LEMMA AddKeeps == ASSUME ConstantsOK, IInv, NEW q \in Request, AddCommit(q) PROVE IInv'
<1> DEFINE k == req[q].at
<1>1. k \in 0..MaxOrder /\ req[q].web \in BOOLEAN /\ At(q, "add")
  BY DEF AddCommit, At, IInv, TypeOK
<1>2. CASE Taken(k)
  <2>1. order' = order /\ tidy' = tidy /\ status' = status /\ req' = [req EXCEPT ![q] = Idle]
    BY <1>2 DEF AddCommit, Free, End
  <2>2. QED
    BY <2>1, StagesUntouched DEF IInv, TypeOK, Idle
<1>3. CASE ~Taken(k)
  <2>1. PICK s \in Stage \ Existing : order' = [order EXCEPT ![s] = k]
    BY <1>3 DEF AddCommit, Free
  <2>2. tidy' = (tidy /\ req[q].web) /\ status' = status /\ End(q)
    BY <1>3 DEF AddCommit, Free
  <2>3. /\ order' \in [Stage -> {None} \union 0..MaxOrder]
        /\ order'[s] = k /\ \A t \in Stage \ {s} : order'[t] = order[t]
    BY <1>1, <2>1 DEF IInv, TypeOK
  <2>4. Existing' = Existing \union {s}
    BY <1>1, <2>3 DEF Existing, None
  <2>5. s \notin Existing /\ \A t \in Existing : t \in Stage \ {s} /\ order[t] # k
    BY <1>3, <2>1 DEF Taken, Existing
  <2>6. Count' = Count + 1 /\ Count \in Nat
    BY <2>4, <2>5, ExistingFacts, FS_AddElement DEF IInv, Count
  <2>7. Distinct'
    <3> SUFFICES ASSUME NEW x \in Existing \union {s}, NEW y \in Existing \union {s},
                        order'[x] = order'[y]
                 PROVE  x = y
      BY <2>4 DEF Distinct
    <3>1. QED
      BY <2>3, <2>5 DEF IInv, Distinct
  <2>8. ASSUME tidy, req[q].web PROVE {order'[t] : t \in Existing'} = 0 .. Count' - 1
    <3>1. {order[t] : t \in Existing} = 0 .. Count - 1 /\ k <= Count
      BY <1>1, <2>8 DEF IInv, Dense, Pending
    <3>2. k \notin 0 .. Count - 1
      BY <2>5, <3>1
    <3>3. k = Count
      BY <1>1, <2>6, <3>1, <3>2
    <3>4. {order'[t] : t \in Existing'} = {order[t] : t \in Existing} \union {k}
      BY <2>3, <2>4, <2>5
    <3>5. \A c \in Nat : (0 .. c - 1) \union {c} = 0 .. (c + 1) - 1
      OBVIOUS
    <3>6. QED
      BY <2>6, <3>1, <3>3, <3>4, <3>5
  <2>9. Dense'
    BY <2>2, <2>8 DEF Dense
  <2>10. tidy' \in BOOLEAN /\ (tidy' => tidy)
    <3>1. tidy \in BOOLEAN
      BY DEF IInv, TypeOK
    <3>2. QED
      BY <2>2, <3>1, <1>1, Zenon
  <2>11. Count' >= Count /\ Count' \in Nat
    BY <2>6
  <2> HIDE DEF k
  <2>12. QED
    BY <2>2, <2>3, <2>7, <2>9, <2>10, <2>11, RequestEnds
<1>4. QED
  BY <1>2, <1>3

LEMMA RemoveKeeps == ASSUME ConstantsOK, IInv, NEW q \in Request, RemoveCommit(q) PROVE IInv'
<1>1. req[q].stage \in Stage /\ order' = [order EXCEPT ![req[q].stage] = None]
      /\ tidy' = FALSE /\ status' = status /\ End(q)
  BY DEF RemoveCommit, Existing
<1>2. order' \in [Stage -> {None} \union 0..MaxOrder]
  BY <1>1 DEF IInv, TypeOK
<1>3. /\ Existing' \subseteq Existing
      /\ \A s \in Existing' : order'[s] = order[s]
  BY <1>1 DEF IInv, TypeOK, Existing
<1>4. Distinct' /\ Dense'
  BY <1>1, <1>3 DEF IInv, Distinct, Dense
<1>5. QED
  BY <1>1, <1>2, <1>4, RequestEnds

LEMMA ReorderKeeps == ASSUME ConstantsOK, IInv, NEW q \in Request, ReorderCommit(q) PROVE IInv'
<1>1. End(q) /\ status' = status /\ tidy' = tidy
  BY DEF ReorderCommit
<1>2. CASE order' = order
  <2>1. req' = [req EXCEPT ![q] = Idle]
    BY <1>1 DEF End
  <2>2. QED
    BY <1>1, <1>2, <2>1, StagesUntouched DEF IInv, TypeOK, Idle
<1>3. CASE order' # order
  <2>1. /\ order' \in [Stage -> {None} \union 0..MaxOrder]
        /\ Existing' = Existing /\ Distinct' /\ Dense'
    BY <1>3, ReorderKeepsOrders
  <2>2. Count' = Count /\ Count \in Nat
    BY <2>1, ExistingFacts DEF Count, IInv
  <2>3. tidy' \in BOOLEAN /\ (tidy' => tidy)
    BY <1>1, Zenon DEF IInv, TypeOK
  <2>4. QED
    BY <1>1, <2>1, <2>2, <2>3, RequestEnds
<1>4. QED
  BY <1>2, <1>3

\* The checks, and the writes that change no stage.
LEMMA OthersKeep ==
    ASSUME ConstantsOK, IInv, NEW q \in Request,
           \/ PublishCheck(q) \/ PublishCommit(q) \/ CloseCheck(q) \/ CloseCommit(q)
           \/ \E k \in 0..MaxOrder, web \in BOOLEAN : AddCheck(q, k, web)
           \/ \E s \in Stage : RemoveCheck(q, s)
           \/ \E list \in Lists(Count) : ReorderCheck(q, list)
           \/ Abandon(q)
    PROVE  IInv'
<1>1. status \in {"DRAFT", "PUBLISHED", "CLOSED"}
  BY DEF IInv, TypeOK
<1>2. CASE PublishCheck(q)
  <2>1. req' = [req EXCEPT ![q] = [pc |-> "publish"]]
    BY <1>2 DEF PublishCheck, Begin
  <2>2. QED
    BY <1>1, <1>2, <2>1, StagesUntouched DEF PublishCheck
<1>3. CASE PublishCommit(q)
  BY <1>3, StagesUntouched DEF PublishCommit, End, Idle
<1>4. CASE CloseCheck(q)
  <2>1. req' = [req EXCEPT ![q] = [pc |-> "close"]]
    BY <1>4 DEF CloseCheck, Begin
  <2>2. QED
    BY <1>1, <1>4, <2>1, StagesUntouched DEF CloseCheck
<1>5. CASE CloseCommit(q)
  BY <1>5, StagesUntouched DEF CloseCommit, End, Idle
<1>6. ASSUME NEW k \in 0..MaxOrder, NEW web \in BOOLEAN, AddCheck(q, k, web) PROVE IInv'
  <2>1. /\ req' = [req EXCEPT ![q] = [pc |-> "add", at |-> k, web |-> web]]
        /\ web => k <= Count
    BY <1>6 DEF AddCheck, Begin
  <2> DEFINE r == [pc |-> "add", at |-> k, web |-> web]
  <2>2. /\ r.pc = "add" /\ r.at \in 0..MaxOrder /\ r.web \in BOOLEAN
        /\ r.web => r.at <= Count
    BY <2>1
  <2>3. order' = order /\ tidy' = tidy /\ status' = status /\ req' = [req EXCEPT ![q] = r]
    BY <1>6, <2>1 DEF AddCheck
  <2> HIDE DEF r
  <2>4. QED
    BY <1>1, <2>2, <2>3, StagesUntouched
<1>7. ASSUME NEW s \in Stage, RemoveCheck(q, s) PROVE IInv'
  <2>1. req' = [req EXCEPT ![q] = [pc |-> "remove", stage |-> s]]
    BY <1>7 DEF RemoveCheck, Begin
  <2>2. QED
    BY <1>1, <1>7, <2>1, StagesUntouched DEF RemoveCheck
<1>8. ASSUME NEW list \in Lists(Count), ReorderCheck(q, list) PROVE IInv'
  <2>1. req' = [req EXCEPT ![q] = [pc |-> "reorder", list |-> list]]
    BY <1>8 DEF ReorderCheck, Begin
  <2>2. QED
    BY <1>1, <1>8, <2>1, StagesUntouched DEF ReorderCheck
<1>9. CASE Abandon(q)
  BY <1>1, <1>9, StagesUntouched DEF Abandon, End, Idle
<1>10. QED
  BY <1>2, <1>3, <1>4, <1>5, <1>6, <1>7, <1>8, <1>9

-----------------------------------------------------------------------------
(* The theorems *)

LEMMA NextIInv == ASSUME ConstantsOK, IInv, [Next]_vars PROVE IInv'
<1>1. CASE Next
  <2>1. PICK q \in Request :
          \/ PublishCheck(q) \/ PublishCommit(q) \/ CloseCheck(q) \/ CloseCommit(q)
          \/ \E k \in 0..MaxOrder, web \in BOOLEAN : AddCheck(q, k, web)
          \/ AddCommit(q)
          \/ \E s \in Stage : RemoveCheck(q, s)
          \/ RemoveCommit(q)
          \/ \E list \in Lists(Count) : ReorderCheck(q, list)
          \/ ReorderCommit(q) \/ Abandon(q)
    BY <1>1 DEF Next
  <2>2. QED
    BY <2>1, AddKeeps, RemoveKeeps, ReorderKeeps, OthersKeep
<1>2. CASE UNCHANGED vars
  <2>1. Existing' = Existing /\ Count' = Count
    BY <1>2 DEF vars, Existing, Count
  <2>2. QED
    BY <1>2, <2>1 DEF vars, IInv, TypeOK, RequestsAreSlots, Distinct, Dense, Pending, At
<1>3. QED
  BY <1>1, <1>2

LEMMA Invariant == ASSUME ConstantsOK PROVE Spec => []IInv
<1>1. Init => IInv
  BY InitIInv
<1>2. IInv /\ [Next]_vars => IInv'
  BY NextIInv
<1>3. QED
  BY <1>1, <1>2, PTL DEF Spec

\* The job's status, its stages' orders and every request are of their type.
THEOREM TypeCorrect == ASSUME ConstantsOK PROVE Spec => []TypeOK
<1>1. IInv => TypeOK
  BY DEF IInv
<1>2. QED
  BY <1>1, Invariant, PTL

\* However requests overlap and whatever pages are stale, no two stages share
\* an order, and there are no gaps while only the web form adds stages and none
\* is removed.
THEOREM OrdersAreDenseAlways == ASSUME ConstantsOK PROVE Spec => []OrdersAreDense
<1>1. IInv => OrdersAreDense
  BY DEF IInv, Distinct, Dense, OrdersAreDense
<1>2. QED
  BY <1>1, Invariant, PTL

\* A reordering that takes effect on such a job was given every listed stage
\* once, though the handler does not check it.
THEOREM ReorderIsPermutationAlways ==
    ASSUME ConstantsOK
    PROVE  Spec => ReorderIsPermutation
<1>1. ASSUME IInv, [Next]_vars, NEW q \in Request,
             At(q, "reorder"), req'[q] = Idle, order' # order, tidy
      PROVE  IsInjective(req[q].list)
  <2>1. ReorderCommit(q)
    <3>1. PICK p \in Request : \/ AddCommit(p) \/ RemoveCommit(p) \/ ReorderCommit(p)
      BY <1>1 DEF Next, vars, PublishCheck, PublishCommit, CloseCheck, CloseCommit,
                  AddCheck, RemoveCheck, ReorderCheck, Abandon
    <3>2. p = q
      <4>1. End(p)
        BY <3>1 DEF AddCommit, RemoveCommit, ReorderCommit
      <4>2. req[q].pc # Idle.pc
        BY <1>1 DEF At, Idle
      <4>3. QED
        BY <1>1, <4>1, <4>2 DEF End, IInv, RequestsAreSlots
    <3>3. QED
      BY <1>1, <3>1, <3>2 DEF AddCommit, RemoveCommit, At
  <2>2. PICK n \in 0..Cardinality(Stage) : req[q].list \in [1..n -> Stage]
    BY <1>1, <2>1, Reorders
  <2>3. n \in Nat /\ Len(req[q].list) = n
    BY <1>1, <2>2, ExistingFacts DEF IInv
  <2>4. n <= Count /\ ~Clash(req[q].list)
    BY <1>1, <2>1, <2>3, Reorders DEF IInv, Pending
  <2>5. QED
    BY <1>1, <2>2, <2>3, <2>4, ListsTheLowest DEF IInv
<1>2. IInv /\ [Next]_vars
        => [\A q \in Request :
              (At(q, "reorder") /\ req'[q] = Idle /\ order' # order /\ tidy)
                => IsInjective(req[q].list)]_vars
  BY <1>1
<1>3. QED
  BY <1>2, Invariant, PTL DEF Spec, ReorderIsPermutation

-----------------------------------------------------------------------------
(* What the pages of the web client show *)

\* What the constants of LiveUpdates stand for: bounds that leave room for the
\* first version.
PageConstantsOK == MaxVersion \in Nat \ {0} /\ MaxFaults \in Nat

Entry == [version: 0..MaxVersion, invalid: BOOLEAN,
          fetch: {"none", "sent", "read"}, read: 0..MaxVersion]

\* A cached result against the version that the page must come to show: what
\* has been read for it is not older, and while the result is older it is
\* marked and a fetch is under way, or has failed.
Shows(c, version, failures) ==
    /\ c.fetch = "read" => version <= c.read
    /\ c.version < version => c.invalid /\ (c.fetch # "none" \/ failures > 0)

\* The write in flight is one of the view on screen, and the versions it made
\* are the server's, or older.
OwnWrite ==
    /\ own.pc # "idle" => own.of.where = view
    /\ own.pc = "done" => \A k \in P!Key : own.made[k] <= server[k]

PageInv ==
    /\ P!TypeOK
    /\ OwnWrite
    /\ \A k \in P!Key : due[k] <= server[k] /\ Shows(cache[k], due[k], faults)

\* What TypeOK says of one query.
LEMMA PageTypes ==
    ASSUME PageConstantsOK, P!TypeOK
    PROVE  /\ view \in P!View /\ parsing \subseteq 1..MaxVersion
           /\ server \in [P!Key -> 1..MaxVersion]
           /\ cache \in [P!Key -> Entry] /\ due \in [P!Key -> 0..MaxVersion]
           /\ pushes \subseteq P!Event /\ faults \in 0..MaxFaults
           /\ \A k \in P!Key :
                /\ server[k] \in 1..MaxVersion /\ server[k] \in Nat
                /\ due[k] \in 0..MaxVersion /\ due[k] \in Nat
                /\ cache[k] \in Entry
                /\ cache[k].version \in 0..MaxVersion /\ cache[k].version \in Nat
                /\ cache[k].read \in 0..MaxVersion /\ cache[k].read \in Nat
                /\ cache[k].invalid \in BOOLEAN
                /\ cache[k].fetch \in {"none", "sent", "read"}
<1>1. cache \in [P!Key -> Entry]
  BY DEF P!TypeOK, Entry
<1>2. \A k \in P!Key :
        /\ cache[k] \in Entry
        /\ cache[k].version \in 0..MaxVersion /\ cache[k].read \in 0..MaxVersion
        /\ cache[k].invalid \in BOOLEAN
        /\ cache[k].fetch \in {"none", "sent", "read"}
  BY <1>1 DEF Entry
<1>3. \A k \in P!Key : server[k] \in 1..MaxVersion /\ due[k] \in 0..MaxVersion
  BY DEF P!TypeOK
<1>4. QED
  BY <1>1, <1>2, <1>3 DEF P!TypeOK, PageConstantsOK

LEMMA OwnTypes ==
    ASSUME P!TypeOK
    PROVE  /\ own.pc \in {"idle", "sent", "failed", "done"}
           /\ own.pc = "idle" => own = P!NotSent
           /\ own.pc # "idle" => own.of \in P!Writes
           /\ own.pc = "done" => own.made \in [P!Key -> 1..MaxVersion]
  BY DEF P!TypeOK, P!NotSent

LEMMA MountedKeys == ASSUME view \in P!View PROVE P!Mounted \subseteq P!Key
  BY DEF P!Mounted, P!Key

\* The catalogue: but for the scorecard, a page invalidates every query of its
\* own whose data its write changes.
LEMMA WritesInvalidate ==
    ASSUME view \in P!View, NEW w \in P!Writes, w.where = view, w # P!score
    PROVE  w.changes \cap P!Mounted \subseteq w.invalidates
<1>1. P!View = {"Stages", "Jobs", "Candidate", "Interviews", "Duplicates",
                "Bell", "Notifications", "Portal"}
  BY DEF P!View, P!Queries
<1>2. CASE w \in {P!editStages, P!writeJob, P!upload, P!schedule, P!cancel}
  BY <1>2 DEF P!editStages, P!writeJob, P!upload, P!schedule, P!cancel, P!Write
<1>3. CASE w = P!review
  <2>1. view = "Duplicates"
    BY <1>3 DEF P!review, P!Write
  <2>2. P!Mounted = {"duplicates"}
    BY <2>1 DEF P!Mounted, P!Queries
  <2>3. QED BY <1>3, <2>2 DEF P!review, P!Write
<1>4. CASE w = P!readNotification
  BY <1>4 DEF P!readNotification, P!readInvalidates, P!Write
<1>5. CASE w = P!apply
  <2>1. view = "Portal"
    BY <1>5 DEF P!apply, P!Write
  <2>2. P!Mounted = {"portal.applications", "portal.roles"}
    BY <2>1 DEF P!Mounted, P!Queries
  <2>3. QED BY <1>5, <2>2 DEF P!apply, P!Write
<1>6. CASE w \in {P!transition, P!notify}
  BY <1>1, <1>6 DEF P!transition, P!notify, P!Write
<1>7. QED
  BY <1>2, <1>3, <1>4, <1>5, <1>6 DEF P!Writes

LEMMA PagesStart == ASSUME PageConstantsOK, P!Init PROVE PageInv
<1>1. \A k \in P!Key :
        /\ server[k] = 1 /\ due[k] = 0
        /\ cache[k].version = 0 /\ cache[k].fetch \in {"none", "sent"}
  BY DEF P!Init
<1>2. P!TypeOK
  <2>1. server \in [P!Key -> 1..MaxVersion] /\ due \in [P!Key -> 0..MaxVersion]
    BY DEF P!Init, PageConstantsOK
  <2>2. parsing \subseteq 1..MaxVersion /\ faults \in 0..MaxFaults
    BY DEF P!Init, PageConstantsOK
  <2>3. cache \in [P!Key -> Entry]
    BY DEF P!Init, PageConstantsOK, Entry
  <2>4. view \in P!View /\ own = P!NotSent /\ pushes \subseteq P!Event
    BY DEF P!Init
  <2>5. QED BY <2>1, <2>2, <2>3, <2>4 DEF P!TypeOK, Entry
<1>3. OwnWrite
  BY DEF P!Init, P!NotSent, OwnWrite
<1>4. QED
  BY <1>1, <1>2, <1>3 DEF PageInv, Shows

-----------------------------------------------------------------------------
(* The steps of a page *)

\* A step of the cache alone.
LEMMA CacheStep ==
    ASSUME PageConstantsOK, PageInv,
           UNCHANGED <<view, server, parsing, own, due>>,
           pushes' \subseteq pushes, faults' \in 0..MaxFaults, faults <= faults',
           cache' \in [P!Key -> Entry],
           \A k \in P!Key : cache'[k] = cache[k] \/ Shows(cache'[k], due[k], faults')
    PROVE  PageInv'
<1>1. P!TypeOK'
  BY DEF PageInv, P!TypeOK, Entry
<1>2. OwnWrite'
  BY DEF PageInv, OwnWrite
<1>3. faults \in Nat /\ faults' \in Nat
  BY PageTypes DEF PageInv, PageConstantsOK
<1>4. ASSUME NEW k \in P!Key
      PROVE  due'[k] <= server'[k] /\ Shows(cache'[k], due'[k], faults')
  BY <1>3, <1>4 DEF PageInv, Shows
<1>5. QED BY <1>1, <1>2, <1>4 DEF PageInv

LEMMA EntryIs ==
    ASSUME NEW e \in Entry
    PROVE  e = [version |-> e.version, invalid |-> e.invalid,
                fetch |-> e.fetch, read |-> e.read]
  BY DEF Entry

\* The updates of an entry, field by field.
LEMMA EntryFields ==
    ASSUME NEW e, NEW v, NEW i, NEW f, NEW r, NEW x,
           e = [version |-> v, invalid |-> i, fetch |-> f, read |-> r]
    PROVE  /\ [e EXCEPT !.invalid = x] =
                [version |-> v, invalid |-> x, fetch |-> f, read |-> r]
           /\ [e EXCEPT !.fetch = x] =
                [version |-> v, invalid |-> i, fetch |-> x, read |-> r]
           /\ [e EXCEPT !.read = x] =
                [version |-> v, invalid |-> i, fetch |-> f, read |-> x]
  OBVIOUS

LEMMA ReadStep ==
    ASSUME PageConstantsOK, PageInv, NEW k \in P!Key, P!Read(k)
    PROVE  PageInv'
<1> DEFINE c == [version |-> cache[k].version, invalid |-> cache[k].invalid,
                 fetch |-> "read", read |-> server[k]]
<1>1. cache' = [cache EXCEPT ![k] = c]
  <2> DEFINE e == [cache[k] EXCEPT !.fetch = "read"]
  <2>1. cache \in [P!Key -> Entry] /\ cache[k] \in Entry
    BY PageTypes DEF PageInv
  <2>2. /\ cache' = [j \in P!Key |-> IF j = k THEN cache'[k] ELSE cache[j]]
        /\ cache'[k] = [e EXCEPT !.read = server[k]]
    BY <2>1 DEF P!Read
  <2>3. e = [version |-> cache[k].version, invalid |-> cache[k].invalid,
             fetch |-> "read", read |-> cache[k].read]
    BY <2>1, EntryIs, EntryFields
  <2> HIDE DEF e
  <2>4. cache'[k] = c
    BY <2>2, <2>3, EntryFields
  <2>5. QED
    <3> HIDE DEF c
    <3>1. QED BY <2>1, <2>2, <2>4
<1>2. c \in Entry
  BY PageTypes DEF PageInv, Entry
<1>3. Shows(c, due[k], faults)
  BY DEF P!Read, PageInv, Shows
<1>4. cache' \in [P!Key -> Entry]
  BY <1>1, <1>2, PageTypes DEF PageInv
<1>5. \A j \in P!Key : cache'[j] = cache[j] \/ Shows(cache'[j], due[j], faults)
  BY <1>1, <1>3, PageTypes DEF PageInv
<1>6. UNCHANGED <<view, server, parsing, own, pushes, faults, due>>
  BY DEF P!Read
<1>7. faults' \in 0..MaxFaults /\ faults <= faults'
  BY <1>6, PageTypes DEF PageInv, PageConstantsOK
<1>8. QED
  BY <1>4, <1>5, <1>6, <1>7, CacheStep

LEMMA LandStep ==
    ASSUME PageConstantsOK, PageInv, NEW k \in P!Key, P!Land(k)
    PROVE  PageInv'
<1> DEFINE c == [version |-> cache[k].read, invalid |-> FALSE,
                 fetch |-> "none", read |-> 0]
<1>1. /\ cache' = [cache EXCEPT ![k] = c] /\ cache[k].fetch = "read"
      /\ UNCHANGED <<view, server, parsing, own, pushes, faults, due>>
  BY DEF P!Land
<1>2. c \in Entry
  BY PageTypes DEF PageInv, Entry, PageConstantsOK
<1>3. ~(cache[k].read < due[k])
  BY <1>1, PageTypes DEF PageInv, Shows
<1>4. Shows(c, due[k], faults)
  BY <1>3 DEF Shows
<1>5. cache' \in [P!Key -> Entry]
  BY <1>1, <1>2, PageTypes DEF PageInv
<1>6. \A j \in P!Key : cache'[j] = cache[j] \/ Shows(cache'[j], due[j], faults)
  BY <1>1, <1>4, PageTypes DEF PageInv
<1>7. faults' \in 0..MaxFaults /\ faults <= faults'
  BY <1>1, PageTypes DEF PageInv, PageConstantsOK
<1>8. QED
  BY <1>1, <1>5, <1>6, <1>7, CacheStep

LEMMA FetchFailsStep ==
    ASSUME PageConstantsOK, PageInv, NEW k \in P!Key, P!FetchFails(k)
    PROVE  PageInv'
<1> DEFINE c == [version |-> cache[k].version, invalid |-> cache[k].invalid,
                 fetch |-> "none", read |-> 0]
<1>1. cache' = [cache EXCEPT ![k] = c]
  <2> DEFINE e == [cache[k] EXCEPT !.fetch = "none"]
  <2>1. cache \in [P!Key -> Entry] /\ cache[k] \in Entry
    BY PageTypes DEF PageInv
  <2>2. /\ cache' = [j \in P!Key |-> IF j = k THEN cache'[k] ELSE cache[j]]
        /\ cache'[k] = [e EXCEPT !.read = 0]
    BY <2>1 DEF P!FetchFails
  <2>3. e = [version |-> cache[k].version, invalid |-> cache[k].invalid,
             fetch |-> "none", read |-> cache[k].read]
    BY <2>1, EntryIs, EntryFields
  <2> HIDE DEF e
  <2>4. cache'[k] = c
    BY <2>2, <2>3, EntryFields
  <2>5. QED
    <3> HIDE DEF c
    <3>1. QED BY <2>1, <2>2, <2>4
<1>2. /\ cache[k].fetch # "none" /\ faults < MaxFaults /\ faults' = faults + 1
      /\ UNCHANGED <<view, server, parsing, own, pushes, due>>
  BY DEF P!FetchFails
<1>3. c \in Entry
  BY PageTypes DEF PageInv, Entry, PageConstantsOK
<1>4. faults \in Nat /\ faults' \in 0..MaxFaults /\ faults <= faults' /\ faults' > 0
  BY <1>2, PageTypes DEF PageInv, PageConstantsOK
<1>5. Shows(c, due[k], faults')
  BY <1>4 DEF PageInv, Shows
<1>6. cache' \in [P!Key -> Entry]
  BY <1>1, <1>3, PageTypes DEF PageInv
<1>7. \A j \in P!Key : cache'[j] = cache[j] \/ Shows(cache'[j], due[j], faults')
  BY <1>1, <1>5, PageTypes DEF PageInv
<1>8. QED
  BY <1>2, <1>4, <1>6, <1>7, CacheStep

LEMMA FetchStep ==
    ASSUME PageConstantsOK, PageInv, NEW k \in P!Key, P!Fetch(k)
    PROVE  PageInv'
<1> DEFINE c == [version |-> cache[k].version, invalid |-> cache[k].invalid,
                 fetch |-> "sent", read |-> cache[k].read]
<1>1. cache' = [cache EXCEPT ![k] = c]
  <2>1. cache \in [P!Key -> Entry] /\ cache[k] \in Entry
    BY PageTypes DEF PageInv
  <2>2. cache' = [cache EXCEPT ![k] = [cache[k] EXCEPT !.fetch = "sent"]]
    BY <2>1 DEF P!Fetch
  <2>3. [cache[k] EXCEPT !.fetch = "sent"] = c
    BY <2>1, EntryIs, EntryFields
  <2>4. QED BY <2>2, <2>3
<1>2. UNCHANGED <<view, server, parsing, own, pushes, faults, due>>
  BY DEF P!Fetch
<1>3. c \in Entry
  BY PageTypes DEF PageInv, Entry
<1>4. Shows(c, due[k], faults)
  BY DEF PageInv, Shows
<1>5. cache' \in [P!Key -> Entry]
  BY <1>1, <1>3, PageTypes DEF PageInv
<1>6. \A j \in P!Key : cache'[j] = cache[j] \/ Shows(cache'[j], due[j], faults)
  BY <1>1, <1>4, PageTypes DEF PageInv
<1>7. faults' \in 0..MaxFaults /\ faults <= faults'
  BY <1>2, PageTypes DEF PageInv, PageConstantsOK
<1>8. QED
  BY <1>2, <1>5, <1>6, <1>7, CacheStep

LEMMA InvalidateShows ==
    ASSUME PageConstantsOK, PageInv, NEW ks, P!Invalidate(ks)
    PROVE  /\ cache' \in [P!Key -> Entry]
           /\ \A k \in P!Key :
                IF k \in ks \cap P!Mounted /\ cache[k].version # 0
                  THEN /\ cache'[k].version = cache[k].version
                       /\ cache'[k].invalid /\ cache'[k].fetch = "sent"
                  ELSE cache'[k] = cache[k]
<1> DEFINE c(k) == [version |-> cache[k].version, invalid |-> TRUE,
                    fetch |-> "sent", read |-> 0]
<1>1. cache' = [k \in P!Key |->
          IF k \in ks \cap P!Mounted /\ cache[k].version # 0
            THEN [[[cache[k] EXCEPT !.invalid = TRUE] EXCEPT !.fetch = "sent"]
                     EXCEPT !.read = 0]
            ELSE cache[k]]
  BY DEF P!Invalidate
<1>2. ASSUME NEW k \in P!Key
      PROVE  [[[cache[k] EXCEPT !.invalid = TRUE] EXCEPT !.fetch = "sent"]
                 EXCEPT !.read = 0] = c(k)
  <2>1. cache[k] \in Entry
    BY PageTypes DEF PageInv
  <2>2. ASSUME NEW yes
        PROVE  [[[cache[k] EXCEPT !.invalid = yes] EXCEPT !.fetch = "sent"]
                   EXCEPT !.read = 0] =
               [version |-> cache[k].version, invalid |-> yes,
                fetch |-> "sent", read |-> 0]
    <3> DEFINE d == [cache[k] EXCEPT !.invalid = yes]
               e == [d EXCEPT !.fetch = "sent"]
    <3>1. d = [version |-> cache[k].version, invalid |-> yes,
               fetch |-> cache[k].fetch, read |-> cache[k].read]
      BY <2>1, EntryIs, EntryFields
    <3>2. e = [version |-> cache[k].version, invalid |-> yes,
               fetch |-> "sent", read |-> cache[k].read]
      <4> HIDE DEF d
      <4>1. QED BY <3>1, EntryFields
    <3>3. [e EXCEPT !.read = 0] = [version |-> cache[k].version, invalid |-> yes,
                                   fetch |-> "sent", read |-> 0]
      <4> HIDE DEF e
      <4>1. QED BY <3>2, EntryFields
    <3>4. QED BY <3>3
  <2>3. QED BY <2>2
<1>3. cache' = [k \in P!Key |->
          IF k \in ks \cap P!Mounted /\ cache[k].version # 0 THEN c(k) ELSE cache[k]]
  BY <1>1, <1>2
<1>4. \A k \in P!Key : c(k) \in Entry /\ cache[k] \in Entry
  BY PageTypes DEF PageInv, Entry, PageConstantsOK
<1>5. QED
  <2>1. cache' \in [P!Key -> Entry]
    <3> HIDE DEF c
    <3>1. QED BY <1>3, <1>4
  <2>2. QED BY <1>3, <2>1

LEMMA DeliverStep ==
    ASSUME PageConstantsOK, PageInv, NEW e \in P!Event, P!Deliver(e)
    PROVE  PageInv'
<1>1. /\ P!Invalidate(P!Invalidated[e]) /\ pushes' = pushes \ {e}
      /\ UNCHANGED <<view, server, parsing, own, faults, due>>
  BY DEF P!Deliver
<1>2. cache' \in [P!Key -> Entry]
  BY <1>1, InvalidateShows
<1>3. ASSUME NEW k \in P!Key
      PROVE  cache'[k] = cache[k] \/ Shows(cache'[k], due[k], faults)
  BY <1>1, <1>3, InvalidateShows DEF Shows
<1>4. faults' \in 0..MaxFaults /\ faults <= faults' /\ faults' = faults
  BY <1>1, PageTypes DEF PageInv, PageConstantsOK
<1>5. QED
  BY <1>1, <1>2, <1>3, <1>4, CacheStep

\* A step of the data alone: versions only grow.
LEMMA DataStep ==
    ASSUME PageConstantsOK, PageInv, UNCHANGED <<view, cache, faults, due>>,
           server' \in [P!Key -> 1..MaxVersion],
           \A k \in P!Key : server[k] <= server'[k],
           parsing' \subseteq 1..MaxVersion, pushes' \subseteq P!Event,
           \/ own' = own
           \/ /\ own.pc = "sent"
              /\ own' = [pc |-> "done", of |-> own.of, made |-> server']
    PROVE  PageInv'
<1>1. own' \in {P!NotSent} \union [pc: {"sent", "failed"}, of: P!Writes]
                \union [pc: {"done"}, of: P!Writes, made: [P!Key -> 1..MaxVersion]]
  BY OwnTypes DEF PageInv, P!TypeOK
<1>2. P!TypeOK'
  BY <1>1 DEF PageInv, P!TypeOK
<1>3. \A k \in P!Key : server[k] \in Nat /\ server'[k] \in Nat /\ due[k] \in Nat
  BY PageTypes DEF PageInv
<1>4. OwnWrite'
  <2>1. CASE own' = own
    <3>1. own.pc = "done" => \A k \in P!Key : own.made[k] \in Nat
      BY OwnTypes DEF PageInv
    <3>2. own'.pc = "done" => \A k \in P!Key : own'.made[k] <= server'[k]
      BY <1>3, <2>1, <3>1 DEF PageInv, OwnWrite
    <3>3. QED BY <2>1, <3>2 DEF PageInv, OwnWrite
  <2>2. CASE own.pc = "sent" /\ own' = [pc |-> "done", of |-> own.of, made |-> server']
    BY <1>3, <2>2 DEF PageInv, OwnWrite
  <2>3. QED BY <2>1, <2>2
<1>5. ASSUME NEW k \in P!Key
      PROVE  due'[k] <= server'[k] /\ Shows(cache'[k], due'[k], faults')
  <2>1. due'[k] = due[k] /\ due[k] <= server[k]
    BY DEF PageInv
  <2>2. due'[k] <= server'[k]
    BY <1>3, <2>1
  <2>3. QED BY <2>2 DEF PageInv
<1>6. QED BY <1>2, <1>4, <1>5 DEF PageInv

\* What a write does to the data: the bound on versions is kept, and leaves the
\* candidate's last one.
LEMMA ChangeFacts ==
    ASSUME PageConstantsOK, PageInv, NEW w \in P!Writes, P!Change(w)
    PROVE  /\ server' \in [P!Key -> 1..MaxVersion]
           /\ \A k \in P!Key : server[k] <= server'[k]
           /\ parsing' \subseteq 1..MaxVersion /\ pushes' \subseteq P!Event
<1> DEFINE ks == w.changes \cap P!Mounted
<1>1. /\ \A k \in ks : P!Room(k)
      /\ server' = [k \in P!Key |-> server[k] + (IF k \in ks THEN 1 ELSE 0)]
      /\ parsing' \in {parsing, parsing \union {server'["candidate"]}}
      /\ parsing' # parsing => "candidate" \in ks
      /\ pushes' \subseteq pushes \union w.events
  BY DEF P!Change
<1>2. ks \subseteq P!Key
  BY MountedKeys, PageTypes DEF PageInv
<1>3. ASSUME NEW k \in P!Key
      PROVE  server'[k] \in 1..MaxVersion /\ server[k] <= server'[k]
  <2>1. server[k] \in 1..MaxVersion /\ MaxVersion \in Nat
    BY PageTypes DEF PageInv, PageConstantsOK
  <2>2. CASE k \in ks
    <3>1. server'[k] = server[k] + 1 /\ server[k] < MaxVersion
      <4>1. P!Room(k)
        BY <1>1, <2>2
      <4>2. server[k] < MaxVersion
        BY <2>1, <4>1 DEF P!Room
      <4>3. QED BY <1>1, <2>2, <4>2
    <3>2. QED BY <2>1, <3>1
  <2>3. CASE k \notin ks
    BY <1>1, <2>1, <2>3
  <2>4. QED BY <2>2, <2>3
<1>4. server' \in [P!Key -> 1..MaxVersion]
  BY <1>1, <1>3
<1>5. parsing' \subseteq 1..MaxVersion
  BY <1>1, <1>2, <1>3, PageTypes DEF PageInv
<1>6. w.events \subseteq P!Event
  BY DEF P!Writes, P!Write, P!editStages, P!writeJob, P!upload, P!schedule, P!cancel,
         P!score, P!review, P!readNotification, P!apply, P!transition, P!notify,
         P!Event, P!Invalidated
<1>7. QED
  BY <1>1, <1>3, <1>4, <1>5, <1>6, PageTypes DEF PageInv

LEMMA DataSteps ==
    ASSUME PageConstantsOK, PageInv,
           \/ \E w \in P!Writes : P!ChangeElsewhere(w)
           \/ P!ParseEnds
           \/ P!Served
    PROVE  PageInv'
<1>1. ASSUME NEW w \in P!Writes, P!ChangeElsewhere(w) PROVE PageInv'
  <2>1. P!Change(w) /\ UNCHANGED <<view, cache, own, faults, due>>
    BY <1>1 DEF P!ChangeElsewhere
  <2>2. QED BY <2>1, ChangeFacts, DataStep
<1>2. CASE P!Served
  <2>1. /\ own.pc = "sent" /\ P!Change(own.of)
        /\ own' = [pc |-> "done", of |-> own.of, made |-> server']
        /\ UNCHANGED <<view, cache, faults, due>>
    BY <1>2 DEF P!Served
  <2>2. own.of \in P!Writes
    BY <2>1, OwnTypes DEF PageInv
  <2>3. QED BY <2>1, <2>2, ChangeFacts, DataStep
<1>3. CASE P!ParseEnds
  <2>1. /\ view = "Candidate" /\ server["candidate"] < MaxVersion
        /\ server' = [server EXCEPT !["candidate"] = @ + 1]
        /\ UNCHANGED <<view, parsing, cache, own, pushes, faults, due>>
    BY <1>3 DEF P!ParseEnds
  <2>2. \A k \in P!Key : server[k] \in 1..MaxVersion
    BY PageTypes DEF PageInv
  <2>3. MaxVersion \in Nat /\ server \in [P!Key -> 1..MaxVersion]
    BY PageTypes DEF PageInv, PageConstantsOK
  <2>4. ASSUME NEW k \in P!Key
        PROVE  server'[k] \in 1..MaxVersion /\ server[k] <= server'[k]
    <3>1. CASE k = "candidate"
      BY <2>1, <2>2, <2>3, <3>1
    <3>2. CASE k # "candidate"
      BY <2>1, <2>2, <2>3, <3>2
    <3>3. QED BY <3>1, <3>2
  <2>5. server' \in [P!Key -> 1..MaxVersion]
    BY <2>1, <2>3, <2>4
  <2>6. parsing' \subseteq 1..MaxVersion /\ pushes' \subseteq P!Event
    BY <2>1, PageTypes DEF PageInv
  <2>7. QED
    BY <2>1, <2>4, <2>5, <2>6, DataStep
<1>4. QED BY <1>1, <1>2, <1>3

LEMMA OwnSteps ==
    ASSUME PageConstantsOK, PageInv,
           (\E w \in P!Writes : P!Submit(w)) \/ P!WriteFails \/ P!onError
    PROVE  PageInv'
<1>1. /\ UNCHANGED <<view, server, parsing, cache, pushes, due>>
      /\ \/ own' = P!NotSent
         \/ \E w \in P!Writes, pc \in {"sent", "failed"} :
              w.where = view /\ own' = [pc |-> pc, of |-> w]
  <2>1. ASSUME NEW w \in P!Writes, P!Submit(w)
        PROVE  w.where = view /\ own' = [pc |-> "sent", of |-> w]
    BY <2>1 DEF P!Submit
  <2>2. CASE P!WriteFails
    <3>1. own.of \in P!Writes /\ own.of.where = view
      BY <2>2, OwnTypes DEF P!WriteFails, PageInv, OwnWrite
    <3>2. QED BY <2>2, <3>1 DEF P!WriteFails
  <2>3. QED BY <2>1, <2>2 DEF P!Submit, P!WriteFails, P!onError
<1>2. faults' \in 0..MaxFaults /\ faults' \in Nat /\ faults \in Nat /\ faults <= faults'
  <2>1. faults \in 0..MaxFaults /\ MaxFaults \in Nat
    BY PageTypes DEF PageInv, PageConstantsOK
  <2>2. faults' = faults \/ (faults < MaxFaults /\ faults' = faults + 1)
    BY DEF P!Submit, P!WriteFails, P!onError
  <2>3. QED BY <2>1, <2>2
<1>3. own' \in {P!NotSent} \union [pc: {"sent", "failed"}, of: P!Writes]
  BY <1>1
<1>4. P!TypeOK'
  BY <1>1, <1>2, <1>3 DEF PageInv, P!TypeOK
<1>5. OwnWrite'
  BY <1>1 DEF OwnWrite, P!NotSent
<1>6. \A k \in P!Key : due'[k] <= server'[k] /\ Shows(cache'[k], due'[k], faults')
  BY <1>1, <1>2 DEF PageInv, Shows
<1>7. QED BY <1>4, <1>5, <1>6 DEF PageInv

\* The page is told of its success: what it invalidates is fetched anew, so the
\* versions that its write made become due with a fetch under way.
LEMMA SuccessStep ==
    ASSUME PageConstantsOK, PageInv, P!onSuccess
    PROVE  PageInv'
<1> DEFINE w == own.of
           ks == w.changes \cap P!Mounted
<1>1. /\ own.pc = "done" /\ P!Invalidate(w.invalidates) /\ own' = P!NotSent
      /\ due' = [k \in P!Key |->
                   IF k \in ks /\ w # P!score /\ cache[k].version # 0
                     THEN own.made[k] ELSE due[k]]
      /\ UNCHANGED <<view, server, parsing, pushes, faults>>
  BY DEF P!onSuccess
<1>2. /\ w \in P!Writes /\ w.where = view /\ view \in P!View
      /\ \A k \in P!Key : own.made[k] \in 1..MaxVersion /\ own.made[k] <= server[k]
  BY <1>1, OwnTypes, PageTypes DEF PageInv, OwnWrite
<1>3. w # P!score => ks \subseteq w.invalidates
  BY <1>2, WritesInvalidate
<1> HIDE DEF w
<1>4. /\ cache' \in [P!Key -> Entry]
      /\ \A k \in P!Key :
           IF k \in w.invalidates \cap P!Mounted /\ cache[k].version # 0
             THEN /\ cache'[k].version = cache[k].version
                  /\ cache'[k].invalid /\ cache'[k].fetch = "sent"
             ELSE cache'[k] = cache[k]
  BY <1>1, InvalidateShows
<1>5. due' \in [P!Key -> 0..MaxVersion]
  <2>1. \A k \in P!Key : due[k] \in 0..MaxVersion /\ own.made[k] \in 0..MaxVersion
    BY <1>2, PageTypes DEF PageInv, PageConstantsOK
  <2>2. QED BY <1>1, <2>1
<1>6. P!TypeOK'
  BY <1>1, <1>4, <1>5 DEF PageInv, P!TypeOK, Entry
<1>7. OwnWrite'
  BY <1>1 DEF OwnWrite, P!NotSent
<1>8. ASSUME NEW k \in P!Key
      PROVE  due'[k] <= server[k] /\ Shows(cache'[k], due'[k], faults)
  <2>1. CASE k \in ks /\ w # P!score /\ cache[k].version # 0
    <3>1. due'[k] = own.made[k] /\ k \in w.invalidates \cap P!Mounted
      BY <1>1, <1>3, <2>1
    <3>2. cache'[k].invalid /\ cache'[k].fetch = "sent"
      BY <1>4, <2>1, <3>1
    <3>3. QED BY <1>2, <3>1, <3>2 DEF Shows
  <2>2. CASE ~(k \in ks /\ w # P!score /\ cache[k].version # 0)
    <3>1. due'[k] = due[k]
      BY <1>1, <2>2
    <3>2. /\ due[k] <= server[k] /\ Shows(cache[k], due[k], faults)
      BY DEF PageInv
    <3>3. \/ cache'[k] = cache[k]
          \/ cache'[k].invalid /\ cache'[k].fetch = "sent"
      BY <1>4
    <3>4. QED BY <3>1, <3>2, <3>3 DEF Shows
  <2>3. QED BY <2>1, <2>2
<1>9. QED BY <1>1, <1>6, <1>7, <1>8 DEF PageInv

LEMMA PagesNext ==
    ASSUME PageConstantsOK, PageInv, [P!Next]_pageVars
    PROVE  PageInv'
<1>1. CASE UNCHANGED pageVars
  BY <1>1 DEF pageVars, PageInv, P!TypeOK, OwnWrite
<1>2. ASSUME NEW k \in P!Key, P!Read(k) \/ P!Land(k) \/ P!FetchFails(k) \/ P!Fetch(k)
      PROVE  PageInv'
  BY <1>2, ReadStep, LandStep, FetchFailsStep, FetchStep
<1>3. ASSUME NEW w \in P!Writes, P!ChangeElsewhere(w) \/ P!Submit(w) PROVE PageInv'
  BY <1>3, DataSteps, OwnSteps
<1>4. CASE P!ParseEnds \/ P!Served
  BY <1>4, DataSteps
<1>5. CASE P!WriteFails \/ P!onError
  BY <1>5, OwnSteps
<1>6. CASE P!onSuccess
  BY <1>6, SuccessStep
<1>7. ASSUME NEW e \in P!Event, P!Deliver(e) PROVE PageInv'
  BY <1>7, DeliverStep
<1>8. ASSUME NEW e \in P!Event, P!Lose(e) PROVE PageInv'
  <2>1. /\ pushes' \subseteq pushes
        /\ UNCHANGED <<view, server, parsing, cache, own, faults, due>>
    BY <1>8 DEF P!Lose
  <2>2. /\ faults' \in 0..MaxFaults /\ faults <= faults'
        /\ cache' \in [P!Key -> Entry]
    BY <2>1, PageTypes DEF PageInv, PageConstantsOK
  <2>3. QED BY <2>1, <2>2, CacheStep
<1>9. QED
  BY <1>1, <1>2, <1>3, <1>4, <1>5, <1>6, <1>7, <1>8 DEF P!Next

-----------------------------------------------------------------------------
(* The candidate's badge *)

\* What the constants of PortalBadge stand for: bounds, with room for the
\* update and the time that a page may load with.
BadgeConstantsOK ==
    /\ MaxUpdates \in Nat \ {0} /\ MaxClock \in Nat \ {0}
    /\ MaxBells \in Nat /\ MaxFaults \in Nat

\* A count is bounded because updates are, those included whose transactions
\* have not committed.
FewUpdates == Cardinality(open \union updates) <= MaxUpdates

BadgeInv == C!TypeOK /\ FewUpdates

\* PortalBadge takes Cardinality from the same module.
LEMMA BadgeCardinality == \A S : C!Cardinality(S) = Cardinality(S)
  BY DEF C!Cardinality, Cardinality

LEMMA UpdatesFinite ==
    ASSUME BadgeConstantsOK, C!TypeOK
    PROVE  /\ IsFiniteSet(open \union updates)
           /\ Cardinality(open \union updates) \in Nat
<1>1. open \union updates \subseteq 1..MaxClock
  BY DEF C!TypeOK
<1>2. IsFiniteSet(1..MaxClock)
  BY FS_Interval DEF BadgeConstantsOK
<1>3. IsFiniteSet(open \union updates)
  BY <1>1, <1>2, FS_Subset
<1>4. QED BY <1>3, FS_CardinalityType

\* What the page counts are committed updates.
LEMMA CountBounded ==
    ASSUME BadgeConstantsOK, BadgeInv, NEW S, S \subseteq updates
    PROVE  Cardinality(S) \in 0..MaxUpdates
<1>1. S \subseteq open \union updates
  OBVIOUS
<1>2. /\ IsFiniteSet(S) /\ Cardinality(S) \in Nat
      /\ Cardinality(S) <= Cardinality(open \union updates)
  BY <1>1, UpdatesFinite, FS_Subset, FS_CardinalityType DEF BadgeInv
<1>3. QED
  BY <1>2, UpdatesFinite DEF BadgeInv, FewUpdates, BadgeConstantsOK

LEMMA BadgeStart == ASSUME BadgeConstantsOK, C!Init PROVE BadgeInv
<1>1. C!TypeOK
  <2>1. /\ clock \in 0..MaxClock /\ viewedAt \in 0..MaxClock
        /\ open \subseteq 1..MaxClock /\ updates \subseteq 1..MaxClock
        /\ unread \in 0..MaxUpdates
        /\ bells \in 0..MaxBells /\ failed \in 0..MaxFaults
    BY DEF C!Init, BadgeConstantsOK
  <2>2. /\ timer \in BOOLEAN /\ disturbed \in BOOLEAN
        /\ mark \in [Mark -> {"idle", "sent", "done", "failed"}]
    BY DEF C!Init
  <2>3. count \in [pc: {"sent"}]
    BY DEF C!Init
  <2>4. QED BY <2>1, <2>2, <2>3 DEF C!TypeOK
<1>2. open \union updates \in {{}, {1}}
  BY DEF C!Init
<1>3. Cardinality({}) = 0 /\ Cardinality({1}) = 1
  BY FS_EmptySet, FS_Singleton
<1>4. FewUpdates
  BY <1>2, <1>3 DEF FewUpdates, BadgeConstantsOK
<1>5. QED BY <1>1, <1>4 DEF BadgeInv

\* Beginning an update is the only step that makes them more.
LEMMA BeginStep ==
    ASSUME BadgeConstantsOK, BadgeInv, C!Begin
    PROVE  BadgeInv'
<1>1. /\ Cardinality(open \union updates) < MaxUpdates
      /\ clock < MaxClock /\ clock' = clock + 1
      /\ open' = open \union {clock'}
      /\ UNCHANGED <<updates, viewedAt, count, unread, timer, mark, bells, failed,
                     disturbed>>
  BY BadgeCardinality DEF C!Begin, C!pageVars
<1>2. clock \in 0..MaxClock /\ MaxClock \in Nat
  BY DEF BadgeInv, C!TypeOK, BadgeConstantsOK
<1>3. clock' \in 0..MaxClock /\ clock' \in 1..MaxClock
  BY <1>1, <1>2
<1>4. C!TypeOK'
  BY <1>1, <1>3 DEF BadgeInv, C!TypeOK
<1>5. FewUpdates'
  <2> DEFINE S == open \union updates
  <2>1. open' \union updates' = S \union {clock'}
    BY <1>1
  <2>2. IsFiniteSet(S) /\ Cardinality(S) \in Nat
    BY UpdatesFinite DEF BadgeInv
  <2> HIDE DEF S
  <2>3. /\ Cardinality(S \union {clock'}) \in Nat
        /\ Cardinality(S \union {clock'}) <= Cardinality(S) + 1
    <3>1. /\ IsFiniteSet(S \union {clock'})
          /\ Cardinality(S \union {clock'}) =
               IF clock' \in S THEN Cardinality(S) ELSE Cardinality(S) + 1
      BY <2>2, FS_AddElement
    <3>2. QED BY <2>2, <3>1
  <2>4. Cardinality(S) < MaxUpdates /\ MaxUpdates \in Nat
    BY <1>1 DEF S, BadgeConstantsOK
  <2>5. Cardinality(S \union {clock'}) <= MaxUpdates
    BY <2>2, <2>3, <2>4
  <2>6. QED BY <2>1, <2>5 DEF FewUpdates
<1>6. QED BY <1>4, <1>5 DEF BadgeInv

LEMMA BadgeNext ==
    ASSUME BadgeConstantsOK, BadgeInv, [C!Next]_badgeVars
    PROVE  BadgeInv'
<1>1. CASE C!Begin
  BY <1>1, BeginStep
<1>2. ASSUME open' \union updates' = open \union updates PROVE FewUpdates'
  BY <1>2 DEF BadgeInv, FewUpdates
<1>3. /\ clock \in 0..MaxClock /\ failed \in 0..MaxFaults /\ bells \in 0..MaxBells
      /\ MaxFaults \in Nat /\ MaxBells \in Nat /\ unread \in 0..MaxUpdates
  BY DEF BadgeInv, C!TypeOK, BadgeConstantsOK
<1>4. ASSUME NEW e \in open, C!Commit(e) PROVE BadgeInv'
  <2>1. /\ open' = open \ {e} /\ updates' = updates \union {e} /\ disturbed' \in BOOLEAN
        /\ UNCHANGED <<clock, viewedAt, count, unread, timer, mark, bells, failed>>
    BY <1>4 DEF C!Commit, C!pageVars
  <2>2. C!TypeOK'
    BY <2>1 DEF BadgeInv, C!TypeOK
  <2>3. QED BY <1>2, <2>1, <2>2 DEF BadgeInv
<1>5. CASE C!ReadAccount
  BY <1>2, <1>5 DEF C!ReadAccount, BadgeInv, C!TypeOK
<1>6. CASE C!Count
  <2> DEFINE n == Cardinality({e \in updates : e > count.viewedAt})
  <2>1. /\ count' = [pc |-> "counted", count |-> n]
        /\ UNCHANGED <<clock, open, updates, viewedAt, unread, timer, mark, bells,
                       failed, disturbed>>
    BY <1>6, BadgeCardinality DEF C!Count
  <2>2. n \in 0..MaxUpdates
    BY CountBounded
  <2> HIDE DEF n
  <2>3. C!TypeOK'
    BY <2>1, <2>2 DEF BadgeInv, C!TypeOK
  <2>4. QED BY <1>2, <2>1, <2>3 DEF BadgeInv
<1>7. CASE C!Land
  <2>1. /\ count.pc = "counted" /\ unread' = count.count
        /\ timer' = IF (unread > 0) = (count.count > 0) THEN timer ELSE count.count > 0
        /\ count' = C!Idle
        /\ disturbed' = (disturbed /\ count.count # 0)
        /\ UNCHANGED <<clock, open, updates, viewedAt, mark, bells, failed>>
    BY <1>7 DEF C!Land, C!Effect
  <2>2. unread' \in 0..MaxUpdates
    BY <2>1 DEF BadgeInv, C!TypeOK, C!Idle
  <2>3. timer' \in BOOLEAN
    <3>1. timer \in BOOLEAN /\ (count.count > 0) \in BOOLEAN
      BY DEF BadgeInv, C!TypeOK
    <3>2. QED BY <2>1, <3>1
  <2>4. disturbed' \in BOOLEAN
    BY <2>1
  <2>5. C!TypeOK'
    BY <2>1, <2>2, <2>3, <2>4 DEF BadgeInv, C!TypeOK
  <2>6. QED BY <1>2, <2>1, <2>5 DEF BadgeInv
<1>8. CASE C!Poll
  BY <1>2, <1>8 DEF C!Poll, BadgeInv, C!TypeOK
<1>9. ASSUME C!Send
      PROVE  mark' \in [Mark -> {"idle", "sent", "done", "failed"}]
  BY <1>9 DEF C!Send, BadgeInv, C!TypeOK
<1>10. CASE C!TimerFires
  BY <1>2, <1>9, <1>10 DEF C!TimerFires, BadgeInv, C!TypeOK
<1>11. CASE C!OpenBell
  <2>1. /\ bells < MaxBells /\ bells' = bells + 1 /\ C!Send
        /\ UNCHANGED <<clock, open, updates, viewedAt, count, unread, timer, failed,
                       disturbed>>
    BY <1>11 DEF C!OpenBell, C!pageVars
  <2>2. bells' \in 0..MaxBells
    BY <1>3, <2>1
  <2>3. C!TypeOK'
    BY <1>9, <2>1, <2>2 DEF BadgeInv, C!TypeOK
  <2>4. QED BY <1>2, <2>1, <2>3 DEF BadgeInv
<1>12. ASSUME NEW m \in Mark, C!MarkViewed(m) PROVE BadgeInv'
  BY <1>2, <1>12 DEF C!MarkViewed, C!pageVars, BadgeInv, C!TypeOK
<1>13. ASSUME NEW m \in Mark, C!MarkFails(m) PROVE BadgeInv'
  <2>1. /\ failed < MaxFaults /\ failed' = failed + 1 /\ disturbed' = TRUE
        /\ mark' = [mark EXCEPT ![m] = "failed"]
        /\ UNCHANGED <<clock, open, updates, viewedAt, count, unread, timer, bells>>
    BY <1>13 DEF C!MarkFails, C!pageVars
  <2>2. failed' \in 0..MaxFaults
    BY <1>3, <2>1
  <2>3. C!TypeOK'
    BY <2>1, <2>2 DEF BadgeInv, C!TypeOK
  <2>4. QED BY <1>2, <2>1, <2>3 DEF BadgeInv
<1>14. ASSUME NEW m \in Mark, C!Marked(m) PROVE BadgeInv'
  <2>1. /\ count' \in {count, [pc |-> "sent"]}
        /\ mark' = [mark EXCEPT ![m] = "idle"]
        /\ UNCHANGED <<clock, open, updates, viewedAt, unread, timer, bells, failed,
                       disturbed>>
    BY <1>14 DEF C!Marked
  <2>2. C!TypeOK'
    BY <2>1 DEF BadgeInv, C!TypeOK
  <2>3. QED BY <1>2, <2>1, <2>2 DEF BadgeInv
<1>15. CASE UNCHANGED badgeVars
  BY <1>2, <1>15 DEF badgeVars, BadgeInv, C!TypeOK
<1>16. QED
  BY <1>1, <1>4, <1>5, <1>6, <1>7, <1>8, <1>10, <1>11, <1>12, <1>13, <1>14, <1>15
     DEF C!Next

-----------------------------------------------------------------------------
(* The composition: whichever of the three a behaviour follows, the others *)
(* rest.                                                                   *)

LEMMA MCPagesStart == MCInit => Init /\ P!Init /\ C!Init
  BY DEF MCInit

LEMMA MCPagesSteps ==
    [MCNext]_allVars => [Next]_vars /\ [P!Next]_pageVars /\ [C!Next]_badgeVars
  BY DEF MCNext, OnStages, OnPage, OnBadge, allVars

LEMMA PagesAlways == ASSUME PageConstantsOK PROVE MCSpec => []PageInv
<1>1. MCInit => PageInv
  BY MCPagesStart, PagesStart
<1>2. PageInv /\ [MCNext]_allVars => PageInv'
  BY MCPagesSteps, PagesNext
<1>3. QED BY <1>1, <1>2, PTL DEF MCSpec

\* What a page's own write changed is shown, or on its way to the page, as soon
\* as onSuccess has run, for any number of versions and failures: no push, poll,
\* older answer or other person's write brings the old data back.
THEOREM OwnWritesShownAlways ==
    ASSUME PageConstantsOK
    PROVE  MCSpec => []OwnWritesShown
<1>1. ASSUME PageInv PROVE OwnWritesShown
  <2>1. P!Mounted \subseteq P!Key
    BY <1>1, MountedKeys DEF PageInv, P!TypeOK
  <2>2. QED
    BY <1>1, <2>1 DEF PageInv, Shows, OwnWritesShown, P!OwnWritesShown
<1>2. QED BY <1>1, PagesAlways, PTL

\* The stages of a job, the cache of a page and the badge are of their types:
\* the badge, too, whose counts are bounded because updates are.
THEOREM PagesTyped ==
    ASSUME ConstantsOK, PageConstantsOK, BadgeConstantsOK
    PROVE  MCSpec => []TypesOK
<1>1. MCInit => IInv /\ BadgeInv
  BY MCPagesStart, InitIInv, BadgeStart
<1>2. IInv /\ BadgeInv /\ [MCNext]_allVars => IInv' /\ BadgeInv'
  BY MCPagesSteps, NextIInv, BadgeNext
<1>3. IInv /\ BadgeInv /\ PageInv => TypesOK
  BY DEF IInv, BadgeInv, PageInv, TypesOK
<1>4. QED BY <1>1, <1>2, <1>3, PagesAlways, PTL DEF MCSpec
=============================================================================
