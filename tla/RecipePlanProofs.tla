-------------------------- MODULE RecipePlanProofs --------------------------
(***************************************************************************)
(* The planner keeps its promise, for every recipe of any length: a recipe *)
(* that is not refused is compiled to a plan of its own steps, each once,  *)
(* whose waves are cut from the order of the steps, and what a step needs  *)
(* is in a wave before its own.                                            *)
(*                                                                         *)
(* schedule is a loop, and a wave is sorted, so the proof takes both apart *)
(* by hand: a finite set with distinct keys has a sorted order (SortIs),   *)
(* the loop's function exists and each of its turns keeps RoundInv         *)
(* (LastRoundOK, by Inductive), and RoundInv says of the last turn what    *)
(* the runner takes for granted (PlanKeepsPromise).                        *)
(***************************************************************************)
EXTENDS RecipePlan, SequenceTheorems, FiniteSetTheorems, TLAPS

-----------------------------------------------------------------------------
(* Putting a wave in the order of its ids                                   *)

\* A finite set with distinct keys can be put in the order of its keys.
LEMMA SortExists ==
    ASSUME NEW W, IsFiniteSet(W), NEW key \in [W -> Nat],
           \A i, j \in W : key[i] = key[j] => i = j
    PROVE  \E sorted \in [1 .. Cardinality(W) -> W] :
              \A a, b \in 1 .. Cardinality(W) : a < b => key[sorted[a]] < key[sorted[b]]
<1> DEFINE upTo(i) == {j \in W : key[j] <= key[i]}
           rank == [i \in W |-> Cardinality(upTo(i))]
<1>1. PICK n \in Nat : n = Cardinality(W)
  BY FS_CardinalityType
<1>2. \A i \in W : upTo(i) \in SUBSET W /\ IsFiniteSet(upTo(i)) /\ rank[i] \in 1..n
  <2> TAKE i \in W
  <2>1. upTo(i) \in SUBSET W /\ i \in upTo(i)
    OBVIOUS
  <2>2. IsFiniteSet(upTo(i)) /\ Cardinality(upTo(i)) <= n
    BY <1>1, <2>1, FS_Subset
  <2>3. Cardinality(upTo(i)) \in Nat
    BY <2>2, FS_CardinalityType
  <2>4. Cardinality(upTo(i)) # 0
    BY <2>1, <2>2, FS_EmptySet
  <2> QED
    BY <2>1, <2>2, <2>3, <2>4
<1>3. \A i, j \in W : key[i] < key[j] => rank[i] < rank[j]
  <2> SUFFICES ASSUME NEW i \in W, NEW j \in W, key[i] < key[j] PROVE rank[i] < rank[j]
    OBVIOUS
  <2>1. upTo(i) \in SUBSET upTo(j) /\ j \in upTo(j) /\ j \notin upTo(i)
    OBVIOUS
  <2>2. upTo(i) # upTo(j)
    BY <2>1
  <2>3. /\ Cardinality(upTo(i)) <= Cardinality(upTo(j))
        /\ Cardinality(upTo(i)) # Cardinality(upTo(j))
    BY <1>2, <2>1, <2>2, FS_Subset
  <2> QED
    BY <1>2, <2>3
<1>4. rank \in Injection(W, 1..n)
  <2>1. rank \in [W -> 1..n]
    BY <1>2
  <2>2. \A i, j \in W : rank[i] = rank[j] => i = j
    <3> SUFFICES ASSUME NEW i \in W, NEW j \in W, rank[i] = rank[j], i # j PROVE FALSE
      OBVIOUS
    <3>1. key[i] < key[j] \/ key[j] < key[i]
      OBVIOUS
    <3>2. rank[i] \in Nat /\ rank[j] \in Nat
      BY <2>1
    <3> HIDE DEF rank
    <3> QED
      BY <1>3, <3>1, <3>2
  <2> QED
    BY <2>1, <2>2 DEF Injection, IsInjective
<1>5. rank \in Surjection(W, 1..n)
  <2>1. IsFiniteSet(1..n) /\ Cardinality(1..n) = n
    BY FS_Interval
  <2> QED
    BY <1>1, <1>4, <2>1, FS_Injection
<1>6. \A a \in 1..n : \E i \in W : rank[i] = a
  BY <1>5 DEF Surjection
<1> DEFINE sorted == [a \in 1..n |-> CHOOSE i \in W : rank[i] = a]
<1>7. \A a \in 1..n : sorted[a] \in W /\ rank[sorted[a]] = a
  BY <1>6
<1>8. \A a, b \in 1..n : a < b => key[sorted[a]] < key[sorted[b]]
  <2> SUFFICES ASSUME NEW a \in 1..n, NEW b \in 1..n, a < b,
                      ~(key[sorted[a]] < key[sorted[b]])
               PROVE  FALSE
    OBVIOUS
  <2> HIDE DEF rank, sorted
  <2>1. sorted[a] \in W /\ sorted[b] \in W /\ rank[sorted[a]] = a /\ rank[sorted[b]] = b
    BY <1>7
  <2>2. key[sorted[b]] < key[sorted[a]] \/ sorted[a] = sorted[b]
    BY <2>1
  <2> QED
    BY <1>3, <2>1, <2>2
<1> HIDE DEF sorted
<1>9. sorted \in [1..n -> W]
  BY <1>7 DEF sorted
<1> QED
  BY <1>1, <1>8, <1>9

\* What wave.sort_by_key leaves: each of the wave's steps once, by id.
LEMMA SortIs ==
    ASSUME NEW steps, NEW W, IsFiniteSet(W), \A i \in W : steps[i].id \in Nat,
           \A i, j \in W : steps[i].id = steps[j].id => i = j
    PROVE  /\ Cardinality(W) \in Nat
           /\ ById(steps, W) \in [1 .. Cardinality(W) -> W]
           /\ \A a, b \in 1 .. Cardinality(W) : ById(steps, W)[a] = ById(steps, W)[b] => a = b
           /\ \A i \in W : \E a \in 1 .. Cardinality(W) : ById(steps, W)[a] = i
<1> DEFINE key == [i \in W |-> steps[i].id]
           n == Cardinality(W)
           s == ById(steps, W)
<1>1. PICK sorted \in [1..n -> W] : \A a, b \in 1..n : a < b => key[sorted[a]] < key[sorted[b]]
  <2>1. key \in [W -> Nat] /\ \A i, j \in W : key[i] = key[j] => i = j
    OBVIOUS
  <2> HIDE DEF key
  <2> QED
    BY <2>1, SortExists
<1>2. \A a, b \in DOMAIN sorted : a < b => steps[sorted[a]].id < steps[sorted[b]].id
  BY <1>1
<1>3. s \in [1..n -> W] /\ \A a, b \in DOMAIN s : a < b => steps[s[a]].id < steps[s[b]].id
  BY <1>2 DEF ById
<1>4. n \in Nat
  BY FS_CardinalityType
<1> HIDE DEF n, s
<1>5. \A a, b \in 1..n : s[a] = s[b] => a = b
  <2> SUFFICES ASSUME NEW a \in 1..n, NEW b \in 1..n, s[a] = s[b], a < b PROVE FALSE
    BY <1>4
  <2>1. steps[s[a]].id \in Nat /\ steps[s[a]].id < steps[s[b]].id
    BY <1>3
  <2> QED
    BY <2>1
<1>6. s \in Surjection(1..n, W)
  <2>1. s \in Injection(1..n, W)
    BY <1>3, <1>5 DEF Injection, IsInjective
  <2>2. Cardinality(1..n) = n
    BY <1>4, FS_Interval
  <2> QED
    BY <2>1, <2>2, FS_Injection DEF n
<1> QED
  BY <1>3, <1>4, <1>5, <1>6 DEF Surjection, n, s

-----------------------------------------------------------------------------
(* The waves are cut from the order                                         *)

\* The places of the waves, and the index at a place
CellsOf(waves) == UNION {{w} \X DOMAIN waves[w] : w \in DOMAIN waves}
AtCell(waves, a) == waves[a[1]][a[2]]

\* The waves are the order, cut into pieces: the same indices, each once.
Cut(order, waves, I) ==
    /\ order \in Seq(I)
    /\ \A i, j \in DOMAIN order : order[i] = order[j] => i = j
    /\ waves \in Seq(Seq(I) \ {<<>>})
    /\ \A i \in DOMAIN order : \E a \in CellsOf(waves) : AtCell(waves, a) = order[i]
    /\ \A a \in CellsOf(waves) : \E i \in DOMAIN order : order[i] = AtCell(waves, a)
    /\ \A a, b \in CellsOf(waves) : Earlier(a, b) =>
          \E i, j \in DOMAIN order :
             i < j /\ order[i] = AtCell(waves, a) /\ order[j] = AtCell(waves, b)

LEMMA CellsAre ==
    ASSUME NEW waves
    PROVE  \A a : a \in CellsOf(waves) <=>
              \E w \in DOMAIN waves : \E k \in DOMAIN waves[w] : a = <<w, k>>
BY DEF CellsOf

\* A further wave adds its own places, behind those there were.
LEMMA CellsGrow ==
    ASSUME NEW I, NEW waves \in Seq(Seq(I)), NEW wave \in Seq(I)
    PROVE  LET w == Append(waves, wave) n == Len(waves) + 1 IN
           /\ n \in Nat /\ \A v \in DOMAIN waves : v \in Nat /\ v < n
           /\ \A a : a \in CellsOf(w) <=> a \in CellsOf(waves) \/ a \in {n} \X DOMAIN wave
           /\ \A a \in CellsOf(waves) : a[1] \in DOMAIN waves /\ AtCell(w, a) = AtCell(waves, a)
           /\ \A k \in DOMAIN wave : AtCell(w, <<n, k>>) = wave[k]
<1> DEFINE w == Append(waves, wave)
           n == Len(waves) + 1
<1>1. /\ n \in Nat /\ DOMAIN waves = 1 .. Len(waves) /\ Len(waves) \in Nat
      /\ DOMAIN w = 1..n /\ n \notin DOMAIN waves
      /\ \A v \in DOMAIN waves : w[v] = waves[v]
      /\ w[n] = wave
  BY AppendProperties, LenProperties
<1>2. \A a : a \in CellsOf(w) <=> a \in CellsOf(waves) \/ a \in {n} \X DOMAIN wave
  <2> HIDE DEF w, n
  <2>1. \A v : v \in DOMAIN w <=> v \in DOMAIN waves \/ v = n
    BY <1>1 DEF n
  <2>2. \A a : a \in {n} \X DOMAIN wave <=> \E k \in DOMAIN wave : a = <<n, k>>
    OBVIOUS
  <2> SUFFICES ASSUME NEW a
               PROVE  a \in CellsOf(w) <=> a \in CellsOf(waves) \/ a \in {n} \X DOMAIN wave
    OBVIOUS
  <2>3. a \in CellsOf(w) <=> \E v \in DOMAIN w : \E k \in DOMAIN w[v] : a = <<v, k>>
    BY CellsAre
  <2>4. a \in CellsOf(waves) <=> \E v \in DOMAIN waves : \E k \in DOMAIN waves[v] : a = <<v, k>>
    BY CellsAre
  <2> QED
    BY <1>1, <2>1, <2>2, <2>3, <2>4, Zenon
<1>3. \A a \in CellsOf(waves) : a[1] \in DOMAIN waves /\ AtCell(w, a) = AtCell(waves, a)
  BY <1>1, CellsAre DEF AtCell
<1>4. \A k \in DOMAIN wave : AtCell(w, <<n, k>>) = wave[k]
  BY <1>1 DEF AtCell
<1>5. \A v \in DOMAIN waves : v \in Nat /\ v < n
  BY <1>1
<1> QED
  BY <1>1, <1>2, <1>3, <1>4, <1>5

LEMMA CutGrows ==
    ASSUME NEW I, NEW order, NEW waves, Cut(order, waves, I),
           NEW wave \in Seq(I) \ {<<>>},
           \A i, j \in DOMAIN wave : wave[i] = wave[j] => i = j,
           \A i \in DOMAIN order, j \in DOMAIN wave : order[i] # wave[j]
    PROVE  Cut(order \o wave, Append(waves, wave), I)
<1> DEFINE o == order \o wave
           w == Append(waves, wave)
           n == Len(waves) + 1
<1>1. order \in Seq(I) /\ waves \in Seq(Seq(I) \ {<<>>}) /\ waves \in Seq(Seq(I))
  BY DEF Cut
<1>2. PICK l \in Nat, m \in Nat : l = Len(order) /\ m = Len(wave)
  BY <1>1, LenProperties
<1>3. /\ o \in Seq(I) /\ DOMAIN o = 1..(l + m) /\ DOMAIN order = 1..l /\ DOMAIN wave = 1..m
      /\ \A i \in 1..l : o[i] = order[i]
      /\ \A i \in 1..m : o[l + i] = wave[i]
  BY <1>1, <1>2, ConcatProperties, LenProperties
<1>4. w \in Seq(Seq(I) \ {<<>>})
  BY <1>1, AppendProperties
<1>5. /\ n \in Nat /\ \A v \in DOMAIN waves : v \in Nat /\ v < n
      /\ \A a : a \in CellsOf(w) <=> a \in CellsOf(waves) \/ a \in {n} \X DOMAIN wave
      /\ \A a \in CellsOf(waves) : a[1] \in DOMAIN waves /\ AtCell(w, a) = AtCell(waves, a)
      /\ \A k \in DOMAIN wave : AtCell(w, <<n, k>>) = wave[k]
  BY <1>1, CellsGrow
<1> HIDE DEF o, w, n
\* A place of o is one of the order's or one of the wave's
<1>6. \A i \in DOMAIN o : i \in 1..l \/ \E k \in 1..m : i = l + k
  <2> SUFFICES ASSUME NEW i \in 1..(l + m), i \notin 1..l PROVE \E k \in 1..m : i = l + k
    BY <1>3
  <2>1. i - l \in 1..m /\ i = l + (i - l)
    OBVIOUS
  <2> QED
    BY <2>1
<1>7. \A k \in 1..m : l + k \in DOMAIN o /\ \A i \in 1..l : i \in DOMAIN o /\ i < l + k
  BY <1>3
<1>8. \A i, j \in DOMAIN o : o[i] = o[j] => i = j
  <2> SUFFICES ASSUME NEW i \in DOMAIN o, NEW j \in DOMAIN o, o[i] = o[j] PROVE i = j
    OBVIOUS
  <2>1. CASE i \in 1..l /\ j \in 1..l
    BY <1>3, <2>1 DEF Cut
  <2>2. CASE i \in 1..l /\ \E k \in 1..m : j = l + k
    BY <1>3, <2>2
  <2>3. CASE j \in 1..l /\ \E k \in 1..m : i = l + k
    <3>1. PICK k \in 1..m : i = l + k
      BY <2>3
    <3>2. o[i] = wave[k] /\ o[j] = order[j] /\ j \in DOMAIN order /\ k \in DOMAIN wave
      BY <1>3, <2>3, <3>1
    <3> QED
      BY <3>2
  <2>4. CASE (\E k \in 1..m : i = l + k) /\ (\E k \in 1..m : j = l + k)
    <3>1. PICK h \in 1..m, k \in 1..m : i = l + h /\ j = l + k
      BY <2>4
    <3>2. wave[h] = wave[k]
      BY <1>3, <3>1
    <3> QED
      BY <1>3, <3>1, <3>2
  <2> QED
    BY <1>6, <2>1, <2>2, <2>3, <2>4
<1>9. \A i \in DOMAIN o : \E a \in CellsOf(w) : AtCell(w, a) = o[i]
  <2> SUFFICES ASSUME NEW i \in DOMAIN o PROVE \E a \in CellsOf(w) : AtCell(w, a) = o[i]
    OBVIOUS
  <2>1. CASE i \in 1..l
    <3>1. PICK a \in CellsOf(waves) : AtCell(waves, a) = order[i]
      BY <1>3, <2>1 DEF Cut
    <3> QED
      BY <1>3, <1>5, <2>1, <3>1
  <2>2. CASE \E k \in 1..m : i = l + k
    <3>1. PICK k \in 1..m : i = l + k
      BY <2>2
    <3>2. <<n, k>> \in CellsOf(w) /\ AtCell(w, <<n, k>>) = o[i]
      BY <1>3, <1>5, <3>1
    <3> QED
      BY <3>2
  <2> QED
    BY <1>6, <2>1, <2>2
<1>10. \A a \in CellsOf(waves) : \E i \in 1..l : o[i] = AtCell(w, a)
  <2> SUFFICES ASSUME NEW a \in CellsOf(waves) PROVE \E i \in 1..l : o[i] = AtCell(w, a)
    OBVIOUS
  <2>1. PICK i \in DOMAIN order : order[i] = AtCell(waves, a)
    BY DEF Cut
  <2> QED
    BY <1>3, <1>5, <2>1
<1>11. \A a \in {n} \X DOMAIN wave : \E k \in 1..m : a = <<n, k>> /\ o[l + k] = AtCell(w, a)
  BY <1>3, <1>5
<1>12. \A a \in CellsOf(w) : \E i \in DOMAIN o : o[i] = AtCell(w, a)
  <2> SUFFICES ASSUME NEW a \in CellsOf(w) PROVE \E i \in DOMAIN o : o[i] = AtCell(w, a)
    OBVIOUS
  <2>1. CASE a \in CellsOf(waves)
    BY <1>3, <1>10, <2>1
  <2>2. CASE a \in {n} \X DOMAIN wave
    BY <1>7, <1>11, <2>2
  <2> QED
    BY <1>5, <2>1, <2>2
<1>13. ASSUME NEW a \in CellsOf(w), NEW b \in CellsOf(w), Earlier(a, b)
       PROVE  \E i, j \in DOMAIN o : i < j /\ o[i] = AtCell(w, a) /\ o[j] = AtCell(w, b)
  <2>1. CASE a \in CellsOf(waves) /\ b \in CellsOf(waves)
    <3>1. PICK i \in DOMAIN order, j \in DOMAIN order :
             i < j /\ order[i] = AtCell(waves, a) /\ order[j] = AtCell(waves, b)
      BY <1>13, <2>1 DEF Cut
    <3>2. i \in 1..l /\ j \in 1..l /\ i \in DOMAIN o /\ j \in DOMAIN o
      BY <1>3
    <3> QED
      BY <1>3, <1>5, <2>1, <3>1, <3>2
  <2>2. CASE a \in CellsOf(waves) /\ b \in {n} \X DOMAIN wave
    <3>1. PICK i \in 1..l : o[i] = AtCell(w, a)
      BY <1>10, <2>2
    <3>2. PICK k \in 1..m : o[l + k] = AtCell(w, b)
      BY <1>11, <2>2
    <3> QED
      BY <1>7, <3>1, <3>2
  <2>3. CASE a \in {n} \X DOMAIN wave /\ b \in CellsOf(waves)
    <3>1. a[1] = n /\ b[1] \in DOMAIN waves
      BY <1>5, <2>3
    <3>2. b[1] \in Nat /\ b[1] < n /\ n \in Nat
      BY <1>5, <3>1
    <3> QED
      BY <1>13, <3>1, <3>2 DEF Earlier
  <2>4. CASE a \in {n} \X DOMAIN wave /\ b \in {n} \X DOMAIN wave
    <3>1. PICK h \in 1..m, k \in 1..m : /\ a = <<n, h>> /\ o[l + h] = AtCell(w, a)
                                       /\ b = <<n, k>> /\ o[l + k] = AtCell(w, b)
      BY <1>11, <2>4
    <3>2. h < k
      BY <1>5, <1>13, <3>1 DEF Earlier
    <3>3. l + h < l + k /\ l + h \in DOMAIN o /\ l + k \in DOMAIN o
      BY <1>7, <3>2
    <3> QED
      BY <3>1, <3>3
  <2> QED
    BY <1>5, <2>1, <2>2, <2>3, <2>4
<1> QED
  BY <1>3, <1>4, <1>8, <1>9, <1>12, <1>13 DEF Cut, o, w

-----------------------------------------------------------------------------
(* A turn of the loop                                                       *)

\* A recipe's steps, as far as the planner reads them
StepsOK(steps) ==
    /\ Len(steps) \in Nat /\ DOMAIN steps = 1 .. Len(steps)
    /\ \A i \in DOMAIN steps : steps[i].id \in Nat /\ steps[i].needs \in Seq(Nat)
    /\ IdsDistinct(steps)

Unmet(steps, done, i) == DOMAIN steps[i].needs \ Met(steps, done, i)

\* What every turn of the loop keeps: who is placed has its needs placed in earlier
\* waves, and the counts are those of the needs that nobody placed meets.
RoundInv(steps, s) ==
    /\ Cut(s.order, s.waves, DOMAIN steps)
    /\ \A a \in CellsOf(s.waves) : \A k \in DOMAIN steps[AtCell(s.waves, a)].needs :
          \E b \in CellsOf(s.waves) : /\ b[1] < a[1]
             /\ steps[AtCell(s.waves, b)].id = steps[AtCell(s.waves, a)].needs[k]
    /\ s.waiting \in [DOMAIN steps -> Nat]
    /\ s.ready \in SUBSET DOMAIN steps
    /\ s.ready \cap ToSet(s.order) = {}
    /\ \A i \in DOMAIN steps : s.waiting[i] = Cardinality(Unmet(steps, ToSet(s.order), i))
    /\ \A i \in s.ready \cup ToSet(s.order) : s.waiting[i] = 0

LEMMA SetOfConcat ==
    ASSUME NEW I, NEW p \in Seq(I), NEW q \in Seq(I)
    PROVE  ToSet(p \o q) = ToSet(p) \cup ToSet(q)
<1>1. PICK l \in Nat, m \in Nat : l = Len(p) /\ m = Len(q)
  BY LenProperties
<1>2. /\ DOMAIN p = 1..l /\ DOMAIN q = 1..m /\ DOMAIN (p \o q) = 1..(l + m)
      /\ \A i \in 1..l : (p \o q)[i] = p[i]
      /\ \A i \in 1..m : (p \o q)[l + i] = q[i]
  BY <1>1, ConcatProperties, LenProperties
<1>3. \A i \in 1..(l + m) : i \in 1..l \/ \E k \in 1..m : i = l + k
  <2> SUFFICES ASSUME NEW i \in 1..(l + m), i \notin 1..l PROVE \E k \in 1..m : i = l + k
    OBVIOUS
  <2>1. i - l \in 1..m /\ i = l + (i - l)
    OBVIOUS
  <2> QED
    BY <2>1
<1>4. (\A i \in 1..l : i \in 1..(l + m)) /\ (\A k \in 1..m : l + k \in 1..(l + m))
  OBVIOUS
<1>5. \A x : x \in ToSet(p \o q) <=> \E i \in 1..(l + m) : (p \o q)[i] = x
  BY <1>2 DEF ToSet
<1>6. \A x : x \in ToSet(p) \cup ToSet(q) <=> \/ \E i \in 1..l : p[i] = x
                                              \/ \E i \in 1..m : q[i] = x
  BY <1>2 DEF ToSet
<1>7. ASSUME NEW x PROVE x \in ToSet(p \o q) <=> x \in ToSet(p) \cup ToSet(q)
  <2>1. CASE x \in ToSet(p \o q)
    <3>1. PICK i \in 1..(l + m) : (p \o q)[i] = x
      BY <1>5, <2>1
    <3>2. CASE i \in 1..l
      BY <1>2, <1>6, <2>1, <3>1, <3>2
    <3>3. CASE \E k \in 1..m : i = l + k
      BY <1>2, <1>6, <2>1, <3>1, <3>3
    <3> QED
      BY <1>3, <2>1, <3>2, <3>3
  <2>2. CASE x \in ToSet(p) \cup ToSet(q)
    <3>1. CASE \E i \in 1..l : p[i] = x
      BY <1>2, <1>4, <1>5, <2>2, <3>1
    <3>2. CASE \E i \in 1..m : q[i] = x
      BY <1>2, <1>4, <1>5, <2>2, <3>2
    <3> QED
      BY <1>6, <2>2, <3>1, <3>2
  <2> QED
    BY <2>1, <2>2
<1> QED
  BY <1>7

LEMMA Counting ==
    ASSUME NEW steps, StepsOK(steps), NEW i \in DOMAIN steps,
           NEW D \in SUBSET DOMAIN steps, NEW R \in SUBSET DOMAIN steps, D \cap R = {}
    PROVE  /\ IsFiniteSet(Unmet(steps, D, i)) /\ Cardinality(Unmet(steps, D, i)) \in Nat
           /\ Cardinality(Unmet(steps, D, i)) = 0 => Unmet(steps, D, i) = {}
           /\ Cardinality(Unmet(steps, D \cup R, i)) \in Nat
           /\ Cardinality(Unmet(steps, D \cup R, i))
                = Cardinality(Unmet(steps, D, i)) - Released(steps, R, i)
<1> DEFINE A == Unmet(steps, D, i)
           B == Unmet(steps, D \cup R, i)
           M == Met(steps, R, i)
<1>1. IsFiniteSet(DOMAIN steps[i].needs)
  <2>1. PICK l \in Nat : DOMAIN steps[i].needs = 1..l
    BY LenProperties DEF StepsOK
  <2> QED
    BY <2>1, FS_Interval
<1>2. A \in SUBSET DOMAIN steps[i].needs /\ B \in SUBSET DOMAIN steps[i].needs
  BY DEF Unmet
<1>3. IsFiniteSet(A) /\ Cardinality(A) \in Nat /\ IsFiniteSet(B) /\ Cardinality(B) \in Nat
  BY <1>1, <1>2, FS_Subset, FS_CardinalityType
<1>4. M \in SUBSET A /\ A \cap M = M
  BY DEF Met, Unmet, StepsOK, IdsDistinct
<1>5. B = A \ M
  BY DEF Met, Unmet
<1>6. Cardinality(B) = Cardinality(A) - Cardinality(M)
  <2>1. Cardinality(A \ M) = Cardinality(A) - Cardinality(A \cap M)
    BY <1>3, FS_Difference
  <2> QED
    BY <1>4, <1>5, <2>1
<1>7. Cardinality(A) = 0 => A = {}
  BY <1>3, FS_EmptySet
<1> QED
  BY <1>3, <1>6, <1>7 DEF Released

LEMMA FirstRoundOK ==
    ASSUME NEW steps, StepsOK(steps) PROVE RoundInv(steps, FirstRound(steps))
<1> DEFINE s == FirstRound(steps)
<1>1. s.order = <<>> /\ s.waves = <<>> /\ ToSet(s.order) = {} /\ CellsOf(s.waves) = {}
  BY DEF FirstRound, ToSet, CellsOf
<1>2. Cut(s.order, s.waves, DOMAIN steps)
  BY <1>1 DEF Cut
<1>3. \A i \in DOMAIN steps : /\ s.waiting[i] = Len(steps[i].needs) /\ s.waiting[i] \in Nat
                              /\ Unmet(steps, {}, i) = 1 .. Len(steps[i].needs)
  BY LenProperties DEF FirstRound, Unmet, Met, StepsOK
<1>4. \A i \in DOMAIN steps : s.waiting[i] = Cardinality(Unmet(steps, {}, i))
  <2> SUFFICES ASSUME NEW i \in DOMAIN steps
               PROVE  s.waiting[i] = Cardinality(Unmet(steps, {}, i))
    OBVIOUS
  <2>1. PICK n \in Nat : n = Len(steps[i].needs)
    BY <1>3
  <2>2. Cardinality(1..n) = n
    BY FS_Interval
  <2> QED
    BY <1>3, <2>1, <2>2
<1>5. s.waiting \in [DOMAIN steps -> Nat]
  BY <1>3 DEF FirstRound
<1>6. s.ready \in SUBSET DOMAIN steps /\ \A i \in s.ready : s.waiting[i] = 0
  BY <1>3 DEF FirstRound
<1>7. \A i \in s.ready \cup ToSet(s.order) : s.waiting[i] = 0
  BY <1>1, <1>6
<1>8. /\ s.ready \cap ToSet(s.order) = {}
      /\ \A i \in DOMAIN steps : s.waiting[i] = Cardinality(Unmet(steps, ToSet(s.order), i))
  BY <1>1, <1>4
<1>9. \A a \in CellsOf(s.waves) : FALSE
  BY <1>1
<1> HIDE DEF s
<1> QED
  BY <1>2, <1>5, <1>6, <1>7, <1>8, <1>9 DEF RoundInv, s

LEMMA NextRoundOK ==
    ASSUME NEW steps, StepsOK(steps), NEW s, RoundInv(steps, s)
    PROVE  RoundInv(steps, NextRound(steps, s))
<1> DEFINE D == ToSet(s.order)
           R == s.ready
           wave == ById(steps, R)
           left == [i \in DOMAIN steps |->
                      IF s.waiting[i] = 0 THEN 0 ELSE s.waiting[i] - Released(steps, R, i)]
           t == NextRound(steps, s)
<1>1. CASE R = {}
  BY <1>1 DEF NextRound
<1>2. CASE R # {}
  <2>1. /\ t.order = s.order \o wave /\ t.waves = Append(s.waves, wave)
        /\ t.waiting = left
        /\ t.ready = {i \in DOMAIN steps : s.waiting[i] > 0 /\ left[i] = 0}
    BY <1>2 DEF NextRound
  <2>2. /\ R \in SUBSET DOMAIN steps /\ R \cap D = {} /\ D \in SUBSET DOMAIN steps
        /\ s.order \in Seq(DOMAIN steps) /\ s.waves \in Seq(Seq(DOMAIN steps))
    BY DEF RoundInv, Cut, ToSet
  \* The wave
  <2>3. PICK n \in Nat :
           /\ n = Cardinality(R) /\ wave \in [1..n -> R]
           /\ \A a, b \in 1..n : wave[a] = wave[b] => a = b
           /\ \A i \in R : \E a \in 1..n : wave[a] = i
    <3>1. IsFiniteSet(R)
      <4>1. IsFiniteSet(DOMAIN steps)
        BY FS_Interval DEF StepsOK
      <4> QED
        BY <2>2, <4>1, FS_Subset
    <3>2. /\ \A i \in R : steps[i].id \in Nat
          /\ \A i, j \in R : steps[i].id = steps[j].id => i = j
      BY <2>2 DEF StepsOK, IdsDistinct
    <3> QED
      BY <3>1, <3>2, SortIs
  <2> HIDE DEF wave
  <2>4. wave \in Seq(DOMAIN steps) \ {<<>>} /\ DOMAIN wave = 1..n /\ ToSet(wave) = R
    <3>1. wave \in Seq(R) /\ DOMAIN wave = 1..n
      BY <2>3, IsASeq
    <3>2. wave # <<>>
      BY <1>2, <2>3
    <3>3. wave \in Seq(DOMAIN steps)
      <4> HIDE DEF R
      <4>1. \A a \in 1..n : wave[a] \in DOMAIN steps
        BY <2>2, <2>3
      <4>2. wave \in [1..n -> DOMAIN steps]
        BY <2>3, <4>1
      <4> QED
        BY <4>2, IsASeq
    <3>4. ToSet(wave) = R
      BY <2>3, <3>1 DEF ToSet
    <3> QED
      BY <3>1, <3>2, <3>3, <3>4
  <2>5. Cut(t.order, t.waves, DOMAIN steps)
    <3>1. \A i \in DOMAIN s.order, j \in DOMAIN wave : s.order[i] # wave[j]
      BY <2>2, <2>4 DEF ToSet
    <3>2. Cut(s.order, s.waves, DOMAIN steps)
      BY DEF RoundInv
    <3>3. \A i, j \in DOMAIN wave : wave[i] = wave[j] => i = j
      BY <2>3, <2>4
    <3>4. Cut(s.order \o wave, Append(s.waves, wave), DOMAIN steps)
      BY <2>4, <3>1, <3>2, <3>3, CutGrows
    <3> QED
      BY <2>1, <3>4
  <2>6. ToSet(t.order) = D \cup R
    BY <2>1, <2>2, <2>4, SetOfConcat
  \* The counts
  <2>7. \A i \in DOMAIN steps :
           /\ s.waiting[i] = Cardinality(Unmet(steps, D, i)) /\ s.waiting[i] \in Nat
           /\ s.waiting[i] = 0 => Unmet(steps, D, i) = {}
           /\ left[i] \in Nat /\ left[i] = Cardinality(Unmet(steps, D \cup R, i))
    <3> SUFFICES ASSUME NEW i \in DOMAIN steps
                 PROVE /\ s.waiting[i] = Cardinality(Unmet(steps, D, i)) /\ s.waiting[i] \in Nat
                       /\ s.waiting[i] = 0 => Unmet(steps, D, i) = {}
                       /\ left[i] \in Nat /\ left[i] = Cardinality(Unmet(steps, D \cup R, i))
      OBVIOUS
    <3>1. s.waiting[i] = Cardinality(Unmet(steps, D, i))
      BY DEF RoundInv
    <3>2. /\ Cardinality(Unmet(steps, D, i)) \in Nat
          /\ Cardinality(Unmet(steps, D, i)) = 0 => Unmet(steps, D, i) = {}
          /\ Cardinality(Unmet(steps, D \cup R, i)) \in Nat
          /\ Cardinality(Unmet(steps, D \cup R, i))
               = Cardinality(Unmet(steps, D, i)) - Released(steps, R, i)
      BY <2>2, Counting
    <3>3. CASE s.waiting[i] = 0
      <4>1. Unmet(steps, D \cup R, i) = {}
        BY <3>1, <3>2, <3>3 DEF Unmet, Met
      <4> QED
        BY <3>1, <3>2, <3>3, <4>1, FS_EmptySet
    <3>4. CASE s.waiting[i] # 0
      BY <3>1, <3>2, <3>4
    <3> QED
      BY <3>3, <3>4, <3>1, <3>2
  <2>8. t.waiting \in [DOMAIN steps -> Nat]
    BY <2>1, <2>7
  <2> HIDE DEF left, t, D, R
  <2>9. t.ready \in SUBSET DOMAIN steps /\ \A i \in t.ready : s.waiting[i] # 0 /\ left[i] = 0
    BY <2>1, <2>7
  <2>10. \A i \in D \cup R : i \in DOMAIN steps /\ s.waiting[i] = 0 /\ left[i] = 0
    <3>1. \A i \in D \cup R : i \in DOMAIN steps /\ s.waiting[i] = 0
      BY <2>2 DEF RoundInv, D, R
    <3> QED
      BY <3>1 DEF left
  <2>11. t.ready \cap (D \cup R) = {}
    BY <2>9, <2>10
  \* The needs of the wave
  <2>12. ASSUME NEW a \in CellsOf(t.waves), NEW k \in DOMAIN steps[AtCell(t.waves, a)].needs
         PROVE  \E b \in CellsOf(t.waves) : /\ b[1] < a[1]
                   /\ steps[AtCell(t.waves, b)].id = steps[AtCell(t.waves, a)].needs[k]
    <3> DEFINE m == Len(s.waves) + 1
    <3>1. /\ m \in Nat /\ \A v \in DOMAIN s.waves : v \in Nat /\ v < m
          /\ \A c : c \in CellsOf(t.waves) <=> c \in CellsOf(s.waves) \/ c \in {m} \X DOMAIN wave
          /\ \A c \in CellsOf(s.waves) : /\ c[1] \in DOMAIN s.waves
                                         /\ AtCell(t.waves, c) = AtCell(s.waves, c)
          /\ \A c \in DOMAIN wave : AtCell(t.waves, <<m, c>>) = wave[c]
      <4>1. wave \in Seq(DOMAIN steps)
        BY <2>4
      <4> QED
        BY <2>1, <2>2, <4>1, CellsGrow
    <3> HIDE DEF m
    <3>2. CASE a \in CellsOf(s.waves)
      <4>1. AtCell(t.waves, a) = AtCell(s.waves, a)
        BY <3>1, <3>2
      <4>2. PICK b \in CellsOf(s.waves) : /\ b[1] < a[1]
               /\ steps[AtCell(s.waves, b)].id = steps[AtCell(s.waves, a)].needs[k]
        BY <2>12, <3>2, <4>1 DEF RoundInv
      <4> QED
        BY <3>1, <4>1, <4>2
    <3>3. CASE a \in {m} \X DOMAIN wave
      <4>1. PICK h \in DOMAIN wave : a = <<m, h>> /\ AtCell(t.waves, a) = wave[h]
        BY <3>1, <3>3
      <4>2. PICK i \in R : i = wave[h]
        BY <2>3, <2>4, <4>1
      <4>3. k \in Met(steps, D, i)
        BY <2>7, <2>10, <2>12, <4>1, <4>2 DEF Unmet
      <4>4. PICK j \in D : steps[i].needs[k] = steps[j].id
        BY <4>3 DEF Met
      <4>5. PICK o \in DOMAIN s.order : s.order[o] = j
        BY <4>4 DEF D, ToSet
      <4>6. PICK b \in CellsOf(s.waves) : AtCell(s.waves, b) = j
        BY <4>5 DEF RoundInv, Cut
      <4>7. b \in CellsOf(t.waves) /\ AtCell(t.waves, b) = j /\ b[1] < m
        BY <3>1, <4>6
      <4>8. a[1] = m
        BY <4>1
      <4> QED
        BY <4>1, <4>2, <4>4, <4>7, <4>8
    <3> QED
      BY <3>1, <3>2, <3>3
  <2>13. \A i \in DOMAIN steps : t.waiting[i] = Cardinality(Unmet(steps, ToSet(t.order), i))
    BY <2>1, <2>6, <2>7
  <2>14. \A i \in t.ready \cup ToSet(t.order) : t.waiting[i] = 0
    BY <2>1, <2>6, <2>9, <2>10
  <2> QED
    BY <2>5, <2>6, <2>8, <2>9, <2>11, <2>12, <2>13, <2>14 DEF RoundInv, t
<1> QED
  BY <1>1, <1>2

-----------------------------------------------------------------------------
(* The loop                                                                 *)

\* Induction over the naturals, for a set: there is no least number outside it.
LEMMA Inductive ==
    ASSUME NEW T, 0 \in T, \A n \in Nat : n \in T => n + 1 \in T
    PROVE  \A n \in Nat : n \in T
<1> DEFINE R == {ss \in Nat \X Nat : ss[1] < ss[2]}
<1>1. IsWellFoundedOn(R, Nat)
  BY NatLessThanWellFounded DEF OpToRel
<1> SUFFICES ASSUME NEW m \in Nat, m \notin T PROVE FALSE
  OBVIOUS
<1>2. PICK x \in Nat \ T : \A y \in Nat \ T : ~(<<y, x>> \in R)
  BY <1>1, WFMin
<1>3. x # 0 /\ x - 1 \in Nat /\ x = (x - 1) + 1
  BY <1>2
<1>4. x - 1 \in Nat \ T
  BY <1>2, <1>3
<1>5. <<x - 1, x>> \in R
  BY <1>3
<1> QED
  BY <1>2, <1>4, <1>5

LEMMA LastRoundOK ==
    ASSUME NEW steps, StepsOK(steps) PROVE RoundInv(steps, LastRound(steps))
<1> DEFINE turn(f, n) == IF n = 0 THEN FirstRound(steps) ELSE NextRound(steps, f[n - 1])
           T == {m \in Nat : \E f : f = [n \in 0..m |-> turn(f, n)]}
<1>1. PICK N \in Nat : N = Len(steps)
  BY DEF StepsOK
\* The loop's function is there
<1>2. 0 \in T
  <2> DEFINE f == [n \in 0..0 |-> FirstRound(steps)]
  <2>1. f = [n \in 0..0 |-> turn(f, n)]
    OBVIOUS
  <2> QED
    BY <2>1
<1>3. ASSUME NEW m \in Nat, m \in T PROVE m + 1 \in T
  <2>1. PICK f : f = [n \in 0..m |-> turn(f, n)]
    BY <1>3
  <2> DEFINE g == [n \in 0..(m + 1) |-> IF n = m + 1 THEN NextRound(steps, f[m]) ELSE f[n]]
  <2>2. \A n \in 0..m : g[n] = f[n] /\ n \in 0..(m + 1)
    OBVIOUS
  <2>3. \A n \in 0..m : f[n] = turn(f, n)
    BY <2>1
  <2>4. ASSUME NEW n \in 0..(m + 1) PROVE g[n] = turn(g, n)
    <3>1. CASE n = m + 1
      <4>1. g[n] = NextRound(steps, f[m]) /\ n # 0 /\ n - 1 = m /\ m \in 0..m
        BY <3>1
      <4>2. g[m] = f[m]
        BY <2>2
      <4> QED
        BY <4>1, <4>2
    <3>2. CASE n = 0
      BY <2>2, <2>3, <3>2
    <3>3. CASE n # m + 1 /\ n # 0
      <4>1. n \in 0..m /\ n - 1 \in 0..m
        BY <3>3
      <4>2. g[n] = f[n] /\ g[n - 1] = f[n - 1]
        BY <2>2, <4>1
      <4> QED
        BY <2>3, <3>3, <4>1, <4>2
    <3> QED
      BY <3>1, <3>2, <3>3
  <2>5. g = [n \in 0..(m + 1) |-> turn(g, n)]
    BY <2>4
  <2> HIDE DEF g, turn
  <2>6. \E h : h = [n \in 0..(m + 1) |-> turn(h, n)]
    BY <2>5
  <2>7. m + 1 \in Nat
    OBVIOUS
  <2> QED
    BY <2>6, <2>7, Zenon
<1>4. N \in T
  <2> HIDE DEF T
  <2> QED
    BY <1>2, <1>3, Inductive
<1>5. PICK r : r = [n \in 0..N |-> turn(r, n)] /\ LastRound(steps) = r[N]
  <2> DEFINE r == CHOOSE f : f = [n \in 0..N |-> turn(f, n)]
  <2>1. r = [n \in 0..N |-> turn(r, n)]
    BY <1>4
  <2>2. LastRound(steps) = r[N]
    BY <1>1 DEF LastRound
  <2> QED
    BY <2>1, <2>2
\* and keeps the invariant
<1> DEFINE U == {m \in Nat : m <= N => RoundInv(steps, r[m])}
<1>6. 0 \in U
  <2>1. r[0] = FirstRound(steps)
    BY <1>5
  <2> QED
    BY <2>1, FirstRoundOK
<1>7. ASSUME NEW m \in Nat, m \in U PROVE m + 1 \in U
  <2> SUFFICES ASSUME m + 1 <= N PROVE RoundInv(steps, r[m + 1])
    OBVIOUS
  <2>1. r[m + 1] = NextRound(steps, r[m])
    <3>1. m + 1 \in 0..N /\ m + 1 # 0 /\ (m + 1) - 1 = m
      OBVIOUS
    <3> QED
      BY <1>5, <3>1
  <2>2. RoundInv(steps, r[m])
    BY <1>7
  <2> QED
    BY <2>1, <2>2, NextRoundOK
<1>8. N \in U
  <2> HIDE DEF U
  <2> QED
    BY <1>6, <1>7, Inductive
<1> QED
  BY <1>5, <1>8

\* The schedule is the order cut into waves, and what a step is planned to need
\* comes in an earlier wave.
LEMMA ScheduleOK ==
    ASSUME NEW steps, StepsOK(steps)
    PROVE  LET made == Schedule(steps) IN
           /\ Cut(made.order, made.waves, DOMAIN steps)
           /\ \A a \in CellsOf(made.waves) :
                 \A need \in PlannedNeeds(steps, AtCell(made.waves, a)) :
                    \E b \in CellsOf(made.waves) :
                       b[1] < a[1] /\ steps[AtCell(made.waves, b)].id = need
<1> DEFINE made == Schedule(steps)
<1>1. CASE ~Implicit(steps)
  <2>1. made = LastRound(steps) /\ RoundInv(steps, made)
    BY <1>1, LastRoundOK DEF Schedule
  <2>2. \A i : PlannedNeeds(steps, i) = {steps[i].needs[k] : k \in DOMAIN steps[i].needs}
    BY <1>1 DEF PlannedNeeds, ToSet
  <2> HIDE DEF made
  <2> QED
    BY <2>1, <2>2 DEF RoundInv, made
<1>2. CASE Implicit(steps)
  <2>1. PICK N \in Nat : N = Len(steps) /\ DOMAIN steps = 1..N
    BY DEF StepsOK
  <2>2. made.order = [i \in 1..N |-> i] /\ made.waves = [i \in 1..N |-> <<i>>]
    BY <1>2, <2>1 DEF Schedule
  <2> HIDE DEF made
  <2>3. \A i \in 1..N : <<i>> \in Seq(1..N) \ {<<>>} /\ DOMAIN <<i>> = {1} /\ <<i>>[1] = i
    OBVIOUS
  <2>4. made.order \in Seq(1..N) /\ made.waves \in Seq(Seq(1..N) \ {<<>>})
    BY <2>2, <2>3, IsASeq
  <2>5. /\ \A i \in 1..N : <<i, 1>> \in CellsOf(made.waves)
        /\ \A a \in CellsOf(made.waves) : \E i \in 1..N : a = <<i, 1>>
    BY <2>2, <2>3, CellsAre
  <2>6. \A i \in 1..N : AtCell(made.waves, <<i, 1>>) = i
    BY <2>2, <2>3 DEF AtCell
  <2>7. Cut(made.order, made.waves, DOMAIN steps)
    <3>1. \A i \in DOMAIN made.order :
             i \in 1..N /\ \E a \in CellsOf(made.waves) : AtCell(made.waves, a) = made.order[i]
      BY <2>2, <2>5, <2>6
    <3>2. \A a \in CellsOf(made.waves) : \E i \in DOMAIN made.order :
             made.order[i] = AtCell(made.waves, a)
      BY <2>2, <2>5, <2>6
    <3>3. ASSUME NEW a \in CellsOf(made.waves), NEW b \in CellsOf(made.waves), Earlier(a, b)
          PROVE  \E i, j \in DOMAIN made.order : /\ i < j
                    /\ made.order[i] = AtCell(made.waves, a)
                    /\ made.order[j] = AtCell(made.waves, b)
      <4>1. PICK i \in 1..N, j \in 1..N : a = <<i, 1>> /\ b = <<j, 1>>
        BY <2>5
      <4>2. i < j
        BY <3>3, <4>1 DEF Earlier
      <4>3. /\ i \in DOMAIN made.order /\ made.order[i] = AtCell(made.waves, a)
            /\ j \in DOMAIN made.order /\ made.order[j] = AtCell(made.waves, b)
        BY <2>2, <2>6, <4>1
      <4> QED
        BY <4>2, <4>3
    <3>4. \A i, j \in DOMAIN made.order : made.order[i] = made.order[j] => i = j
      BY <2>2
    <3> QED
      BY <2>1, <2>4, <3>1, <3>2, <3>3, <3>4 DEF Cut
  <2>8. ASSUME NEW a \in CellsOf(made.waves),
               NEW need \in PlannedNeeds(steps, AtCell(made.waves, a))
        PROVE  \E b \in CellsOf(made.waves) :
                  b[1] < a[1] /\ steps[AtCell(made.waves, b)].id = need
    <3>1. PICK i \in 1..N : a = <<i, 1>> /\ AtCell(made.waves, a) = i
      BY <2>5, <2>6
    <3>2. i # 1 /\ need = steps[i - 1].id
      BY <1>2, <2>8, <3>1 DEF PlannedNeeds
    <3>3. i - 1 \in 1..N /\ i - 1 < i
      BY <3>2
    <3> QED
      BY <2>5, <2>6, <3>1, <3>2, <3>3
  <2> QED
    BY <2>7, <2>8 DEF made
<1> QED
  BY <1>1, <1>2

-----------------------------------------------------------------------------
(* The plan                                                                 *)

\* A recipe with steps of any operations: RecipeDoc when they are those of PlanOp
StepsOver(ops) == [id : Nat, needs : Seq(Nat), op : ops, shot : BOOLEAN]
RecipesOver(ops) == [params : SUBSET Params, steps : Seq(StepsOver(ops))]

\* Filling in parameters changes no id and no need.
LEMMA FilledSteps ==
    ASSUME NEW ops, NEW recipe \in RecipesOver(ops), NEW set
    PROVE  LET steps == Filled(recipe, set).steps IN
           /\ DOMAIN steps = DOMAIN recipe.steps
           /\ \A i \in DOMAIN steps : /\ steps[i].id = recipe.steps[i].id
                                      /\ steps[i].needs = recipe.steps[i].needs
<1> DEFINE steps == Filled(recipe, set).steps
           fill(s) == [s EXCEPT !.op = Substituted(s.op, set)]
<1>1. CASE recipe.params = {}
  BY <1>1 DEF Filled
<1>2. CASE recipe.params # {}
  <2>1. steps = [i \in DOMAIN recipe.steps |-> fill(recipe.steps[i])]
    BY <1>2 DEF Filled, ApplyParams
  <2>2. \A i \in DOMAIN recipe.steps : recipe.steps[i] \in StepsOver(ops)
    BY LenProperties DEF RecipesOver
  <2>3. \A s \in StepsOver(ops) : fill(s).id = s.id /\ fill(s).needs = s.needs
    BY DEF StepsOver
  <2> HIDE DEF steps, fill
  <2> QED
    BY <2>1, <2>2, <2>3 DEF steps
<1> QED
  BY <1>1, <1>2

\* A recipe that compile_plan accepts gets a sound plan of its own steps, whatever
\* the order they are written in, the needs they repeat and the --set values.
THEOREM PlanKeepsPromise ==
    ASSUME NEW ops, NEW recipe \in RecipesOver(ops), NEW set, NEW registry
    PROVE  PromiseKept(recipe, set, registry)
<1> SUFFICES ASSUME ~Refused(recipe, set, registry)
             PROVE  LET q == Compile(recipe, set, registry) IN
                    Sound(q) /\ IdsOf(q) = {s.id : s \in ToSet(recipe.steps)}
  BY DEF PromiseKept
<1> DEFINE steps == Filled(recipe, set).steps
           made  == Schedule(steps)
           p     == Compile(recipe, set, registry)
<1>1. /\ DOMAIN steps = DOMAIN recipe.steps
      /\ \A i \in DOMAIN steps : /\ steps[i].id = recipe.steps[i].id
                                 /\ steps[i].needs = recipe.steps[i].needs
  BY FilledSteps
<1>2. PICK N \in Nat : /\ DOMAIN recipe.steps = 1..N /\ N = Len(recipe.steps)
                       /\ \A i \in 1..N : recipe.steps[i] \in StepsOver(ops)
  <2>1. recipe.steps \in Seq(StepsOver(ops))
    BY DEF RecipesOver
  <2> QED
    BY <2>1, LenProperties
<1>3. Len(steps) = N
  <2>1. CASE recipe.params = {}
    BY <1>2, <2>1 DEF Filled
  <2>2. CASE recipe.params # {}
    <3>1. steps = [i \in 1..N |-> [recipe.steps[i] EXCEPT
                                      !.op = Substituted(recipe.steps[i].op, set)]]
      BY <1>2, <2>2 DEF Filled, ApplyParams
    <3> QED
      BY <3>1
  <2> QED
    BY <2>1, <2>2
<1>4. StepsOK(steps)
  <2>1. IdsDistinct(recipe.steps)
    BY DEF Refused, Compiles, ValidRecipe
  <2>2. \A i \in 1..N : recipe.steps[i].id \in Nat /\ recipe.steps[i].needs \in Seq(Nat)
    BY <1>2 DEF StepsOver
  <2> HIDE DEF steps
  <2> QED
    BY <1>1, <1>2, <1>3, <2>1, <2>2 DEF StepsOK, IdsDistinct
<1>5. /\ Cut(made.order, made.waves, DOMAIN steps)
      /\ \A a \in CellsOf(made.waves) :
            \A need \in PlannedNeeds(steps, AtCell(made.waves, a)) :
               \E b \in CellsOf(made.waves) :
                  b[1] < a[1] /\ steps[AtCell(made.waves, b)].id = need
  BY <1>4, ScheduleOK
<1>6. Len(made.order) >= N
  <2>1. ~HasCycle(steps)
    BY DEF Refused, Compiles
  <2>2. Len(made.order) \in Nat
    BY <1>5, LenProperties DEF Cut
  <2> QED
    BY <1>3, <2>1, <2>2 DEF HasCycle
<1>7. /\ p.steps = [k \in DOMAIN made.order |-> PlannedStep(steps, made.order[k], registry)]
      /\ p.waves = [w \in DOMAIN made.waves |->
                      [k \in DOMAIN made.waves[w] |-> steps[made.waves[w][k]].id]]
  BY DEF Compile
<1> HIDE DEF steps, made, p
<1>8. PICK l \in Nat : /\ DOMAIN made.order = 1..l /\ l = Len(made.order)
                       /\ \A k \in 1..l : made.order[k] \in 1..N
  <2>1. made.order \in Seq(1..N)
    BY <1>1, <1>2, <1>5 DEF Cut
  <2> QED
    BY <2>1, LenProperties
\* Who is planned
<1>9. /\ DOMAIN p.steps = 1..l
      /\ \A k \in 1..l : /\ p.steps[k] = PlannedStep(steps, made.order[k], registry)
                         /\ p.steps[k].id = steps[made.order[k]].id
                         /\ p.steps[k].needs = PlannedNeeds(steps, made.order[k])
  <2>1. /\ DOMAIN p.steps = 1..l
        /\ \A k \in 1..l : p.steps[k] = PlannedStep(steps, made.order[k], registry)
    BY <1>7, <1>8
  <2>2. \A i : /\ PlannedStep(steps, i, registry).id = steps[i].id
               /\ PlannedStep(steps, i, registry).needs = PlannedNeeds(steps, i)
    BY DEF PlannedStep
  <2> QED
    BY <2>1, <2>2
<1>10. \A i \in 1..N : \E k \in 1..l : made.order[k] = i
  <2>1. made.order \in Injection(1..l, 1..N)
    <3>1. made.order \in [1..l -> 1..N]
      BY <1>1, <1>2, <1>5, <1>8, LenProperties DEF Cut
    <3>2. \A a, b \in 1..l : made.order[a] = made.order[b] => a = b
      BY <1>5, <1>8 DEF Cut
    <3> QED
      BY <3>1, <3>2 DEF Injection, IsInjective
  <2>2. IsFiniteSet(1..N) /\ Cardinality(1..N) = N /\ Cardinality(1..l) = l
    BY FS_Interval
  <2>3. /\ Cardinality(1..l) <= Cardinality(1..N)
        /\ Cardinality(1..l) = Cardinality(1..N) <=> made.order \in Surjection(1..l, 1..N)
    BY <2>1, <2>2, FS_Injection
  <2>4. made.order \in Surjection(1..l, 1..N)
    BY <1>6, <1>8, <2>2, <2>3
  <2> QED
    BY <2>4 DEF Surjection
<1>11. /\ \A id : id \in IdsOf(p) <=> \E i \in 1..N : steps[i].id = id
       /\ \A id \in IdsOf(p) : \E k \in 1..l : p.steps[k].id = id
  <2>1. \A id : id \in IdsOf(p) <=> \E k \in 1..l : p.steps[k].id = id
    BY <1>9 DEF IdsOf, ToSet
  <2>2. ASSUME NEW id, \E k \in 1..l : p.steps[k].id = id
        PROVE  \E i \in 1..N : steps[i].id = id
    BY <1>8, <1>9, <2>2
  <2>3. ASSUME NEW i \in 1..N PROVE \E k \in 1..l : p.steps[k].id = steps[i].id
    BY <1>9, <1>10
  <2> QED
    BY <2>1, <2>2, <2>3
<1>12. IdsOf(p) = {s.id : s \in ToSet(recipe.steps)}
  BY <1>1, <1>2, <1>11 DEF ToSet
\* Where
<1>13. /\ \A a : a \in PlacesIn(p) <=> a \in CellsOf(made.waves)
       /\ \A a \in CellsOf(made.waves) : /\ IdIn(p, a) = steps[AtCell(made.waves, a)].id
                                         /\ AtCell(made.waves, a) \in 1..N
                                         /\ a[1] \in Nat /\ a[2] \in Nat
  <2>1. /\ DOMAIN p.waves = DOMAIN made.waves
        /\ \A w \in DOMAIN made.waves : DOMAIN p.waves[w] = DOMAIN made.waves[w]
        /\ \A w \in DOMAIN made.waves : \A k \in DOMAIN made.waves[w] :
              p.waves[w][k] = steps[made.waves[w][k]].id
    BY <1>7
  <2>2. /\ made.waves \in Seq(Seq(1..N)) /\ DOMAIN made.waves \subseteq Nat
        /\ \A w \in DOMAIN made.waves : /\ DOMAIN made.waves[w] \subseteq Nat
              /\ \A k \in DOMAIN made.waves[w] : made.waves[w][k] \in 1..N
    <3>1. made.waves \in Seq(Seq(1..N))
      BY <1>1, <1>2, <1>5 DEF Cut
    <3>2. /\ DOMAIN made.waves = 1 .. Len(made.waves) /\ Len(made.waves) \in Nat
          /\ \A w \in DOMAIN made.waves : made.waves[w] \in Seq(1..N)
      BY <3>1, LenProperties
    <3> QED
      BY <3>1, <3>2, LenProperties
  <2>3. CellsOf(p.waves) = PlacesIn(p)
    BY DEF CellsOf, PlacesIn
  <2>4. \A a : a \in PlacesIn(p) <=> a \in CellsOf(made.waves)
    <3> SUFFICES ASSUME NEW a PROVE a \in PlacesIn(p) <=> a \in CellsOf(made.waves)
      OBVIOUS
    <3>1. a \in PlacesIn(p) <=> \E w \in DOMAIN p.waves : \E k \in DOMAIN p.waves[w] : a = <<w, k>>
      BY <2>3, CellsAre
    <3>2. a \in CellsOf(made.waves) <=>
             \E w \in DOMAIN made.waves : \E k \in DOMAIN made.waves[w] : a = <<w, k>>
      BY CellsAre
    <3> QED
      BY <2>1, <3>1, <3>2, Zenon
  <2>5. ASSUME NEW a \in CellsOf(made.waves)
        PROVE  /\ IdIn(p, a) = steps[AtCell(made.waves, a)].id
               /\ AtCell(made.waves, a) \in 1..N /\ a[1] \in Nat /\ a[2] \in Nat
    <3>1. PICK w \in DOMAIN made.waves : \E k \in DOMAIN made.waves[w] : a = <<w, k>>
      BY CellsAre
    <3>2. PICK k \in DOMAIN made.waves[w] : a = <<w, k>>
      BY <3>1
    <3>3. a[1] = w /\ a[2] = k
      BY <3>2
    <3> QED
      BY <2>1, <2>2, <3>3 DEF IdIn, AtCell
  <2> QED
    BY <2>4, <2>5
\* The six parts of Sound
<1>14. \A i, j \in 1..N : steps[i].id = steps[j].id => i = j
  BY <1>1, <1>2, <1>4 DEF StepsOK, IdsDistinct
<1>15. p.steps \in Seq(ToSet(p.steps))
  <2>1. p.steps \in [1..l -> ToSet(p.steps)]
    BY <1>7, <1>8 DEF ToSet
  <2> QED
    BY <2>1, IsASeq
<1>16. \A i, j \in DOMAIN p.steps : p.steps[i].id = p.steps[j].id => i = j
  <2> SUFFICES ASSUME NEW i \in 1..l, NEW j \in 1..l, p.steps[i].id = p.steps[j].id
               PROVE  i = j
    BY <1>9
  <2>1. made.order[i] = made.order[j]
    <3>1. made.order[i] \in 1..N /\ made.order[j] \in 1..N
      BY <1>8
    <3>2. steps[made.order[i]].id = steps[made.order[j]].id
      BY <1>9
    <3> QED
      BY <1>14, <3>1, <3>2
  <2>2. \A a, b \in DOMAIN made.order : made.order[a] = made.order[b] => a = b
    BY <1>5 DEF Cut
  <2> QED
    BY <1>8, <2>1, <2>2
<1>17. p.waves \in Seq(Seq(IdsOf(p)) \ {<<>>})
  <2>1. made.waves \in Seq(Seq(1..N) \ {<<>>})
    BY <1>1, <1>2, <1>5 DEF Cut
  <2>2. PICK m \in Nat : DOMAIN made.waves = 1..m
    BY <2>1, LenProperties
  <2>3. ASSUME NEW w \in 1..m PROVE p.waves[w] \in Seq(IdsOf(p)) \ {<<>>}
    <3>1. made.waves[w] \in Seq(1..N) /\ made.waves[w] # <<>>
      BY <2>1, <2>2, <2>3, ElementOfSeq
    <3>2. PICK n \in Nat : /\ DOMAIN made.waves[w] = 1..n /\ n = Len(made.waves[w])
                           /\ \A k \in 1..n : made.waves[w][k] \in 1..N
      BY <3>1, LenProperties
    <3>3. n # 0
      BY <3>1, <3>2, EmptySeq
    <3>4. p.waves[w] = [k \in 1..n |-> steps[made.waves[w][k]].id]
      BY <1>7, <2>2, <3>2
    <3>5. p.waves[w] \in [1..n -> IdsOf(p)]
      BY <1>11, <3>2, <3>4
    <3>6. p.waves[w] \in Seq(IdsOf(p))
      BY <3>5, IsASeq
    <3>7. DOMAIN p.waves[w] # {}
      BY <3>3, <3>4
    <3> QED
      BY <3>6, <3>7, EmptySeq
  <2>4. p.waves \in [1..m -> Seq(IdsOf(p)) \ {<<>>}]
    <3>1. p.waves = [w \in 1..m |-> p.waves[w]]
      BY <1>7, <2>2
    <3> QED
      BY <2>3, <3>1
  <2> QED
    BY <2>4, IsASeq
<1>18. \A id \in IdsOf(p) : \E a \in PlacesIn(p) : IdIn(p, a) = id
  <2> SUFFICES ASSUME NEW id \in IdsOf(p) PROVE \E a \in PlacesIn(p) : IdIn(p, a) = id
    OBVIOUS
  <2>1. PICK k \in 1..l : steps[made.order[k]].id = id
    BY <1>9, <1>11
  <2>2. PICK a \in CellsOf(made.waves) : AtCell(made.waves, a) = made.order[k]
    BY <1>5, <1>8 DEF Cut
  <2> QED
    BY <1>13, <2>1, <2>2
<1>19. ASSUME NEW a \in PlacesIn(p), NEW b \in PlacesIn(p)
       PROVE  Earlier(a, b) <=> \E i, j \in DOMAIN p.steps :
                 i < j /\ p.steps[i].id = IdIn(p, a) /\ p.steps[j].id = IdIn(p, b)
  <2>1. \A c, d \in PlacesIn(p) : Earlier(c, d) =>
           \E i, j \in 1..l : /\ i < j /\ p.steps[i].id = IdIn(p, c)
                              /\ p.steps[j].id = IdIn(p, d)
    <3> SUFFICES ASSUME NEW c \in PlacesIn(p), NEW d \in PlacesIn(p), Earlier(c, d)
                 PROVE \E i, j \in 1..l : /\ i < j /\ p.steps[i].id = IdIn(p, c)
                                          /\ p.steps[j].id = IdIn(p, d)
      OBVIOUS
    <3>1. PICK i \in 1..l, j \in 1..l : /\ i < j
             /\ made.order[i] = AtCell(made.waves, c) /\ made.order[j] = AtCell(made.waves, d)
      <4>1. c \in CellsOf(made.waves) /\ d \in CellsOf(made.waves)
        BY <1>13
      <4>2. \E i, j \in DOMAIN made.order : /\ i < j
              /\ made.order[i] = AtCell(made.waves, c) /\ made.order[j] = AtCell(made.waves, d)
        BY <1>5, <4>1 DEF Cut
      <4> QED
        BY <1>8, <4>2
    <3> QED
      BY <1>9, <1>13, <3>1
  <2>2. ASSUME NEW i \in 1..l, NEW j \in 1..l, i < j, p.steps[i].id = IdIn(p, a),
               p.steps[j].id = IdIn(p, b), ~Earlier(a, b)
        PROVE  FALSE
    <3>1. CASE Earlier(b, a)
      <4>1. PICK h \in 1..l, k \in 1..l : /\ h < k /\ p.steps[h].id = IdIn(p, b)
                                         /\ p.steps[k].id = IdIn(p, a)
        BY <2>1, <3>1
      <4>2. h = j /\ k = i
        BY <1>9, <1>16, <2>2, <4>1
      <4> QED
        BY <2>2, <4>1, <4>2
    <3>2. CASE IdIn(p, a) = IdIn(p, b)
      BY <1>9, <1>16, <2>2, <3>2
    <3>3. a = b \/ Earlier(a, b) \/ Earlier(b, a)
      <4>1. /\ a[1] \in Nat /\ a[2] \in Nat /\ b[1] \in Nat /\ b[2] \in Nat
            /\ a = <<a[1], a[2]>> /\ b = <<b[1], b[2]>>
        BY <1>13, CellsAre
      <4> QED
        BY <4>1 DEF Earlier
    <3> QED
      BY <2>2, <3>1, <3>2, <3>3
  <2> QED
    BY <1>9, <2>1, <2>2
<1>20. ASSUME NEW a \in PlacesIn(p), NEW s \in ToSet(p.steps), s.id = IdIn(p, a),
              NEW need \in s.needs
       PROVE  \E b \in PlacesIn(p) : b[1] < a[1] /\ IdIn(p, b) = need
  <2>1. PICK k \in 1..l : s = p.steps[k]
    BY <1>9 DEF ToSet
  <2>2. made.order[k] = AtCell(made.waves, a)
    <3>1. made.order[k] \in 1..N /\ AtCell(made.waves, a) \in 1..N
      BY <1>8, <1>13
    <3>2. steps[made.order[k]].id = steps[AtCell(made.waves, a)].id
      BY <1>9, <1>13, <1>20, <2>1
    <3> QED
      BY <1>14, <3>1, <3>2
  <2>3. need \in PlannedNeeds(steps, AtCell(made.waves, a))
    BY <1>9, <1>20, <2>1, <2>2
  <2>4. PICK b \in CellsOf(made.waves) : b[1] < a[1] /\ steps[AtCell(made.waves, b)].id = need
    BY <1>5, <1>13, <2>3
  <2> QED
    BY <1>13, <2>4
<1> QED
  BY <1>12, <1>15, <1>16, <1>17, <1>18, <1>19, <1>20 DEF Sound, p
=============================================================================
