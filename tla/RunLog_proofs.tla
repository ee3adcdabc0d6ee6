--------------------------- MODULE RunLog_proofs ---------------------------
(***************************************************************************)
(* What a lineage is, for every log: the recursive function that Lineage   *)
(* is defined by exists, and what it computes.  An induction is the choice *)
(* of a least counterexample, which the well-foundedness of the naturals   *)
(* gives for a set of them.                                                *)
(***************************************************************************)
EXTENDS RunLog, WellFoundedInduction, TLAPS

LEMMA LeastOf ==
  ASSUME NEW S \in SUBSET Nat, S # {}
  PROVE  \E x \in S : \A y \in S : x <= y
<1> DEFINE R == OpToRel(<, Nat)
<1>1. IsWellFoundedOn(R, Nat)
  BY NatLessThanWellFounded, Zenon
<1> HIDE DEF R
<1>2. PICK x \in S : \A y \in S : <<y, x>> \notin R
  BY <1>1, WFMin, Zenon
<1>3. ASSUME NEW y \in S, ~(x <= y) PROVE FALSE
  <2>1. x \in Nat /\ y \in Nat /\ y < x
    BY <1>3
  <2>2. <<y, x>> \in R
    BY <2>1 DEF R, OpToRel
  <2> QED
    BY <1>2, <2>2
<1> QED
  BY <1>2, <1>3

(* Course-of-values induction up to W, over the set of those it holds of. *)
LEMMA ClimbTo ==
  ASSUME NEW W \in Nat, NEW G,
         \A n \in 0..W : (\A m \in 0..W : m < n => m \in G) => n \in G
  PROVE  \A n \in 0..W : n \in G
<1> DEFINE S == {n \in 0..W : n \notin G}
<1> SUFFICES ASSUME S # {} PROVE FALSE
  OBVIOUS
<1>1. S \in SUBSET Nat
  OBVIOUS
<1> PICK n \in S : \A m \in S : n <= m
  <2> HIDE DEF S
  <2> QED
    BY <1>1, LeastOf
<1>2. ASSUME NEW m \in 0..W, m < n PROVE m \in G
  <2>1. ~(n <= m)
    BY <1>2
  <2> QED
    BY <2>1
<1> QED
  BY <1>2

-----------------------------------------------------------------------------
(* One step of Lineage's recursion, over the function g built so far. *)

Below(lg, g, i) ==
  IF i = 0 THEN {} ELSE {i} \cup (IF lg[i].ref < i THEN g[lg[i].ref] ELSE {})

Chains(lg, n) ==
  {g \in [0..n -> SUBSET Nat] : \A i \in 0..n : g[i] = Below(lg, g, i)}

Reffed(lg) == Len(lg) \in Nat /\ \A i \in 1..Len(lg) : lg[i].ref \in Nat

LEMMA ChainsLonger ==
  ASSUME NEW lg, Reffed(lg), NEW n \in 1..Len(lg), Chains(lg, n - 1) # {}
  PROVE  Chains(lg, n) # {}
<1> PICK g \in Chains(lg, n - 1) : TRUE
  OBVIOUS
<1> DEFINE h == [i \in 0..n |-> IF i = n THEN Below(lg, g, n) ELSE g[i]]
<1>1. n \in Nat \ {0} /\ n <= Len(lg) /\ Len(lg) \in Nat
  BY DEF Reffed
<1>2. /\ \A i \in 0..(n - 1) : g[i] = Below(lg, g, i) /\ g[i] \in SUBSET Nat
      /\ \A i \in 0..n : i # n => i \in 0..(n - 1)
  BY <1>1 DEF Chains
<1>3. ASSUME NEW i \in 0..n
      PROVE  Below(lg, h, i) = Below(lg, g, i)
  <2>1. CASE i # 0 /\ lg[i].ref < i
    <3>1. lg[i].ref \in Nat
      BY <1>1, <2>1 DEF Reffed
    <3>2. lg[i].ref \in 0..n /\ lg[i].ref # n
      BY <1>1, <2>1, <3>1
    <3>3. h[lg[i].ref] = g[lg[i].ref]
      BY <3>2
    <3> HIDE DEF h
    <3> QED
      BY <3>3 DEF Below
  <2>2. CASE ~(i # 0 /\ lg[i].ref < i)
    <3> HIDE DEF h
    <3> QED
      BY <2>2 DEF Below
  <2> QED
    BY <2>1, <2>2
<1>4. Below(lg, g, n) \in SUBSET Nat
  <2>1. CASE lg[n].ref < n
    <3>1. lg[n].ref \in 0..(n - 1)
      BY <1>1, <2>1 DEF Reffed
    <3> QED
      BY <1>1, <1>2, <3>1 DEF Below
  <2>2. CASE ~(lg[n].ref < n)
    BY <1>1, <2>2 DEF Below
  <2> QED
    BY <2>1, <2>2
<1>5. h \in [0..n -> SUBSET Nat] /\ \A i \in 0..n : h[i] = Below(lg, g, i)
  BY <1>2, <1>4
<1> HIDE DEF h
<1>6. h \in Chains(lg, n)
  BY <1>3, <1>5 DEF Chains
<1> QED
  BY <1>6

LEMMA ChainsExist ==
  ASSUME NEW lg, Reffed(lg), NEW n \in 0..Len(lg)
  PROVE  Chains(lg, n) # {}
<1> DEFINE S == {m \in 0..Len(lg) : Chains(lg, m) = {}}
<1>1. SUFFICES ASSUME S # {} PROVE FALSE
  BY <1>1
<1>2. Len(lg) \in Nat
  BY DEF Reffed
<1>3. PICK m \in S : \A k \in S : m <= k
  <2>1. S \in SUBSET Nat
    BY <1>2
  <2> HIDE DEF S
  <2> QED
    BY <1>1, <2>1, LeastOf
<1>4. CASE m = 0
  <2> DEFINE g == [i \in 0..0 |-> {}]
  <2>1. g \in [0..0 -> SUBSET Nat] /\ \A i \in 0..0 : i = 0 /\ g[i] = {}
    OBVIOUS
  <2> HIDE DEF g
  <2>2. g \in Chains(lg, 0)
    BY <2>1 DEF Chains, Below
  <2> QED
    BY <1>3, <1>4, <2>2
<1>5. CASE m # 0
  <2>1. m \in 1..Len(lg) /\ m - 1 \in 0..Len(lg) /\ ~(m <= m - 1)
    BY <1>2, <1>3, <1>5
  <2>2. Chains(lg, m - 1) # {}
    BY <1>3, <2>1
  <2> QED
    BY <1>3, <2>1, <2>2, ChainsLonger
<1> QED
  BY <1>4, <1>5

(* The lineage that ends at n is n, and the lineage of its parent if that  *)
(* is below it; the root's is empty.                                       *)
LEMMA LineageIs ==
  ASSUME NEW lg, Reffed(lg)
  PROVE  /\ Lineage(lg, 0) = {}
         /\ \A n \in 1..Len(lg) :
              Lineage(lg, n) =
                {n} \cup (IF lg[n].ref < n THEN Lineage(lg, lg[n].ref) ELSE {})
<1> DEFINE L == Len(lg)
           Fits(g) == g = [i \in 0..L |-> IF i = 0 THEN {}
                             ELSE {i} \cup (IF lg[i].ref < i THEN g[lg[i].ref] ELSE {})]
           chain == CHOOSE g : Fits(g)
<1>1. \E g : Fits(g)
  <2>1. L \in 0..L
    BY DEF Reffed
  <2>2. PICK g \in Chains(lg, L) : TRUE
    BY <2>1, ChainsExist
  <2>3. g \in [0..L -> SUBSET Nat] /\ \A i \in 0..L : g[i] = Below(lg, g, i)
    BY <2>2 DEF Chains
  <2>4. Fits(g)
    BY <2>3 DEF Below
  <2> QED
    BY <2>4
<1>2. Fits(chain)
  <2> HIDE DEF Fits
  <2> QED
    BY <1>1
<1>3. \A n : Lineage(lg, n) = chain[n]
  BY DEF Lineage
<1> HIDE DEF chain
<1>4. \A n \in 0..L : chain[n] = Below(lg, chain, n)
  BY <1>2 DEF Below
<1>5. 0 \in 0..L /\ \A n \in 1..L : n \in 0..L /\ n # 0
  BY DEF Reffed
<1>6. ASSUME NEW n \in 1..L
      PROVE  Lineage(lg, n) =
               {n} \cup (IF lg[n].ref < n THEN Lineage(lg, lg[n].ref) ELSE {})
  <2>1. chain[n] = {n} \cup (IF lg[n].ref < n THEN chain[lg[n].ref] ELSE {})
    BY <1>4, <1>5 DEF Below
  <2>2. Lineage(lg, n) = chain[n] /\ Lineage(lg, lg[n].ref) = chain[lg[n].ref]
    BY <1>3
  <2> QED
    BY <2>1, <2>2
<1>7. Lineage(lg, 0) = {}
  BY <1>3, <1>4, <1>5 DEF Below
<1> QED
  BY <1>6, <1>7

LEMMA LineageOf ==
  ASSUME NEW lg, Reffed(lg), NEW n \in 1..Len(lg)
  PROVE  /\ lg[n].ref < n => Lineage(lg, n) = {n} \cup Lineage(lg, lg[n].ref)
         /\ ~(lg[n].ref < n) => Lineage(lg, n) = {n}
         /\ lg[n].ref < n => lg[n].ref \in 0..Len(lg)
<1>1. lg[n].ref \in Nat /\ Len(lg) \in Nat
  BY DEF Reffed
<1> QED
  BY <1>1, LineageIs

LEMMA LineageBelow ==
  ASSUME NEW lg, Reffed(lg), NEW n \in 0..Len(lg)
  PROVE  Lineage(lg, n) \subseteq 1..n
<1> DEFINE G == {m \in 0..Len(lg) : Lineage(lg, m) \subseteq 1..m}
<1>1. Len(lg) \in Nat
  BY DEF Reffed
<1>2. ASSUME NEW m \in 0..Len(lg), \A k \in 0..Len(lg) : k < m => k \in G
      PROVE  m \in G
  <2>1. CASE m = 0
    BY <2>1, LineageIs
  <2>2. CASE m # 0
    <3>1. m \in 1..Len(lg)
      BY <1>1, <2>2
    <3>2. CASE lg[m].ref < m
      <4>1. Lineage(lg, lg[m].ref) \subseteq 1..lg[m].ref /\ lg[m].ref \in 0..Len(lg)
        BY <1>2, <3>1, <3>2, LineageOf
      <4> QED
        BY <3>1, <3>2, <4>1, LineageOf
    <3>3. CASE ~(lg[m].ref < m)
      BY <3>1, <3>3, LineageOf
    <3> QED
      BY <3>2, <3>3
  <2> QED
    BY <2>1, <2>2
<1>3. \A m \in 0..Len(lg) : m \in G
  <2> HIDE DEF G
  <2> QED
    BY <1>1, <1>2, ClimbTo
<1> QED
  BY <1>3

(* A lineage is read from the records at and below its end: a log that     *)
(* grows changes none.                                                     *)
LEMMA LineageKept ==
  ASSUME NEW lg, Reffed(lg), NEW lh, Reffed(lh), Len(lg) <= Len(lh),
         \A i \in 1..Len(lg) : lh[i].ref = lg[i].ref,
         NEW n \in 0..Len(lg)
  PROVE  Lineage(lh, n) = Lineage(lg, n)
<1> DEFINE G == {m \in 0..Len(lg) : Lineage(lh, m) = Lineage(lg, m)}
<1>1. Len(lg) \in Nat /\ \A m \in 0..Len(lg) : m \in 0..Len(lh)
  BY DEF Reffed
<1>2. ASSUME NEW m \in 0..Len(lg), \A k \in 0..Len(lg) : k < m => k \in G
      PROVE  m \in G
  <2>1. CASE m = 0
    BY <2>1, LineageIs
  <2>2. CASE m # 0
    <3>1. m \in 1..Len(lg) /\ m \in 1..Len(lh) /\ lh[m].ref = lg[m].ref
      BY <1>1, <2>2
    <3>2. CASE lg[m].ref < m
      <4>1. Lineage(lh, lg[m].ref) = Lineage(lg, lg[m].ref)
        BY <1>2, <3>1, <3>2, LineageOf
      <4>2. Lineage(lg, m) = {m} \cup Lineage(lg, lg[m].ref)
        BY <3>1, <3>2, LineageOf
      <4>3. Lineage(lh, m) = {m} \cup Lineage(lh, lg[m].ref)
        BY <3>1, <3>2, LineageOf
      <4> QED
        BY <4>1, <4>2, <4>3
    <3>3. CASE ~(lg[m].ref < m)
      BY <3>1, <3>3, LineageOf
    <3> QED
      BY <3>2, <3>3
  <2> QED
    BY <2>1, <2>2
<1>3. \A m \in 0..Len(lg) : m \in G
  <2> HIDE DEF G
  <2> QED
    BY <1>1, <1>2, ClimbTo
<1> QED
  BY <1>3

(* Of two nodes of a lineage, the lower is on the lineage of the higher's  *)
(* parent.                                                                 *)
LEMMA LineageDescends ==
  ASSUME NEW lg, Reffed(lg), NEW n \in 0..Len(lg),
         NEW j \in Lineage(lg, n), NEW i \in Lineage(lg, n), i < j
  PROVE  lg[j].ref < j /\ i \in Lineage(lg, lg[j].ref)
<1> DEFINE Fits(m) == i \in Lineage(lg, m) /\ j \in Lineage(lg, m)
                        => lg[j].ref < j /\ i \in Lineage(lg, lg[j].ref)
           G == {m \in 0..Len(lg) : Fits(m)}
<1>1. Len(lg) \in Nat /\ i \in Nat /\ j \in Nat
  BY LineageBelow DEF Reffed
<1>2. ASSUME NEW m \in 0..Len(lg), \A k \in 0..Len(lg) : k < m => k \in G,
             i \in Lineage(lg, m), j \in Lineage(lg, m)
      PROVE  lg[j].ref < j /\ i \in Lineage(lg, lg[j].ref)
  <2>1. m \in 1..Len(lg) /\ m \in 0..Len(lg) /\ j \in 1..m /\ i \in 1..m
    <3>1. j \in 1..m /\ i \in 1..m
      BY <1>2, LineageBelow
    <3> QED
      BY <1>1, <3>1
  <2>2. i # m
    BY <2>1
  <2>3. lg[m].ref < m /\ i \in Lineage(lg, lg[m].ref) /\ lg[m].ref \in 0..Len(lg)
    BY <1>2, <2>1, <2>2, LineageOf
  <2>4. CASE j = m
    BY <2>3, <2>4
  <2>5. CASE j # m
    <3>1. j \in Lineage(lg, lg[m].ref)
      BY <1>2, <2>1, <2>3, <2>5, LineageOf
    <3> QED
      BY <1>2, <2>3, <3>1
  <2> QED
    BY <2>4, <2>5
<1>3. \A m \in 0..Len(lg) : m \in G
  <2>1. ASSUME NEW m \in 0..Len(lg), \A k \in 0..Len(lg) : k < m => k \in G
        PROVE  m \in G
    BY <1>2, <2>1
  <2> HIDE DEF G
  <2> QED
    BY <1>1, <2>1, ClimbTo
<1> QED
  BY <1>3

(* Where parents stay within a set of nodes, so do lineages. *)
LEMMA LineageWithin ==
  ASSUME NEW lg, Reffed(lg), NEW S, \A i \in S : lg[i].ref \in {0} \cup S,
         NEW n \in 0..Len(lg), n \in {0} \cup S
  PROVE  Lineage(lg, n) \subseteq S
<1> DEFINE G == {m \in 0..Len(lg) : m \in {0} \cup S => Lineage(lg, m) \subseteq S}
<1>1. Len(lg) \in Nat
  BY DEF Reffed
<1>2. ASSUME NEW m \in 0..Len(lg), \A k \in 0..Len(lg) : k < m => k \in G
      PROVE  m \in G
  <2>1. CASE m = 0
    BY <2>1, LineageIs
  <2>2. CASE m \in S /\ m # 0
    <3>1. m \in 1..Len(lg) /\ lg[m].ref \in {0} \cup S
      BY <1>1, <2>2
    <3>2. CASE lg[m].ref < m
      <4>1. lg[m].ref \in G /\ lg[m].ref \in {0} \cup S
        <5>1. lg[m].ref \in 0..Len(lg)
          BY <3>1, <3>2, LineageOf
        <5> HIDE DEF G
        <5> QED
          BY <1>2, <3>1, <3>2, <5>1
      <4> QED
        BY <2>2, <3>1, <3>2, <4>1, LineageOf
    <3>3. CASE ~(lg[m].ref < m)
      BY <2>2, <3>1, <3>3, LineageOf
    <3> QED
      BY <3>2, <3>3
  <2> QED
    BY <2>1, <2>2
<1>3. \A m \in 0..Len(lg) : m \in G
  <2> HIDE DEF G
  <2> QED
    BY <1>1, <1>2, ClimbTo
<1> QED
  BY <1>3

(* A node's lineage holds the lineage of each of its nodes. *)
LEMMA LineageNests ==
  ASSUME NEW lg, Reffed(lg), NEW n \in 0..Len(lg), NEW m \in Lineage(lg, n)
  PROVE  Lineage(lg, m) \subseteq Lineage(lg, n)
<1>1. m \in 1..n /\ m \in 1..Len(lg) /\ m \in 0..Len(lg) /\ Len(lg) \in Nat
  BY LineageBelow DEF Reffed
<1>2. SUFFICES ASSUME NEW i \in Lineage(lg, m) PROVE i \in Lineage(lg, n)
  OBVIOUS
<1> DEFINE G == {k \in 0..Len(lg) : m \in Lineage(lg, k) => i \in Lineage(lg, k)}
<1>3. ASSUME NEW k \in 0..Len(lg), \A j \in 0..Len(lg) : j < k => j \in G
      PROVE  k \in G
  <2>1. CASE m \in Lineage(lg, k) /\ k # m
    <3>1. k \in 1..Len(lg)
      BY <1>1, <2>1, LineageIs
    <3>2. lg[k].ref < k /\ m \in Lineage(lg, lg[k].ref) /\ lg[k].ref \in 0..Len(lg)
      BY <2>1, <3>1, LineageOf
    <3>3. i \in Lineage(lg, lg[k].ref)
      BY <1>3, <3>2
    <3> QED
      BY <3>1, <3>2, <3>3, LineageOf
  <2>2. CASE ~(m \in Lineage(lg, k) /\ k # m)
    BY <1>2, <2>2
  <2> QED
    BY <2>1, <2>2
<1>4. \A k \in 0..Len(lg) : k \in G
  <2> HIDE DEF G
  <2> QED
    BY <1>1, <1>3, ClimbTo
<1> QED
  BY <1>4

(* What a lineage commits. *)
LEMMA CommittedIs ==
  ASSUME NEW lg, Reffed(lg)
  PROVE  /\ CommittedOn(lg, 0) = {}
         /\ \A n \in 1..Len(lg) : lg[n].ref < n =>
              CommittedOn(lg, n) = lg[n].values \cup CommittedOn(lg, lg[n].ref)
<1>1. CommittedOn(lg, 0) = {}
  BY LineageIs DEF CommittedOn
<1>2. ASSUME NEW n \in 1..Len(lg), lg[n].ref < n
      PROVE  CommittedOn(lg, n) = lg[n].values \cup CommittedOn(lg, lg[n].ref)
  BY <1>2, LineageOf DEF CommittedOn
<1> QED
  BY <1>1, <1>2

LEMMA CommittedKept ==
  ASSUME NEW lg, Reffed(lg), NEW lh, Reffed(lh), Len(lg) <= Len(lh),
         \A i \in 1..Len(lg) : lh[i] = lg[i], NEW n \in 0..Len(lg)
  PROVE  CommittedOn(lh, n) = CommittedOn(lg, n)
<1>1. Lineage(lh, n) = Lineage(lg, n)
  BY LineageKept
<1>2. \A i \in Lineage(lg, n) : i \in 1..Len(lg)
  BY LineageBelow DEF Reffed
<1> QED
  BY <1>1, <1>2 DEF CommittedOn

-----------------------------------------------------------------------------
(* A claim's position, and its head once its records read, are one.        *)

LEMMA OnePosition ==
  ASSUME NEW lg, NEW c \in Nat, NEW i \in Nat, NEW p, NEW q,
         IsPosition(lg, c, i, p), IsPosition(lg, c, i, q)
  PROVE  p = q
<1>1. \A j \in Positions(lg, c, i) : j \in Nat
  BY DEF Positions
<1> PICK j \in Positions(lg, c, i) :
      /\ \A k \in Positions(lg, c, i) : k <= j
      /\ p = (IF lg[j].topic = "commit" THEN j ELSE lg[j].ref)
  BY DEF IsPosition
<1> PICK l \in Positions(lg, c, i) :
      /\ \A k \in Positions(lg, c, i) : k <= l
      /\ q = (IF lg[l].topic = "commit" THEN l ELSE lg[l].ref)
  BY DEF IsPosition
<1>2. j = l
  BY <1>1
<1> QED
  BY <1>2

LEMMA OneHead ==
  ASSUME NEW lg, NEW W \in Nat, NEW c \in Claims(lg, W), HeadReadable(lg, c, W),
         NEW m, IsHead(lg, c, W, m), NEW n, IsHead(lg, c, W, n)
  PROVE  m = n
<1>1. c \in Nat /\ W + 1 \in Nat
  BY DEF Claims
<1>2. CASE HasExit(lg, c, W)
  <2> DEFINE own == {i \in (c + 1)..W : OwnedBy(lg[i], c)}
  <2>1. \A i \in {m, n} : i \in own /\ lg[i].topic = "stopped"
    BY <1>2 DEF IsHead, Endings, OwnedBy
  <2>2. \A i, j \in own : i < j => lg[i].topic # "stopped"
    BY DEF HeadReadable
  <2>3. \A i \in own : i \in Nat
    BY <1>1
  <2> QED
    BY <2>1, <2>2, <2>3
<1>3. CASE ~HasExit(lg, c, W)
  BY <1>1, <1>3, OnePosition DEF IsHead
<1> QED
  BY <1>2, <1>3
=============================================================================
