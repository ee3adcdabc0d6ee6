------------------------- MODULE Observers_proofs -------------------------
(***************************************************************************)
(* Proofs about modules Observers and Watchers, for every log that anybody *)
(* may have written and every bound on its length: what the held head is,  *)
(* which way a verdict moves, what a waiting client is told, what the held *)
(* answers of a subscription are, and what a witness of a run knows.       *)
(***************************************************************************)
EXTENDS Watchers, RunLog_proofs, FiniteSetTheorems

-----------------------------------------------------------------------------
(* The log is a sequence, whatever is written on it.                       *)

IsLog(lg) == lg \in Seq({lg[i] : i \in 1..Len(lg)}) /\ Len(lg) \in Nat

LogInv == IsLog(log)

LEMMA AppendKeeps ==
  ASSUME NEW lg, IsLog(lg), NEW e
  PROVE  LET more == Append(lg, e)
         IN  /\ IsLog(more) /\ Len(more) = Len(lg) + 1
             /\ \A i \in 1..Len(lg) : more[i] = lg[i]
             /\ more[Len(lg) + 1] = e
<1> DEFINE S == {lg[i] : i \in 1..Len(lg)}
           more == Append(lg, e)
           T == {more[i] : i \in 1..Len(more)}
<1>0. Len(lg) \in Nat
  BY DEF IsLog
<1>1. lg \in Seq(S \cup {e})
  <2>1. lg \in Seq(S)
    BY DEF IsLog
  <2> HIDE DEF S
  <2> QED
    BY <2>1
<1>2. /\ more \in Seq(S \cup {e}) /\ Len(more) = Len(lg) + 1
      /\ \A i \in 1..Len(lg) : more[i] = lg[i]
      /\ more[Len(lg) + 1] = e
  <2> HIDE DEF S
  <2> QED
    BY <1>0, <1>1
<1> HIDE DEF more
<1>3. S \cup {e} = T
  <2>1. ASSUME NEW x \in S PROVE x \in T
    BY <1>0, <1>2
  <2>2. e \in T
    BY <1>0, <1>2
  <2>3. ASSUME NEW i \in 1..Len(more) PROVE more[i] \in S \cup {e}
    <3>1. CASE i = Len(lg) + 1
      BY <1>0, <1>2, <3>1
    <3>2. CASE i # Len(lg) + 1
      BY <1>0, <1>2, <3>2
    <3> QED
      BY <3>1, <3>2
  <2> QED
    BY <2>1, <2>2, <2>3
<1>4. more \in Seq(T)
  <2> HIDE DEF S, T
  <2> QED
    BY <1>2, <1>3
<1> QED
  BY <1>0, <1>2, <1>4 DEF more, IsLog, T

(* A log and what it was: the same records, and maybe more.                *)
Grows(lg, more) ==
  /\ Len(lg) \in Nat /\ Len(more) \in Nat /\ Len(lg) <= Len(more)
  /\ \A i \in 1..Len(lg) : more[i] = lg[i]

HeadOver(lg, h, lo, hi) == Applied(LAMBDA x, i : ApplyHead(lg, x, i), h, lo, hi)

-----------------------------------------------------------------------------
(* What the head fold computes, one record at a time.                      *)

IsFold(f, lg, h, lo, hi) ==
  f = [i \in lo..hi |-> IF i = lo THEN h ELSE ApplyHead(lg, f[i - 1], i)]

(* A fold exists, be it the head's or a witness's.                         *)
Reading(reader, lg, x, i) ==
  IF reader = "head" THEN ApplyHead(lg, x, i) ELSE Witness(lg, x, i)

IsRun(reader, f, lg, h, lo, hi) ==
  f = [i \in lo..hi |-> IF i = lo THEN h ELSE Reading(reader, lg, f[i - 1], i)]

LEMMA RunLonger ==
  ASSUME NEW reader, NEW lg, NEW h, NEW lo \in Nat, NEW hi \in Nat, lo < hi,
         NEW f, IsRun(reader, f, lg, h, lo, hi - 1)
  PROVE  \E g : IsRun(reader, g, lg, h, lo, hi)
<1> DEFINE g == [i \in lo..hi |-> IF i = hi THEN Reading(reader, lg, f[hi - 1], hi) ELSE f[i]]
<1>1. ASSUME NEW i \in lo..hi
      PROVE  g[i] = IF i = lo THEN h ELSE Reading(reader, lg, g[i - 1], i)
  <2>1. CASE i = lo
    <3>1. i \in lo..(hi - 1) /\ i # hi
      BY <2>1
    <3>2. f[i] = h
      BY <2>1, <3>1 DEF IsRun
    <3> QED
      BY <2>1, <3>1, <3>2
  <2>2. CASE i # lo
    <3>1. i - 1 \in lo..hi /\ i - 1 # hi /\ i - 1 \in lo..(hi - 1)
      BY <2>2
    <3>2. g[i - 1] = f[i - 1]
      BY <3>1
    <3>3. i # hi => i \in lo..(hi - 1) /\ f[i] = Reading(reader, lg, f[i - 1], i)
      BY <2>2 DEF IsRun
    <3>4. g[i] = IF i = hi THEN Reading(reader, lg, f[hi - 1], hi) ELSE f[i]
      OBVIOUS
    <3> HIDE DEF g
    <3> QED
      BY <2>2, <3>2, <3>3, <3>4
  <2> QED
    BY <2>1, <2>2
<1>2. g = [i \in lo..hi |-> g[i]]
  OBVIOUS
<1> HIDE DEF g
<1>3. IsRun(reader, g, lg, h, lo, hi)
  BY <1>1, <1>2 DEF IsRun
<1> QED
  BY <1>3

LEMMA RunExists ==
  ASSUME NEW reader, NEW lg, NEW h, NEW lo \in Nat, NEW hi \in Nat, lo <= hi
  PROVE  \E f : IsRun(reader, f, lg, h, lo, hi)
<1> DEFINE G == {n \in 0..hi : lo <= n => \E f : IsRun(reader, f, lg, h, lo, n)}
<1>1. ASSUME NEW n \in 0..hi, \A m \in 0..hi : m < n => m \in G
      PROVE  n \in G
  <2>1. CASE n = lo
    <3> DEFINE f == [i \in lo..lo |-> h]
    <3>1. f = [i \in lo..lo |-> IF i = lo THEN h ELSE Reading(reader, lg, f[i - 1], i)]
      OBVIOUS
    <3> HIDE DEF f
    <3>2. IsRun(reader, f, lg, h, lo, n)
      BY <2>1, <3>1 DEF IsRun
    <3> QED
      BY <3>2
  <2>2. CASE n < lo
    BY <2>2
  <2>3. CASE lo < n
    <3>1. n - 1 \in 0..hi /\ n - 1 < n /\ lo <= n - 1
      BY <2>3
    <3>2. PICK f : IsRun(reader, f, lg, h, lo, n - 1)
      BY <1>1, <3>1
    <3> QED
      BY <2>3, <3>2, RunLonger
  <2> QED
    BY <2>1, <2>2, <2>3
<1>2. hi \in G
  <2> HIDE DEF G
  <2> QED
    BY <1>1, ClimbTo
<1> QED
  BY <1>2

LEMMA FoldExists ==
  ASSUME NEW lg, NEW h, NEW lo \in Nat, NEW hi \in Nat, lo <= hi
  PROVE  \E f : IsFold(f, lg, h, lo, hi)
<1>1. PICK f : IsRun("head", f, lg, h, lo, hi)
  BY RunExists
<1>2. IsFold(f, lg, h, lo, hi)
  BY <1>1 DEF IsRun, IsFold, Reading
<1> QED
  BY <1>2

LEMMA FoldsAgree ==
  ASSUME NEW lg, NEW h, NEW lo \in Nat, NEW m \in Nat, NEW n \in Nat, lo <= m, m <= n,
         NEW f, IsFold(f, lg, h, lo, m), NEW g, IsFold(g, lg, h, lo, n)
  PROVE  f[m] = g[m]
<1> DEFINE G == {i \in 0..m : lo <= i => f[i] = g[i]}
<1>1. ASSUME NEW i \in 0..m, \A j \in 0..m : j < i => j \in G
      PROVE  i \in G
  <2>1. CASE lo < i
    <3>1. f[i - 1] = g[i - 1] /\ i # lo /\ i \in lo..m /\ i \in lo..n
      BY <1>1, <2>1
    <3>2. f[i] = ApplyHead(lg, f[i - 1], i) /\ g[i] = ApplyHead(lg, g[i - 1], i)
      BY <3>1, Zenon DEF IsFold
    <3> QED
      BY <3>1, <3>2
  <2>2. CASE i = lo
    BY <2>2 DEF IsFold
  <2>3. CASE i < lo
    BY <2>3
  <2> QED
    BY <2>1, <2>2, <2>3
<1>2. m \in G
  <2> HIDE DEF G
  <2> QED
    BY <1>1, ClimbTo
<1> QED
  BY <1>2

LEMMA HeadOverIs ==
  ASSUME NEW lg, NEW h, NEW lo \in Nat, NEW hi \in Nat, lo < hi
  PROVE  \E f : IsFold(f, lg, h, lo, hi) /\ HeadOver(lg, h, lo, hi) = f[hi]
<1>0. lo <= hi
  OBVIOUS
<1>1. \E f : IsFold(f, lg, h, lo, hi)
  BY <1>0, FoldExists, Zenon
<1> DEFINE after == CHOOSE f : IsFold(f, lg, h, lo, hi)
<1>3. IsFold(after, lg, h, lo, hi)
  BY <1>1, Zenon
<1>2. HeadOver(lg, h, lo, hi) = after[hi]
  BY DEF HeadOver, Applied, IsFold
<1> QED
  BY <1>2, <1>3

LEMMA HeadOverNone ==
  ASSUME NEW lg, NEW h, NEW lo \in Nat, NEW hi \in Nat, hi <= lo
  PROVE  HeadOver(lg, h, lo, hi) = h
BY DEF HeadOver, Applied

LEMMA HeadOverNext ==
  ASSUME NEW lg, NEW h, NEW lo \in Nat, NEW hi \in Nat, lo < hi
  PROVE  HeadOver(lg, h, lo, hi) = ApplyHead(lg, HeadOver(lg, h, lo, hi - 1), hi)
<1>1. PICK f : IsFold(f, lg, h, lo, hi) /\ HeadOver(lg, h, lo, hi) = f[hi]
  BY HeadOverIs
<1>2. f[hi] = ApplyHead(lg, f[hi - 1], hi)
  BY <1>1 DEF IsFold
<1>3. CASE hi - 1 = lo
  <2>1. f[lo] = h
    BY <1>1 DEF IsFold
  <2>2. HeadOver(lg, h, lo, hi - 1) = h
    BY <1>3, HeadOverNone
  <2> QED
    BY <1>1, <1>2, <1>3, <2>1, <2>2
<1>4. CASE hi - 1 # lo
  <2>1. lo < hi - 1 /\ hi - 1 \in Nat /\ hi - 1 <= hi
    BY <1>4
  <2>2. PICK g : IsFold(g, lg, h, lo, hi - 1) /\ HeadOver(lg, h, lo, hi - 1) = g[hi - 1]
    BY <2>1, HeadOverIs
  <2>3. g[hi - 1] = f[hi - 1]
    BY <1>1, <2>1, <2>2, FoldsAgree
  <2> QED
    BY <1>1, <1>2, <2>2, <2>3
<1> QED
  BY <1>3, <1>4

LEMMA HeadOverFrom ==
  ASSUME NEW lg, NEW h, NEW lo \in Nat, NEW mid \in Nat, NEW hi \in Nat,
         lo <= mid, mid <= hi
  PROVE  HeadOver(lg, HeadOver(lg, h, lo, mid), mid, hi) = HeadOver(lg, h, lo, hi)
<1> DEFINE k == HeadOver(lg, h, lo, mid)
           G == {n \in 0..hi : mid <= n => HeadOver(lg, k, mid, n) = HeadOver(lg, h, lo, n)}
<1>1. ASSUME NEW n \in 0..hi, \A m \in 0..hi : m < n => m \in G
      PROVE  n \in G
  <2>1. CASE mid < n
    <3>1. n - 1 \in 0..hi /\ n - 1 < n /\ mid <= n - 1 /\ lo < n
      BY <2>1
    <3>2. HeadOver(lg, k, mid, n - 1) = HeadOver(lg, h, lo, n - 1)
      BY <1>1, <3>1
    <3>3. /\ HeadOver(lg, k, mid, n) = ApplyHead(lg, HeadOver(lg, k, mid, n - 1), n)
          /\ HeadOver(lg, h, lo, n) = ApplyHead(lg, HeadOver(lg, h, lo, n - 1), n)
      <4> HIDE DEF k
      <4> QED
        BY <2>1, <3>1, HeadOverNext
    <3> QED
      BY <3>2, <3>3
  <2>2. CASE n = mid
    BY <2>2, HeadOverNone
  <2>3. CASE n < mid
    BY <2>3
  <2> QED
    BY <2>1, <2>2, <2>3
<1>2. hi \in G
  <2> HIDE DEF G
  <2> QED
    BY <1>1, ClimbTo
<1> QED
  BY <1>2

(* A record's effect on the fold depends on nothing above it.              *)
LEMMA ApplyHeadGrows ==
  ASSUME NEW lg, NEW more, Grows(lg, more), NEW h, NEW i \in 1..Len(lg)
  PROVE  ApplyHead(more, h, i) = ApplyHead(lg, h, i)
<1>1. more[i] = lg[i] /\ i \in Nat
  BY DEF Grows
<1>2. Extendable(more, i - 1) = Extendable(lg, i - 1)
  <2>1. \A j \in 1..(i - 1) : j \in 1..Len(lg) /\ more[j] = lg[j]
    BY DEF Grows
  <2> QED
    BY <2>1, Zenon DEF Extendable
<1>3. BadReference(more, i) = BadReference(lg, i)
  BY <1>1, <1>2, Zenon DEF BadReference
<1>4. Refuses(more, h, i) = Refuses(lg, h, i)
  BY <1>1, <1>3, Zenon DEF Refuses
<1>5. ClaimHead(more, i) = ClaimHead(lg, i)
  BY <1>1, <1>3, Zenon DEF ClaimHead
<1> QED
  BY <1>1, <1>4, <1>5 DEF ApplyHead

LEMMA HeadOverGrows ==
  ASSUME NEW lg, NEW more, Grows(lg, more), NEW h, NEW lo \in Nat, NEW hi \in 0..Len(lg)
  PROVE  HeadOver(more, h, lo, hi) = HeadOver(lg, h, lo, hi)
<1> DEFINE G == {n \in 0..hi : HeadOver(more, h, lo, n) = HeadOver(lg, h, lo, n)}
<1>1. ASSUME NEW n \in 0..hi, \A m \in 0..hi : m < n => m \in G
      PROVE  n \in G
  <2>1. CASE lo < n
    <3>1. n - 1 \in 0..hi /\ n - 1 < n /\ n \in 1..Len(lg) /\ n \in Nat
      BY <2>1 DEF Grows
    <3>2. HeadOver(more, h, lo, n - 1) = HeadOver(lg, h, lo, n - 1)
      BY <1>1, <3>1
    <3>3. \A l \in {lg, more} : HeadOver(l, h, lo, n) = ApplyHead(l, HeadOver(l, h, lo, n - 1), n)
      BY <2>1, <3>1, HeadOverNext
    <3> QED
      BY <3>1, <3>2, <3>3, ApplyHeadGrows
  <2>2. CASE ~(lo < n)
    BY <2>2, HeadOverNone
  <2> QED
    BY <2>1, <2>2
<1>2. hi \in G
  <2>1. hi \in Nat
    BY DEF Grows
  <2> HIDE DEF G
  <2> QED
    BY <1>1, <2>1, ClimbTo
<1> QED
  BY <1>2

(* The head of a log as far as w: what is below its newest claim is lost. *)
HeadAt(lg, w) == HeadOver(lg, NoHead, 0, w)

LEMMA ClaimResets ==
  ASSUME NEW lg, NEW h, NEW i, lg[i].topic = "started"
  PROVE  ApplyHead(lg, h, i) = ClaimHead(lg, i)
BY DEF ApplyHead, OwnedBy

LEMMA NoClaimNoHead ==
  ASSUME NEW lg, NEW w \in Nat, Claims(lg, w) = {}
  PROVE  HeadAt(lg, w) = NoHead
<1> DEFINE G == {n \in 0..w : HeadAt(lg, n) = NoHead}
<1>1. ASSUME NEW n \in 0..w, \A m \in 0..w : m < n => m \in G
      PROVE  n \in G
  <2>1. CASE n = 0
    BY <2>1, HeadOverNone DEF HeadAt
  <2>2. CASE n # 0
    <3>1. n - 1 \in 0..w /\ n - 1 < n /\ n \in Nat /\ 0 < n
      BY <2>2
    <3>2. HeadAt(lg, n) = ApplyHead(lg, NoHead, n)
      BY <1>1, <3>1, HeadOverNext DEF HeadAt
    <3>3. lg[n].topic # "started"
      BY <3>1 DEF Claims
    <3> QED
      BY <3>2, <3>3 DEF ApplyHead, NoHead
  <2> QED
    BY <2>1, <2>2
<1>2. w \in G
  <2> HIDE DEF G
  <2> QED
    BY <1>1, ClimbTo
<1> QED
  BY <1>2

LEMMA FromNewestClaim ==
  ASSUME NEW lg, NEW w \in Nat, NEW c \in 1..w, lg[c].topic = "started", NEW h
  PROVE  HeadOver(lg, h, c - 1, w) = HeadAt(lg, w)
<1>1. c - 1 \in Nat /\ c - 1 < c /\ c \in Nat /\ 0 <= c - 1 /\ c <= w /\ c - 1 <= w /\ 0 < c
  OBVIOUS
<1>2. HeadOver(lg, h, c - 1, c) = ClaimHead(lg, c)
  <2>1. HeadOver(lg, h, c - 1, c) = ApplyHead(lg, HeadOver(lg, h, c - 1, c - 1), c)
    BY <1>1, HeadOverNext
  <2> QED
    BY <2>1, ClaimResets
<1>3. HeadAt(lg, c) = ClaimHead(lg, c)
  <2>1. HeadAt(lg, c) = ApplyHead(lg, HeadOver(lg, NoHead, 0, c - 1), c)
    BY <1>1, HeadOverNext DEF HeadAt
  <2> QED
    BY <2>1, ClaimResets
<1>4. HeadOver(lg, h, c - 1, w) = HeadOver(lg, HeadOver(lg, h, c - 1, c), c, w)
  BY <1>1, HeadOverFrom
<1>5. HeadAt(lg, w) = HeadOver(lg, HeadAt(lg, c), c, w)
  BY <1>1, HeadOverFrom DEF HeadAt
<1> QED
  BY <1>2, <1>3, <1>4, <1>5

LEMMA GreatestOf ==
  ASSUME NEW w \in Nat, NEW S \in SUBSET (0..w), S # {}
  PROVE  NewestIn(S) \in S /\ \A j \in S : j <= NewestIn(S)
<1> DEFINE Bounds == {b \in Nat : \A x \in S : x <= b}
<1>1. Bounds \in SUBSET Nat /\ w \in Bounds
  OBVIOUS
<1>2. PICK b \in Bounds : \A c \in Bounds : b <= c
  <2> HIDE DEF Bounds
  <2> QED
    BY <1>1, LeastOf
<1>3. ASSUME b \notin S PROVE FALSE
  <2>1. \A x \in S : x < b
    BY <1>2, <1>3
  <2>2. PICK x \in S : x < b
    BY <2>1
  <2>3. b - 1 \in Nat /\ \A y \in S : y <= b - 1
    BY <1>2, <2>1, <2>2
  <2> QED
    BY <1>2, <2>3
<1>4. \E i \in S : \A j \in S : j <= i
  BY <1>2, <1>3
<1> QED
  BY <1>4, Zenon DEF NewestIn

LEMMA NewestClaim ==
  ASSUME NEW lg, NEW w \in Nat, Claims(lg, w) # {}
  PROVE  /\ NewestIn(Claims(lg, w)) \in 1..w
         /\ lg[NewestIn(Claims(lg, w))].topic = "started"
         /\ \A d \in Claims(lg, w) : d <= NewestIn(Claims(lg, w))
<1>1. Claims(lg, w) \in SUBSET (0..w)
  BY DEF Claims
<1>2. NewestIn(Claims(lg, w)) \in Claims(lg, w)
  BY <1>1, GreatestOf
<1>3. \A d \in Claims(lg, w) : d <= NewestIn(Claims(lg, w))
  BY <1>1, GreatestOf
<1> QED
  BY <1>2, <1>3 DEF Claims

-----------------------------------------------------------------------------
(* The fold over the newest claim's records, and what a head is.           *)

(* What claim c's records up to n say, and the fold over them.             *)
Tells(lg, c, n, h) ==
  /\ h.claim = c /\ h.error \in BOOLEAN
  /\ h.error <=> ~HeadReadable(lg, c, n)
  /\ h.error => h.position = 0 /\ h.exit = 0
  /\ ~h.error =>
       /\ IsPosition(lg, c, n + 1, h.position)
       /\ IF h.exit = 0 THEN ~HasExit(lg, c, n)
          ELSE h.exit \in Endings(lg, c, n) /\ lg[h.exit].topic = "stopped" /\ Readable(lg[h.exit])

LEMMA ClaimTells ==
  ASSUME NEW lg, NEW c \in Nat \ {0}, lg[c].topic = "started"
  PROVE  Tells(lg, c, c, ClaimHead(lg, c))
<1>1. /\ {i \in (c + 1)..c : OwnedBy(lg[i], c)} = {} /\ Positions(lg, c, c + 1) = {c}
      /\ Endings(lg, c, c) = {}
  BY DEF Positions, Endings
<1>2. HeadReadable(lg, c, c) <=> Readable(lg[c]) /\ ~BadReference(lg, c)
  BY <1>1 DEF HeadReadable
<1>3. IsPosition(lg, c, c + 1, lg[c].ref)
  BY <1>1 DEF IsPosition
<1>4. ~HasExit(lg, c, c)
  BY <1>1 DEF HasExit
<1> QED
  BY <1>2, <1>3, <1>4 DEF Tells, ClaimHead, HeadRaises, NoHead

(* A record that is not the claim's changes nothing of what it says.       *)
LEMMA OthersTell ==
  ASSUME NEW lg, NEW c \in Nat \ {0}, NEW i \in Nat, c < i, NEW h,
         Tells(lg, c, i - 1, h), ~OwnedBy(lg[i], c)
  PROVE  Tells(lg, c, i, h)
<1>1. \A j : j \in (c + 1)..i <=> j \in (c + 1)..(i - 1) \/ j = i
  OBVIOUS
<1>2. {j \in (c + 1)..i : OwnedBy(lg[j], c)} = {j \in (c + 1)..(i - 1) : OwnedBy(lg[j], c)}
  BY <1>1
<1>3. HeadReadable(lg, c, i) <=> HeadReadable(lg, c, i - 1)
  BY <1>2, Zenon DEF HeadReadable
<1>4. Positions(lg, c, i + 1) = Positions(lg, c, i)
  BY DEF Positions, OwnedBy
<1>5. \A p : IsPosition(lg, c, i + 1, p) <=> IsPosition(lg, c, i, p)
  BY <1>4, Zenon DEF IsPosition
<1>6. HasExit(lg, c, i) <=> HasExit(lg, c, i - 1)
  BY <1>1 DEF HasExit, Endings, OwnedBy
<1>7. Endings(lg, c, i - 1) \subseteq Endings(lg, c, i)
  BY DEF Endings
<1>8. i - 1 + 1 = i
  OBVIOUS
<1> QED
  BY <1>3, <1>5, <1>6, <1>7, <1>8 DEF Tells

LEMMA OwnTells ==
  ASSUME NEW lg, NEW c \in Nat \ {0}, NEW i \in Nat, c < i, NEW h,
         Tells(lg, c, i - 1, h), OwnedBy(lg[i], c), ~h.error,
         h = [claim |-> h.claim, position |-> h.position, exit |-> h.exit, error |-> h.error],
         h.exit \in Nat
  PROVE  LET k == IF Refuses(lg, h, i) THEN HeadRaises(c)
                  ELSE CASE lg[i].topic = "rewind"  -> [h EXCEPT !.position = lg[i].ref]
                         [] lg[i].topic = "commit"  -> [h EXCEPT !.position = i]
                         [] lg[i].topic = "stopped" -> [h EXCEPT !.exit = i]
         IN  Tells(lg, c, i, k)
<1> DEFINE e == lg[i]
           own(n) == {j \in (c + 1)..n : OwnedBy(lg[j], c)}
<1>1. own(i) = own(i - 1) \cup {i} /\ i \notin own(i - 1) /\ \A j \in own(i - 1) : j < i
  OBVIOUS
<1>2. e.topic \in {"commit", "rewind", "stopped"} /\ e.claim = c /\ (e.topic = "stopped" => Readable(e))
  BY DEF OwnedBy
<1>3. (h.exit # 0) <=> \E j \in own(i - 1) : lg[j].topic = "stopped"
  BY DEF Tells, HasExit, Endings, OwnedBy
<1>4. \A p : IsPosition(lg, c, i, p) <=> p = h.position
  <2>1. IsPosition(lg, c, i, h.position)
    <3>1. i - 1 + 1 = i
      OBVIOUS
    <3> QED
      BY <3>1 DEF Tells
  <2> QED
    BY <2>1, OnePosition
<1>5. HeadReadable(lg, c, i) <=> ~Refuses(lg, h, i)
  <2> DEFINE Fine(n) == /\ \A k \in {c} \cup own(n) : Readable(lg[k])
                        /\ \A k \in {c} \cup {j \in own(n) : lg[j].topic = "rewind"} : ~BadReference(lg, k)
                        /\ \A k \in own(n) : lg[k].topic # "rewind" => IsPosition(lg, c, k, lg[k].ref)
                        /\ \A k, j \in own(n) : k < j => lg[k].topic # "stopped"
  <2>1. Fine(i - 1) /\ (HeadReadable(lg, c, i) <=> Fine(i))
    BY DEF Tells, HeadReadable
  <2>2. Refuses(lg, h, i) <=>
          \/ \E j \in own(i - 1) : lg[j].topic = "stopped"
          \/ ~Readable(e)
          \/ e.topic = "rewind" /\ BadReference(lg, i)
          \/ e.topic # "rewind" /\ ~IsPosition(lg, c, i, e.ref)
    BY <1>3, <1>4 DEF Refuses
  <2>3. \A j \in own(i - 1) : j \in Nat
    OBVIOUS
  <2> HIDE DEF own
  <2>4. Fine(i) <=>
          /\ Readable(e)
          /\ e.topic = "rewind" => ~BadReference(lg, i)
          /\ e.topic # "rewind" => IsPosition(lg, c, i, e.ref)
          /\ \A j \in own(i - 1) : lg[j].topic # "stopped"
    BY <1>1, <2>1, <2>3
  <2> QED
    BY <2>1, <2>2, <2>4
<1>6. Positions(lg, c, i + 1) =
        Positions(lg, c, i) \cup (IF e.topic = "stopped" THEN {} ELSE {i})
  BY <1>2 DEF Positions
<1>7. CASE Refuses(lg, h, i)
  BY <1>5, <1>7 DEF Tells, HeadRaises, NoHead
<1>8. CASE ~Refuses(lg, h, i) /\ e.topic = "stopped"
  <2>1. \A p : IsPosition(lg, c, i + 1, p) <=> IsPosition(lg, c, i, p)
    BY <1>6, <1>8 DEF IsPosition
  <2>2. i \in Endings(lg, c, i)
    BY <1>2, <1>8 DEF Endings
  <2>3. [h EXCEPT !.exit = i] =
          [claim |-> c, position |-> h.position, exit |-> i, error |-> FALSE]
    <3>1. h.claim = c /\ h.error = FALSE
      BY DEF Tells
    <3>2. [h EXCEPT !.exit = i] =
            [claim |-> h.claim, position |-> h.position, exit |-> i, error |-> h.error]
      OBVIOUS
    <3> QED
      BY <3>1, <3>2
  <2> QED
    BY <1>2, <1>4, <1>5, <1>8, <2>1, <2>2, <2>3 DEF Tells
<1>9. CASE ~Refuses(lg, h, i) /\ e.topic # "stopped"
  <2> DEFINE p == IF e.topic = "commit" THEN i ELSE e.ref
  <2>1. IsPosition(lg, c, i + 1, p)
    <3>1. i \in Positions(lg, c, i + 1) /\ \A k \in Positions(lg, c, i + 1) : k <= i
      BY <1>6, <1>9 DEF Positions
    <3> QED
      BY <3>1 DEF IsPosition
  <2>2. h.exit = 0 /\ ~HasExit(lg, c, i)
    <3>1. h.exit = 0
      BY <1>9 DEF Refuses
    <3>2. \A j \in own(i) : lg[j].topic # "stopped"
      BY <1>1, <1>3, <1>9, <3>1
    <3> QED
      BY <3>1, <3>2 DEF HasExit, Endings, OwnedBy
  <2>3. [h EXCEPT !.position = p] =
          [claim |-> c, position |-> p, exit |-> 0, error |-> FALSE]
    <3>1. h.claim = c /\ h.error = FALSE
      BY DEF Tells
    <3>2. [h EXCEPT !.position = p] =
            [claim |-> h.claim, position |-> p, exit |-> h.exit, error |-> h.error]
      OBVIOUS
    <3> QED
      BY <2>2, <3>1, <3>2
  <2>4. Tells(lg, c, i, [h EXCEPT !.position = p])
    BY <1>5, <1>9, <2>1, <2>2, <2>3 DEF Tells
  <2> QED
    BY <1>2, <1>9, <2>4
<1> QED
  BY <1>7, <1>8, <1>9

(* A head fold's state is a record of its four fields.                     *)
IsHeadState(h) ==
  /\ h = [claim |-> h.claim, position |-> h.position, exit |-> h.exit, error |-> h.error]
  /\ h.exit \in Nat

LEMMA HeadAtTells ==
  ASSUME NEW lg, NEW w \in Nat, NEW c \in 1..w, lg[c].topic = "started",
         \A d \in Claims(lg, w) : d <= c
  PROVE  Tells(lg, c, w, HeadAt(lg, w)) /\ IsHeadState(HeadAt(lg, w))
<1> DEFINE G == {n \in 0..w : c <= n => Tells(lg, c, n, HeadAt(lg, n)) /\ IsHeadState(HeadAt(lg, n))}
<1>1. ASSUME NEW n \in 0..w, \A m \in 0..w : m < n => m \in G
      PROVE  n \in G
  <2>1. CASE n = c
    <3>1. HeadAt(lg, c) = ClaimHead(lg, c)
      <4>1. c \in Nat /\ 0 < c
        OBVIOUS
      <4>2. HeadAt(lg, c) = ApplyHead(lg, HeadOver(lg, NoHead, 0, c - 1), c)
        BY <4>1, HeadOverNext DEF HeadAt
      <4> QED
        BY <4>2, ClaimResets
    <3>2. IsHeadState(ClaimHead(lg, c))
      BY DEF IsHeadState, ClaimHead, HeadRaises, NoHead
    <3>3. Tells(lg, c, c, ClaimHead(lg, c))
      BY ClaimTells
    <3> QED
      BY <2>1, <3>1, <3>2, <3>3
  <2>2. CASE c < n
    <3> DEFINE h == HeadAt(lg, n - 1)
    <3>1. n - 1 \in 0..w /\ n - 1 < n /\ c <= n - 1 /\ n \in Nat /\ 0 < n /\ c \in Nat \ {0}
      BY <2>2
    <3>2. Tells(lg, c, n - 1, h) /\ IsHeadState(h)
      BY <1>1, <3>1
    <3>3. HeadAt(lg, n) = ApplyHead(lg, h, n)
      BY <3>1, HeadOverNext DEF HeadAt
    <3>4. lg[n].topic # "started"
      BY <2>2, <3>1 DEF Claims
    <3> HIDE DEF h
    <3>5. CASE ~OwnedBy(lg[n], c)
      <4>1. ApplyHead(lg, h, n) = h
        BY <3>2, <3>4, <3>5 DEF ApplyHead, Tells
      <4>2. Tells(lg, c, n, h)
        BY <2>2, <3>1, <3>2, <3>5, OthersTell
      <4> QED
        BY <3>2, <3>3, <4>1, <4>2
    <3>6. CASE OwnedBy(lg[n], c) /\ h.error
      <4>1. ApplyHead(lg, h, n) = h
        BY <3>2, <3>4, <3>6 DEF ApplyHead, Tells
      <4>2. Tells(lg, c, n, h)
        <5>1. ~HeadReadable(lg, c, n - 1)
          BY <3>2, <3>6 DEF Tells
        <5>2. \A j : j \in (c + 1)..(n - 1) => j \in (c + 1)..n
          BY <3>1
        <5>3. ~HeadReadable(lg, c, n)
          BY <5>1, <5>2, Zenon DEF HeadReadable
        <5> QED
          BY <3>2, <3>6, <5>3 DEF Tells
      <4> QED
        BY <3>2, <3>3, <4>1, <4>2
    <3>7. CASE OwnedBy(lg[n], c) /\ ~h.error
      <4> DEFINE k == IF Refuses(lg, h, n) THEN HeadRaises(c)
                      ELSE CASE lg[n].topic = "rewind"  -> [h EXCEPT !.position = lg[n].ref]
                             [] lg[n].topic = "commit"  -> [h EXCEPT !.position = n]
                             [] lg[n].topic = "stopped" -> [h EXCEPT !.exit = n]
      <4>1. ApplyHead(lg, h, n) = k
        BY <3>1, <3>2, <3>4, <3>7 DEF ApplyHead, Tells, OwnedBy
      <4>2. Tells(lg, c, n, k)
        BY <2>2, <3>1, <3>2, <3>7, OwnTells DEF IsHeadState
      <4>3. IsHeadState(k)
        BY <3>1, <3>2, <3>7 DEF IsHeadState, HeadRaises, NoHead, OwnedBy
      <4> QED
        BY <3>3, <4>1, <4>2, <4>3
    <3> QED
      BY <3>5, <3>6, <3>7
  <2>3. CASE n < c
    BY <2>3
  <2> QED
    BY <2>1, <2>2, <2>3
<1>2. w \in G
  <2> HIDE DEF G
  <2> QED
    BY <1>1, ClimbTo
<1> QED
  BY <1>2

(* A position that reads is the root or a node that can be built upon.     *)
LEMMA PositionNode ==
  ASSUME NEW lg, NEW w \in Nat, NEW c \in 1..w, HeadReadable(lg, c, w),
         lg[c].topic = "started",
         NEW p, IsPosition(lg, c, w + 1, p)
  PROVE  p \in 0..w /\ (p # 0 => ~Closed(lg[p]))
<1>1. PICK j \in Positions(lg, c, w + 1) : p = (IF lg[j].topic = "commit" THEN j ELSE lg[j].ref)
  BY DEF IsPosition
<1>2. j \in 1..w
  BY DEF Positions
<1>3. CASE lg[j].topic = "commit"
  BY <1>1, <1>2, <1>3 DEF Closed
<1>4. CASE lg[j].topic # "commit"
  <2>1. ~BadReference(lg, j)
    <3>1. CASE j = c
      BY <3>1 DEF HeadReadable
    <3>2. CASE j # c
      <4>1. j \in (c + 1)..w /\ OwnedBy(lg[j], c) /\ lg[j].topic = "rewind"
        BY <1>4, <3>2 DEF Positions, OwnedBy
      <4> QED
        BY <4>1 DEF HeadReadable
    <3> QED
      BY <3>1, <3>2
  <2>2. p = 0 \/ p \in Extendable(lg, j - 1)
    BY <1>1, <1>4, <2>1 DEF BadReference
  <2> QED
    BY <1>2, <2>2 DEF Extendable
<1> QED
  BY <1>3, <1>4

LEMMA ResolvedIsHead ==
  ASSUME NEW lg, NEW w \in Nat
  PROVE  Resolved(lg, HeadAt(lg, w)) = LatestClaimHead(lg, w)
<1>1. CASE Claims(lg, w) = {}
  <2>1. Resolved(lg, NoHead) = [raises |-> FALSE, node |-> 0, settled |-> FALSE]
    BY DEF Resolved, NoHead
  <2>2. LatestClaimHead(lg, w) = [raises |-> FALSE, node |-> 0, settled |-> FALSE]
    BY <1>1, Zenon DEF LatestClaimHead
  <2> QED
    BY <1>1, <2>1, <2>2, NoClaimNoHead
<1>2. CASE Claims(lg, w) # {}
  <2> DEFINE c == NewestIn(Claims(lg, w))
             h == HeadAt(lg, w)
             n == CHOOSE n \in 0..w : IsHead(lg, c, w, n)
  <2>1. c \in 1..w /\ lg[c].topic = "started" /\ \A d \in Claims(lg, w) : d <= c
    BY <1>2, NewestClaim
  <2> HIDE DEF c
  <2>2. Tells(lg, c, w, h)
    BY <2>1, HeadAtTells
  <2> HIDE DEF h
  <2>3. CASE h.error
    <3>1. Resolved(lg, h) = [raises |-> TRUE, node |-> 0, settled |-> FALSE]
      BY <2>2, <2>3 DEF Resolved, Tells
    <3>2. LatestClaimHead(lg, w) = [raises |-> TRUE, node |-> 0, settled |-> FALSE]
      BY <1>2, <2>2, <2>3 DEF LatestClaimHead, Tells, c
    <3> QED
      BY <3>1, <3>2 DEF h
  <2>4. CASE ~h.error
    <3> DEFINE x == IF h.exit # 0 THEN h.exit ELSE h.position
    <3>1. c \in Claims(lg, w) /\ HeadReadable(lg, c, w)
      BY <2>1, <2>2, <2>4 DEF Tells, Claims
    <3>2. IsHead(lg, c, w, x) /\ x \in 0..w
          /\ ((h.exit # 0 /\ Closed(lg[h.exit])) <=> (x # 0 /\ Closed(lg[x])))
      <4>1. CASE h.exit = 0
        <5>1. IsPosition(lg, c, w + 1, h.position) /\ ~HasExit(lg, c, w)
          BY <2>2, <2>4, <4>1 DEF Tells
        <5>2. h.position \in 0..w /\ (h.position # 0 => ~Closed(lg[h.position]))
          BY <2>1, <3>1, <5>1, PositionNode
        <5> QED
          BY <4>1, <5>1, <5>2 DEF IsHead
      <4>2. CASE h.exit # 0
        <5>1. h.exit \in Endings(lg, c, w) /\ lg[h.exit].topic = "stopped" /\ Readable(lg[h.exit])
          BY <2>2, <2>4, <4>2 DEF Tells
        <5> QED
          BY <2>1, <4>2, <5>1 DEF IsHead, HasExit, Endings
      <4> QED
        BY <4>1, <4>2
    <3> HIDE DEF x
    <3>3. n \in 0..w /\ IsHead(lg, c, w, n)
      BY <3>2
    <3>4. n = x
      <4> HIDE DEF n
      <4> QED
        BY <3>1, <3>2, <3>3, OneHead
    <3>5. LatestClaimHead(lg, w) = [raises |-> FALSE, node |-> n, settled |-> n # 0 /\ Closed(lg[n])]
      BY <1>2, <3>1 DEF LatestClaimHead, c
    <3>6. Resolved(lg, h) = [raises |-> FALSE, node |-> x, settled |-> h.exit # 0 /\ Closed(lg[h.exit])]
      BY <2>2, <2>4 DEF Resolved, Tells, x
    <3>7. (h.exit # 0 /\ Closed(lg[h.exit])) = (x # 0 /\ Closed(lg[x]))
      BY <3>2
    <3> HIDE DEF n
    <3> QED
      BY <3>4, <3>5, <3>6, <3>7 DEF h
  <2> QED
    BY <2>3, <2>4
<1> QED
  BY <1>1, <1>2

-----------------------------------------------------------------------------
(* The held head is the fold up to its cursor, cut polls or not.           *)

HeadInv ==
  /\ head.cursor \in 0..Len(log)
  /\ head.at.claim # 0 => head.at = HeadAt(log, head.cursor)
  /\ head.at.claim = 0 => head.at = NoHead

LEMMA NoHeadOrClaim ==
  ASSUME NEW lg, NEW w \in Nat
  PROVE  HeadAt(lg, w).claim = 0 => HeadAt(lg, w) = NoHead
<1>1. CASE Claims(lg, w) = {}
  BY <1>1, NoClaimNoHead
<1>2. CASE Claims(lg, w) # {}
  <2>1. PICK c \in 1..w : lg[c].topic = "started" /\ \A d \in Claims(lg, w) : d <= c
    BY <1>2, NewestClaim
  <2>2. HeadAt(lg, w).claim = c
    BY <2>1, HeadAtTells DEF Tells
  <2> QED
    BY <2>1, <2>2
<1> QED
  BY <1>1, <1>2

(* A poll applies from the newest claim on the first time, and from its    *)
(* cursor on after that: either way it has the fold over the whole log.    *)
LEMMA HeadFromIs ==
  ASSUME NEW lg, NEW w \in Nat, NEW hf, hf.cursor \in 0..w,
         hf.at.claim # 0 => hf.at = HeadAt(lg, hf.cursor),
         hf.at.claim = 0 => hf.at = NoHead,
         NEW hi \in 0..w, FirstToApply(lg, hf, w) <= hi \/ hi = w
  PROVE  HeadFrom(lg, hf, FirstToApply(lg, hf, w), hi) = [cursor |-> hi, at |-> HeadAt(lg, hi)]
<1> DEFINE from == FirstToApply(lg, hf, w)
<1>1. HeadFrom(lg, hf, from, hi) = [cursor |-> hi, at |-> HeadOver(lg, hf.at, from - 1, hi)]
  BY DEF HeadFrom, HeadOver
<1>2. CASE hf.at.claim # 0
  <2>1. from - 1 = hf.cursor /\ hf.cursor <= hi /\ hf.cursor \in Nat /\ hi \in Nat /\ 0 \in Nat
        /\ 0 <= hf.cursor
    BY <1>2 DEF FirstToApply
  <2>2. HeadOver(lg, HeadOver(lg, NoHead, 0, hf.cursor), hf.cursor, hi) = HeadOver(lg, NoHead, 0, hi)
    BY <2>1, HeadOverFrom
  <2> QED
    BY <1>1, <1>2, <2>1, <2>2 DEF HeadAt
<1>3. CASE hf.at.claim = 0 /\ Claims(lg, w) = {}
  <2>1. from = w + 1 /\ hi = w /\ from - 1 = w
    BY <1>3 DEF FirstToApply
  <2> QED
    BY <1>1, <1>3, <2>1, HeadOverNone, NoClaimNoHead
<1>4. CASE hf.at.claim = 0 /\ Claims(lg, w) # {}
  <2>1. from \in 1..w /\ lg[from].topic = "started"
    BY <1>4, NewestClaim DEF FirstToApply
  <2>2. from \in 1..hi /\ hi \in Nat
    BY <2>1
  <2> HIDE DEF from
  <2>3. HeadOver(lg, hf.at, from - 1, hi) = HeadAt(lg, hi)
    BY <2>1, <2>2, FromNewestClaim
  <2> QED
    BY <1>1, <2>3 DEF from
<1> QED
  BY <1>2, <1>3, <1>4

LEMMA PollHeadKeeps ==
  ASSUME LogInv, HeadInv, PollHead
  PROVE  HeadInv'
<1> DEFINE w == Len(log)
           from == FirstToApply(log, head, w)
<1>1. w \in Nat /\ UNCHANGED log
  BY DEF LogInv, IsLog, PollHead
<1>2. ASSUME NEW hi \in 0..w, head' = [cursor |-> hi, at |-> HeadAt(log, hi)]
      PROVE  HeadInv'
  <2>1. hi \in Nat
    BY <1>1
  <2> QED
    BY <1>1, <1>2, <2>1, NoHeadOrClaim DEF HeadInv
<1>3. CASE head' = HeadPolled(log, head, w)
  <2>1. head' = [cursor |-> w, at |-> HeadAt(log, w)]
    BY <1>1, <1>3, HeadFromIs DEF HeadInv, HeadPolled
  <2> QED
    BY <1>1, <1>2, <2>1
<1>4. CASE head' \in HeadCuts(log, head, w)
  <2>1. PICK j \in from..w : head' = IF j = from THEN head ELSE HeadFrom(log, head, from, j - 1)
    BY <1>4 DEF HeadCuts
  <2>2. CASE j = from
    BY <1>1, <2>1, <2>2 DEF HeadInv
  <2>3. CASE j # from
    <3>1. from \in 1..(w + 1)
      BY <1>1, NewestClaim DEF FirstToApply, HeadInv
    <3>2. j - 1 \in 0..w /\ from <= j - 1
      BY <1>1, <2>3, <3>1
    <3>3. head' = [cursor |-> j - 1, at |-> HeadAt(log, j - 1)]
      BY <1>1, <2>1, <2>3, <3>2, HeadFromIs DEF HeadInv
    <3> QED
      BY <1>2, <3>2, <3>3
  <2> QED
    BY <2>1, <2>2, <2>3
<1> QED
  BY <1>3, <1>4 DEF PollHead

(* A claim's head says it settled when its verdict says it completed.      *)
LEMMA SettledIsCompleted ==
  ASSUME NEW lg, NEW w \in Nat,
         \A i \in 1..w : lg[i].topic = "stopped" => lg[i].claim # 0
  PROVE  LET h == Resolved(lg, HeadAt(lg, w))
         IN  ~h.raises => (h.settled <=> WorkerCompleted(PeekTerminal(lg, w)))
<1> DEFINE t == HeadAt(lg, w)
           c == NewestIn(Claims(lg, w))
           exits == ReadableExits(lg, c, w)
<1>1. CASE Claims(lg, w) = {}
  <2>1. ~Resolved(lg, t).settled
    <3>1. t.exit = 0
      BY <1>1, NoClaimNoHead DEF NoHead
    <3> HIDE DEF t
    <3> QED
      BY <3>1 DEF Resolved
  <2>2. ~WorkerCompleted(PeekTerminal(lg, w))
    BY <1>1 DEF WorkerCompleted, PeekTerminal, LatestEpisode, LaunchEnd
  <2> QED
    BY <2>1, <2>2
<1>2. CASE Claims(lg, w) # {}
  <2>1. c \in 1..w /\ lg[c].topic = "started" /\ \A d \in Claims(lg, w) : d <= c
    BY <1>2, NewestClaim
  <2>2. PeekTerminal(lg, w) = ClaimVerdict(lg, c, w)
    BY <1>2, <2>1 DEF PeekTerminal, LatestEpisode
  <2> HIDE DEF c
  <2>3. Tells(lg, c, w, t) /\ IsHeadState(t)
    BY <2>1, HeadAtTells
  <2> HIDE DEF t
  <2>4. \A i : i \in exits <=>
               i \in (c + 1)..w /\ lg[i].topic = "stopped" /\ lg[i].claim = c /\ Readable(lg[i])
    <3>1. \A i \in (c + 1)..w : lg[i].topic = "stopped" => lg[i].claim # 0
      BY <2>1
    <3> QED
      BY <2>1, <3>1 DEF ReadableExits, VerdictWindow
  <2>5. SUFFICES ASSUME ~t.error
                 PROVE  (t.exit # 0 /\ Closed(lg[t.exit])) <=> WorkerCompleted(ClaimVerdict(lg, c, w))
    BY <2>2 DEF Resolved, t
  <2>6. CASE t.exit = 0
    <3>1. exits = {}
      BY <2>3, <2>4, <2>5, <2>6 DEF Tells, HasExit, Endings
    <3>2. Cardinality(exits) = 0
      BY <3>1, FS_EmptySet
    <3>3. ClaimVerdict(lg, c, w).tier # "EXIT"
      BY <3>1, <3>2 DEF ClaimVerdict
    <3> QED
      BY <2>6, <3>3 DEF WorkerCompleted
  <2>7. CASE t.exit # 0
    <3>1. t.exit \in exits
      BY <2>3, <2>4, <2>5, <2>7 DEF Tells, Endings
    <3>2. ASSUME NEW i \in exits PROVE i = t.exit
      <4>1. \A a, b \in {i_1 \in (c + 1)..w : OwnedBy(lg[i_1], c)} : a < b => lg[a].topic # "stopped"
        BY <2>3, <2>5 DEF Tells, HeadReadable
      <4>2. \A a \in exits : a \in (c + 1)..w /\ OwnedBy(lg[a], c) /\ lg[a].topic = "stopped"
        BY <2>4 DEF OwnedBy
      <4> HIDE DEF exits
      <4>3. i \in Int /\ t.exit \in Int
        BY <3>1, <4>2
      <4> QED
        BY <3>1, <4>1, <4>2, <4>3
    <3> HIDE DEF exits
    <3>3. exits = {t.exit}
      BY <3>1, <3>2
    <3>4. Cardinality(exits) = 1
      BY <3>3, FS_Singleton
    <3>5. /\ ClaimVerdict(lg, c, w).tier = "EXIT"
          /\ ClaimVerdict(lg, c, w).outcomes = {lg[i].body : i \in exits}
      <4>1. Cardinality(ReadableExits(lg, c, w)) = 1 /\ ReadableExits(lg, c, w) # {}
        BY <3>1, <3>4 DEF exits
      <4>2. ClaimVerdict(lg, c, w) =
              [tier |-> "EXIT", outcomes |-> {lg[i].body : i \in ReadableExits(lg, c, w)},
               malformed |-> Unread(lg, c, w)]
        BY <4>1 DEF ClaimVerdict
      <4> QED
        BY <4>2 DEF exits
    <3>6. lg[t.exit].topic = "stopped"
      BY <2>3, <2>5, <2>7 DEF Tells
    <3> QED
      BY <2>7, <3>3, <3>5, <3>6 DEF WorkerCompleted, Closed
  <2> QED
    BY <2>6, <2>7
<1> QED
  BY <1>1, <1>2

-----------------------------------------------------------------------------
(* The steps: what each does to the log, and to the held head.             *)

(* Where the head is observed every exit names its claim.                  *)
ExitsNamed ==
  watching = "head" => \A i \in 1..Len(log) : log[i].topic = "stopped" => log[i].claim # 0

LEMMA GrowsMore ==
  ASSUME NEW lg, IsLog(lg), NEW e
  PROVE  LET more == Append(lg, e)
         IN  /\ IsLog(more)
             /\ Grows(lg, more) /\ Len(more) = Len(lg) + 1 /\ more[Len(lg) + 1] = e
BY AppendKeeps DEF Grows, IsLog

LEMMA GrowsTwice ==
  ASSUME NEW a, NEW b, NEW c, Grows(a, b), Grows(b, c)
  PROVE  Grows(a, c)
BY DEF Grows

LEMMA ReapedGrows ==
  ASSUME NEW lg, IsLog(lg), NEW r, NEW child \in BOOLEAN
  PROVE  LET more == Reaped(lg, r, child)
         IN  /\ IsLog(more)
             /\ Grows(lg, more)
             /\ \A i \in (Len(lg) + 1)..Len(more) : more[i].topic \in {"terminated", "died"}
<1> DEFINE end  == [Blank EXCEPT !.topic = "terminated", !.rid = r]
           once == Append(lg, end)
           c    == LatestOf(OwnedIn(lg, r, "started", 1..Len(lg)))
           dies == [Blank EXCEPT !.topic = "died", !.claim = c, !.body = "cause"]
           both == Append(once, dies)
<1>1. end.topic = "terminated" /\ dies.topic = "died"
  BY DEF Blank
<1>2. Reaped(lg, r, child) = once \/ Reaped(lg, r, child) = both
  BY DEF Reaped
<1> HIDE DEF end, dies
<1>3. /\ IsLog(once)
      /\ Grows(lg, once) /\ Len(once) = Len(lg) + 1 /\ once[Len(lg) + 1] = end
  BY GrowsMore
<1> HIDE DEF once
<1>4. /\ IsLog(both)
      /\ Grows(once, both) /\ Len(both) = Len(once) + 1 /\ both[Len(once) + 1] = dies
  BY <1>3, GrowsMore
<1> HIDE DEF both
<1>5. Grows(lg, both)
  BY <1>3, <1>4, GrowsTwice
<1>6. both[Len(lg) + 1] = end
  <2>1. Len(lg) + 1 \in 1..Len(once)
    BY <1>3
  <2>2. \A i \in 1..Len(once) : both[i] = once[i]
    BY <1>4 DEF Grows
  <2> QED
    BY <1>3, <2>1, <2>2
<1>7. CASE Reaped(lg, r, child) = once
  BY <1>1, <1>3, <1>7
<1>8. CASE Reaped(lg, r, child) = both
  <2>1. ASSUME NEW i \in (Len(lg) + 1)..Len(both) PROVE both[i].topic \in {"terminated", "died"}
    <3>1. i = Len(lg) + 1 \/ i = Len(once) + 1
      BY <1>3, <1>4
    <3> QED
      BY <1>1, <1>4, <1>6, <3>1
  <2> QED
    BY <1>4, <1>5, <1>8, <2>1
<1> QED
  BY <1>2, <1>7, <1>8

(* What becomes of the events touches nothing else but a witness's cursor. *)
LEMMA EventsLeave ==
  ASSUME EventStep
  PROVE  log' = log /\ watching' = watching /\ head' = head /\ demand' = demand
         /\ ans' = ans /\ stops' = stops /\ ask' = ask
BY Zenon DEF EventStep, Drain, HandOn, HandOnRaises, IterEvents, IterNext, IterBreaks, IdleClient

(* What any step does: the log grows, and what is watched stays.           *)
LEMMA LogGrows ==
  ASSUME LogInv, [ClientNext]_clientVars
  PROVE  LogInv' /\ Grows(log, log') /\ watching' = watching
<1>1. CASE UNCHANGED <<log, watching>>
  BY <1>1 DEF LogInv, IsLog, Grows
<1>2. ASSUME NEW e, log' = Append(log, e) PROVE LogInv' /\ Grows(log, log')
  <2> DEFINE more == Append(log, e)
  <2>1. IsLog(more) /\ Grows(log, more)
    BY GrowsMore DEF LogInv
  <2>2. log' = more
    BY <1>2
  <2> HIDE DEF more
  <2> QED
    BY <2>1, <2>2, Zenon DEF LogInv
<1>3. CASE Write
  BY <1>2, <1>3, Zenon DEF Write
<1>4. CASE ClientWrite
  <2>1. watching' = watching
    BY <1>4, Zenon DEF ClientWrite
  <2>2. \E e : log' = Append(log, e)
    BY <1>4, Zenon DEF ClientWrite
  <2> QED
    BY <1>2, <2>1, <2>2, Zenon
<1>5. CASE ReapAndPoll
  <2>1. watching' = watching
    BY <1>5, Zenon DEF ReapAndPoll
  <2>2. PICK child \in BOOLEAN : log' = Reaped(log, wt.subject, child)
    BY <1>5, Zenon DEF ReapAndPoll
  <2> QED
    <3> DEFINE more == Reaped(log, wt.subject, child)
    <3>1. IsLog(more) /\ Grows(log, more)
      BY ReapedGrows DEF LogInv
    <3>2. log' = more
      BY <2>2
    <3> HIDE DEF more
    <3> QED
      BY <2>1, <3>1, <3>2, Zenon DEF LogInv
<1>6. UNCHANGED <<log, watching>> \/ Write \/ ClientWrite \/ ReapAndPoll
  BY EventsLeave, Zenon DEF ClientNext, Next, clientVars, PollHead, PollDemand, PollAnswers, PollStops,
               Track, PollWatch, CallWait, CallAwait, PollAwait
<1> QED
  BY <1>1, <1>3, <1>4, <1>5, <1>6

LEMMA HeadWritten ==
  ASSUME NEW lg, NEW e \in HeadWrites(lg)
  PROVE  e.topic = "stopped" => e.claim # 0
<1>1. \A c \in Claims(lg, Len(lg)) : c # 0
  BY DEF Claims
<1>2. ASSUME e \in Starting(lg) PROVE e.topic = "started"
  BY <1>2 DEF Starting, OfClaim, Blank
<1>3. \A c, t, b, n : OfClaim(c, t, b, n).claim = c
  BY DEF OfClaim, Blank
<1>4. ASSUME NEW topics, NEW topic, NEW body, e \in Writing(lg, topic, body) \cup Junk(lg, topics)
      PROVE  e.claim # 0
  BY <1>1, <1>3, <1>4 DEF Writing, Junk
<1>5. ASSUME e = [Blank EXCEPT !.topic = "started", !.body = "junk"] PROVE e.topic = "started"
  BY <1>5 DEF Blank
<1> QED
  BY <1>2, <1>4, <1>5 DEF HeadWrites

LEMMA ExitsStayNamed ==
  ASSUME LogInv, ExitsNamed, [ClientNext]_clientVars
  PROVE  ExitsNamed'
<1>1. LogInv' /\ Grows(log, log') /\ watching' = watching
  BY LogGrows
<1>2. SUFFICES ASSUME watching = "head", NEW i \in (Len(log) + 1)..Len(log'),
                      log'[i].topic = "stopped"
               PROVE  log'[i].claim # 0
  BY <1>1 DEF ExitsNamed, Grows
<1>3. CASE Write
  <2>1. PICK e \in HeadWrites(log) : log' = Append(log, e)
    BY <1>2, <1>3 DEF Write, Writable
  <2>2. i = Len(log) + 1 /\ log'[i] = e
    BY <1>2, <2>1, GrowsMore DEF LogInv, IsLog
  <2> QED
    BY <1>2, <2>1, <2>2, HeadWritten
<1>4. CASE ~Write
  <2>1. log' = log \/ ClientWrite \/ ReapAndPoll
    BY <1>4, EventsLeave, Zenon DEF ClientNext, Next, clientVars, PollHead, PollDemand, PollAnswers, PollStops,
               Track, PollWatch, CallWait, CallAwait, PollAwait
  <2>2. CASE log' = log
    BY <1>2, <2>2 DEF LogInv, IsLog
  <2>3. CASE ClientWrite
    BY <1>2, <2>3 DEF ClientWrite
  <2>4. CASE ReapAndPoll
    BY <1>2, <2>4 DEF ReapAndPoll, MayPoll
  <2> QED
    BY <2>1, <2>2, <2>3, <2>4
<1> QED
  BY <1>3, <1>4

LEMMA HeadStays ==
  ASSUME LogInv, HeadInv, Grows(log, log'), UNCHANGED head
  PROVE  HeadInv'
<1>1. head.cursor \in 0..Len(log) /\ head.cursor \in 0..Len(log')
  BY DEF HeadInv, Grows
<1>2. HeadAt(log', head.cursor) = HeadAt(log, head.cursor)
  BY <1>1, HeadOverGrows DEF HeadAt
<1> QED
  BY <1>1, <1>2 DEF HeadInv

ObserverInv == LogInv /\ ExitsNamed /\ HeadInv

LEMMA StartsObserved == ClientInit => ObserverInv
<1> SUFFICES ASSUME ClientInit PROVE ObserverInv
  OBVIOUS
<1>1. log = <<>> /\ head = NewHeadFold /\ Len(log) = 0
  BY DEF ClientInit, Init
<1>2. LogInv
  BY <1>1 DEF LogInv, IsLog
<1> QED
  BY <1>1, <1>2 DEF ObserverInv, ExitsNamed, HeadInv, NewHeadFold, NoHead

LEMMA StaysObserved == ObserverInv /\ [ClientNext]_clientVars => ObserverInv'
<1> SUFFICES ASSUME ObserverInv, [ClientNext]_clientVars PROVE ObserverInv'
  OBVIOUS
<1>1. LogInv' /\ Grows(log, log')
  BY LogGrows DEF ObserverInv
<1>2. ExitsNamed'
  BY ExitsStayNamed DEF ObserverInv
<1>3. PollHead \/ UNCHANGED head
  BY EventsLeave, Zenon DEF ClientNext, Next, clientVars, Write, PollDemand, PollAnswers, PollStops, ClientWrite,
               Track, PollWatch, ReapAndPoll, CallWait, CallAwait, PollAwait
<1>4. HeadInv'
  BY <1>1, <1>3, PollHeadKeeps, HeadStays DEF ObserverInv
<1> QED
  BY <1>1, <1>2, <1>4 DEF ObserverInv

LEMMA ObservedAgrees == ObserverInv => HeadFoldAgrees
<1> SUFFICES ASSUME ObserverInv, watching = "head" PROVE HeadFoldAgrees
  BY DEF HeadFoldAgrees
<1> DEFINE w == Len(log)
<1>1. w \in Nat
  BY DEF ObserverInv, LogInv, IsLog
<1>2. HeadPolled(log, head, w) = [cursor |-> w, at |-> HeadAt(log, w)]
  BY <1>1, HeadFromIs DEF ObserverInv, HeadInv, HeadPolled
<1>3. \A i \in 1..w : log[i].topic = "stopped" => log[i].claim # 0
  BY DEF ObserverInv, ExitsNamed
<1> HIDE DEF w
<1>4. LET h == Resolved(log, HeadAt(log, w))
      IN  h = LatestClaimHead(log, w) /\ (~h.raises => (h.settled <=> WorkerCompleted(PeekTerminal(log, w))))
  BY <1>1, <1>3, ResolvedIsHead, SettledIsCompleted
<1> QED
  BY <1>2, <1>4 DEF HeadFoldAgrees, w

(* A held head is the head.  It folds only what landed since its last      *)
(* poll, keeps the newest claim's records alone, and may be cut off by a   *)
(* record that does not read and be polled again; at every W it still      *)
(* gives the node that a read of the whole log gives, raises where that    *)
(* raises, and is closed when and only when worker_completed says so.      *)
THEOREM HeadFoldIsHead == ClientSpec => []HeadFoldAgrees
<1>1. ClientInit => ObserverInv
  BY StartsObserved
<1>2. ObserverInv /\ [ClientNext]_clientVars => ObserverInv'
  BY StaysObserved
<1>3. ObserverInv => HeadFoldAgrees
  BY ObservedAgrees
<1> QED
  BY <1>1, <1>2, <1>3, PTL DEF ClientSpec

-----------------------------------------------------------------------------
(* The verdict of a claim, case by case.                                   *)

LEMMA ManyOrOne ==
  ASSUME NEW S, IsFiniteSet(S)
  PROVE  /\ Cardinality(S) > 1 <=> \E a, b \in S : a # b
         /\ Cardinality(S) = 1 <=> S # {} /\ \A a, b \in S : a = b
<1>1. Cardinality(S) \in Nat /\ (Cardinality(S) = 0 <=> S = {})
  BY FS_CardinalityType, FS_EmptySet
<1>2. Cardinality(S) = 1 <=> \E e : S = {e}
  BY FS_Singleton
<1>3. (\E e : S = {e}) <=> S # {} /\ \A a, b \in S : a = b
  <2>1. ASSUME S # {}, \A a, b \in S : a = b PROVE \E e : S = {e}
    <3>1. PICK e \in S : TRUE
      BY <2>1
    <3>2. S = {e}
      BY <2>1, <3>1
    <3> QED
      BY <3>2
  <2> QED
    BY <2>1
<1> QED
  BY <1>1, <1>2, <1>3

LEMMA WindowFinite ==
  ASSUME NEW lg, NEW c \in Nat, NEW w \in Nat
  PROVE  /\ IsFiniteSet(VerdictWindow(lg, c, w))
         /\ IsFiniteSet(ReadableExits(lg, c, w))
<1>1. IsFiniteSet((c + 1)..w)
  BY FS_Interval
<1>2. VerdictWindow(lg, c, w) \subseteq (c + 1)..w
  BY DEF VerdictWindow
<1>3. ReadableExits(lg, c, w) \subseteq (c + 1)..w
  BY <1>2 DEF ReadableExits
<1> QED
  BY <1>1, <1>2, <1>3, FS_Subset

(* Every outcome that the reports of claim c give, lost among them.        *)
AllOutcomes(lg, c, w) ==
  LET reports == {i \in VerdictWindow(lg, c, w) : lg[i].topic = "died" /\ Readable(lg[i])}
  IN  {lg[i].body : i \in reports} \cup
      (IF \E i \in Unread(lg, c, w) : lg[i].claim = c THEN {"lost"} ELSE {})

LEMMA OutcomesAre ==
  ASSUME NEW lg, NEW c \in Nat, NEW w \in Nat
  PROVE  /\ ReportOutcomes(lg, c, w) = {} <=> AllOutcomes(lg, c, w) = {}
         /\ ReportOutcomes(lg, c, w) \subseteq AllOutcomes(lg, c, w)
         /\ AllOutcomes(lg, c, w) \ {"lost"} \subseteq ReportOutcomes(lg, c, w)
<1> DEFINE all == AllOutcomes(lg, c, w)
           reports == {i \in VerdictWindow(lg, c, w) : lg[i].topic = "died" /\ Readable(lg[i])}
<1>1. ReportOutcomes(lg, c, w) = IF Cardinality(all) > 1 THEN all \ {"lost"} ELSE all
  BY DEF ReportOutcomes, AllOutcomes
<1>2. IsFiniteSet(all)
  <2>1. IsFiniteSet(reports)
    BY WindowFinite, FS_Subset
  <2> DEFINE bodies == {lg[i].body : i \in reports}
  <2>2. IsFiniteSet(bodies)
    <3> DEFINE f == [i \in reports |-> lg[i].body]
    <3>1. f \in Surjection(reports, bodies)
      <4> HIDE DEF reports
      <4> QED
        BY DEF Surjection
    <3> HIDE DEF f, bodies, reports
    <3> QED
      BY <2>1, <3>1, FS_Surjection
  <2>3. \A x : IsFiniteSet({x}) /\ IsFiniteSet({})
    BY FS_Singleton, FS_EmptySet
  <2>4. all = bodies \cup {"lost"} \/ all = bodies \cup {}
    BY DEF AllOutcomes
  <2> HIDE DEF bodies, all
  <2> QED
    BY <2>2, <2>3, <2>4, FS_Union
<1>3. Cardinality(all) > 1 => \E a, b \in all : a # b
  <2> HIDE DEF all
  <2> QED
    BY <1>2, ManyOrOne
<1> HIDE DEF all
<1> QED
  BY <1>1, <1>3 DEF all

LEMMA VerdictIs ==
  ASSUME NEW lg, NEW c \in Nat, NEW w \in Nat
  PROVE  LET exits == ReadableExits(lg, c, w)
             v == ClaimVerdict(lg, c, w)
             held == v = [tier |-> "held", outcomes |-> {}, malformed |-> {}]
         IN  /\ (\E a, b \in exits : a # b) => v.tier = "raises"
             /\ exits # {} /\ (\A a, b \in exits : a = b) =>
                  v = [tier |-> "EXIT", outcomes |-> {lg[i].body : i \in exits},
                       malformed |-> Unread(lg, c, w)]
             /\ exits = {} /\ AllOutcomes(lg, c, w) # {} =>
                  v.tier = "DIED" /\ v.outcomes = ReportOutcomes(lg, c, w)
             /\ exits = {} /\ AllOutcomes(lg, c, w) = {} => v.tier = "held"
<1> DEFINE exits == ReadableExits(lg, c, w)
           v == ClaimVerdict(lg, c, w)
           n == Cardinality(exits)
<1>1. /\ n > 1 <=> \E a, b \in exits : a # b
      /\ n = 1 <=> exits # {} /\ \A a, b \in exits : a = b
  BY WindowFinite, ManyOrOne
<1>2. n \in Nat /\ (exits = {} => n = 0) /\ (exits = {} <=> n = 0)
  BY WindowFinite, FS_CardinalityType, FS_EmptySet
<1>3. ReportOutcomes(lg, c, w) = {} <=> AllOutcomes(lg, c, w) = {}
  BY OutcomesAre
<1>4. n > 1 => v.tier = "raises"
  <2>1. n > 1 => ~(n = 1) /\ ~(exits = {})
    BY <1>2
  <2> QED
    BY <2>1 DEF ClaimVerdict
<1>5. n = 1 => v = [tier |-> "EXIT", outcomes |-> {lg[i].body : i \in exits},
                    malformed |-> Unread(lg, c, w)]
  <2>1. n = 1 => ~(n > 1) /\ ~(exits = {})
    BY <1>2
  <2> QED
    BY <2>1 DEF ClaimVerdict
<1>6. n = 0 /\ ReportOutcomes(lg, c, w) # {} =>
        v.tier = "DIED" /\ v.outcomes = ReportOutcomes(lg, c, w)
  <2>1. n = 0 => ~(n > 1) /\ ~(n = 1) /\ exits = {}
    BY <1>2
  <2> QED
    BY <2>1 DEF ClaimVerdict
<1>7. n = 0 /\ ReportOutcomes(lg, c, w) = {} => v.tier = "held"
  <2>1. n = 0 => ~(n > 1) /\ ~(n = 1) /\ exits = {}
    BY <1>2
  <2> QED
    BY <2>1 DEF ClaimVerdict
<1> HIDE DEF v, exits, n
<1> QED
  BY <1>1, <1>2, <1>3, <1>4, <1>5, <1>6, <1>7 DEF v, exits

-----------------------------------------------------------------------------
(* The verdict of a growing log.                                           *)

LEMMA WindowGrows ==
  ASSUME NEW lg, NEW more, Grows(lg, more), NEW c \in Nat
  PROVE  /\ ReadableExits(lg, c, Len(lg)) \subseteq ReadableExits(more, c, Len(more))
         /\ \A i \in ReadableExits(lg, c, Len(lg)) : more[i] = lg[i]
         /\ \A i \in ReadableExits(more, c, Len(more)) \ ReadableExits(lg, c, Len(lg)) :
              i \in (Len(lg) + 1)..Len(more) /\ more[i].topic = "stopped"
         /\ AllOutcomes(lg, c, Len(lg)) \subseteq AllOutcomes(more, c, Len(more))
<1>1. \A i \in (c + 1)..Len(lg) : i \in (c + 1)..Len(more) /\ more[i] = lg[i]
  BY DEF Grows
<1>2. VerdictWindow(lg, c, Len(lg)) = VerdictWindow(more, c, Len(more)) \cap ((c + 1)..Len(lg))
  BY <1>1 DEF VerdictWindow
<1>3. \A i \in VerdictWindow(lg, c, Len(lg)) : more[i] = lg[i] /\ i \in VerdictWindow(more, c, Len(more))
  BY <1>1, <1>2 DEF VerdictWindow
<1>4. ASSUME NEW i \in ReadableExits(more, c, Len(more)), i \notin ReadableExits(lg, c, Len(lg))
      PROVE  i \in (Len(lg) + 1)..Len(more) /\ more[i].topic = "stopped"
  <2>1. i \in (c + 1)..Len(more) /\ more[i].topic = "stopped" /\ i \in VerdictWindow(more, c, Len(more))
    BY <1>4 DEF ReadableExits, VerdictWindow
  <2>2. CASE i \in (c + 1)..Len(lg)
    BY <1>1, <1>2, <1>4, <2>1, <2>2 DEF ReadableExits
  <2>3. CASE i \notin (c + 1)..Len(lg)
    BY <2>1, <2>3 DEF Grows
  <2> QED
    BY <2>2, <2>3
<1>5. Unread(lg, c, Len(lg)) \subseteq Unread(more, c, Len(more))
      /\ \A i \in Unread(lg, c, Len(lg)) : more[i] = lg[i]
  BY <1>3 DEF Unread
<1>6. ASSUME NEW x \in AllOutcomes(lg, c, Len(lg)) PROVE x \in AllOutcomes(more, c, Len(more))
  <2>1. CASE x = "lost" /\ \E i \in Unread(lg, c, Len(lg)) : lg[i].claim = c
    BY <1>5, <2>1 DEF AllOutcomes
  <2>2. CASE \E i \in VerdictWindow(lg, c, Len(lg)) :
               lg[i].topic = "died" /\ Readable(lg[i]) /\ x = lg[i].body
    BY <1>3, <2>2 DEF AllOutcomes
  <2> QED
    BY <1>6, <2>1, <2>2 DEF AllOutcomes
<1> QED
  BY <1>3, <1>4, <1>6 DEF ReadableExits

(* A step writes at most one exit.                                         *)
LEMMA OneMoreExit ==
  ASSUME LogInv, [ClientNext]_clientVars
  PROVE  \A i, j \in (Len(log) + 1)..Len(log') :
           log'[i].topic = "stopped" /\ log'[j].topic = "stopped" => i = j
<1>1. ASSUME NEW e, log' = Append(log, e)
      PROVE  \A i, j \in (Len(log) + 1)..Len(log') : i = j
  <2>1. Len(Append(log, e)) = Len(log) + 1 /\ Len(log) \in Nat
    BY AppendKeeps DEF LogInv, IsLog
  <2> QED
    BY <1>1, <2>1
<1>2. CASE log' = log
  BY <1>2 DEF LogInv, IsLog
<1>3. CASE Write
  BY <1>1, <1>3, Zenon DEF Write
<1>4. CASE ClientWrite
  <2>1. \E e : log' = Append(log, e)
    BY <1>4, Zenon DEF ClientWrite
  <2> QED
    BY <1>1, <2>1, Zenon
<1>5. CASE ReapAndPoll
  <2>1. PICK child \in BOOLEAN : log' = Reaped(log, wt.subject, child)
    BY <1>5, Zenon DEF ReapAndPoll
  <2>2. \A i \in (Len(log) + 1)..Len(Reaped(log, wt.subject, child)) :
          Reaped(log, wt.subject, child)[i].topic \in {"terminated", "died"}
    BY ReapedGrows DEF LogInv
  <2>3. \A i \in (Len(log) + 1)..Len(log') : log'[i].topic \in {"terminated", "died"}
    BY <2>1, <2>2
  <2> QED
    BY <2>3
<1>6. log' = log \/ Write \/ ClientWrite \/ ReapAndPoll
  BY EventsLeave, Zenon DEF ClientNext, Next, clientVars, PollHead, PollDemand, PollAnswers, PollStops,
               Track, PollWatch, CallWait, CallAwait, PollAwait
<1> QED
  BY <1>2, <1>3, <1>4, <1>5, <1>6

Moves(old, new, lg, c) ==
  CASE old.tier = "raises" -> new.tier = "raises"
    [] old.tier = "EXIT"   -> \/ new.tier = "raises"
                              \/ new = [old EXCEPT !.malformed = new.malformed]
    [] old.tier = "DIED"   -> \/ new.tier = "EXIT"
                              \/ /\ new.tier = "DIED"
                                 /\ old.outcomes \ {"lost"} \subseteq new.outcomes
    [] old.tier = "held"   -> Endings(lg, c, Len(lg)) = {}

LEMMA VerdictMoves ==
  ASSUME NEW lg, NEW more, Grows(lg, more), NEW c \in Nat,
         \A i, j \in (Len(lg) + 1)..Len(more) :
           more[i].topic = "stopped" /\ more[j].topic = "stopped" => i = j
  PROVE  Moves(ClaimVerdict(lg, c, Len(lg)), ClaimVerdict(more, c, Len(more)), lg, c)
<1> DEFINE old == ClaimVerdict(lg, c, Len(lg))
           new == ClaimVerdict(more, c, Len(more))
           was == ReadableExits(lg, c, Len(lg))
           are == ReadableExits(more, c, Len(more))
           all == AllOutcomes(lg, c, Len(lg))
           now == AllOutcomes(more, c, Len(more))
<1>0. Len(lg) \in Nat /\ Len(more) \in Nat
  BY DEF Grows
<1>1. /\ was \subseteq are
      /\ \A i \in was : more[i] = lg[i]
      /\ \A i \in are \ was : i \in (Len(lg) + 1)..Len(more) /\ more[i].topic = "stopped"
      /\ all \subseteq now
  BY WindowGrows
<1>2. /\ (\E a, b \in was : a # b) => old.tier = "raises"
      /\ was # {} /\ (\A a, b \in was : a = b) =>
           old = [tier |-> "EXIT", outcomes |-> {lg[i].body : i \in was},
                  malformed |-> Unread(lg, c, Len(lg))]
      /\ was = {} /\ all # {} => old.tier = "DIED" /\ old.outcomes = ReportOutcomes(lg, c, Len(lg))
      /\ was = {} /\ all = {} => old.tier = "held"
  BY <1>0, VerdictIs
<1>3. /\ (\E a, b \in are : a # b) => new.tier = "raises"
      /\ are # {} /\ (\A a, b \in are : a = b) =>
           new = [tier |-> "EXIT", outcomes |-> {more[i].body : i \in are},
                  malformed |-> Unread(more, c, Len(more))]
      /\ are = {} /\ now # {} => new.tier = "DIED" /\ new.outcomes = ReportOutcomes(more, c, Len(more))
      /\ are = {} /\ now = {} => new.tier = "held"
  BY <1>0, VerdictIs
<1>4. /\ ReportOutcomes(lg, c, Len(lg)) \subseteq all
      /\ now \ {"lost"} \subseteq ReportOutcomes(more, c, Len(more))
  BY <1>0, OutcomesAre
<1>5. was = {} => \A a, b \in are : a = b
  <2>1. was = {} => \A a \in are : a \in (Len(lg) + 1)..Len(more) /\ more[a].topic = "stopped"
    BY <1>1
  <2> HIDE DEF was, are
  <2> QED
    BY <2>1
<1>6. was = {} /\ all = {} => Endings(lg, c, Len(lg)) = {}
  <2> SUFFICES ASSUME was = {}, all = {}, NEW i \in Endings(lg, c, Len(lg)) PROVE FALSE
    OBVIOUS
  <2>1. i \in VerdictWindow(lg, c, Len(lg)) /\ lg[i].claim = c /\ lg[i].topic \in {"stopped", "died"}
    BY DEF Endings, VerdictWindow
  <2>2. CASE ~Readable(lg[i])
    <3>1. "lost" \in all
      BY <2>1, <2>2 DEF AllOutcomes, Unread
    <3> QED
      BY <3>1
  <2>3. CASE Readable(lg[i]) /\ lg[i].topic = "stopped"
    <3>1. i \in was
      BY <2>1, <2>3 DEF ReadableExits
    <3> QED
      BY <3>1
  <2>4. CASE Readable(lg[i]) /\ lg[i].topic = "died"
    <3>1. lg[i].body \in all
      BY <2>1, <2>4 DEF AllOutcomes
    <3> QED
      BY <3>1
  <2> QED
    BY <2>1, <2>2, <2>3, <2>4
<1> HIDE DEF old, new, was, are, all, now
<1>7. CASE \E a, b \in was : a # b
  <2>1. old.tier = "raises" /\ new.tier = "raises"
    BY <1>1, <1>2, <1>3, <1>7
  <2> QED
    BY <2>1 DEF Moves, old, new
<1>8. CASE was # {} /\ \A a, b \in was : a = b
  <2>1. old = [tier |-> "EXIT", outcomes |-> {lg[i].body : i \in was},
               malformed |-> Unread(lg, c, Len(lg))]
    BY <1>2, <1>8
  <2>2. CASE \E a, b \in are : a # b
    <3>1. old.tier = "EXIT" /\ new.tier = "raises"
      BY <1>3, <2>1, <2>2
    <3> QED
      BY <3>1 DEF Moves, old, new
  <2>3. CASE \A a, b \in are : a = b
    <3>1. are = was
      <4>1. was \subseteq are
        BY <1>1
      <4>2. PICK a \in was : TRUE
        BY <1>8
      <4>3. \A b \in are : b = a
        BY <2>3, <4>1
      <4> QED
        BY <4>1, <4>3
    <3>2. {more[i].body : i \in are} = {lg[i].body : i \in was}
      BY <1>1, <3>1
    <3>3. new = [tier |-> "EXIT", outcomes |-> {lg[i].body : i \in was},
                 malformed |-> Unread(more, c, Len(more))]
      BY <1>3, <1>8, <2>3, <3>1, <3>2
    <3> DEFINE bodies == {lg[i].body : i \in was}
    <3>4. old.tier = "EXIT" /\ new = [old EXCEPT !.malformed = new.malformed]
      <4>1. old = [tier |-> "EXIT", outcomes |-> bodies, malformed |-> Unread(lg, c, Len(lg))]
        BY <2>1
      <4>2. new = [tier |-> "EXIT", outcomes |-> bodies, malformed |-> Unread(more, c, Len(more))]
        BY <3>3
      <4> HIDE DEF bodies
      <4> QED
        BY <4>1, <4>2
    <3> QED
      BY <3>4 DEF Moves, old, new
  <2> QED
    BY <2>2, <2>3
<1>9. CASE was = {} /\ all # {}
  <2>1. old.tier = "DIED" /\ old.outcomes \ {"lost"} \subseteq now
    BY <1>1, <1>2, <1>4, <1>9
  <2>2. CASE are # {}
    <3>1. new.tier = "EXIT"
      BY <1>3, <1>5, <1>9, <2>2
    <3> QED
      BY <2>1, <3>1 DEF Moves, old, new
  <2>3. CASE are = {}
    <3>1. new.tier = "DIED" /\ old.outcomes \ {"lost"} \subseteq new.outcomes
      BY <1>1, <1>3, <1>4, <1>9, <2>1, <2>3
    <3> QED
      BY <2>1, <3>1 DEF Moves, old, new
  <2> QED
    BY <2>2, <2>3
<1>10. CASE was = {} /\ all = {}
  <2>1. old.tier = "held" /\ Endings(lg, c, Len(lg)) = {}
    BY <1>2, <1>6, <1>10
  <2> QED
    BY <2>1 DEF Moves, old, new
<1> QED
  BY <1>7, <1>8, <1>9, <1>10

LEMMA VerdictStep ==
  ASSUME ObserverInv, [ClientNext]_clientVars
  PROVE  \A c \in Claims(log, Len(log)) :
           Moves(ClaimVerdict(log, c, Len(log)), ClaimVerdict(log', c, Len(log')), log, c)
<1>1. LogInv /\ Grows(log, log')
  BY LogGrows DEF ObserverInv
<1>2. \A i, j \in (Len(log) + 1)..Len(log') :
        log'[i].topic = "stopped" /\ log'[j].topic = "stopped" => i = j
  BY <1>1, OneMoreExit
<1>3. \A c \in Claims(log, Len(log)) : c \in Nat
  BY DEF Claims
<1> QED
  BY <1>1, <1>2, <1>3, VerdictMoves

(* No verdict is taken back.  Whatever lands above a claim's end, a report *)
(* after an exit, an exit after reports, a second exit, a record that does *)
(* not parse, its claim_verdict stays an end, keeps the causes of death    *)
(* but for "lost", and gives up an exit only to refuse two of them.        *)
THEOREM VerdictsGrow == ClientSpec => VerdictOnlyGrows
<1>1. ObserverInv /\ [ClientNext]_clientVars =>
        \A c \in Claims(log, Len(log)) :
          LET old == ClaimVerdict(log, c, Len(log))
              new == ClaimVerdict(log', c, Len(log'))
          IN  CASE old.tier = "raises" -> new.tier = "raises"
                [] old.tier = "EXIT"   -> \/ new.tier = "raises"
                                          \/ new = [old EXCEPT !.malformed = new.malformed]
                [] old.tier = "DIED"   -> \/ new.tier = "EXIT"
                                          \/ /\ new.tier = "DIED"
                                             /\ old.outcomes \ {"lost"} \subseteq new.outcomes
                [] old.tier = "held"   -> Endings(log, c, Len(log)) = {}
  BY VerdictStep DEF Moves
<1> QED
  BY <1>1, StartsObserved, StaysObserved, PTL DEF ClientSpec, VerdictOnlyGrows

-----------------------------------------------------------------------------
(* await_consumed: what a call has read, up to its cursor.                 *)

ExitClaims(lg, lo, hi) ==
  {lg[i].claim : i \in {j \in (lo + 1)..hi : lg[j].topic = "stopped" /\ Readable(lg[j])}}

Took(lg, seq, hi) == {i \in (seq + 1)..hi : Takes(lg[i], lg[seq].rid, seq)}

Naked(lg, seq, hi) == \E i \in (seq + 1)..hi : lg[i].topic = "nak" /\ lg[i].rid = lg[seq].rid

Exited(lg, lo, hi) ==
  \E i \in lo..hi : /\ lg[i].topic = "stopped" /\ Readable(lg[i])
                    /\ IsNewestClaim(lg, lg[i].claim, hi)

Told(lg, a) ==
  /\ a.result = "verdict" =>
       Took(lg, a.seq, a.cursor) = {} /\ ~Naked(lg, a.seq, a.cursor) /\ Exited(lg, 1, a.cursor)
  /\ a.result = "waits" =>
       /\ Took(lg, a.seq, a.cursor) = {} /\ ~Naked(lg, a.seq, a.cursor)
       /\ ~Exited(lg, a.seq + 1, a.cursor)
  /\ a.result = "taken" =>
       \E i \in Took(lg, a.seq, a.cursor) : ~VoidBeside(lg, a.seq, lg[i].claim, a.cursor)

(* A call's four fields.                                                   *)
AskOf(s, c, x, r) == [seq |-> s, cursor |-> c, exits |-> x, result |-> r]
LEMMA AskFields ==
  ASSUME NEW s, NEW c, NEW x, NEW r, NEW v
  PROVE  LET a == AskOf(s, c, x, r)
         IN  /\ [a EXCEPT !.seq = v] = AskOf(v, c, x, r)
             /\ [a EXCEPT !.cursor = v] = AskOf(s, v, x, r)
             /\ [a EXCEPT !.exits = v] = AskOf(s, c, v, r)
             /\ [a EXCEPT !.result = v] = AskOf(s, c, x, v)
             /\ a.seq = s /\ a.cursor = c /\ a.exits = x /\ a.result = r
<1> DEFINE a == AskOf(s, c, x, r)
<1>0. a = [seq |-> a.seq, cursor |-> a.cursor, exits |-> a.exits, result |-> a.result]
      /\ a.seq = s /\ a.cursor = c /\ a.exits = x /\ a.result = r
  BY DEF AskOf
<1> HIDE DEF a
<1>1. [a EXCEPT !.seq = v] = AskOf(v, c, x, r)
  BY <1>0 DEF AskOf
<1>2. [a EXCEPT !.cursor = v] = AskOf(s, v, x, r)
  BY <1>0 DEF AskOf
<1>3. [a EXCEPT !.exits = v] = AskOf(s, c, v, r)
  BY <1>0 DEF AskOf
<1>4. [a EXCEPT !.result = v] = AskOf(s, c, x, v)
  BY <1>0 DEF AskOf
<1> QED
  BY <1>0, <1>1, <1>2, <1>3, <1>4 DEF a

AskSound(lg, a) ==
  /\ a = AskOf(a.seq, a.cursor, a.exits, a.result)
  /\ a.seq \in 0..Len(lg) /\ a.cursor \in a.seq..Len(lg)
  /\ a.result = "waits" => a.seq # 0 /\ a.exits = ExitClaims(lg, a.seq, a.cursor)
  /\ a.seq # 0 => Told(lg, a)

(* What a call has read is what it was, whatever landed since.             *)
LEMMA AskKept ==
  ASSUME NEW lg, NEW more, Grows(lg, more), NEW a, AskSound(lg, a),
         a.seq # 0 => \A i \in 1..Len(lg) : lg[i].claim \in Nat
  PROVE  AskSound(more, a)
<1>1. /\ Len(lg) \in Nat /\ Len(more) \in Nat /\ Len(lg) <= Len(more)
      /\ \A i \in 1..Len(lg) : more[i] = lg[i]
  BY DEF Grows
<1>2. a.seq \in 0..Len(lg) /\ a.cursor \in a.seq..Len(lg)
  BY DEF AskSound
<1>3. a.seq \in 0..Len(more) /\ a.cursor \in a.seq..Len(more)
  BY <1>1, <1>2
<1>4. \A i \in 1..a.cursor : more[i] = lg[i]
  BY <1>1, <1>2
<1>5. \A i \in (a.seq + 1)..a.cursor : i \in 1..a.cursor /\ more[i] = lg[i]
  BY <1>2, <1>4
<1>6. ExitClaims(more, a.seq, a.cursor) = ExitClaims(lg, a.seq, a.cursor)
  BY <1>5 DEF ExitClaims
<1>7. SUFFICES ASSUME a.seq # 0 PROVE Told(more, a)
  BY <1>3, <1>6 DEF AskSound
<1>8. more[a.seq] = lg[a.seq] /\ Told(lg, a)
  BY <1>1, <1>2, <1>7 DEF AskSound
<1>9. Took(more, a.seq, a.cursor) = Took(lg, a.seq, a.cursor)
  BY <1>5, <1>8 DEF Took
<1>10. Naked(more, a.seq, a.cursor) <=> Naked(lg, a.seq, a.cursor)
  BY <1>5, <1>8 DEF Naked
<1>11. \A c : IsNewestClaim(more, c, a.cursor) <=> IsNewestClaim(lg, c, a.cursor)
  <2>1. Claims(more, a.cursor) = Claims(lg, a.cursor)
    BY <1>4 DEF Claims
  <2> QED
    BY <2>1 DEF IsNewestClaim
<1>12. \A lo \in {1, a.seq + 1} : Exited(more, lo, a.cursor) <=> Exited(lg, lo, a.cursor)
  <2>1. \A lo \in {1, a.seq + 1} : \A i \in lo..a.cursor : more[i] = lg[i]
    BY <1>4, <1>5
  <2> QED
    BY <1>11, <2>1 DEF Exited
<1>13. ASSUME NEW c PROVE VoidBeside(more, a.seq, c, a.cursor) <=> VoidBeside(lg, a.seq, c, a.cursor)
  <2>1. \A i \in 1..a.cursor : Endings(more, lg[i].claim, a.cursor) # {}
                               <=> Endings(lg, lg[i].claim, a.cursor) # {}
    <3>1. ASSUME NEW d \in Nat PROVE Endings(more, d, a.cursor) = Endings(lg, d, a.cursor)
      BY <1>2, <1>4, <3>1 DEF Endings
    <3>2. \A i \in 1..a.cursor : lg[i].claim \in Nat
      BY <1>1, <1>2, <1>7
    <3> QED
      BY <3>1, <3>2
  <2> QED
    BY <1>4, <1>8, <2>1 DEF VoidBeside
<1>14. \A i \in Took(lg, a.seq, a.cursor) : more[i] = lg[i]
  BY <1>5 DEF Took
<1> QED
  BY <1>8, <1>9, <1>10, <1>12, <1>13, <1>14 DEF Told

(* Where an await is observed every record names a claim or 0.             *)
ClaimsTyped == watching = "await" => \A i \in 1..Len(log) : log[i].claim \in Nat

LEMMA AwaitWritten ==
  ASSUME NEW lg, NEW s \in AwaitWrites(lg)
  PROVE  s.claim \in Nat
<1> DEFINE Own == Claims(lg, Len(lg))
<1>1. Own \subseteq Nat
  BY DEF Claims
<1>2. \A c, t, b, n, k : /\ OfClaim(c, t, b, n).claim = c /\ OfRequest(c, t, k).claim = c
                         /\ Control(t, k, b).claim = 0
                         /\ Marked(OfClaim(c, t, b, n), k).claim = c
                         /\ Honoring(OfClaim(c, t, b, n), k).claim = c
  BY DEF OfClaim, OfRequest, Control, Marked, Honoring, Blank
<1>3. ASSUME NEW t, NEW b, NEW x \in Writing(lg, t, b)
      PROVE  \E c \in Own : \E n : x = OfClaim(c, t, b, n)
  BY DEF Writing
<1>4. ASSUME NEW x \in Heartbeats(lg) PROVE \E c \in Own : \E n : x = OfClaim(c, "heartbeat", "", n)
  BY DEF Heartbeats
<1> HIDE DEF Own
<1>5. CASE s \in Starting(lg)
  <2>1. PICK n : s = OfClaim(0, "started", "", n)
    BY <1>5 DEF Starting
  <2>2. OfClaim(0, "started", "", n).claim = 0
    BY DEF OfClaim, Blank
  <2>3. s.claim = 0
    BY <2>1, <2>2, Zenon
  <2> QED
    BY <2>3
<1>6. CASE s \in Marking(lg)
  <2>2. \E k : \E x \in Progress(lg) : s = Marked(x, k)
    BY <1>6 DEF Marking
  <2>3. PICK k : \E x \in Progress(lg) : s = Marked(x, k)
    BY <2>2
  <2>4. PICK x \in Progress(lg) : s = Marked(x, k)
    BY <2>3
  <2>5. CASE x \in Writing(lg, "commit", "")
    <3>0. PICK b : x \in Writing(lg, "commit", b)
      BY <2>5, Zenon
    <3>1. PICK c \in Own : \E n : x = OfClaim(c, "commit", b, n)
      BY <1>3, <3>0
    <3>2. PICK n : x = OfClaim(c, "commit", b, n)
      BY <3>1
    <3>3. Marked(OfClaim(c, "commit", b, n), k).claim = c
      BY DEF Marked, OfClaim, Blank
    <3> QED
      BY <1>1, <2>4, <3>2, <3>3
  <2>6. CASE x \in Heartbeats(lg)
    <3>1. PICK c \in Own : \E n : x = OfClaim(c, "heartbeat", "", n)
      BY <1>4, <2>6
    <3>2. PICK n : x = OfClaim(c, "heartbeat", "", n)
      BY <3>1
    <3>3. Marked(OfClaim(c, "heartbeat", "", n), k).claim = c
      BY DEF Marked, OfClaim, Blank
    <3> QED
      BY <1>1, <2>4, <3>2, <3>3
  <2> QED
    BY <2>4, <2>5, <2>6, Zenon DEF Progress
<1>7. CASE s \in Exits(lg)
  <2>1. CASE s \in Writing(lg, "stopped", "completed")
    BY <1>1, <1>2, <1>3, <2>1
  <2>2. CASE \E x \in Writing(lg, "stopped", "preempted") : \E h : s = Honoring(x, h)
    <3>1. PICK x \in Writing(lg, "stopped", "preempted") : \E h : s = Honoring(x, h)
      BY <2>2
    <3>2. PICK h : s = Honoring(x, h)
      BY <3>1
    <3>3. PICK c \in Own : \E n : x = OfClaim(c, "stopped", "preempted", n)
      BY <1>3
    <3>4. PICK n : x = OfClaim(c, "stopped", "preempted", n)
      BY <3>3
    <3>5. Honoring(OfClaim(c, "stopped", "preempted", n), h).claim = c
      BY <1>2
    <3> QED
      BY <1>1, <3>2, <3>4, <3>5
  <2> QED
    BY <1>7, <2>1, <2>2 DEF Exits
<1>8. CASE s \in Answers(lg)
  <2>1. PICK c \in Own, t \in {"nak", "bound", "died"}, r \in RequestIds : s = OfRequest(c, t, r)
    BY <1>8 DEF Answers, Own
  <2>2. OfRequest(c, t, r).claim = c
    BY <1>2
  <2> QED
    BY <1>1, <2>1, <2>2
<1>9. CASE \E r \in RequestIds : s = Control("stop", r, "later") \/ s = Control("subscribe", r, "lease")
  BY <1>2, <1>9
<1> QED
  BY <1>5, <1>6, <1>7, <1>8, <1>9 DEF AwaitWrites

LEMMA StaysTyped ==
  ASSUME LogInv, ClaimsTyped, [ClientNext]_clientVars
  PROVE  ClaimsTyped'
<1>1. LogInv' /\ Grows(log, log') /\ watching' = watching
  BY LogGrows
<1>2. SUFFICES ASSUME watching = "await", NEW i \in (Len(log) + 1)..Len(log')
               PROVE  log'[i].claim \in Nat
  BY <1>1 DEF ClaimsTyped, Grows
<1>3. CASE ClientWrite
  <2>1. PICK e \in AwaitWrites(log) : log' = Append(log, e)
    BY <1>2, <1>3 DEF ClientWrite
  <2>2. i = Len(log) + 1 /\ log'[i] = e
    BY <1>2, <2>1, GrowsMore DEF LogInv, IsLog
  <2> QED
    BY <2>1, <2>2, AwaitWritten
<1>4. CASE ~ClientWrite
  <2>1. log' = log \/ Write \/ ReapAndPoll
    BY <1>4, EventsLeave, Zenon DEF ClientNext, Next, clientVars, PollHead, PollDemand, PollAnswers, PollStops,
               Track, PollWatch, CallWait, CallAwait, PollAwait
  <2>2. CASE log' = log
    BY <1>2, <2>2 DEF LogInv, IsLog
  <2>3. CASE Write
    BY <1>2, <2>3 DEF Write, Writable
  <2>4. CASE ReapAndPoll
    BY <1>2, <2>4 DEF ReapAndPoll, MayPoll
  <2> QED
    BY <2>1, <2>2, <2>3, <2>4
<1> QED
  BY <1>3, <1>4

-----------------------------------------------------------------------------
(* What a poll of the call reads.                                          *)

LEMMA LeastIs ==
  ASSUME NEW S \in SUBSET Nat, S # {}
  PROVE  LET least == CHOOSE i \in S : \A j \in S : i <= j IN least \in S
BY LeastOf

(* A head that settled is an exit of the newest claim.                     *)
LEMMA SettledExited ==
  ASSUME NEW lg, NEW w \in Nat, LatestClaimHead(lg, w).settled
  PROVE  Exited(lg, 1, w)
<1> DEFINE h == HeadAt(lg, w)
           c == NewestIn(Claims(lg, w))
<1>1. Resolved(lg, h).settled
  BY ResolvedIsHead
<1>2. h.exit # 0 /\ Closed(lg[h.exit])
  BY <1>1 DEF Resolved
<1>3. Claims(lg, w) # {}
  BY <1>2, NoClaimNoHead DEF NoHead
<1>4. c \in 1..w /\ lg[c].topic = "started" /\ \A d \in Claims(lg, w) : d <= c
  BY <1>3, NewestClaim
<1> HIDE DEF c
<1>5. Tells(lg, c, w, h)
  BY <1>4, HeadAtTells
<1> HIDE DEF h
<1>6. h.exit \in Endings(lg, c, w) /\ lg[h.exit].topic = "stopped" /\ Readable(lg[h.exit])
  BY <1>2, <1>5 DEF Tells
<1>7. h.exit \in 1..w /\ lg[h.exit].claim = c
  BY <1>4, <1>6 DEF Endings
<1>8. IsNewestClaim(lg, c, w)
  BY <1>4 DEF IsNewestClaim, Claims
<1> QED
  BY <1>6, <1>7, <1>8 DEF Exited

LEMMA NewestIsLatest ==
  ASSUME NEW lg, NEW w \in Nat
  PROVE  \A c : IsNewestClaim(lg, c, w) <=> LatestOf(Claims(lg, w)) # 0 /\ c = LatestOf(Claims(lg, w))
<1> DEFINE k == NewestIn(Claims(lg, w))
<1>1. CASE Claims(lg, w) = {}
  BY <1>1 DEF IsNewestClaim, LatestOf
<1>2. CASE Claims(lg, w) # {}
  <2>1. k \in 1..w /\ lg[k].topic = "started" /\ \A d \in Claims(lg, w) : d <= k
    BY <1>2, NewestClaim
  <2>2. LatestOf(Claims(lg, w)) = k
    BY <1>2 DEF LatestOf
  <2> HIDE DEF k
  <2>3. \A c \in Claims(lg, w) : c \in Nat
    BY DEF Claims
  <2>4. k \in Claims(lg, w) /\ k \in Nat /\ k # 0
    BY <2>1 DEF Claims
  <2>5. IsNewestClaim(lg, k, w)
    BY <2>1, <2>4 DEF IsNewestClaim
  <2>6. ASSUME NEW c, IsNewestClaim(lg, c, w) PROVE c = k
    <3>1. c \in Claims(lg, w) /\ k <= c
      BY <2>4, <2>6 DEF IsNewestClaim
    <3>2. c <= k
      BY <2>1, <3>1
    <3> QED
      BY <2>3, <2>4, <3>1, <3>2
  <2> QED
    BY <2>2, <2>4, <2>5, <2>6
<1> QED
  BY <1>1, <1>2

LEMMA AskPolls ==
  ASSUME NEW lg, IsLog(lg), NEW a, AskSound(lg, a), a.result = "waits"
  PROVE  AskSound(lg, AskPolled(lg, a, Len(lg)))
<1> DEFINE w == Len(lg)
           seq == a.seq
           r == lg[seq].rid
           got == AskRead(lg, a, w)
           res == AskResult(lg, a, w)
           b == AskPolled(lg, a, w)
           naks == {i \in (a.cursor + 1)..w : lg[i].topic = "nak" /\ lg[i].rid = r}
           head0 == LatestClaimHead(lg, w)
           c == LatestOf(Claims(lg, w))
<1>1. /\ w \in Nat /\ seq \in 1..w /\ a.cursor \in seq..w
      /\ a.exits = ExitClaims(lg, seq, a.cursor)
      /\ Took(lg, seq, a.cursor) = {} /\ ~Naked(lg, seq, a.cursor)
      /\ ~Exited(lg, seq + 1, a.cursor)
  BY DEF IsLog, AskSound, Told
<1>2. /\ b = AskOf(seq, w, got.exits, res)
      /\ b.seq = seq /\ b.cursor = w /\ b.exits = got.exits /\ b.result = res
  <2> HIDE DEF got, res
  <2>1. a = AskOf(a.seq, a.cursor, a.exits, a.result)
    BY DEF AskSound
  <2>2. [a EXCEPT !.cursor = w] = AskOf(seq, w, a.exits, a.result)
    BY <2>1, AskFields
  <2>3. [AskOf(seq, w, a.exits, a.result) EXCEPT !.exits = got.exits] = AskOf(seq, w, got.exits, a.result)
    BY AskFields
  <2>4. [AskOf(seq, w, got.exits, a.result) EXCEPT !.result = res] = AskOf(seq, w, got.exits, res)
    BY AskFields
  <2>5. b = [[[a EXCEPT !.cursor = w] EXCEPT !.exits = got.exits] EXCEPT !.result = res]
    BY DEF AskPolled, got, res
  <2>6. b = AskOf(seq, w, got.exits, res)
    <3> HIDE DEF b
    <3> QED
      BY <2>2, <2>3, <2>4, <2>5, Zenon
  <2> HIDE DEF b
  <2> QED
    BY <2>6, AskFields
<1>3. \A i : i \in (seq + 1)..w <=> i \in (seq + 1)..a.cursor \/ i \in (a.cursor + 1)..w
  BY <1>1
<1>4. got.nak <=> naks # {}
  BY DEF AskRead
<1>5. got.takes \in SUBSET Took(lg, seq, w)
  <2> DEFINE hi == IF naks = {} THEN w ELSE CHOOSE i \in naks : \A j \in naks : i <= j
  <2>1. hi \in 0..w
    <3>1. naks \in SUBSET Nat
      BY <1>1
    <3>2. naks # {} => hi \in naks
      <4> HIDE DEF naks
      <4> QED
        BY <3>1, LeastIs
    <3> QED
      BY <1>1, <3>2
  <2>2. \A i \in got.takes : i \in (a.cursor + 1)..hi /\ Takes(lg[i], r, seq)
    BY DEF AskRead
  <2>3. \A i \in (a.cursor + 1)..hi : i \in (seq + 1)..w
    <3> HIDE DEF hi
    <3> QED
      BY <1>1, <2>1
  <2> QED
    BY <2>2, <2>3 DEF Took
<1>6. ASSUME naks = {}
      PROVE  /\ ~Naked(lg, seq, w)
             /\ got.takes = Took(lg, seq, w)
             /\ got.exits = ExitClaims(lg, seq, w)
  <2>1. ~Naked(lg, seq, w)
    BY <1>1, <1>3, <1>6 DEF Naked
  <2> DEFINE read == {i \in (a.cursor + 1)..w : lg[i].topic \in AnswerTopics}
  <2>2. /\ got.takes = {i \in read : Takes(lg[i], r, seq)}
        /\ got.exits = a.exits \cup {lg[i].claim : i \in {j \in read : lg[j].topic = "stopped" /\ Readable(lg[j])}}
    BY <1>6 DEF AskRead
  <2>3. got.takes = Took(lg, seq, w)
    <3>1. \A i \in (seq + 1)..w : Takes(lg[i], r, seq) => i \in read
      BY <1>1, <1>3 DEF Took, Takes, AnswerTopics
    <3>2. \A i \in read : i \in (seq + 1)..w
      BY <1>3
    <3> HIDE DEF read
    <3> QED
      BY <2>2, <3>1, <3>2 DEF Took
  <2>4. got.exits = ExitClaims(lg, seq, w)
    <3>1. \A j : j \in read /\ lg[j].topic = "stopped" <=> j \in (a.cursor + 1)..w /\ lg[j].topic = "stopped"
      BY DEF AnswerTopics
    <3> HIDE DEF read
    <3> QED
      BY <1>1, <1>3, <2>2, <3>1 DEF ExitClaims
  <2> QED
    BY <2>1, <2>3, <2>4
<1>7. res = "waits" => naks = {}
  BY <1>4 DEF AskResult
<1>8. Told(lg, b)
  <2>1. CASE naks # {}
    <3>1. res = "nak"
      BY <1>4, <2>1 DEF AskResult
    <3> QED
      BY <1>2, <3>1 DEF Told
  <2>2. CASE naks = {} /\ got.takes # {}
    <3> DEFINE took == CHOOSE i \in got.takes : \A j \in got.takes : i <= j
    <3>1. res = IF VoidBeside(lg, seq, lg[took].claim, w) THEN "raises" ELSE "taken"
      BY <1>4, <2>2 DEF AskResult
    <3>2. took \in got.takes
      <4>1. got.takes \in SUBSET Nat
        BY <1>1, <1>5 DEF Took
      <4> HIDE DEF got
      <4> QED
        BY <2>2, <4>1, LeastIs
    <3> HIDE DEF took, got, res, b
    <3>3. took \in Took(lg, seq, w)
      BY <1>5, <3>2
    <3> QED
      BY <1>2, <3>1, <3>3 DEF Told
  <2>3. CASE naks = {} /\ got.takes = {}
    <3>1. res = IF head0.raises THEN "raises"
                ELSE IF c # 0 /\ (head0.settled \/ c \in got.exits) THEN "verdict" ELSE "waits"
      BY <1>4, <2>3 DEF AskResult
    <3>2. ~Naked(lg, seq, w) /\ Took(lg, seq, w) = {} /\ got.exits = ExitClaims(lg, seq, w)
      BY <1>6, <2>3
    <3> HIDE DEF got, res, b, head0
    <3>3. \A k : IsNewestClaim(lg, k, w) <=> c # 0 /\ k = c
      BY <1>1, NewestIsLatest
    <3> HIDE DEF c
    <3>4. ASSUME c # 0, c \in ExitClaims(lg, seq, w) PROVE Exited(lg, 1, w)
      <4>1. PICK i \in (seq + 1)..w : lg[i].topic = "stopped" /\ Readable(lg[i]) /\ lg[i].claim = c
        BY <3>4 DEF ExitClaims
      <4>2. i \in 1..w
        BY <1>1
      <4> QED
        BY <3>3, <3>4, <4>1, <4>2 DEF Exited
    <3>5. head0.settled => Exited(lg, 1, w)
      BY <1>1, SettledExited DEF head0
    <3>6. Exited(lg, seq + 1, w) => c # 0 /\ c \in ExitClaims(lg, seq, w)
      BY <3>3 DEF Exited, ExitClaims
    <3> QED
      BY <1>2, <3>1, <3>2, <3>4, <3>5, <3>6 DEF Told
  <2> QED
    BY <2>1, <2>2, <2>3
<1>9. res = "waits" => got.exits = ExitClaims(lg, seq, w)
  BY <1>6, <1>7
<1> HIDE DEF got, res, b
<1> QED
  BY <1>1, <1>2, <1>8, <1>9 DEF AskSound, b

AwaitInv ==
  /\ ClaimsTyped
  /\ ask.seq # 0 => watching = "await"
  /\ AskSound(log, ask)

LEMMA StartsAsking == ClientInit => AwaitInv
<1> SUFFICES ASSUME ClientInit PROVE AwaitInv
  OBVIOUS
<1>1. Len(log) = 0 /\ ask = NoAsk
  BY DEF ClientInit, Init
<1> QED
  BY <1>1 DEF AwaitInv, ClaimsTyped, AskSound, AskOf, NoAsk

LEMMA StaysAsking == LogInv /\ AwaitInv /\ [ClientNext]_clientVars => AwaitInv'
<1> SUFFICES ASSUME LogInv, AwaitInv, [ClientNext]_clientVars PROVE AwaitInv'
  OBVIOUS
<1>1. LogInv' /\ Grows(log, log') /\ watching' = watching
  BY LogGrows
<1>2. ClaimsTyped'
  BY StaysTyped DEF AwaitInv
<1>3. CASE UNCHANGED ask
  <2>1. ask.seq # 0 => \A i \in 1..Len(log) : log[i].claim \in Nat
    BY DEF AwaitInv, ClaimsTyped
  <2>2. AskSound(log', ask)
    BY <1>1, <2>1, AskKept DEF AwaitInv
  <2> QED
    BY <1>1, <1>2, <1>3, <2>2 DEF AwaitInv
<1>4. CASE CallAwait
  <2>1. PICK seq \in 1..Len(log) :
          ask' = IF RefusedAsk(log, seq) THEN [NoAsk EXCEPT !.result = "refused"] ELSE Asking(seq)
    BY <1>4 DEF CallAwait
  <2>2. watching' = "await" /\ log' = log /\ Len(log) \in Nat
    BY <1>4 DEF CallAwait, LogInv, IsLog
  <2>3. AskSound(log, [NoAsk EXCEPT !.result = "refused"])
    <3> DEFINE a == [NoAsk EXCEPT !.result = "refused"]
    <3>1. NoAsk = AskOf(0, 0, {}, "none")
      BY DEF NoAsk, AskOf
    <3>2. a = AskOf(0, 0, {}, "refused")
      BY <3>1, AskFields
    <3> HIDE DEF a
    <3>3. a.seq = 0 /\ a.cursor = 0 /\ a.exits = {} /\ a.result = "refused"
      BY <3>2, AskFields
    <3> QED
      <4>1. AskSound(log, a)
        <5>1. a = AskOf(a.seq, a.cursor, a.exits, a.result)
          BY <3>2, <3>3, Zenon
        <5> QED
          BY <2>2, <3>3, <5>1 DEF AskSound
      <4> QED
        BY <4>1 DEF a
  <2>4. AskSound(log, Asking(seq))
    <3> DEFINE a == Asking(seq)
    <3>1. a = AskOf(seq, seq, {}, "waits") /\ a.seq = seq /\ a.cursor = seq /\ a.exits = {}
          /\ a.result = "waits"
      <4>1. NoAsk = AskOf(0, 0, {}, "none")
        BY DEF NoAsk, AskOf
      <4>2. [NoAsk EXCEPT !.seq = seq] = AskOf(seq, 0, {}, "none")
        BY <4>1, AskFields
      <4>3. [AskOf(seq, 0, {}, "none") EXCEPT !.cursor = seq] = AskOf(seq, seq, {}, "none")
        BY AskFields
      <4>4. [AskOf(seq, seq, {}, "none") EXCEPT !.result = "waits"] = AskOf(seq, seq, {}, "waits")
        BY AskFields
      <4>5. a = [[[NoAsk EXCEPT !.seq = seq] EXCEPT !.cursor = seq] EXCEPT !.result = "waits"]
        BY DEF Asking
      <4>6. a = AskOf(seq, seq, {}, "waits")
        <5> HIDE DEF a
        <5> QED
          BY <4>2, <4>3, <4>4, <4>5, Zenon
      <4> HIDE DEF a
      <4> QED
        BY <4>6, AskFields
    <3> HIDE DEF a
    <3>2. (seq + 1)..seq = {}
      OBVIOUS
    <3>3. /\ ExitClaims(log, seq, seq) = {} /\ Took(log, seq, seq) = {}
          /\ ~Naked(log, seq, seq) /\ ~Exited(log, seq + 1, seq)
      BY <3>2 DEF ExitClaims, Took, Naked, Exited
    <3> QED
      <4>1. AskSound(log, a)
        <5>1. a = AskOf(a.seq, a.cursor, a.exits, a.result)
          BY <3>1, Zenon
        <5>2. seq \in 0..Len(log) /\ seq \in seq..Len(log) /\ seq # 0
          BY <2>2
        <5>3. Told(log, a)
          BY <3>1, <3>3 DEF Told
        <5> QED
          BY <3>1, <3>3, <5>1, <5>2, <5>3, Zenon DEF AskSound
      <4> QED
        BY <4>1 DEF a
  <2>5. AskSound(log', ask')
    BY <2>1, <2>2, <2>3, <2>4
  <2> QED
    BY <1>2, <2>2, <2>5 DEF AwaitInv
<1>5. CASE PollAwait
  <2>1. watching' = "await" /\ log' = log /\ ask.result = "waits" /\ ask' = AskPolled(log, ask, Len(log))
    BY <1>5 DEF PollAwait
  <2>2. AskSound(log, ask')
    BY <2>1, AskPolls DEF AwaitInv, LogInv
  <2> QED
    BY <1>2, <2>1, <2>2 DEF AwaitInv
<1>6. UNCHANGED ask \/ CallAwait \/ PollAwait
  BY EventsLeave, Zenon DEF ClientNext, clientVars, ClientWrite, Track, PollWatch, ReapAndPoll, CallWait
<1> QED
  BY <1>3, <1>4, <1>5, <1>6

LEMMA AskingTells == AwaitInv => AwaitTells
<1> SUFFICES ASSUME AwaitInv, watching = "await", ask.seq # 0 PROVE AwaitTells
  BY DEF AwaitTells
<1>1. Told(log, ask)
  BY DEF AwaitInv, AskSound
<1> QED
  BY <1>1 DEF AwaitTells, Told, Took, Naked, Exited

(* await_consumed tells the truth, and not too soon.  What it says was     *)
(* taken some record up to its cursor took, and, of a lease, one beside    *)
(* whose claim no other claim that ended is bound to it (the taker's own   *)
(* may have ended: a dead claim's late commit takes); it gives a verdict,  *)
(* or goes on waiting, only while nothing up to its cursor took or refused *)
(* the request, however many reads its wait was cut into and whatever      *)
(* landed between them.                                                    *)
THEOREM AnswersAwaited == ClientSpec => []AwaitTells
<1>1. ClientInit => AwaitInv /\ ObserverInv
  BY StartsAsking, StartsObserved
<1>2. AwaitInv /\ ObserverInv /\ [ClientNext]_clientVars => AwaitInv' /\ ObserverInv'
  BY StaysAsking, StaysObserved DEF ObserverInv
<1>3. AwaitInv => AwaitTells
  BY AskingTells
<1> QED
  BY <1>1, <1>2, <1>3, PTL DEF ClientSpec

-----------------------------------------------------------------------------
(* A set of seqs in ascending order, and the order of two sets of which    *)
(* one lies below the other.                                               *)

(* S is A with B above it. *)
Stacks(S, A, B) ==
  /\ S \in SUBSET Nat /\ IsFiniteSet(S)
  /\ S = A \cup B /\ \A a \in A, b \in B : a < b

LEMMA RanksSplit ==
  ASSUME NEW S, NEW A, NEW B, Stacks(S, A, B)
  PROVE  /\ Cardinality(A) \in Nat /\ Cardinality(B) \in Nat
         /\ Cardinality(S) = Cardinality(A) + Cardinality(B)
         /\ \A k \in 1..Cardinality(A) : Ranked(S, k) = Ranked(A, k)
         /\ \A k \in 1..Cardinality(B) : Ranked(S, Cardinality(A) + k) = Ranked(B, k)
<1> DEFINE a == Cardinality(A)
           b == Cardinality(B)
           Upto(T, i) == {j \in T : j <= i}
           rank(T, i) == Cardinality(Upto(T, i))
<1> USE DEF Stacks
<1>0. \A i \in S : i \in Nat
  OBVIOUS
<1>1. IsFiniteSet(A) /\ IsFiniteSet(B)
  BY FS_Subset
<1>2. a \in Nat /\ b \in Nat
  BY <1>1, FS_CardinalityType
<1>3. A \cap B = {}
  <2>1. \A i \in A \cap B : i \in Nat /\ i < i
    OBVIOUS
  <2> QED
    BY <2>1
<1>4. Cardinality(S) = a + b
  <2>1. Cardinality(A \cup B) = Cardinality(A) + Cardinality(B) - Cardinality(A \cap B)
    BY <1>1, FS_Union
  <2>2. Cardinality(A \cap B) = 0
    BY <1>3, FS_EmptySet
  <2> QED
    BY <1>2, <2>1, <2>2
<1>5. ASSUME NEW i \in A PROVE rank(S, i) = rank(A, i) /\ rank(A, i) \in Nat /\ rank(A, i) <= a
  <2>1. \A j \in S : j <= i => j \in A
    BY <1>0
  <2>3. Upto(S, i) = Upto(A, i)
    BY <2>1
  <2>2. IsFiniteSet(Upto(A, i)) /\ rank(A, i) <= a
    BY <1>1, FS_Subset
  <2> QED
    BY <1>1, <2>2, <2>3, FS_CardinalityType
<1>6. ASSUME NEW i \in B PROVE rank(S, i) = a + rank(B, i) /\ rank(B, i) \in Nat /\ rank(B, i) > 0
  <2> DEFINE U == Upto(B, i)
  <2>0. \A j \in A : j <= i
    BY <1>0
  <2>1. Upto(S, i) = A \cup U /\ A \cap U = {}
    BY <1>3, <2>0
  <2>2. IsFiniteSet(U) /\ i \in U
    BY <1>1, FS_Subset
  <2>3. Cardinality(U) \in Nat /\ Cardinality(U) # 0
    BY <2>2, FS_CardinalityType, FS_EmptySet
  <2>4. Cardinality(A \cup U) = Cardinality(A) + Cardinality(U) - Cardinality(A \cap U)
    BY <1>1, <2>2, FS_Union
  <2>5. Cardinality(A \cap U) = 0
    BY <2>1, FS_EmptySet
  <2>6. rank(S, i) = Cardinality(A \cup U)
    BY <2>1
  <2> HIDE DEF rank, a, U, Stacks
  <2>7. rank(S, i) = a + Cardinality(U)
    BY <1>2, <2>3, <2>4, <2>5, <2>6 DEF a
  <2> QED
    BY <2>3, <2>7 DEF rank, U
<1>7. ASSUME NEW k \in 1..a PROVE Ranked(S, k) = Ranked(A, k)
  <2>1. ASSUME NEW i \in S PROVE rank(S, i) = k <=> i \in A /\ rank(A, i) = k
    <3> HIDE DEF rank, Upto, a, b
    <3>1. CASE i \in A
      BY <1>5, <3>1
    <3>2. CASE i \in B
      BY <1>2, <1>3, <1>6, <3>2
    <3> QED
      BY <3>1, <3>2
  <2> QED
    BY <2>1 DEF Ranked
<1>8. ASSUME NEW k \in 1..b PROVE Ranked(S, a + k) = Ranked(B, k)
  <2>1. ASSUME NEW i \in S PROVE rank(S, i) = a + k <=> i \in B /\ rank(B, i) = k
    <3> HIDE DEF rank, Upto, a, b
    <3>1. CASE i \in A
      BY <1>2, <1>3, <1>5, <3>1
    <3>2. CASE i \in B
      BY <1>2, <1>6, <3>2
    <3> QED
      BY <3>1, <3>2
  <2> QED
    BY <2>1 DEF Ranked
<1> QED
  BY <1>2, <1>4, <1>7, <1>8

(* What the answer at rank k of S is. *)
AnswerAt(lg, S, k) ==
  LET i == CHOOSE j \in Ranked(S, k) : TRUE
  IN  <<i, CHOOSE v \in SamplesAt(lg, i) : TRUE>>

LEMMA AlongIs ==
  ASSUME NEW lg, NEW S, Cardinality(Fires(lg, S)) \in Nat
  PROVE  AnswersAlong(lg, S) =
           [k \in 1..Cardinality(Fires(lg, S)) |-> AnswerAt(lg, Fires(lg, S), k)]
<1> DEFINE F == Fires(lg, S)
           nodes == Ascending(F)
<1>1. nodes = [k \in 1..Cardinality(F) |-> CHOOSE i \in Ranked(F, k) : TRUE]
  BY DEF Ascending
<1>2. AnswersAlong(lg, S) =
        [k \in 1..Len(nodes) |-> <<nodes[k], CHOOSE v \in SamplesAt(lg, nodes[k]) : TRUE>>]
  BY Zenon DEF AnswersAlong
<1> HIDE DEF F
<1>3. Len(nodes) = Cardinality(F)
  <2>1. Cardinality(F) \in Nat
    BY DEF F
  <2> QED
    BY <1>1, <2>1
<1>4. \A k \in 1..Cardinality(F) :
        <<nodes[k], CHOOSE v \in SamplesAt(lg, nodes[k]) : TRUE>> = AnswerAt(lg, F, k)
  <2>1. ASSUME NEW k \in 1..Cardinality(F)
        PROVE nodes[k] = (CHOOSE i \in Ranked(F, k) : TRUE)
    <3> HIDE DEF nodes
    <3> QED
      BY <1>1, Zenon
  <2> HIDE DEF nodes
  <2> QED
    BY <2>1, Zenon DEF AnswerAt
<1> HIDE DEF nodes
<1> QED
  BY <1>2, <1>3, <1>4, Zenon DEF F

LEMMA AlongJoins ==
  ASSUME NEW lg, NEW S, NEW A, NEW B, Stacks(S, A, B)
  PROVE  AnswersAlong(lg, S) = AnswersAlong(lg, A) \o AnswersAlong(lg, B)
<1> DEFINE FS == Fires(lg, S)
           FA == Fires(lg, A)
           FB == Fires(lg, B)
           a  == Cardinality(FA)
           b  == Cardinality(FB)
           x  == [k \in 1..a |-> AnswerAt(lg, FA, k)]
           y  == [k \in 1..b |-> AnswerAt(lg, FB, k)]
           z  == [k \in 1..(a + b) |-> AnswerAt(lg, FS, k)]
<1>1. Stacks(FS, FA, FB)
  <2>1. /\ S \in SUBSET Nat /\ IsFiniteSet(S)
        /\ FS \subseteq S /\ FS = FA \cup FB /\ \A i \in FA, j \in FB : i < j
    BY DEF Fires, Stacks
  <2> HIDE DEF FS, FA, FB
  <2>2. IsFiniteSet(FS)
    BY <2>1, FS_Subset
  <2> QED
    BY <2>1, <2>2 DEF Stacks
<1> HIDE DEF FS, FA, FB
<1>3. /\ a \in Nat /\ b \in Nat /\ Cardinality(FS) = a + b
      /\ \A k \in 1..a : Ranked(FS, k) = Ranked(FA, k)
      /\ \A k \in 1..b : Ranked(FS, a + k) = Ranked(FB, k)
  BY <1>1, RanksSplit
<1>4. /\ AnswersAlong(lg, A) = x
      /\ AnswersAlong(lg, B) = y
      /\ AnswersAlong(lg, S) = z
  <2>1. Cardinality(Fires(lg, A)) \in Nat /\ Cardinality(Fires(lg, B)) \in Nat
    BY <1>3 DEF FA, FB
  <2>2. Cardinality(Fires(lg, S)) \in Nat
    BY <1>3 DEF FS
  <2>3. AnswersAlong(lg, A) = x /\ AnswersAlong(lg, B) = y
    BY <2>1, AlongIs, Zenon DEF FA, FB
  <2>4. AnswersAlong(lg, S) = [k \in 1..Cardinality(FS) |-> AnswerAt(lg, FS, k)]
    <3>1. ASSUME NEW U, Cardinality(Fires(lg, U)) \in Nat
          PROVE  AnswersAlong(lg, U) =
                   [k \in 1..Cardinality(Fires(lg, U)) |-> AnswerAt(lg, Fires(lg, U), k)]
      BY <3>1, AlongIs, Zenon
    <3> QED
      BY <2>2, <3>1, ZenonT(30) DEF FS
  <2> QED
    BY <1>3, <2>3, <2>4, Zenon
<1>5. \A k \in 1..a : AnswerAt(lg, FS, k) = AnswerAt(lg, FA, k)
  BY <1>3, Zenon DEF AnswerAt
<1>6. \A k \in 1..b : AnswerAt(lg, FS, a + k) = AnswerAt(lg, FB, k)
  BY <1>3, Zenon DEF AnswerAt
<1> DEFINE X(k) == AnswerAt(lg, FA, k)
           Y(k) == AnswerAt(lg, FB, k)
           Z(k) == AnswerAt(lg, FS, k)
           T == {X(k) : k \in 1..a} \cup {Y(k) : k \in 1..b}
<1> HIDE DEF a, b
<1>7. x \in Seq(T) /\ y \in Seq(T) /\ Len(x) = a /\ Len(y) = b
  <2>1. x \in [1..a -> T] /\ y \in [1..b -> T]
    OBVIOUS
  <2> HIDE DEF x, y, T
  <2>2. x \in Seq(T) /\ y \in Seq(T)
    BY <1>3, <2>1
  <2> QED
    BY <1>3, <2>1, <2>2
<1>8. z = x \o y
  <2>1. x \o y \in [1..(a + b) -> T]
    <3> HIDE DEF x, y, T
    <3> DEFINE both == x \o y
    <3>1. both \in Seq(T) /\ Len(both) = a + b
      BY <1>3, <1>7
    <3> HIDE DEF both
    <3>2. both \in [1..(a + b) -> T]
      BY <1>3, <3>1
    <3> QED
      BY <3>2 DEF both
  <2>2. ASSUME NEW k \in 1..(a + b) PROVE (x \o y)[k] = z[k]
    <3>1. (x \o y)[k] = IF k <= a THEN x[k] ELSE y[k - a]
      <4> HIDE DEF x, y, T
      <4> QED
        BY <1>3, <1>7, SMTT(60)
    <3>2. CASE k <= a
      <4>1. k \in 1..a
        BY <1>3, <3>2
      <4> QED
        BY <1>5, <3>1, <3>2, <4>1, Zenon
    <3>3. CASE ~(k <= a)
      <4>1. k - a \in 1..b /\ a + (k - a) = k
        BY <1>3, <3>3
      <4>2. AnswerAt(lg, FS, k) = AnswerAt(lg, FB, k - a)
        BY <1>6, <4>1
      <4>3. y[k - a] = AnswerAt(lg, FB, k - a)
        BY <4>1, Zenon
      <4> QED
        BY <3>1, <3>3, <4>2, <4>3, Zenon
    <3> QED
      BY <3>2, <3>3
  <2>3. z = [k \in 1..(a + b) |-> z[k]]
    OBVIOUS
  <2>4. x \o y = [k \in 1..(a + b) |-> (x \o y)[k]]
    <3> HIDE DEF x, y, T
    <3> QED
      BY <2>1, Zenon
  <2> HIDE DEF x, y, z, T
  <2> QED
    BY <2>2, <2>3, <2>4, Zenon
<1> HIDE DEF x, y, z
<1> QED
  BY <1>4, <1>8

(* Every rank of a finite set of seqs is some member's.                    *)
LEMMA EveryRank ==
  ASSUME NEW n \in Nat, NEW S \in SUBSET (1..n)
  PROVE  \A k \in 1..Cardinality(S) : Ranked(S, k) # {}
<1> DEFINE Under(m) == {i \in S : i <= m}
           Full(T) == \A k \in 1..Cardinality(T) : Ranked(T, k) # {}
           G == {m \in 0..n : Full(Under(m))}
<1>0. \A i \in S : i \in Nat /\ 1 <= i /\ i <= n
  OBVIOUS
<1>1. ASSUME NEW m \in 0..n, \A j \in 0..n : j < m => j \in G
      PROVE  m \in G
  <2> DEFINE T == Under(m)
  <2>1. CASE T = {}
    <3>1. Cardinality(T) = 0
      BY <2>1, FS_EmptySet
    <3> HIDE DEF T
    <3>2. Full(T)
      BY <3>1
    <3> QED
      BY <3>2 DEF T
  <2>2. CASE T # {} /\ m \notin S
    <3>0. \E i \in S : i <= m
      BY <2>2
    <3>1. m # 0 /\ m \in Nat /\ m - 1 \in 0..n /\ m - 1 < m
      BY <1>0, <3>0
    <3>2. Under(m - 1) = T
      <4>1. \A i \in S : i <= m <=> i <= m - 1
        BY <1>0, <2>2, <3>1
      <4> QED
        BY <4>1
    <3>3. Full(Under(m - 1))
      BY <1>1, <3>1
    <3> HIDE DEF Full, Under, T
    <3>4. Full(Under(m))
      BY <3>2, <3>3 DEF T
    <3> QED
      BY <3>4
  <2>3. CASE m \in S
    <3> DEFINE A == Under(m - 1)
               B == {m}
    <3>1. m # 0 /\ m \in Nat /\ m - 1 \in 0..n /\ m - 1 < m
      BY <1>0, <2>3
    <3>2. T = A \cup B /\ \A a \in A, b \in B : a < b
      <4>1. \A i \in S : i <= m <=> i <= m - 1 \/ i = m
        BY <1>0, <3>1
      <4>2. \A i \in S : i <= m - 1 => i < m
        BY <1>0, <3>1
      <4> QED
        BY <2>3, <4>1, <4>2
    <3>3. Full(A)
      BY <1>1, <3>1
    <3>4. IsFiniteSet(T) /\ T \in SUBSET Nat
      <4>1. T \subseteq 1..n
        OBVIOUS
      <4>2. IsFiniteSet(1..n)
        BY FS_Interval
      <4> QED
        BY <4>1, <4>2, FS_Subset
    <3>5. Cardinality(B) = 1
      BY FS_Singleton
    <3>6. Ranked(B, 1) = B
      <4>1. {j \in B : j <= m} = B
        BY <3>1
      <4> QED
        BY <3>5, <4>1 DEF Ranked
    <3> HIDE DEF T, A, B
    <3>7. /\ Cardinality(A) \in Nat /\ Cardinality(T) = Cardinality(A) + 1
          /\ \A k \in 1..Cardinality(A) : Ranked(T, k) = Ranked(A, k)
          /\ Ranked(T, Cardinality(A) + 1) = Ranked(B, 1)
      <4>1. Stacks(T, A, B)
        BY <3>2, <3>4 DEF Stacks
      <4> QED
        BY <3>5, <4>1, RanksSplit
    <3>8. B # {}
      BY DEF B
    <3>9. ASSUME NEW k \in 1..Cardinality(T) PROVE Ranked(T, k) # {}
      <4>1. k \in 1..Cardinality(A) \/ k = Cardinality(A) + 1
        BY <3>7
      <4> QED
        BY <3>3, <3>6, <3>7, <3>8, <4>1
    <3>10. Full(T)
      BY <3>9
    <3> QED
      BY <3>10 DEF T
  <2> QED
    BY <2>1, <2>2, <2>3
<1>2. \A m \in 0..n : m \in G
  <2> HIDE DEF G
  <2> QED
    BY <1>1, ClimbTo
<1>3. Under(n) = S
  BY <1>0
<1>4. Full(Under(n))
  BY <1>2
<1> HIDE DEF Under
<1> QED
  BY <1>3, <1>4

-----------------------------------------------------------------------------
(* What the held answers rest on, and what a longer log leaves of it.      *)

Reads(lg) ==
  Reffed(lg) /\ \A i \in 1..Len(lg) : lg[i].values \subseteq 1..(i - 1)

Fine(lg, n) ==
  /\ ~ChainRaises(lg, n)
  /\ \A i \in Fires(lg, Lineage(lg, n)) : ~FiringRaises(lg, i, Len(lg))

AnsSound(lg, a) ==
  /\ a = [along |-> a.along, list |-> a.list, raises |-> a.raises]
  /\ a.along \in 0..Len(lg) /\ Fine(lg, a.along)
  /\ a.list = AnswersAlong(lg, Lineage(lg, a.along))

LEMMA LineageFinite ==
  ASSUME NEW lg, Reffed(lg), NEW n \in 0..Len(lg)
  PROVE  /\ Lineage(lg, n) \subseteq 1..n /\ n \in Nat
         /\ IsFiniteSet(Lineage(lg, n)) /\ Lineage(lg, n) \in SUBSET Nat
<1>1. Lineage(lg, n) \subseteq 1..n /\ n \in Nat
  BY LineageBelow DEF Reffed
<1>2. IsFiniteSet(1..n)
  BY <1>1, FS_Interval
<1> QED
  BY <1>1, <1>2, FS_Subset

LEMMA FineKept ==
  ASSUME NEW lg, NEW more, Grows(lg, more), Reads(lg), Reads(more),
         NEW n \in 0..Len(lg), Fine(lg, n)
  PROVE  Fine(more, n)
<1>1. /\ Len(lg) \in Nat /\ Len(more) \in Nat /\ Len(lg) <= Len(more)
      /\ \A i \in 1..Len(lg) : more[i] = lg[i]
  BY DEF Grows
<1>2. Lineage(more, n) = Lineage(lg, n)
  BY <1>1, LineageKept DEF Reads
<1>3. \A i \in Lineage(lg, n) : i \in 1..Len(lg)
  BY <1>1, LineageBelow DEF Reads
<1>4. ASSUME NEW i \in 1..Len(lg) PROVE BadNode(more, i) <=> BadNode(lg, i)
  <2>1. \A j \in 1..(i - 1) : more[j] = lg[j]
    BY <1>1
  <2>2. Extendable(more, i - 1) = Extendable(lg, i - 1)
    BY <2>1 DEF Extendable
  <2> QED
    BY <1>1, <2>2 DEF BadNode, BadReference
<1>5. ~ChainRaises(more, n)
  BY <1>1, <1>2, <1>3, <1>4 DEF Fine, ChainRaises
<1>6. ASSUME NEW i \in 1..Len(lg), ~FiringRaises(lg, i, Len(lg))
      PROVE  ~FiringRaises(more, i, Len(more))
  <2>1. more[i] = lg[i] /\ \A v \in lg[i].values : more[v] = lg[v]
    BY <1>1 DEF Reads
  <2>2. SamplesAt(more, i) = SamplesAt(lg, i)
    BY <2>1 DEF SamplesAt
  <2>3. Subscribed(more, Len(more))
    BY <1>1, <1>6 DEF FiringRaises, Subscribed
  <2> QED
    BY <1>6, <2>1, <2>2, <2>3 DEF FiringRaises
<1>7. Fires(more, Lineage(more, n)) = Fires(lg, Lineage(lg, n))
  BY <1>1, <1>2, <1>3 DEF Fires
<1> QED
  BY <1>3, <1>5, <1>6, <1>7 DEF Fine, Fires

LEMMA AlongKept ==
  ASSUME NEW lg, NEW more, Grows(lg, more), Reads(lg), Reads(more),
         NEW n \in 0..Len(lg)
  PROVE  AnswersAlong(more, Lineage(more, n)) = AnswersAlong(lg, Lineage(lg, n))
<1> DEFINE L == Lineage(lg, n)
           F == Fires(lg, L)
<1>1. /\ Len(lg) \in Nat /\ \A i \in 1..Len(lg) : more[i] = lg[i]
      /\ Lineage(more, n) = L
  BY LineageKept DEF Reads, Grows
<1>2. /\ L \subseteq 1..Len(lg) /\ F \subseteq 1..Len(lg) /\ Fires(more, L) = F
  <2>1. L \subseteq 1..Len(lg)
    BY <1>1, LineageBelow DEF Reads
  <2> HIDE DEF L
  <2> QED
    BY <1>1, <2>1 DEF Fires
<1>3. Cardinality(F) \in Nat
  <2>1. IsFiniteSet(1..Len(lg))
    BY <1>1, FS_Interval
  <2> QED
    BY <1>2, <2>1, FS_Subset, FS_CardinalityType
<1>4. ASSUME NEW k \in 1..Cardinality(F) PROVE AnswerAt(more, F, k) = AnswerAt(lg, F, k)
  <2> DEFINE i == CHOOSE j \in Ranked(F, k) : TRUE
  <2>1. i \in F
    <3>1. Ranked(F, k) # {}
      BY <1>1, <1>2, EveryRank
    <3>2. i \in Ranked(F, k)
      <4> HIDE DEF F
      <4> QED
        BY <3>1
    <3> QED
      BY <3>2 DEF Ranked
  <2> HIDE DEF i, F
  <2>2. i \in 1..Len(lg)
    BY <1>2, <2>1
  <2>3. more[i] = lg[i] /\ \A v \in lg[i].values : more[v] = lg[v]
    BY <1>1, <2>2 DEF Reads
  <2>4. SamplesAt(more, i) = SamplesAt(lg, i)
    BY <2>3 DEF SamplesAt
  <2> QED
    BY <2>4, Zenon DEF AnswerAt, i
<1> HIDE DEF L
<1>5. ASSUME NEW lh, Cardinality(Fires(lh, L)) \in Nat
      PROVE  AnswersAlong(lh, L) =
               [k \in 1..Cardinality(Fires(lh, L)) |-> AnswerAt(lh, Fires(lh, L), k)]
  BY <1>5, AlongIs, Zenon
<1>6. AnswersAlong(more, L) = [k \in 1..Cardinality(F) |-> AnswerAt(more, F, k)]
  <2>1. Fires(more, L) = F
    BY <1>2
  <2> HIDE DEF F
  <2>2. Cardinality(Fires(more, L)) \in Nat
    BY <1>3, <2>1
  <2>3. AnswersAlong(more, L) =
          [k \in 1..Cardinality(Fires(more, L)) |-> AnswerAt(more, Fires(more, L), k)]
    BY <1>5, <2>2, Zenon
  <2> QED
    BY <2>1, <2>3, Zenon
<1>7. AnswersAlong(lg, L) = [k \in 1..Cardinality(F) |-> AnswerAt(lg, F, k)]
  BY <1>3, <1>5, Zenon
<1> HIDE DEF F
<1>8. AnswersAlong(more, L) = AnswersAlong(lg, L)
  BY <1>4, <1>6, <1>7, Zenon
<1> QED
  BY <1>1, <1>8 DEF L

LEMMA AnsKept ==
  ASSUME NEW lg, NEW more, Grows(lg, more), Reads(lg), Reads(more), NEW a, AnsSound(lg, a)
  PROVE  AnsSound(more, a)
<1>1. a.along \in 0..Len(lg) /\ a.along \in 0..Len(more)
  BY DEF AnsSound, Grows
<1>2. Fine(more, a.along) /\ AnswersAlong(more, Lineage(more, a.along)) = AnswersAlong(lg, Lineage(lg, a.along))
  BY <1>1, FineKept, AlongKept DEF AnsSound
<1> QED
  BY <1>1, <1>2, Zenon DEF AnsSound

-----------------------------------------------------------------------------
(* A poll of the held answers. *)

(* Where the held head is on the lineage of n, the lineage is the held     *)
(* head's with the path above it.                                          *)
LEMMA PathAbove ==
  ASSUME NEW lg, Reffed(lg), NEW n \in 0..Len(lg), NEW m \in 0..Len(lg),
         m \in Lineage(lg, n) \cup {0}
  PROVE  LET path == {i \in Lineage(lg, n) : i > m}
         IN  /\ Lineage(lg, n) = Lineage(lg, m) \cup path
             /\ \A i \in Lineage(lg, m), j \in path : i < j
<1> DEFINE path == {i \in Lineage(lg, n) : i > m}
<1>1. /\ Lineage(lg, n) \subseteq 1..n /\ n \in Nat
      /\ Lineage(lg, m) \subseteq 1..m /\ m \in Nat
  BY LineageFinite
<1>2. Lineage(lg, m) \subseteq Lineage(lg, n)
  <2>1. CASE m = 0
    BY <2>1, LineageIs
  <2>2. CASE m # 0
    BY <2>2, LineageNests
  <2> QED
    BY <2>1, <2>2
<1>3. ASSUME NEW i \in Lineage(lg, n), ~(i > m) PROVE i \in Lineage(lg, m)
  <2>1. m \in Lineage(lg, n) /\ m \in 1..Len(lg)
    <3>1. i \in 1..n
      BY <1>1
    <3>2. m # 0
      BY <1>1, <1>3, <3>1
    <3> QED
      BY <1>1, <3>2
  <2>2. CASE i = m
    BY <2>1, <2>2, LineageIs
  <2>3. CASE i # m
    <3>1. i < m
      BY <1>1, <1>3, <2>3
    <3>2. lg[m].ref < m /\ i \in Lineage(lg, lg[m].ref)
      BY <2>1, <3>1, LineageDescends
    <3> QED
      BY <2>1, <3>2, LineageOf
  <2> QED
    BY <2>2, <2>3
<1>4. \A i \in Lineage(lg, m), j \in path : i < j
  BY <1>1
<1> QED
  BY <1>2, <1>3, <1>4

LEMMA NothingAlong ==
  ASSUME NEW lg, NEW S, S = {}
  PROVE  AnswersAlong(lg, S) = <<>>
<1>1. Fires(lg, S) = {}
  BY DEF Fires
<1>2. Cardinality(Fires(lg, S)) = 0
  BY <1>1, FS_EmptySet
<1>3. AnswersAlong(lg, S) =
        [k \in 1..Cardinality(Fires(lg, S)) |-> AnswerAt(lg, Fires(lg, S), k)]
  BY <1>2, AlongIs
<1> DEFINE f == AnswersAlong(lg, S)
<1>4. f \in [1..0 -> {}]
  BY <1>2, <1>3
<1> HIDE DEF f
<1>5. f = <<>>
  BY <1>4
<1> QED
  BY <1>5 DEF f

Raises(lg, n) ==
  \/ ChainRaises(lg, n)
  \/ \E i \in Fires(lg, Lineage(lg, n)) : FiringRaises(lg, i, Len(lg))

LEMMA PollAlong ==
  ASSUME NEW lg, Reads(lg), NEW a, AnsSound(lg, a), NEW n \in 0..Len(lg)
  PROVE  LET polled == AnswersPolled(lg, a, n, Len(lg))
         IN  /\ AnsSound(lg, polled)
             /\ polled.raises = Raises(lg, n)
             /\ ~Raises(lg, n) => polled.list = AnswersAlong(lg, Lineage(lg, n))
<1> DEFINE w    == Len(lg)
           L    == Lineage(lg, n)
           K    == IF Extends(lg, a, n) THEN Lineage(lg, a.along) ELSE {}
           path == {i \in L : Extends(lg, a, n) => i > a.along}
           kept == IF Extends(lg, a, n) THEN a.list ELSE <<>>
           fails == ChainRaises(lg, n) \/ \E i \in Fires(lg, path) : FiringRaises(lg, i, w)
           polled == AnswersPolled(lg, a, n, w)
<1> SUFFICES /\ AnsSound(lg, polled)
             /\ polled.raises = Raises(lg, n)
             /\ ~Raises(lg, n) => polled.list = AnswersAlong(lg, L)
  OBVIOUS
<1>1. Reffed(lg) /\ a.along \in 0..Len(lg)
  BY DEF Reads, AnsSound
<1>2. L = K \cup path /\ \A i \in K, j \in path : i < j
  <2>1. CASE Extends(lg, a, n)
    BY <1>1, <2>1, PathAbove DEF Extends
  <2>2. CASE ~Extends(lg, a, n)
    BY <2>2
  <2> QED
    BY <2>1, <2>2
<1>3. kept = AnswersAlong(lg, K)
  <2>1. CASE Extends(lg, a, n)
    BY <2>1, Zenon DEF AnsSound
  <2>2. CASE ~Extends(lg, a, n)
    BY <2>2, NothingAlong
  <2> QED
    BY <2>1, <2>2
<1>4. L \in SUBSET Nat /\ IsFiniteSet(L)
  BY <1>1, LineageFinite
<1>5. \A i \in Fires(lg, K) : ~FiringRaises(lg, i, w)
  BY DEF AnsSound, Fine, Fires
<1>6. Fires(lg, L) = Fires(lg, K) \cup Fires(lg, path)
  <2> HIDE DEF L, K, path
  <2> QED
    BY <1>2 DEF Fires
<1>7. fails <=> Raises(lg, n)
  <2> HIDE DEF K, path
  <2> QED
    BY <1>5, <1>6 DEF Raises
<1>0. Raises(lg, n) \in BOOLEAN
  BY DEF Raises, ChainRaises
<1>8. polled = IF n = a.along THEN [a EXCEPT !.raises = FALSE]
               ELSE IF fails THEN [a EXCEPT !.raises = TRUE]
               ELSE [along |-> n, list |-> kept \o AnswersAlong(lg, path), raises |-> FALSE]
  BY Zenon DEF AnswersPolled
<1>9. kept \o AnswersAlong(lg, path) = AnswersAlong(lg, L)
  <2> HIDE DEF L, K, path, kept
  <2>1. AnswersAlong(lg, L) = AnswersAlong(lg, K) \o AnswersAlong(lg, path)
    <3>1. Stacks(L, K, path)
      BY <1>2, <1>4 DEF Stacks
    <3> QED
      BY <3>1, AlongJoins
  <2> QED
    BY <1>3, <2>1
<1>10. a = [along |-> a.along, list |-> a.list, raises |-> a.raises]
  BY DEF AnsSound
<1>11. ASSUME NEW b \in BOOLEAN, polled = [a EXCEPT !.raises = b]
       PROVE  AnsSound(lg, polled) /\ polled.raises = b /\ polled.list = a.list
  <2>1. polled = [along |-> a.along, list |-> a.list, raises |-> b]
    BY <1>10, <1>11
  <2> HIDE DEF polled
  <2>2. polled.along = a.along /\ polled.list = a.list /\ polled.raises = b
    BY <2>1
  <2> QED
    BY <2>1, <2>2, Zenon DEF AnsSound
<1>12. CASE n = a.along
  <2>1. ~Raises(lg, n)
    BY <1>12 DEF AnsSound, Fine, Raises
  <2>2. polled = [a EXCEPT !.raises = FALSE]
    BY <1>8, <1>12
  <2>3. a.list = AnswersAlong(lg, L)
    BY <1>12 DEF AnsSound
  <2> HIDE DEF polled
  <2> QED
    BY <1>0, <1>11, <2>1, <2>2, <2>3
<1>13. CASE n # a.along /\ fails
  <2>1. polled = [a EXCEPT !.raises = TRUE]
    BY <1>8, <1>13
  <2> HIDE DEF polled, fails
  <2>2. AnsSound(lg, polled) /\ polled.raises = TRUE
    BY <1>11, <2>1
  <2> QED
    BY <1>7, <1>13, <2>2
<1>14. CASE n # a.along /\ ~fails
  <2>1. polled = [along |-> n, list |-> AnswersAlong(lg, L), raises |-> FALSE]
    BY <1>8, <1>9, <1>14
  <2>2. ~Raises(lg, n)
    BY <1>7, <1>14
  <2> HIDE DEF polled, fails
  <2>3. polled.along = n /\ polled.list = AnswersAlong(lg, L) /\ polled.raises = FALSE
    BY <2>1
  <2>4. Fine(lg, n)
    BY <2>2 DEF Fine, Raises
  <2>5. polled = [along |-> polled.along, list |-> polled.list, raises |-> polled.raises]
    BY <2>1, <2>3, Zenon
  <2>6. AnsSound(lg, polled)
    BY <2>3, <2>4, <2>5 DEF AnsSound
  <2> QED
    BY <1>0, <2>2, <2>3, <2>6
<1> QED
  BY <1>12, <1>13, <1>14

-----------------------------------------------------------------------------
(* The steps. *)

AnswerInv == watching = "answers" => Reads(log) /\ AnsSound(log, ans)

LEMMA AnswerFields ==
  ASSUME NEW lg, Len(lg) \in Nat, NEW e \in AnswerWrites(lg)
  PROVE  e.ref \in Nat /\ e.values \subseteq 1..Len(lg)
<1>1. CASE \E r : e = Control("subscribe", r, "durable")
  BY <1>1 DEF Control, Blank
<1>2. CASE \E b : e = [Blank EXCEPT !.body = b]
  <2>1. PICK b : e = [Blank EXCEPT !.body = b]
    BY <1>2
  <2> QED
    BY <2>1 DEF Blank
<1>3. CASE \E n \in {0} \cup Nodes(lg), vs \in SUBSET ValuesOf(lg), x \in SUBSET RequestIds : e = Firing(n, vs, x)
  <2>1. PICK n \in {0} \cup Nodes(lg), vs \in SUBSET ValuesOf(lg), x \in SUBSET RequestIds : e = Firing(n, vs, x)
    BY <1>3
  <2>2. Firing(n, vs, x).ref = n /\ Firing(n, vs, x).values = vs
    BY DEF Firing, OfClaim, Blank
  <2>3. n \in Nat /\ vs \subseteq 1..Len(lg)
    BY DEF Nodes, ValuesOf
  <2> QED
    BY <2>1, <2>2, <2>3
<1> QED
  BY <1>1, <1>2, <1>3 DEF AnswerWrites

LEMMA ReadsKept ==
  ASSUME LogInv, [ClientNext]_clientVars, watching = "answers", Reads(log)
  PROVE  Reads(log')
<1>1. LogInv' /\ Grows(log, log') /\ watching' = watching
  BY LogGrows
<1>2. CASE Write
  <2>1. PICK e \in AnswerWrites(log) : log' = Append(log, e)
    BY <1>2 DEF Write, Writable
  <2>2. /\ Len(log) \in Nat /\ Len(log') = Len(log) + 1 /\ log'[Len(log) + 1] = e
        /\ \A i \in 1..Len(log) : log'[i] = log[i]
    BY <1>1, <2>1, GrowsMore DEF LogInv, IsLog, Grows
  <2>3. e.ref \in Nat /\ e.values \subseteq 1..Len(log)
    BY <2>2, AnswerFields
  <2>4. ASSUME NEW i \in 1..Len(log')
        PROVE  log'[i].ref \in Nat /\ log'[i].values \subseteq 1..(i - 1)
    <3>1. CASE i \in 1..Len(log)
      BY <2>2, <3>1 DEF Reads, Reffed
    <3>2. CASE i = Len(log) + 1
      BY <2>2, <2>3, <3>2
    <3> QED
      BY <2>2, <3>1, <3>2
  <2> QED
    BY <2>2, <2>4 DEF Reads, Reffed
<1>3. CASE ~Write
  <2>1. log' = log \/ ClientWrite \/ ReapAndPoll
    BY <1>3, EventsLeave, Zenon DEF ClientNext, Next, clientVars, PollHead, PollDemand, PollAnswers, PollStops,
               Track, PollWatch, CallWait, CallAwait, PollAwait
  <2>2. log' = log
    BY <2>1 DEF ClientWrite, ReapAndPoll, MayPoll
  <2> QED
    BY <2>2
<1> QED
  BY <1>2, <1>3

LEMMA StartsAnswering == ClientInit => AnswerInv
<1> SUFFICES ASSUME ClientInit PROVE AnswerInv
  OBVIOUS
<1>1. log = <<>> /\ Len(log) = 0 /\ ans = [along |-> 0, list |-> <<>>, raises |-> FALSE]
  BY DEF ClientInit, Init, NoAnswers
<1>2. Reads(log)
  BY <1>1 DEF Reads, Reffed
<1>3. Lineage(log, 0) = {} /\ ans.along = 0 /\ ans.list = <<>> /\ ans.raises = FALSE
  BY <1>1, <1>2, LineageIs DEF Reads
<1>4. Fine(log, 0)
  BY <1>3 DEF Fine, ChainRaises, Fires
<1>5. AnswersAlong(log, Lineage(log, 0)) = <<>>
  BY <1>3, NothingAlong
<1> QED
  BY <1>1, <1>2, <1>3, <1>4, <1>5 DEF AnswerInv, AnsSound

LEMMA StaysAnswering == LogInv /\ AnswerInv /\ [ClientNext]_clientVars => AnswerInv'
<1> SUFFICES ASSUME LogInv, AnswerInv, [ClientNext]_clientVars, watching' = "answers"
             PROVE  Reads(log') /\ AnsSound(log', ans')
  BY DEF AnswerInv
<1>1. LogInv' /\ Grows(log, log') /\ watching = "answers"
  BY LogGrows
<1>2. Reads(log) /\ AnsSound(log, ans) /\ Reads(log')
  BY <1>1, ReadsKept DEF AnswerInv
<1>3. CASE PollAnswers
  <2>1. PICK n \in Heads(log) : ans' = AnswersPolled(log, ans, n, Len(log))
    BY <1>3 DEF PollAnswers
  <2>2. log' = log /\ n \in 0..Len(log)
    BY <1>2, <1>3 DEF PollAnswers, Heads, Nodes, Reads, Reffed
  <2> QED
    BY <1>2, <2>1, <2>2, PollAlong
<1>4. CASE ~PollAnswers
  <2>1. ans' = ans
    BY <1>4, EventsLeave, Zenon DEF ClientNext, Next, clientVars, Write, PollHead, PollDemand, PollStops,
               ClientWrite, ReapAndPoll,
               Track, PollWatch, CallWait, CallAwait, PollAwait
  <2> QED
    BY <1>1, <1>2, <2>1, AnsKept
<1> QED
  BY <1>2, <1>3, <1>4

LEMMA AnsweringAgrees == LogInv /\ AnswerInv => AnswersAgree
<1> SUFFICES ASSUME Reads(log), AnsSound(log, ans), NEW n \in Heads(log)
             PROVE  LET polled == AnswersPolled(log, ans, n, Len(log))
                    IN  /\ polled.raises = Raises(log, n)
                        /\ ~Raises(log, n) => polled.list = AnswersAlong(log, Lineage(log, n))
  BY DEF AnswersAgree, AnswerInv, Raises
<1>1. n \in 0..Len(log)
  BY DEF Heads, Nodes, Reads, Reffed
<1> QED
  BY <1>1, PollAlong

(* The held list of a subscription's answers is the list along the head it *)
(* is asked at, whatever heads it was polled at before: a head that        *)
(* descends from the last one adds the answers of the path between, any    *)
(* other starts the list again, a poll that raises leaves it whole, and a  *)
(* poll raises exactly where a read along the whole lineage does.          *)
THEOREM AnswersAreAlong == ClientSpec => []AnswersAgree
<1>1. ClientInit => AnswerInv /\ ObserverInv
  BY StartsAnswering, StartsObserved
<1>2. AnswerInv /\ ObserverInv /\ [ClientNext]_clientVars => AnswerInv' /\ ObserverInv'
  BY StaysAnswering, StaysObserved DEF ObserverInv
<1>3. AnswerInv /\ ObserverInv => AnswersAgree
  BY AnsweringAgrees DEF ObserverInv
<1> QED
  BY <1>1, <1>2, <1>3, PTL DEF ClientSpec

-----------------------------------------------------------------------------
(* A search back in windows finds the newest.                              *)

Searched(S, lo, f, h, width) ==
  LET here == Window(S, lo, h, width)
  IN  IF h <= lo THEN 0
      ELSE IF here # {} THEN NewestIn(here)
      ELSE IF h - width <= lo THEN 0 ELSE f[h - width]

IsSearch(f, S, lo, hi) ==
  f = [h \in 0..hi |-> Searched(S, lo, f, h, Width(h, hi))]

Reached(S, lo, h) == {i \in S : lo < i /\ i <= h}

Newest(S, lo, h) == LatestOf(Reached(S, lo, h))

LEMMA WindowTells ==
  ASSUME NEW S, \A i \in S : i \in Nat, NEW lo \in Nat, NEW h \in Nat, NEW k \in Nat, k > 0
  PROVE  /\ h <= lo => Newest(S, lo, h) = 0
         /\ Window(S, lo, h, k) # {} => Newest(S, lo, h) = NewestIn(Window(S, lo, h, k))
         /\ Window(S, lo, h, k) = {} /\ h - k <= lo => Newest(S, lo, h) = 0
         /\ Window(S, lo, h, k) = {} /\ h - k > lo => Newest(S, lo, h) = Newest(S, lo, h - k)
<1> DEFINE W == Window(S, lo, h, k)
           R == Reached(S, lo, h)
<1>1. \A i : i \in R <=> i \in S /\ lo < i /\ i <= h
  BY DEF Reached
<1>2. \A i : i \in W <=> i \in R /\ h - k < i
  BY DEF Reached, Window
<1>3. Newest(S, lo, h) = LatestOf(R)
  BY DEF Newest
<1>4. Newest(S, lo, h - k) = LatestOf(Reached(S, lo, h - k))
  BY DEF Newest
<1> HIDE DEF W, R
<1>5. CASE h <= lo
  <2>1. R = {}
    BY <1>1, <1>5
  <2>2. W = {}
    BY <1>2, <2>1
  <2>3. ~(h - k > lo)
    BY <1>5
  <2> QED
    BY <1>3, <2>1, <2>2, <2>3 DEF LatestOf, W
<1>6. CASE W # {}
  <2>1. W \in SUBSET (0..h) /\ R \in SUBSET (0..h) /\ R # {}
    BY <1>1, <1>2, <1>6
  <2>2. /\ NewestIn(W) \in W /\ \A i \in W : i <= NewestIn(W)
        /\ NewestIn(R) \in R /\ \A i \in R : i <= NewestIn(R)
    BY <1>6, <2>1, GreatestOf
  <2> DEFINE v == NewestIn(W)
             r == NewestIn(R)
  <2> HIDE DEF v, r
  <2>3. /\ v \in W /\ r \in R /\ v \in R /\ v \in Nat /\ r \in Nat
        /\ \A i \in W : i <= v
        /\ \A i \in R : i <= r
    BY <1>1, <1>2, <2>2 DEF v, r
  <2>4. v <= r /\ h - k < v
    BY <1>2, <2>3
  <2>5. h - k < r
    BY <2>3, <2>4
  <2>6. r \in W
    BY <1>2, <2>3, <2>5
  <2>7. r = v
    BY <2>3, <2>4, <2>6
  <2>8. ~(h <= lo)
    BY <1>1, <2>3
  <2> QED
    BY <1>3, <1>6, <2>1, <2>7, <2>8 DEF LatestOf, W, v, r
<1>7. CASE ~(h <= lo) /\ W = {}
  <2>1. ASSUME h - k <= lo PROVE R = {}
    <3>1. SUFFICES ASSUME NEW i \in R PROVE FALSE
      OBVIOUS
    <3>2. i \in Nat /\ lo < i
      BY <1>1
    <3>3. h - k < i
      BY <2>1, <3>2
    <3> QED
      BY <1>2, <1>7, <3>3
  <2>2. ASSUME h - k > lo PROVE R = Reached(S, lo, h - k)
    <3>1. ASSUME NEW i \in S PROVE i <= h /\ lo < i <=> i <= h - k /\ lo < i
      <4>1. i \in Nat /\ (i <= h /\ lo < i => ~(h - k < i))
        BY <1>1, <1>2, <1>7
      <4> QED
        BY <2>2, <4>1
    <3> QED
      BY <1>1, <3>1 DEF Reached
  <2> QED
    BY <1>3, <1>4, <1>7, <2>1, <2>2 DEF LatestOf, W
<1> QED
  BY <1>5, <1>6, <1>7

LEMMA SearchedIs ==
  ASSUME NEW S, \A i \in S : i \in Nat, NEW lo \in Nat, NEW h \in Nat, NEW k \in Nat, k > 0,
         NEW f, h - k > lo => f[h - k] = Newest(S, lo, h - k)
  PROVE  Searched(S, lo, f, h, k) = Newest(S, lo, h)
<1>1. (h <= lo \/ h > lo) /\ (h <= lo => ~(h > lo)) /\ (h - k <= lo \/ h - k > lo)
      /\ (h - k <= lo => ~(h - k > lo))
  OBVIOUS
<1> HIDE DEF Window
<1>2. CASE h <= lo
  BY <1>1, <1>2, WindowTells DEF Searched
<1>3. CASE h > lo /\ Window(S, lo, h, k) # {}
  BY <1>1, <1>3, WindowTells DEF Searched
<1>4. CASE h > lo /\ Window(S, lo, h, k) = {}
  BY <1>1, <1>4, WindowTells DEF Searched
<1> QED
  BY <1>1, <1>2, <1>3, <1>4

LEMMA SearchExists ==
  ASSUME NEW S, \A i \in S : i \in Nat, NEW lo \in Nat, NEW hi \in Nat
  PROVE  \E f : IsSearch(f, S, lo, hi)
<1> DEFINE f == [h \in 0..hi |-> Newest(S, lo, h)]
<1>1. ASSUME NEW h \in 0..hi
      PROVE  Newest(S, lo, h) = Searched(S, lo, f, h, Width(h, hi))
  <2> DEFINE k == Width(h, hi)
  <2>1. h \in Nat /\ k \in Nat /\ k > 0
    BY DEF Width, FirstWindow
  <2> HIDE DEF k
  <2>2. ASSUME h - k > lo PROVE f[h - k] = Newest(S, lo, h - k)
    <3>1. h - k \in 0..hi
      BY <2>1, <2>2
    <3> QED
      BY <3>1
  <2> HIDE DEF f
  <2> QED
    BY <2>1, <2>2, SearchedIs DEF k
<1> HIDE DEF f
<1>2. f = [h \in 0..hi |-> Searched(S, lo, f, h, Width(h, hi))]
  BY <1>1, Zenon DEF f
<1>3. IsSearch(f, S, lo, hi)
  BY <1>2 DEF IsSearch
<1> QED
  BY <1>3

LEMMA SearchIs ==
  ASSUME NEW S, \A i \in S : i \in Nat, NEW lo \in Nat, NEW hi \in Nat,
         NEW f, IsSearch(f, S, lo, hi)
  PROVE  f[hi] = Newest(S, lo, hi)
<1> DEFINE G == {h \in 0..hi : f[h] = Newest(S, lo, h)}
<1>1. ASSUME NEW h \in 0..hi, \A j \in 0..hi : j < h => j \in G
      PROVE  h \in G
  <2> DEFINE k == Width(h, hi)
  <2>1. h \in Nat /\ k \in Nat /\ k > 0
    BY DEF Width, FirstWindow
  <2>2. f[h] = Searched(S, lo, f, h, k)
    BY Zenon DEF IsSearch
  <2> HIDE DEF k
  <2>3. ASSUME h - k > lo PROVE f[h - k] = Newest(S, lo, h - k)
    <3>1. h - k \in 0..hi /\ h - k < h
      BY <2>1, <2>3
    <3> QED
      BY <1>1, <3>1
  <2>4. f[h] = Newest(S, lo, h)
    BY <2>1, <2>2, <2>3, SearchedIs
  <2> QED
    BY <2>4
<1>2. \A h \in 0..hi : h \in G
  <2> HIDE DEF G
  <2> QED
    BY <1>1, ClimbTo
<1>3. hi \in 0..hi
  OBVIOUS
<1> QED
  BY <1>2, <1>3

LEMMA BackwardIs ==
  ASSUME NEW S, \A i \in S : i \in Nat, NEW lo \in Nat, NEW hi \in Nat
  PROVE  Backward(S, lo, hi) = Newest(S, lo, hi)
<1>1. CASE hi <= lo
  <2>1. Reached(S, lo, hi) = {}
    BY <1>1 DEF Reached
  <2> QED
    BY <1>1, <2>1 DEF Backward, Newest, LatestOf
<1>2. CASE ~(hi <= lo)
  <2> DEFINE search == CHOOSE f : IsSearch(f, S, lo, hi)
  <2>1. IsSearch(search, S, lo, hi)
    BY SearchExists, Zenon
  <2>2. Backward(S, lo, hi) = search[hi]
    BY <1>2 DEF Backward, IsSearch, Searched
  <2> HIDE DEF search
  <2> QED
    BY <2>1, <2>2, SearchIs
<1> QED
  BY <1>1, <1>2

-----------------------------------------------------------------------------
(* The newest of a set of seqs.                                            *)

LEMMA LatestTells ==
  ASSUME NEW w \in Nat, NEW S \in SUBSET (1..w)
  PROVE  /\ LatestOf(S) \in 0..w
         /\ LatestOf(S) # 0 <=> S # {}
         /\ S # {} => LatestOf(S) \in S /\ \A j \in S : j <= LatestOf(S)
<1>1. CASE S = {}
  BY <1>1 DEF LatestOf
<1>2. CASE S # {}
  <2>1. S \in SUBSET (0..w)
    OBVIOUS
  <2>2. NewestIn(S) \in S /\ \A j \in S : j <= NewestIn(S)
    BY <1>2, <2>1, GreatestOf
  <2>3. LatestOf(S) = NewestIn(S)
    BY <1>2 DEF LatestOf
  <2> DEFINE u == LatestOf(S)
  <2> HIDE DEF u
  <2>4. u \in S /\ \A j \in S : j <= u
    BY <2>2, <2>3 DEF u
  <2>5. u \in 1..w
    BY <2>4
  <2> QED
    BY <1>2, <2>4, <2>5 DEF u
<1> QED
  BY <1>1, <1>2

LEMMA LatestIs ==
  ASSUME NEW w \in Nat, NEW S \in SUBSET (1..w), NEW v \in S, \A j \in S : j <= v
  PROVE  LatestOf(S) = v
<1>1. LatestOf(S) \in S /\ \A j \in S : j <= LatestOf(S)
  BY LatestTells
<1> DEFINE u == LatestOf(S)
<1> HIDE DEF u
<1>2. u \in S /\ v <= u /\ u <= v
  BY <1>1 DEF u
<1>3. u = v
  BY <1>2
<1> QED
  BY <1>3 DEF u

-----------------------------------------------------------------------------
(* What a witness knows, up to n: its subject's newest claim, and when     *)
(* that was last seen.                                                     *)

Traces(lg, su, n, c, s) ==
  /\ c = LatestOf(OwnedIn(lg, su, "started", 1..n))
  /\ c # 0 /\ BeaconsOf(lg, c, n) # {} => s = LatestOf(BeaconsOf(lg, c, n))

LEMMA TracesNext ==
  ASSUME NEW lg, NEW su, NEW n \in Nat, NEW c, NEW s, Traces(lg, su, n, c, s)
  PROVE  LET i == n + 1
             e == lg[i]
             seen == IF Readable(e) THEN i ELSE s
             starts == e.topic = "started" /\ Owns(su, e)
             beacons == e.topic \in Beacons /\ c # 0 /\ e.claim = c
         IN  /\ starts => Traces(lg, su, i, i, seen)
             /\ ~starts /\ beacons => Traces(lg, su, i, c, seen)
             /\ ~starts /\ ~beacons => Traces(lg, su, i, c, s)
<1> DEFINE i == n + 1
           e == lg[i]
           seen == IF Readable(e) THEN i ELSE s
           starts == e.topic = "started" /\ Owns(su, e)
           beacons == e.topic \in Beacons /\ c # 0 /\ e.claim = c
           O == OwnedIn(lg, su, "started", 1..n)
           P == OwnedIn(lg, su, "started", 1..i)
<1>1. O \in SUBSET (1..n) /\ P \in SUBSET (1..i) /\ i \in Nat /\ i # 0
  BY DEF OwnedIn
<1>2. c = LatestOf(O) /\ c \in 0..n /\ (c # 0 <=> O # {})
  BY <1>1, LatestTells DEF Traces
<1>3. P = O \cup (IF starts THEN {i} ELSE {})
  BY DEF OwnedIn
<1>4. CASE starts
  <2>1. i \in P /\ \A j \in P : j <= i
    BY <1>1, <1>3, <1>4
  <2>2. LatestOf(P) = i
    BY <1>1, <2>1, LatestIs
  <2>3. BeaconsOf(lg, i, i) = IF Readable(e) THEN {i} ELSE {}
    BY <1>1 DEF BeaconsOf
  <2>4. LatestOf({i}) = i
    <3>1. {i} \in SUBSET (1..i) /\ i \in {i} /\ \A j \in {i} : j <= i
      BY <1>1
    <3> QED
      BY <1>1, <3>1, LatestIs
  <2>5. Traces(lg, su, i, i, seen)
    BY <2>2, <2>3, <2>4 DEF Traces
  <2> QED
    BY <1>4, <2>5
<1>5. CASE ~starts
  <2>1. P = O
    BY <1>3, <1>5
  <2>2. c = LatestOf(P)
    BY <1>2, <2>1
  <2>3. CASE beacons
    <3> DEFINE B == BeaconsOf(lg, c, n)
               C == BeaconsOf(lg, c, i)
    <3>1. c \in 1..n
      BY <1>2, <2>3
    <3>2. B \in SUBSET (1..n) /\ C \in SUBSET (1..i)
      BY <1>1, <3>1 DEF BeaconsOf
    <3>3. C = B \cup (IF Readable(e) THEN {i} ELSE {})
      BY <2>3, <3>1 DEF BeaconsOf
    <3>4. CASE Readable(e)
      <4>1. i \in C /\ \A j \in C : j <= i
        BY <1>1, <3>2, <3>3, <3>4
      <4>2. LatestOf(C) = i
        BY <1>1, <3>2, <4>1, LatestIs
      <4> QED
        BY <1>5, <2>2, <2>3, <3>4, <4>2 DEF Traces
    <3>5. CASE ~Readable(e)
      <4>1. C = B
        BY <3>3, <3>5
      <4> QED
        BY <1>5, <2>2, <2>3, <3>5, <4>1 DEF Traces
    <3> QED
      BY <3>4, <3>5
  <2>4. CASE ~beacons
    <3>1. c # 0 => BeaconsOf(lg, c, i) = BeaconsOf(lg, c, n)
      <4>1. SUFFICES ASSUME c # 0 PROVE BeaconsOf(lg, c, i) = BeaconsOf(lg, c, n)
        OBVIOUS
      <4>2. c \in 1..n /\ ~(lg[i].topic \in Beacons /\ lg[i].claim = c) /\ i # c
        BY <1>2, <2>4, <4>1
      <4>3. \A j : j \in c..i <=> j \in c..n \/ j = i
        BY <4>2
      <4> QED
        BY <4>2, <4>3 DEF BeaconsOf
    <3>2. Traces(lg, su, i, c, s)
      BY <2>2, <3>1 DEF Traces
    <3> QED
      BY <1>5, <2>4, <3>2
  <2> QED
    BY <2>3, <2>4
<1> QED
  BY <1>4, <1>5

LEMMA OwnedSame ==
  ASSUME NEW lg, NEW more, Grows(lg, more), NEW su, NEW topic, NEW n \in 0..Len(lg)
  PROVE  OwnedIn(more, su, topic, 1..n) = OwnedIn(lg, su, topic, 1..n)
<1>1. \A i \in 1..n : more[i] = lg[i]
  BY DEF Grows
<1> QED
  BY <1>1 DEF OwnedIn

LEMMA TracesKept ==
  ASSUME NEW lg, NEW more, Grows(lg, more), NEW su, NEW n \in 0..Len(lg), NEW c, NEW s,
         Traces(lg, su, n, c, s)
  PROVE  Traces(more, su, n, c, s)
<1>0. n \in Nat
  BY DEF Grows
<1>1. \A i \in 1..n : more[i] = lg[i]
  BY DEF Grows
<1>2. OwnedIn(more, su, "started", 1..n) = OwnedIn(lg, su, "started", 1..n)
  BY OwnedSame
<1>3. OwnedIn(lg, su, "started", 1..n) \in SUBSET (1..n)
  BY DEF OwnedIn
<1>4. c \in 0..n
  BY <1>0, <1>3, LatestTells DEF Traces
<1>5. c # 0 => BeaconsOf(more, c, n) = BeaconsOf(lg, c, n)
  <2>1. c # 0 => \A i \in c..n : more[i] = lg[i]
    BY <1>0, <1>1, <1>4
  <2> QED
    BY <2>1 DEF BeaconsOf
<1> QED
  BY <1>2, <1>5 DEF Traces

-----------------------------------------------------------------------------
(* The ten fields of a witness.                                            *)

WitOf(su, w, c, s, en, er, st, re, dr, ca) ==
  [subject |-> su, w |-> w, claim |-> c, seen |-> s, end |-> en, endRead |-> er,
   status |-> st, reaped |-> re, drained |-> dr, call |-> ca]

LEMMA WitReads ==
  ASSUME NEW su, NEW w, NEW c, NEW s, NEW en, NEW er, NEW st, NEW re, NEW dr, NEW ca
  PROVE  LET x == WitOf(su, w, c, s, en, er, st, re, dr, ca)
         IN  /\ x.subject = su /\ x.w = w /\ x.claim = c /\ x.seen = s /\ x.end = en
             /\ x.endRead = er /\ x.status = st /\ x.reaped = re /\ x.drained = dr /\ x.call = ca
BY DEF WitOf

LEMMA SetSubject ==
  ASSUME NEW su, NEW w, NEW c, NEW s, NEW en, NEW er, NEW st, NEW re, NEW dr, NEW ca, NEW v
  PROVE  [WitOf(su, w, c, s, en, er, st, re, dr, ca) EXCEPT !.subject = v] =
           WitOf(v, w, c, s, en, er, st, re, dr, ca)
BY DEF WitOf

LEMMA SetW ==
  ASSUME NEW su, NEW w, NEW c, NEW s, NEW en, NEW er, NEW st, NEW re, NEW dr, NEW ca, NEW v
  PROVE  [WitOf(su, w, c, s, en, er, st, re, dr, ca) EXCEPT !.w = v] =
           WitOf(su, v, c, s, en, er, st, re, dr, ca)
BY DEF WitOf

LEMMA SetClaim ==
  ASSUME NEW su, NEW w, NEW c, NEW s, NEW en, NEW er, NEW st, NEW re, NEW dr, NEW ca, NEW v
  PROVE  [WitOf(su, w, c, s, en, er, st, re, dr, ca) EXCEPT !.claim = v] =
           WitOf(su, w, v, s, en, er, st, re, dr, ca)
BY DEF WitOf

LEMMA SetSeen ==
  ASSUME NEW su, NEW w, NEW c, NEW s, NEW en, NEW er, NEW st, NEW re, NEW dr, NEW ca, NEW v
  PROVE  [WitOf(su, w, c, s, en, er, st, re, dr, ca) EXCEPT !.seen = v] =
           WitOf(su, w, c, v, en, er, st, re, dr, ca)
BY DEF WitOf

LEMMA SetEnd ==
  ASSUME NEW su, NEW w, NEW c, NEW s, NEW en, NEW er, NEW st, NEW re, NEW dr, NEW ca, NEW v
  PROVE  [WitOf(su, w, c, s, en, er, st, re, dr, ca) EXCEPT !.end = v] =
           WitOf(su, w, c, s, v, er, st, re, dr, ca)
BY DEF WitOf

LEMMA SetEndRead ==
  ASSUME NEW su, NEW w, NEW c, NEW s, NEW en, NEW er, NEW st, NEW re, NEW dr, NEW ca, NEW v
  PROVE  [WitOf(su, w, c, s, en, er, st, re, dr, ca) EXCEPT !.endRead = v] =
           WitOf(su, w, c, s, en, v, st, re, dr, ca)
BY DEF WitOf

LEMMA SetStatus ==
  ASSUME NEW su, NEW w, NEW c, NEW s, NEW en, NEW er, NEW st, NEW re, NEW dr, NEW ca, NEW v
  PROVE  [WitOf(su, w, c, s, en, er, st, re, dr, ca) EXCEPT !.status = v] =
           WitOf(su, w, c, s, en, er, v, re, dr, ca)
BY DEF WitOf

LEMMA SetReaped ==
  ASSUME NEW su, NEW w, NEW c, NEW s, NEW en, NEW er, NEW st, NEW re, NEW dr, NEW ca, NEW v
  PROVE  [WitOf(su, w, c, s, en, er, st, re, dr, ca) EXCEPT !.reaped = v] =
           WitOf(su, w, c, s, en, er, st, v, dr, ca)
BY DEF WitOf

LEMMA SetDrained ==
  ASSUME NEW su, NEW w, NEW c, NEW s, NEW en, NEW er, NEW st, NEW re, NEW dr, NEW ca, NEW v
  PROVE  [WitOf(su, w, c, s, en, er, st, re, dr, ca) EXCEPT !.drained = v] =
           WitOf(su, w, c, s, en, er, st, re, v, ca)
BY DEF WitOf

LEMMA SetCall ==
  ASSUME NEW su, NEW w, NEW c, NEW s, NEW en, NEW er, NEW st, NEW re, NEW dr, NEW ca, NEW v
  PROVE  [WitOf(su, w, c, s, en, er, st, re, dr, ca) EXCEPT !.call = v] =
           WitOf(su, w, c, s, en, er, st, re, dr, v)
BY DEF WitOf

(* A witness with another claim, and another time that it was seen.        *)
With(x, c, s) ==
  WitOf(x.subject, x.w, c, s, x.end, x.endRead, x.status, x.reaped, x.drained, x.call)

LEMMA WithTells ==
  ASSUME NEW x, NEW c, NEW s
  PROVE  /\ With(x, c, s).subject = x.subject /\ With(x, c, s).w = x.w
         /\ With(x, c, s).claim = c /\ With(x, c, s).seen = s
         /\ With(x, c, s).end = x.end /\ With(x, c, s).endRead = x.endRead
         /\ With(x, c, s).status = x.status /\ With(x, c, s).reaped = x.reaped
         /\ With(x, c, s).drained = x.drained /\ With(x, c, s).call = x.call
         /\ \A d : [With(x, c, s) EXCEPT !.claim = d] = With(x, d, s)
         /\ \A t : [With(x, c, s) EXCEPT !.seen = t] = With(x, c, t)
<1> DEFINE y == With(x, c, s)
<1>0. /\ y = [subject |-> y.subject, w |-> y.w, claim |-> y.claim, seen |-> y.seen,
              end |-> y.end, endRead |-> y.endRead, status |-> y.status,
              reaped |-> y.reaped, drained |-> y.drained, call |-> y.call]
      /\ y.subject = x.subject /\ y.w = x.w /\ y.claim = c /\ y.seen = s /\ y.end = x.end
      /\ y.endRead = x.endRead /\ y.status = x.status /\ y.reaped = x.reaped
      /\ y.drained = x.drained /\ y.call = x.call
  BY DEF With, WitOf
<1> HIDE DEF y
<1>1. ASSUME NEW d PROVE [y EXCEPT !.claim = d] = With(x, d, s)
  BY <1>0 DEF With, WitOf
<1>2. ASSUME NEW t PROVE [y EXCEPT !.seen = t] = With(x, c, t)
  BY <1>0 DEF With, WitOf
<1> QED
  BY <1>0, <1>1, <1>2, Zenon DEF y

LEMMA WitnessNext ==
  ASSUME NEW lg, NEW x, NEW n \in Nat, NEW c, NEW s, Traces(lg, x.subject, n, c, s)
  PROVE  \E d, t : /\ Witness(lg, With(x, c, s), n + 1) = With(x, d, t)
                   /\ Traces(lg, x.subject, n + 1, d, t)
<1> DEFINE i == n + 1
           e == lg[i]
           y == With(x, c, s)
           seen == IF Readable(e) THEN i ELSE s
           starts == e.topic = "started" /\ Owns(x.subject, e)
           beacons == e.topic \in Beacons /\ c # 0 /\ e.claim = c
<1>1. /\ starts => Traces(lg, x.subject, i, i, seen)
      /\ ~starts /\ beacons => Traces(lg, x.subject, i, c, seen)
      /\ ~starts /\ ~beacons => Traces(lg, x.subject, i, c, s)
  BY TracesNext
<1>2. /\ y.subject = x.subject /\ y.claim = c /\ y.seen = s
      /\ \A d : [y EXCEPT !.claim = d] = With(x, d, s)
      /\ \A t : [y EXCEPT !.seen = t] = With(x, c, t)
  BY WithTells
<1>3. \A d, t : [[y EXCEPT !.claim = d] EXCEPT !.seen = t] = With(x, d, t)
  <2> HIDE DEF y
  <2>1. SUFFICES ASSUME NEW d, NEW t
                 PROVE  [[y EXCEPT !.claim = d] EXCEPT !.seen = t] = With(x, d, t)
    OBVIOUS
  <2>2. [y EXCEPT !.claim = d] = With(x, d, s)
    BY <1>2
  <2>3. [With(x, d, s) EXCEPT !.seen = t] = With(x, d, t)
    BY WithTells
  <2> QED
    BY <2>2, <2>3, Zenon
<1>5. Witness(lg, y, i) = IF starts THEN With(x, i, seen)
                          ELSE IF beacons THEN With(x, c, seen) ELSE y
  <2> HIDE DEF y
  <2>1. CASE starts
    <3>1. "started" \notin Beacons
      BY DEF Beacons
    <3>2. Witness(lg, y, i) = [[y EXCEPT !.claim = i] EXCEPT !.seen = IF Readable(e) THEN i ELSE y.seen]
      BY <1>2, <2>1, <3>1 DEF Witness
    <3> QED
      BY <1>2, <1>3, <2>1, <3>2
  <2>2. CASE ~starts /\ beacons
    <3>1. Witness(lg, y, i) = [y EXCEPT !.seen = IF Readable(e) THEN i ELSE y.seen]
      BY <1>2, <2>2 DEF Witness
    <3> QED
      BY <1>2, <2>2, <3>1, Zenon
  <2>3. CASE ~starts /\ ~beacons
    BY <1>2, <2>3 DEF Witness
  <2> QED
    BY <2>1, <2>2, <2>3
<1> HIDE DEF y, seen, starts, beacons, i
<1> QED
  BY <1>1, <1>5 DEF y, i

-----------------------------------------------------------------------------
(* What a witness reads, one record at a time.                             *)

WitnessOver(lg, x, lo, hi) == Applied(LAMBDA y, i : Witness(lg, y, i), x, lo, hi)

LEMMA WitnessOverTells ==
  ASSUME NEW lg, NEW x, NEW lo \in Nat, NEW hi \in Nat, lo <= hi,
         NEW c, NEW s, x = With(x, c, s), Traces(lg, x.subject, lo, c, s)
  PROVE  \E d, t : /\ WitnessOver(lg, x, lo, hi) = With(x, d, t)
                   /\ Traces(lg, x.subject, hi, d, t)
<1>1. CASE lo = hi
  <2>1. WitnessOver(lg, x, lo, hi) = x
    BY <1>1 DEF WitnessOver, Applied
  <2> QED
    BY <1>1, <2>1
<1>2. CASE lo < hi
  <2> DEFINE IsWitness(f) == f = [i \in lo..hi |-> IF i = lo THEN x ELSE Witness(lg, f[i - 1], i)]
             after == CHOOSE f : IsWitness(f)
  <2>1. PICK g : IsRun("witness", g, lg, x, lo, hi)
    BY RunExists
  <2>2. IsWitness(g)
    BY <2>1 DEF IsRun, Reading
  <2>3. IsWitness(after)
    <3> HIDE DEF IsWitness
    <3> QED
      BY <2>2
  <2>4. WitnessOver(lg, x, lo, hi) = after[hi]
    BY <1>2 DEF WitnessOver, Applied
  <2>5. \A i \in lo..hi : after[i] = IF i = lo THEN x ELSE Witness(lg, after[i - 1], i)
    BY <2>3
  <2> HIDE DEF after
  <2> DEFINE G == {n \in 0..hi : lo <= n => \E d, t : /\ after[n] = With(x, d, t)
                                                      /\ Traces(lg, x.subject, n, d, t)}
  <2>6. ASSUME NEW n \in 0..hi, \A m \in 0..hi : m < n => m \in G
        PROVE  n \in G
    <3>1. CASE n < lo
      BY <3>1
    <3>2. CASE n = lo
      <4>1. after[n] = x
        BY <2>5, <3>2
      <4> QED
        BY <3>2, <4>1
    <3>3. CASE lo < n
      <4>1. n - 1 \in 0..hi /\ n - 1 < n /\ lo <= n - 1 /\ n \in lo..hi /\ n # lo /\ n - 1 \in Nat
            /\ (n - 1) + 1 = n
        BY <3>3
      <4>2. PICK d, t : after[n - 1] = With(x, d, t) /\ Traces(lg, x.subject, n - 1, d, t)
        BY <2>6, <4>1
      <4>3. after[n] = Witness(lg, With(x, d, t), n)
        BY <2>5, <4>1, <4>2
      <4>4. \E u, v : /\ Witness(lg, With(x, d, t), (n - 1) + 1) = With(x, u, v)
                      /\ Traces(lg, x.subject, (n - 1) + 1, u, v)
        BY <4>1, <4>2, WitnessNext
      <4>5. \E u, v : after[n] = With(x, u, v) /\ Traces(lg, x.subject, n, u, v)
        BY <4>1, <4>3, <4>4
      <4> QED
        BY <4>5
    <3> QED
      BY <3>1, <3>2, <3>3
  <2>7. hi \in G
    <3> HIDE DEF G
    <3> QED
      BY <2>6, ClimbTo
  <2> QED
    BY <1>2, <2>4, <2>7
<1> QED
  BY <1>1, <1>2

-----------------------------------------------------------------------------
(* A poll of a witness: it knows its claim, and the end that it read.      *)

EndsTold(lg, su, w, c, en, er) ==
  /\ er \in 0..w
  /\ c = 0 => en \in 0..er /\ (en # 0 <=> OwnedIn(lg, su, "terminated", 1..er) # {})

Knows(lg, x) ==
  /\ x = With(x, x.claim, x.seen)
  /\ x.w \in 0..Len(lg)
  /\ Traces(lg, x.subject, x.w, x.claim, x.seen)
  /\ EndsTold(lg, x.subject, x.w, x.claim, x.end, x.endRead)

Carries(x, y) ==
  /\ y.subject = x.subject /\ y.status = x.status /\ y.reaped = x.reaped
  /\ y.drained = x.drained /\ y.call = x.call

LEMMA WitIsWith ==
  ASSUME NEW su, NEW w, NEW c, NEW s, NEW en, NEW er, NEW st, NEW re, NEW dr, NEW ca
  PROVE  LET y == WitOf(su, w, c, s, en, er, st, re, dr, ca)
         IN  y = With(y, y.claim, y.seen)
BY DEF WitOf, With

LEMMA WitIsKnown ==
  ASSUME NEW lg, NEW su, NEW w, NEW c, NEW s, NEW en, NEW er, NEW st, NEW re, NEW dr, NEW ca,
         w \in 0..Len(lg), Traces(lg, su, w, c, s), EndsTold(lg, su, w, c, en, er)
  PROVE  Knows(lg, WitOf(su, w, c, s, en, er, st, re, dr, ca))
<1> DEFINE y == WitOf(su, w, c, s, en, er, st, re, dr, ca)
<1>1. y = With(y, y.claim, y.seen)
  BY WitIsWith
<1>2. y.subject = su /\ y.w = w /\ y.claim = c /\ y.seen = s /\ y.end = en /\ y.endRead = er
  BY WitReads
<1> HIDE DEF y
<1>3. Knows(lg, y)
  BY <1>1, <1>2 DEF Knows
<1> QED
  BY <1>3 DEF y

(* What ends a launch, read in two halves.                                 *)
LEMMA EndsNext ==
  ASSUME NEW lg, NEW su, NEW w \in Nat, NEW en, NEW er \in 0..w,
         EndsTold(lg, su, w, 0, en, er)
  PROVE  EndsTold(lg, su, w, 0,
           LatestOf({en} \cup OwnedIn(lg, su, "terminated", (er + 1)..w)), w)
<1> DEFINE O == OwnedIn(lg, su, "terminated", 1..er)
           N == OwnedIn(lg, su, "terminated", (er + 1)..w)
           T == OwnedIn(lg, su, "terminated", 1..w)
           S == {en} \cup N
           v == NewestIn(S)
<1>1. en \in 0..er /\ (en # 0 <=> O # {})
  BY DEF EndsTold
<1>2. T = O \cup N
  BY DEF OwnedIn
<1>3. \A i \in N : i \in 1..w
  BY DEF OwnedIn
<1>4. S \in SUBSET (0..w) /\ S # {}
  BY <1>1, <1>3
<1>5. v \in S /\ \A j \in S : j <= v
  BY <1>4, GreatestOf
<1>6. LatestOf(S) = v
  BY <1>4 DEF LatestOf
<1> HIDE DEF v, O, N, T
<1>7. v \in 0..w /\ en <= v /\ \A j \in N : j <= v
  BY <1>4, <1>5
<1>8. v # 0 <=> T # {}
  <2>1. ASSUME v # 0 PROVE T # {}
    <3>1. v = en \/ v \in N
      BY <1>5
    <3> QED
      BY <1>1, <1>2, <2>1, <3>1
  <2>2. ASSUME T # {} PROVE v # 0
    <3>1. O # {} \/ \E j \in N : TRUE
      BY <1>2, <2>2
    <3>2. CASE O # {}
      BY <1>1, <1>7, <3>2
    <3>3. CASE \E j \in N : TRUE
      BY <1>3, <1>7, <3>3
    <3> QED
      BY <3>1, <3>2, <3>3
  <2> QED
    BY <2>1, <2>2
<1> QED
  BY <1>6, <1>7, <1>8 DEF EndsTold, T, N

LEMMA WitnessedKnows ==
  ASSUME NEW lg, IsLog(lg), NEW x, Knows(lg, x), NEW w \in x.w..Len(lg)
  PROVE  LET y == Witnessed(lg, x, w)
         IN  /\ Knows(lg, y) /\ Carries(x, y) /\ y.w = w
             /\ y.claim = 0 => y.endRead = w
<1> DEFINE y == Witnessed(lg, x, w)
           su == x.subject
           ends == OwnedIn(lg, su, "terminated", (x.endRead + 1)..w)
           last == LatestOf({x.end} \cup ends)
<1>1. /\ x.w \in Nat /\ w \in Nat /\ x.w <= w /\ w \in 0..Len(lg) /\ x.endRead \in 0..x.w
      /\ x.endRead \in 0..w
  BY DEF IsLog, Knows, EndsTold
<1>2. PICK d, t : WitnessOver(lg, x, x.w, w) = With(x, d, t) /\ Traces(lg, su, w, d, t)
  BY <1>1, WitnessOverTells DEF Knows
<1> DEFINE to == With(x, d, t)
<1>3. y = IF to.claim # 0 THEN [to EXCEPT !.w = w]
          ELSE [to EXCEPT !.w = w, !.endRead = w, !.end = LatestOf({to.end} \cup ends)]
  BY <1>2 DEF Witnessed, WitnessOver
<1>4. to.claim = d /\ to.end = x.end
  BY WithTells
<1>5. to = WitOf(su, x.w, d, t, x.end, x.endRead, x.status, x.reaped, x.drained, x.call)
  BY DEF With
<1>6. [to EXCEPT !.w = w] =
        WitOf(su, w, d, t, x.end, x.endRead, x.status, x.reaped, x.drained, x.call)
  BY <1>5, SetW
<1> HIDE DEF ends, su, to
<1>7. [[[to EXCEPT !.w = w] EXCEPT !.endRead = w] EXCEPT !.end = last] =
        WitOf(su, w, d, t, last, w, x.status, x.reaped, x.drained, x.call)
  <2>1. [WitOf(su, w, d, t, x.end, x.endRead, x.status, x.reaped, x.drained, x.call)
           EXCEPT !.endRead = w] =
          WitOf(su, w, d, t, x.end, w, x.status, x.reaped, x.drained, x.call)
    BY SetEndRead
  <2>2. [WitOf(su, w, d, t, x.end, w, x.status, x.reaped, x.drained, x.call)
           EXCEPT !.end = last] =
          WitOf(su, w, d, t, last, w, x.status, x.reaped, x.drained, x.call)
    BY SetEnd
  <2> QED
    BY <1>6, <2>1, <2>2, Zenon
<1>8. CASE d # 0
  <2>1. y = WitOf(su, w, d, t, x.end, x.endRead, x.status, x.reaped, x.drained, x.call)
    BY <1>3, <1>4, <1>6, <1>8
  <2>2. EndsTold(lg, su, w, d, x.end, x.endRead)
    BY <1>1, <1>8 DEF EndsTold
  <2>3. Knows(lg, y)
    BY <1>1, <1>2, <2>1, <2>2, WitIsKnown DEF su
  <2>4. y.claim = d /\ Carries(x, y) /\ y.w = w
    BY <2>1, WitReads DEF Carries, su
  <2> QED
    BY <1>8, <2>3, <2>4
<1>9. CASE d = 0
  <2>1. y = WitOf(su, w, d, t, last, w, x.status, x.reaped, x.drained, x.call)
    <3>1. y = [to EXCEPT !.w = w, !.endRead = w, !.end = last]
      BY <1>3, <1>4, <1>9
    <3> QED
      BY <1>7, <3>1
  <2>2. x.claim = 0
    <3>1. OwnedIn(lg, su, "started", 1..w) \in SUBSET (1..w)
      BY DEF OwnedIn
    <3>2. OwnedIn(lg, su, "started", 1..w) = {}
      BY <1>1, <1>2, <1>9, <3>1, LatestTells DEF Traces
    <3>3. OwnedIn(lg, su, "started", 1..x.w) = {}
      BY <1>1, <3>2 DEF OwnedIn
    <3> QED
      BY <3>3 DEF Knows, Traces, LatestOf, su
  <2>3. EndsTold(lg, su, w, 0, x.end, x.endRead)
    BY <1>1, <2>2 DEF Knows, EndsTold, su
  <2>4. EndsTold(lg, su, w, d, last, w)
    BY <1>1, <1>9, <2>3, EndsNext DEF ends
  <2>5. Knows(lg, y)
    BY <1>1, <1>2, <2>1, <2>4, WitIsKnown
  <2>6. y.endRead = w /\ Carries(x, y) /\ y.w = w
    BY <2>1, WitReads DEF Carries, su
  <2> QED
    BY <2>5, <2>6
<1> QED
  BY <1>8, <1>9

-----------------------------------------------------------------------------
(* What a witness says of its run, and what the log says.                  *)

Tier(lg, su, w) ==
  LET claim == LatestOf(OwnedIn(lg, su, "started", 1..w))
  IN  IF su = NoId THEN PeekTerminal(lg, w).tier
      ELSE IF claim # 0 THEN ClaimVerdict(lg, claim, w).tier
      ELSE IF OwnedIn(lg, su, "terminated", 1..w) # {} THEN "TERMINATED" ELSE "held"

LEMMA WitnessTells ==
  ASSUME NEW lg, IsLog(lg), NEW x, Knows(lg, x), x.claim = 0 => x.endRead = x.w
  PROVE  WitnessVerdict(lg, x) = Tier(lg, x.subject, x.w)
<1> DEFINE su == x.subject
           w == x.w
           c == LatestOf(OwnedIn(lg, su, "started", 1..w))
           T == OwnedIn(lg, su, "terminated", 1..w)
<1>1. x.claim = c
  BY DEF Knows, Traces
<1>2. c = 0 => (x.end # 0 <=> T # {})
  BY <1>1 DEF Knows, EndsTold
<1>3. su = NoId => LatestEpisode(lg, w) = c
  <2>1. su = NoId => Claims(lg, w) = OwnedIn(lg, su, "started", 1..w)
    BY DEF OwnedIn, Owns, Claims
  <2> QED
    BY <2>1 DEF LatestEpisode, LatestOf
<1>4. su = NoId => (T # {} <=> \E i \in 1..w : lg[i].topic = "terminated")
  BY DEF OwnedIn, Owns
<1>5. WitnessVerdict(lg, x) = IF c # 0 THEN ClaimVerdict(lg, c, w).tier
                              ELSE IF x.end # 0 THEN "TERMINATED" ELSE "held"
  BY <1>1 DEF WitnessVerdict
<1>6. su = NoId => PeekTerminal(lg, w).tier =
        IF c # 0 THEN ClaimVerdict(lg, c, w).tier
        ELSE IF \E i \in 1..w : lg[i].topic = "terminated" THEN "TERMINATED" ELSE "held"
  BY <1>3 DEF PeekTerminal, LaunchEnd
<1>7. Tier(lg, su, w) = IF su = NoId THEN PeekTerminal(lg, w).tier
                        ELSE IF c # 0 THEN ClaimVerdict(lg, c, w).tier
                        ELSE IF T # {} THEN "TERMINATED" ELSE "held"
  BY DEF Tier
<1> HIDE DEF c, T, su, w
<1> QED
  BY <1>2, <1>4, <1>5, <1>6, <1>7 DEF su, w

(* A verdict at w is that of the records up to w.                          *)
LEMMA VerdictKept ==
  ASSUME NEW lg, NEW more, Grows(lg, more), NEW c \in Nat, NEW w \in 0..Len(lg)
  PROVE  ClaimVerdict(more, c, w).tier = ClaimVerdict(lg, c, w).tier
<1>1. \A i \in (c + 1)..w : more[i] = lg[i]
  BY DEF Grows
<1>2. VerdictWindow(more, c, w) = VerdictWindow(lg, c, w)
      /\ \A i \in VerdictWindow(lg, c, w) : more[i] = lg[i]
  BY <1>1 DEF VerdictWindow
<1>3. Unread(more, c, w) = Unread(lg, c, w) /\ Unread(lg, c, w) \subseteq VerdictWindow(lg, c, w)
  BY <1>2 DEF Unread
<1>4. ReadableExits(more, c, w) = ReadableExits(lg, c, w)
  BY <1>2 DEF ReadableExits
<1>5. AllOutcomes(more, c, w) = AllOutcomes(lg, c, w)
  <2> DEFINE R == {i \in VerdictWindow(lg, c, w) : lg[i].topic = "died" /\ Readable(lg[i])}
             M == {i \in VerdictWindow(more, c, w) : more[i].topic = "died" /\ Readable(more[i])}
  <2>1. M = R /\ \A i \in R : more[i] = lg[i]
    BY <1>2
  <2>2. {more[i].body : i \in M} = {lg[i].body : i \in R}
    BY <2>1
  <2>3. (\E i \in Unread(more, c, w) : more[i].claim = c) <=> \E i \in Unread(lg, c, w) : lg[i].claim = c
    BY <1>2, <1>3
  <2> QED
    BY <2>2, <2>3 DEF AllOutcomes
<1> DEFINE E == ReadableExits(lg, c, w)
           A == AllOutcomes(lg, c, w)
           u == ClaimVerdict(more, c, w).tier
           v == ClaimVerdict(lg, c, w).tier
<1>6. /\ (\E a, b \in E : a # b) => u = "raises" /\ v = "raises"
      /\ E # {} /\ (\A a, b \in E : a = b) => u = "EXIT" /\ v = "EXIT"
      /\ E = {} /\ A # {} => u = "DIED" /\ v = "DIED"
      /\ E = {} /\ A = {} => u = "held" /\ v = "held"
  <2>0. w \in Nat
    BY DEF Grows
  <2>1. ASSUME NEW l, ReadableExits(l, c, w) = E, AllOutcomes(l, c, w) = A
        PROVE  LET t == ClaimVerdict(l, c, w).tier
               IN  /\ (\E a, b \in E : a # b) => t = "raises"
                   /\ E # {} /\ (\A a, b \in E : a = b) => t = "EXIT"
                   /\ E = {} /\ A # {} => t = "DIED"
                   /\ E = {} /\ A = {} => t = "held"
    <3> DEFINE x == ReadableExits(l, c, w)
               d == ClaimVerdict(l, c, w)
    <3>1. /\ (\E a, b \in x : a # b) => d.tier = "raises"
          /\ x # {} /\ (\A a, b \in x : a = b) =>
               d = [tier |-> "EXIT", outcomes |-> {l[i].body : i \in x}, malformed |-> Unread(l, c, w)]
          /\ x = {} /\ AllOutcomes(l, c, w) # {} => d.tier = "DIED"
          /\ x = {} /\ AllOutcomes(l, c, w) = {} => d.tier = "held"
      BY <2>0, VerdictIs
    <3> HIDE DEF d, x
    <3>2. x # {} /\ (\A a, b \in x : a = b) => d.tier = "EXIT"
      BY <3>1
    <3>3. x = E
      BY <2>1 DEF x
    <3> HIDE DEF E, A
    <3> QED
      BY <2>1, <3>1, <3>2, <3>3 DEF d
  <2> HIDE DEF E, A
  <2> QED
    BY <1>4, <1>5, <2>1 DEF E, A
<1> HIDE DEF E, A
<1> QED
  BY <1>6

(* The newest heartbeat, by the search back or at once.                    *)
LEMMA HeartbeatIs ==
  ASSUME NEW lg, NEW w \in Nat, NEW c \in Nat
  PROVE  CurrentHeartbeat(lg, c, w) =
           LatestOf({i \in (c + 1)..w : lg[i].topic \in {"commit", "heartbeat"} /\ lg[i].claim = c})
<1> DEFINE marks == {i \in (c + 1)..w : lg[i].topic \in {"commit", "heartbeat"}}
           mine  == {i \in marks : lg[i].claim = c}
           top   == NewestIn(marks)
<1>1. mine = {i \in (c + 1)..w : lg[i].topic \in {"commit", "heartbeat"} /\ lg[i].claim = c}
  OBVIOUS
<1>2. CurrentHeartbeat(lg, c, w) =
        IF marks = {} THEN 0 ELSE IF top \in mine THEN top ELSE Backward(mine, c, top)
  BY DEF CurrentHeartbeat
<1>3. marks \in SUBSET (1..w) /\ mine \subseteq marks /\ marks \in SUBSET (0..w)
      /\ \A i \in mine : i \in Nat /\ c < i
  OBVIOUS
<1> HIDE DEF marks, mine
<1>4. CASE marks = {}
  BY <1>1, <1>2, <1>3, <1>4 DEF LatestOf
<1>5. CASE marks # {}
  <2>1. top \in marks /\ \A i \in marks : i <= top
    BY <1>3, <1>5, GreatestOf
  <2> HIDE DEF top
  <2>2. CASE top \in mine
    <3>1. LatestOf(mine) = top
      BY <1>3, <2>1, <2>2, LatestIs
    <3> QED
      BY <1>1, <1>2, <1>5, <2>2, <3>1
  <2>3. CASE top \notin mine
    <3>1. top \in Nat
      BY <1>3, <2>1
    <3>2. Backward(mine, c, top) = Newest(mine, c, top)
      BY <1>3, <3>1, BackwardIs
    <3>3. Reached(mine, c, top) = mine
      BY <1>3, <2>1 DEF Reached
    <3> QED
      BY <1>1, <1>2, <1>5, <2>3, <3>2, <3>3 DEF Newest
  <2> QED
    BY <2>2, <2>3
<1> QED
  BY <1>4, <1>5

(* When a witness registers, it searches back for what was seen.           *)
LEMMA SeedIs ==
  ASSUME NEW lg, NEW w \in Nat, NEW c \in 1..w, BeaconsOf(lg, c, w) # {}
  PROVE  Seed(lg, c, w) = LatestOf(BeaconsOf(lg, c, w))
<1> DEFINE B == BeaconsOf(lg, c, w)
           found == Backward(B, c, w)
           R == Reached(B, c, w)
<1>1. B \in SUBSET (1..w) /\ (c \in B <=> Readable(lg[c])) /\ \A i \in B : i >= c
  BY DEF BeaconsOf
<1>2. R = {i \in B : c < i}
  BY <1>1 DEF Reached
<1>3. found = LatestOf(R)
  <2>1. \A i \in B : i \in Nat
    BY <1>1
  <2>2. c \in Nat
    OBVIOUS
  <2> QED
    BY <2>1, <2>2, BackwardIs DEF Newest
<1>4. Seed(lg, c, w) = IF found # 0 THEN found ELSE IF Readable(lg[c]) THEN c ELSE 0
  BY DEF Seed
<1>5. R \in SUBSET (1..w)
  BY <1>1, <1>2
<1> HIDE DEF R, B
<1>6. /\ found # 0 <=> R # {}
      /\ R # {} => found \in R /\ \A j \in R : j <= found
  BY <1>3, <1>5, LatestTells
<1> HIDE DEF found
<1>7. CASE R # {}
  <2>1. found \in B /\ \A j \in B : j <= found
    <3>1. found \in B /\ c < found
      BY <1>2, <1>6, <1>7
    <3>2. ASSUME NEW j \in B PROVE j <= found
      <4>1. c < j \/ j = c
        BY <1>1
      <4>2. CASE c < j
        BY <1>2, <1>6, <1>7, <4>2
      <4>3. CASE j = c
        BY <1>1, <3>1, <4>3
      <4> QED
        BY <4>1, <4>2, <4>3
    <3> QED
      BY <3>1, <3>2
  <2>2. LatestOf(B) = found
    BY <1>1, <2>1, LatestIs
  <2> QED
    BY <1>4, <1>6, <1>7, <2>2 DEF B
<1>8. CASE R = {}
  <2>1. \A i \in B : i = c
    BY <1>1, <1>2, <1>8
  <2>2. c \in B /\ Readable(lg[c]) /\ \A i \in B : i <= c
    BY <1>1, <2>1 DEF B
  <2>3. LatestOf(B) = c
    BY <1>1, <2>2, LatestIs
  <2> QED
    BY <1>4, <1>6, <1>8, <2>2, <2>3 DEF B
<1> QED
  BY <1>7, <1>8

-----------------------------------------------------------------------------
(* What is always so of a witness.                                         *)

WitSound(lg, x) ==
  /\ Knows(lg, x)
  /\ x.reaped => OwnedIn(lg, x.subject, "terminated", 1..Len(lg)) # {}
  /\ x.status = "probed_dead" => x.claim # 0 /\ ~Ended(ClaimVerdict(lg, x.claim, x.w).tier)

WitnessInv == WitSound(log, wt)

LEMMA WitKept ==
  ASSUME NEW lg, NEW more, Grows(lg, more), NEW x, WitSound(lg, x)
  PROVE  WitSound(more, x)
<1>1. /\ x.w \in 0..Len(lg) /\ x.w \in 0..Len(more) /\ x.w \in Nat
      /\ Len(lg) \in 0..Len(lg) /\ x.endRead \in 0..Len(lg)
  BY DEF WitSound, Knows, EndsTold, Grows
<1>2. Traces(more, x.subject, x.w, x.claim, x.seen)
  BY <1>1, TracesKept DEF WitSound, Knows
<1>3. EndsTold(more, x.subject, x.w, x.claim, x.end, x.endRead)
  <2>1. OwnedIn(more, x.subject, "terminated", 1..x.endRead) =
          OwnedIn(lg, x.subject, "terminated", 1..x.endRead)
    BY <1>1, OwnedSame
  <2> QED
    BY <2>1 DEF WitSound, Knows, EndsTold
<1>4. Knows(more, x)
  BY <1>1, <1>2, <1>3 DEF WitSound, Knows
<1>5. x.reaped => OwnedIn(more, x.subject, "terminated", 1..Len(more)) # {}
  <2>1. OwnedIn(more, x.subject, "terminated", 1..Len(lg)) =
          OwnedIn(lg, x.subject, "terminated", 1..Len(lg))
    BY <1>1, OwnedSame
  <2>2. OwnedIn(more, x.subject, "terminated", 1..Len(lg)) \subseteq
          OwnedIn(more, x.subject, "terminated", 1..Len(more))
    BY DEF OwnedIn, Grows
  <2> QED
    BY <2>1, <2>2 DEF WitSound
<1>6. x.claim \in Nat
  <2>1. OwnedIn(lg, x.subject, "started", 1..x.w) \in SUBSET (1..x.w)
    BY DEF OwnedIn
  <2>2. x.claim = LatestOf(OwnedIn(lg, x.subject, "started", 1..x.w))
    BY DEF WitSound, Knows, Traces
  <2> QED
    BY <1>1, <2>1, <2>2, LatestTells
<1>7. ClaimVerdict(more, x.claim, x.w).tier = ClaimVerdict(lg, x.claim, x.w).tier
  BY <1>1, <1>6, VerdictKept
<1> QED
  BY <1>4, <1>5, <1>7 DEF WitSound

(* A poll, of a handle whose end is recorded or not, and what it returns.  *)
LEMMA PolledSound ==
  ASSUME NEW lg, IsLog(lg), NEW x, WitSound(lg, x), NEW re, NEW st, NEW ca,
         re => OwnedIn(lg, x.subject, "terminated", 1..Len(lg)) # {},
         st = "probed_dead" => re /\ ~Ended(WitnessVerdict(lg, Witnessed(lg, x, Len(lg))))
  PROVE  LET p == Witnessed(lg, x, Len(lg))
         IN  WitSound(lg, WitOf(p.subject, p.w, p.claim, p.seen, p.end, p.endRead, st, re,
                                p.drained, ca))
<1> DEFINE p == Witnessed(lg, x, Len(lg))
           y == WitOf(p.subject, p.w, p.claim, p.seen, p.end, p.endRead, st, re, p.drained, ca)
<1>1. Len(lg) \in x.w..Len(lg)
  BY DEF WitSound, Knows, IsLog
<1>2. Knows(lg, p) /\ Carries(x, p) /\ p.w = Len(lg) /\ (p.claim = 0 => p.endRead = Len(lg))
  BY <1>1, WitnessedKnows DEF WitSound
<1> HIDE DEF p
<1>3. Knows(lg, y)
  BY <1>2, WitIsKnown DEF Knows
<1>4. y.subject = x.subject /\ y.claim = p.claim /\ y.w = p.w /\ y.reaped = re /\ y.status = st
      /\ y.call = ca
  BY <1>2, WitReads DEF Carries
<1> HIDE DEF y
<1>5. ASSUME st = "probed_dead"
      PROVE  p.claim # 0 /\ ~Ended(ClaimVerdict(lg, p.claim, p.w).tier)
  <2>1. ~Ended(WitnessVerdict(lg, p)) /\ OwnedIn(lg, x.subject, "terminated", 1..Len(lg)) # {}
    BY <1>5 DEF p
  <2>2. p.claim # 0
    <3>1. SUFFICES ASSUME p.claim = 0 PROVE FALSE
      OBVIOUS
    <3>2. p.end # 0
      BY <1>2, <2>1, <3>1 DEF Knows, EndsTold, Carries
    <3> QED
      BY <2>1, <3>1, <3>2 DEF WitnessVerdict, Ended
  <2> QED
    BY <2>1, <2>2 DEF WitnessVerdict
<1>6. WitSound(lg, y)
  BY <1>3, <1>4, <1>5 DEF WitSound
<1> QED
  BY <1>6 DEF y, p

LEMMA ReapedEnds ==
  ASSUME NEW lg, IsLog(lg), NEW r, NEW child \in BOOLEAN
  PROVE  OwnedIn(Reaped(lg, r, child), r, "terminated", 1..Len(Reaped(lg, r, child))) # {}
<1> DEFINE end  == [Blank EXCEPT !.topic = "terminated", !.rid = r]
           once == Append(lg, end)
           c    == LatestOf(OwnedIn(lg, r, "started", 1..Len(lg)))
           dies == [Blank EXCEPT !.topic = "died", !.claim = c, !.body = "cause"]
           both == Append(once, dies)
           i    == Len(lg) + 1
<1>1. end.topic = "terminated" /\ Owns(r, end)
  BY DEF Blank, Owns
<1>2. Reaped(lg, r, child) = once \/ Reaped(lg, r, child) = both
  BY DEF Reaped
<1> HIDE DEF end, dies
<1>3. /\ IsLog(once)
      /\ Grows(lg, once) /\ Len(once) = Len(lg) + 1 /\ once[Len(lg) + 1] = end
  BY GrowsMore
<1> HIDE DEF once
<1>4. Grows(once, both)
  BY <1>3, GrowsMore
<1> HIDE DEF both
<1>5. i \in 1..Len(once) /\ i \in 1..Len(both) /\ both[i] = end /\ once[i] = end
  <2>1. i \in 1..Len(once)
    BY <1>3 DEF IsLog
  <2>2. i \in 1..Len(both) /\ both[i] = once[i]
    BY <1>4, <2>1 DEF Grows
  <2> QED
    BY <1>3, <2>1, <2>2
<1> HIDE DEF i
<1>6. i \in OwnedIn(once, r, "terminated", 1..Len(once))
      /\ i \in OwnedIn(both, r, "terminated", 1..Len(both))
  BY <1>1, <1>5 DEF OwnedIn
<1> QED
  BY <1>2, <1>6

LEMMA NoWitnessIs == NoWitness = WitOf(NoId, 0, 0, 0, 0, 0, "none", FALSE, 0, "none")
BY DEF NoWitness, WitOf

LEMMA NoneDrained == NoWitness.drained = 0 /\ NoWitness.call = "none"
BY DEF NoWitness

LEMMA RegisteredSound ==
  ASSUME NEW lg, IsLog(lg), NEW su
  PROVE  LET x == Registered(lg, su, Len(lg))
         IN  WitSound(lg, x) /\ x.drained = 0 /\ x.call = "none"
<1> DEFINE w == Len(lg)
           O == OwnedIn(lg, su, "started", 1..w)
           c == LatestOf(O)
           s == IF c = 0 THEN 0 ELSE Seed(lg, c, w)
           x == Registered(lg, su, w)
<1>1. w \in Nat /\ O \in SUBSET (1..w)
  BY DEF IsLog, OwnedIn
<1>2. c \in 0..w
  BY <1>1, LatestTells
<1> DEFINE off == FALSE
<1>0. NoWitness = WitOf(NoId, 0, 0, 0, 0, 0, "none", off, 0, "none")
  BY NoWitnessIs
<1>9. x = [[[[[NoWitness EXCEPT !.subject = su] EXCEPT !.w = w] EXCEPT !.claim = c]
             EXCEPT !.status = "polls"] EXCEPT !.seen = s]
  BY DEF Registered
<1> HIDE DEF w, x, O, c, s, off
<1>3. x = WitOf(su, w, c, s, 0, 0, "polls", off, 0, "none")
  <2> DEFINE x1 == [NoWitness EXCEPT !.subject = su]
             x2 == [x1 EXCEPT !.w = w]
             x3 == [x2 EXCEPT !.claim = c]
             x4 == [x3 EXCEPT !.status = "polls"]
             x5 == [x4 EXCEPT !.seen = s]
  <2>0. x = x5
    BY <1>9
  <2> HIDE DEF x5
  <2>5. x5 = [x4 EXCEPT !.seen = s]
    BY DEF x5
  <2> HIDE DEF x4
  <2>4. x4 = [x3 EXCEPT !.status = "polls"]
    BY DEF x4
  <2> HIDE DEF x3
  <2>3. x3 = [x2 EXCEPT !.claim = c]
    BY DEF x3
  <2> HIDE DEF x2
  <2>2. x2 = [x1 EXCEPT !.w = w]
    BY DEF x2
  <2>1. x1 = WitOf(su, 0, 0, 0, 0, 0, "none", off, 0, "none")
    BY <1>0, SetSubject
  <2> HIDE DEF x1
  <2>6. x2 = WitOf(su, w, 0, 0, 0, 0, "none", off, 0, "none")
    BY <2>1, <2>2, SetW
  <2>7. x3 = WitOf(su, w, c, 0, 0, 0, "none", off, 0, "none")
    BY <2>3, <2>6, SetClaim
  <2>8. x4 = WitOf(su, w, c, 0, 0, 0, "polls", off, 0, "none")
    BY <2>4, <2>7, SetStatus
  <2>9. x5 = WitOf(su, w, c, s, 0, 0, "polls", off, 0, "none")
    BY <2>5, <2>8, SetSeen
  <2> QED
    BY <2>0, <2>9
<1>4. Traces(lg, su, w, c, s)
  <2>1. c # 0 => c \in 1..w
    BY <1>1, <1>2
  <2>2. c # 0 /\ BeaconsOf(lg, c, w) # {} => s = LatestOf(BeaconsOf(lg, c, w))
    BY <1>1, <2>1, SeedIs DEF s
  <2> QED
    BY <2>2 DEF Traces, O, c
<1>5. EndsTold(lg, su, w, c, 0, 0)
  BY <1>1 DEF EndsTold, OwnedIn
<1>6. w \in 0..Len(lg)
  BY <1>1 DEF w
<1>7. Knows(lg, x)
  BY <1>3, <1>4, <1>5, <1>6, WitIsKnown
<1>8. x.reaped = off /\ x.status = "polls" /\ x.call = "none" /\ x.drained = 0
  BY <1>3, WitReads
<1>10. WitSound(lg, x)
  BY <1>7, <1>8 DEF WitSound, off
<1> QED
  BY <1>8, <1>10 DEF x, w

LEMMA StartsWitnessing == ClientInit => WitnessInv
<1> SUFFICES ASSUME ClientInit PROVE WitnessInv
  OBVIOUS
<1>1. Len(log) = 0 /\ wt = NoWitness
  BY DEF ClientInit, Init
<1> DEFINE off == FALSE
<1>2. wt = WitOf(NoId, 0, 0, 0, 0, 0, "none", off, 0, "none")
  BY <1>1, NoWitnessIs
<1> HIDE DEF off
<1>3. Traces(log, NoId, 0, 0, 0) /\ EndsTold(log, NoId, 0, 0, 0, 0)
  BY DEF Traces, EndsTold, OwnedIn, LatestOf
<1>4. Knows(log, wt)
  <2>1. 0 \in 0..Len(log)
    BY <1>1
  <2>2. Knows(log, WitOf(NoId, 0, 0, 0, 0, 0, "none", off, 0, "none"))
    BY <1>3, <2>1, WitIsKnown
  <2> QED
    BY <1>2, <2>2, Zenon
<1>5. wt.reaped = off /\ wt.status = "none" /\ wt.call = "none"
  BY <1>2, WitReads
<1> QED
  BY <1>4, <1>5 DEF WitnessInv, WitSound, off

(* The steps of a wait, and of a generator, that are not a poll.            *)
LEMMA CallKept ==
  ASSUME NEW lg, NEW x, WitSound(lg, x), NEW dr, NEW ca
  PROVE  WitSound(lg, WitOf(x.subject, x.w, x.claim, x.seen, x.end, x.endRead, x.status,
                            x.reaped, dr, ca))
<1> DEFINE y == WitOf(x.subject, x.w, x.claim, x.seen, x.end, x.endRead, x.status,
                      x.reaped, dr, ca)
<1>1. Knows(lg, y)
  BY WitIsKnown DEF WitSound, Knows
<1>2. y.subject = x.subject /\ y.claim = x.claim /\ y.w = x.w /\ y.reaped = x.reaped
      /\ y.status = x.status /\ y.call = ca /\ y.drained = dr
  BY WitReads
<1> HIDE DEF y
<1>3. WitSound(lg, y)
  BY <1>1, <1>2 DEF WitSound
<1> QED
  BY <1>3 DEF y

CursorAt(x, y, drained, call) == y.w = x.w /\ y.drained = drained /\ y.call = call

LEMMA Moving ==
  ASSUME NEW lg, NEW x, WitSound(lg, x), NEW dr, NEW ca
  PROVE  LET y == WitOf(x.subject, x.w, x.claim, x.seen, x.end, x.endRead, x.status, x.reaped, dr, ca)
         IN  WitSound(lg, y) /\ CursorAt(x, y, dr, ca)
BY CallKept, WitReads DEF CursorAt

LEMMA CallMoves ==
  ASSUME NEW lg, NEW x, WitSound(lg, x), NEW ca
  PROVE  WitSound(lg, [x EXCEPT !.call = ca]) /\ CursorAt(x, [x EXCEPT !.call = ca], x.drained, ca)
<1>1. x = WitOf(x.subject, x.w, x.claim, x.seen, x.end, x.endRead, x.status, x.reaped,
                x.drained, x.call)
  BY DEF WitSound, Knows, With
<1>2. [x EXCEPT !.call = ca] =
        WitOf(x.subject, x.w, x.claim, x.seen, x.end, x.endRead, x.status, x.reaped, x.drained, ca)
  BY <1>1, SetCall
<1> DEFINE z == WitOf(x.subject, x.w, x.claim, x.seen, x.end, x.endRead, x.status, x.reaped, x.drained, ca)
<1>3. WitSound(lg, z) /\ CursorAt(x, z, x.drained, ca)
  BY Moving
<1> HIDE DEF z
<1>4. [x EXCEPT !.call = ca] = z
  BY <1>2 DEF z
<1> QED
  BY <1>3, <1>4, Zenon

LEMMA DrainMoves ==
  ASSUME NEW lg, NEW x, WitSound(lg, x), NEW dr
  PROVE  WitSound(lg, [x EXCEPT !.drained = dr])
         /\ CursorAt(x, [x EXCEPT !.drained = dr], dr, x.call)
<1>1. x = WitOf(x.subject, x.w, x.claim, x.seen, x.end, x.endRead, x.status, x.reaped,
                x.drained, x.call)
  BY DEF WitSound, Knows, With
<1>2. [x EXCEPT !.drained = dr] =
        WitOf(x.subject, x.w, x.claim, x.seen, x.end, x.endRead, x.status, x.reaped, dr, x.call)
  BY <1>1, SetDrained
<1> DEFINE z == WitOf(x.subject, x.w, x.claim, x.seen, x.end, x.endRead, x.status, x.reaped, dr, x.call)
<1>3. WitSound(lg, z) /\ CursorAt(x, z, dr, x.call)
  BY Moving
<1> HIDE DEF z
<1>4. [x EXCEPT !.drained = dr] = z
  BY <1>2 DEF z
<1> QED
  BY <1>3, <1>4, Zenon

(* What a step does to a witness's cursor, and where it leaves a wait.      *)
CursorStep ==
  \/ UNCHANGED wt /\ (ev' = ev \/ IterNext \/ IterBreaks)
  \/ Track /\ wt.drained = 0 /\ wt.call = "none" /\ wt'.drained = 0 /\ wt'.call = "none"
  \/ /\ PollWatch \/ ReapAndPoll
     /\ wt'.drained = wt.drained /\ \E st : wt'.call \in AfterPoll(st)
  \/ CallWait /\ CursorAt(wt, wt', wt.drained, "drains")
  \/ Drain /\ CursorAt(wt, wt', Len(log), HandsOn[wt.call])
  \/ HandOn /\ CursorAt(wt, wt', wt.drained, NextCall[wt.call])
  \/ HandOnRaises /\ CursorAt(wt, wt', wt.drained, "none")
  \/ IterEvents /\ CursorAt(wt, wt', Len(log), wt.call)

LEMMA StaysWitnessing ==
  ASSUME LogInv, WitnessInv, [ClientNext]_clientVars
  PROVE  WitnessInv' /\ CursorStep
<1>1. LogInv' /\ Grows(log, log')
  BY LogGrows
<1>2. IsLog(log) /\ IsLog(log') /\ Len(log) \in Nat
  BY <1>1 DEF LogInv, IsLog
<1>3. WitSound(log, wt) /\ WitSound(log', wt)
  BY <1>1, WitKept DEF WitnessInv
<1>5. SUFFICES WitSound(log', wt') /\ CursorStep
  BY DEF WitnessInv
<1>6. CASE UNCHANGED wt /\ (ev' = ev \/ IterNext \/ IterBreaks)
  BY <1>3, <1>6 DEF CursorStep
<1>7. CASE Track
  <2>1. PICK r : wt' = Registered(log, r, Len(log))
    BY <1>7, Zenon DEF Track
  <2>2. log' = log
    BY <1>7, Zenon DEF Track
  <2>3. wt = NoWitness
    BY <1>7, Zenon DEF Track
  <2>4. wt.drained = 0 /\ wt.call = "none"
    BY <2>3, NoneDrained
  <2>5. wt'.drained = 0 /\ wt'.call = "none"
    BY <1>2, <2>1, RegisteredSound
  <2> QED
    BY <1>2, <1>7, <2>1, <2>2, <2>4, <2>5, RegisteredSound DEF CursorStep
<1>8. CASE PollWatch
  <2> DEFINE p == Witnessed(log, wt, Len(log))
  <2>1. log' = log
    BY <1>8, Zenon DEF PollWatch
  <2>2. PICK status \in Returned(p) : \E call \in AfterPoll(status) :
          wt' = [p EXCEPT !.status = status, !.call = call]
    BY <1>8, Zenon DEF PollWatch
  <2>3. PICK call \in AfterPoll(status) : wt' = [p EXCEPT !.status = status, !.call = call]
    BY <2>2, Zenon
  <2>4. Len(log) \in wt.w..Len(log)
    BY <1>2, <1>3 DEF WitSound, Knows
  <2>5. Knows(log, p) /\ Carries(wt, p)
    BY <1>2, <1>3, <2>4, WitnessedKnows DEF WitSound
  <2>7. status = "probed_dead" => wt.reaped /\ ~Ended(WitnessVerdict(log, p))
    BY <2>1, <2>2 DEF Returned
  <2>8. p.reaped = wt.reaped
    BY <2>5 DEF Carries
  <2>9. WitSound(log, WitOf(p.subject, p.w, p.claim, p.seen, p.end, p.endRead, status,
                            wt.reaped, p.drained, call))
    BY <1>2, <1>3, <2>7, PolledSound DEF WitSound
  <2> HIDE DEF p
  <2>10. wt' = WitOf(p.subject, p.w, p.claim, p.seen, p.end, p.endRead, status,
                     p.reaped, p.drained, call)
    <3>1. p = WitOf(p.subject, p.w, p.claim, p.seen, p.end, p.endRead, p.status,
                    p.reaped, p.drained, p.call)
      BY <2>5 DEF Knows, With
    <3>2. wt' = [[p EXCEPT !.status = status] EXCEPT !.call = call]
      BY <2>3
    <3>3. [p EXCEPT !.status = status] =
            WitOf(p.subject, p.w, p.claim, p.seen, p.end, p.endRead, status,
                  p.reaped, p.drained, p.call)
      BY <3>1, SetStatus
    <3>4. [WitOf(p.subject, p.w, p.claim, p.seen, p.end, p.endRead, status,
                 p.reaped, p.drained, p.call) EXCEPT !.call = call] =
            WitOf(p.subject, p.w, p.claim, p.seen, p.end, p.endRead, status,
                  p.reaped, p.drained, call)
      BY SetCall
    <3> QED
      BY <3>2, <3>3, <3>4, Zenon
  <2>11. wt'.drained = wt.drained /\ wt'.call = call
    BY <2>5, <2>10, WitReads DEF Carries
  <2> QED
    BY <1>8, <2>1, <2>3, <2>8, <2>9, <2>10, <2>11 DEF CursorStep
<1>9. CASE ReapAndPoll
  <2> DEFINE p == Witnessed(log', wt, Len(log'))
             status == IF Ended(WitnessVerdict(log', p)) THEN "ended" ELSE "probed_dead"
  <2>1. PICK child \in BOOLEAN : log' = Reaped(log, wt.subject, child)
    BY <1>9, Zenon DEF ReapAndPoll
  <2>2. PICK call \in AfterPoll(status) :
          wt' = [p EXCEPT !.status = status, !.call = call, !.reaped = TRUE]
    BY <1>9, Zenon DEF ReapAndPoll
  <2>3. OwnedIn(log', wt.subject, "terminated", 1..Len(log')) # {}
    BY <1>2, <2>1, ReapedEnds
  <2>4. Len(log') \in wt.w..Len(log')
    BY <1>2, <1>3 DEF WitSound, Knows, IsLog
  <2>5. Knows(log', p) /\ Carries(wt, p)
    BY <1>2, <1>3, <2>4, WitnessedKnows DEF WitSound
  <2>7. status = "probed_dead" => ~Ended(WitnessVerdict(log', p))
    OBVIOUS
  <2> HIDE DEF status
  <2>8. WitSound(log', WitOf(p.subject, p.w, p.claim, p.seen, p.end, p.endRead, status,
                             TRUE, p.drained, call))
    BY <1>2, <1>3, <2>3, <2>7, PolledSound
  <2> HIDE DEF p
  <2>9. wt' = WitOf(p.subject, p.w, p.claim, p.seen, p.end, p.endRead, status,
                    TRUE, p.drained, call)
    <3>1. p = WitOf(p.subject, p.w, p.claim, p.seen, p.end, p.endRead, p.status,
                    p.reaped, p.drained, p.call)
      BY <2>5 DEF Knows, With
    <3> DEFINE on == TRUE
    <3>2. wt' = [[[p EXCEPT !.status = status] EXCEPT !.call = call] EXCEPT !.reaped = on]
      BY <2>2
    <3> HIDE DEF on
    <3>3. [p EXCEPT !.status = status] =
            WitOf(p.subject, p.w, p.claim, p.seen, p.end, p.endRead, status,
                  p.reaped, p.drained, p.call)
      BY <3>1, SetStatus
    <3>4. [WitOf(p.subject, p.w, p.claim, p.seen, p.end, p.endRead, status,
                 p.reaped, p.drained, p.call) EXCEPT !.call = call] =
            WitOf(p.subject, p.w, p.claim, p.seen, p.end, p.endRead, status,
                  p.reaped, p.drained, call)
      BY SetCall
    <3>5. [WitOf(p.subject, p.w, p.claim, p.seen, p.end, p.endRead, status,
                 p.reaped, p.drained, call) EXCEPT !.reaped = on] =
            WitOf(p.subject, p.w, p.claim, p.seen, p.end, p.endRead, status,
                  on, p.drained, call)
      BY SetReaped
    <3>6. wt' = WitOf(p.subject, p.w, p.claim, p.seen, p.end, p.endRead, status,
                      on, p.drained, call)
      BY <3>2, <3>3, <3>4, <3>5, Zenon
    <3> QED
      BY <3>6 DEF on
  <2>10. wt'.drained = wt.drained /\ wt'.call = call
    <3> DEFINE on == TRUE
    <3>1. wt' = WitOf(p.subject, p.w, p.claim, p.seen, p.end, p.endRead, status, on, p.drained, call)
      BY <2>9
    <3> HIDE DEF on
    <3>2. wt'.drained = p.drained /\ wt'.call = call
      BY <3>1, WitReads
    <3> QED
      BY <2>5, <3>2 DEF Carries
  <2> QED
    BY <1>9, <2>2, <2>8, <2>9, <2>10 DEF CursorStep
<1>10. CASE CallWait
  <2>1. log' = log /\ wt' = [wt EXCEPT !.call = "drains"]
    BY <1>10, Zenon DEF CallWait
  <2>2. WitSound(log, wt') /\ CursorAt(wt, wt', wt.drained, "drains")
    BY <1>3, <2>1, CallMoves, Zenon
  <2> QED
    BY <1>10, <2>1, <2>2 DEF CursorStep
<1>11. CASE Drain
  <2> DEFINE ca == HandsOn[wt.call]
             len == Len(log)
  <2>1. log' = log /\ wt' = [wt EXCEPT !.drained = len, !.call = ca]
    BY <1>11, Zenon DEF Drain, IdleClient
  <2> HIDE DEF ca, len
  <2>3. [wt EXCEPT !.drained = len, !.call = ca] = [[wt EXCEPT !.drained = len] EXCEPT !.call = ca]
    OBVIOUS
  <2> DEFINE x == [wt EXCEPT !.drained = len]
  <2>4. WitSound(log, x) /\ CursorAt(wt, x, len, wt.call)
    BY <1>3, DrainMoves, Zenon
  <2> HIDE DEF x
  <2>5. wt' = [x EXCEPT !.call = ca]
    BY <2>1, <2>3 DEF x
  <2>6. WitSound(log, wt') /\ CursorAt(x, wt', x.drained, ca)
    BY <2>4, <2>5, CallMoves, Zenon
  <2>2. WitSound(log, wt') /\ CursorAt(wt, wt', len, ca)
    BY <2>4, <2>6 DEF CursorAt
  <2> QED
    BY <1>11, <2>1, <2>2 DEF CursorStep, ca, len
<1>12. CASE HandOn
  <2> DEFINE ca == NextCall[wt.call]
  <2>1. log' = log /\ wt' = [wt EXCEPT !.call = ca]
    BY <1>12, Zenon DEF HandOn, IdleClient
  <2> HIDE DEF ca
  <2>2. WitSound(log, wt') /\ CursorAt(wt, wt', wt.drained, ca)
    BY <1>3, <2>1, CallMoves, Zenon
  <2> QED
    BY <1>12, <2>1, <2>2 DEF CursorStep, ca
<1>13. CASE HandOnRaises
  <2>1. log' = log /\ wt' = [wt EXCEPT !.call = "none"]
    BY <1>13, Zenon DEF HandOnRaises, IdleClient
  <2>2. WitSound(log, wt') /\ CursorAt(wt, wt', wt.drained, "none")
    BY <1>3, <2>1, CallMoves, Zenon
  <2> QED
    BY <1>13, <2>1, <2>2 DEF CursorStep
<1>14. CASE IterEvents
  <2> DEFINE len == Len(log)
  <2>1. log' = log /\ wt' = [wt EXCEPT !.drained = len]
    BY <1>14, Zenon DEF IterEvents, IdleClient
  <2> HIDE DEF len
  <2>2. WitSound(log, wt') /\ CursorAt(wt, wt', len, wt.call)
    BY <1>3, <2>1, DrainMoves, Zenon
  <2> QED
    BY <1>14, <2>1, <2>2 DEF CursorStep, len
<1>15. \/ UNCHANGED wt /\ (ev' = ev \/ IterNext \/ IterBreaks)
       \/ Track \/ PollWatch \/ ReapAndPoll \/ CallWait
       \/ Drain \/ HandOn \/ HandOnRaises \/ IterEvents
  BY Zenon DEF ClientNext, clientVars, ClientWrite, Next, Write, PollHead, PollDemand, PollAnswers, PollStops,
               CallAwait, PollAwait, EventStep, IterNext, IterBreaks
<1> QED
  BY <1>6, <1>7, <1>8, <1>9, <1>10, <1>11, <1>12, <1>13, <1>14, <1>15

(* Where every record that the event cursor has passed is to be found.      *)
EventType(e) ==
  e \in [handed : SUBSET Nat, batch : SUBSET Nat, iter : SUBSET Nat, dropped : BOOLEAN]

Kept(e, drained) ==
  /\ EventType(e)
  /\ e.batch \subseteq 1..drained
  /\ ~e.dropped => 1..drained \subseteq e.handed \cup e.batch \cup e.iter

EventInv ==
  /\ Kept(ev, wt.drained)
  /\ wt.drained \in 0..Len(log)
  /\ wt.call \in {"hands_last", "returned"} => wt.w <= wt.drained
  /\ watching # "wait" => wt.call = "none"
  /\ ev.batch # {} => wt.call \in {"hands", "hands_last"}

LEMMA StartsHanding == ClientInit => EventInv
<1> SUFFICES ASSUME ClientInit PROVE EventInv
  OBVIOUS
<1>1. Len(log) = 0 /\ wt = NoWitness /\ ev = NoEvents
  BY DEF ClientInit, Init
<1>2. wt.drained = 0 /\ wt.call = "none"
  BY <1>1, NoneDrained
<1>3. Kept(ev, 0) /\ ev.batch = {}
  BY <1>1 DEF NoEvents, Kept, EventType
<1> QED
  BY <1>1, <1>2, <1>3 DEF EventInv

(* A drain takes what is above the cursor; a callback is handed a batch, or *)
(* raises in it; a generator holds a batch, and yields it or is broken off. *)
LEMMA BatchTaken ==
  ASSUME NEW e, NEW d \in Nat, NEW n \in Nat, Kept(e, d), e.batch = {}
  PROVE  LET f == [e EXCEPT !.batch = (d + 1)..n] IN d <= n => Kept(f, n)
BY DEF Kept, EventType

LEMMA BatchHanded ==
  ASSUME NEW e, NEW d \in Nat, Kept(e, d)
  PROVE  LET f == [e EXCEPT !.handed = @ \cup e.batch, !.batch = {}]
         IN  Kept(f, d) /\ f.batch = {}
BY DEF Kept, EventType

LEMMA BatchDropped ==
  ASSUME NEW e, NEW d \in Nat, Kept(e, d), NEW i \in e.batch,
         NEW S, S = {j \in e.batch : j <= i}
  PROVE  LET f == [e EXCEPT !.handed = @ \cup S, !.batch = {}, !.dropped = @ \/ i < d]
         IN  Kept(f, d) /\ f.batch = {}
<1> DEFINE f == [e EXCEPT !.handed = @ \cup S, !.batch = {}, !.dropped = @ \/ i < d]
<1>1. EventType(f) /\ f.batch = {} /\ f.handed = e.handed \cup S
      /\ f.iter = e.iter /\ (~f.dropped => ~e.dropped /\ ~(i < d))
  BY DEF Kept, EventType
<1>2. ASSUME ~f.dropped PROVE 1..d \subseteq f.handed \cup f.batch \cup f.iter
  <2>1. \A j \in e.batch : j <= i
    BY <1>1, <1>2 DEF Kept
  <2> QED
    BY <1>1, <1>2, <2>1 DEF Kept
<1> QED
  BY <1>1, <1>2 DEF Kept

LEMMA IterTaken ==
  ASSUME NEW e, NEW d \in Nat, NEW n \in Nat, Kept(e, d), e.batch = {}, e.iter = {}
  PROVE  LET f == [e EXCEPT !.iter = (d + 1)..n] IN d <= n => Kept(f, n) /\ f.batch = {}
BY DEF Kept, EventType

LEMMA IterMoves ==
  ASSUME NEW e, NEW d \in Nat, Kept(e, d)
  PROVE  /\ \A i \in e.iter : LET f == [e EXCEPT !.handed = @ \cup {i}, !.iter = @ \ {i}]
                              IN  Kept(f, d) /\ f.batch = e.batch
         /\ LET f == [e EXCEPT !.iter = {}, !.dropped = TRUE]
            IN  Kept(f, d) /\ f.batch = e.batch
BY DEF Kept, EventType

LEMMA StaysHanding ==
  ASSUME LogInv, WitnessInv, EventInv, [ClientNext]_clientVars
  PROVE  EventInv'
<1> DEFINE n == Len(log)
           d == wt.drained
<1>1. Grows(log, log') /\ watching' = watching /\ CursorStep
  BY LogGrows, StaysWitnessing
<1>2. n \in Nat /\ Len(log') \in Nat /\ n <= Len(log') /\ wt.w \in 0..n /\ d \in 0..n
  BY <1>1 DEF Grows, LogInv, IsLog, WitnessInv, WitSound, Knows, EventInv
<1>3. Kept(ev, d) /\ d \in Nat
  BY <1>2 DEF EventInv
<1>4. /\ wt.call \in {"hands_last", "returned"} => wt.w <= d
      /\ watching # "wait" => wt.call = "none"
      /\ ev.batch # {} => wt.call \in {"hands", "hands_last"}
  BY DEF EventInv
<1>5. SUFFICES /\ Kept(ev', wt'.drained) /\ wt'.drained \in 0..Len(log')
               /\ wt'.call \in {"hands_last", "returned"} => wt'.w <= wt'.drained
               /\ watching # "wait" => wt'.call = "none"
               /\ ev'.batch # {} => wt'.call \in {"hands", "hands_last"}
  BY <1>1 DEF EventInv
<1>6. CASE UNCHANGED wt /\ (ev' = ev \/ IterNext \/ IterBreaks)
  <2>1. CASE ev' = ev
    BY <1>2, <1>3, <1>4, <1>6, <2>1
  <2>2. CASE IterNext
    <3>1. PICK i \in ev.iter : ev' = [ev EXCEPT !.handed = @ \cup {i}, !.iter = @ \ {i}]
      BY <2>2, Zenon DEF IterNext
    <3>2. Kept(ev', d) /\ ev'.batch = ev.batch
      BY <1>3, <3>1, IterMoves
    <3> QED
      BY <1>2, <1>4, <1>6, <3>2
  <2>3. CASE IterBreaks
    <3>1. ev' = [ev EXCEPT !.iter = {}, !.dropped = TRUE]
      BY <2>3, Zenon DEF IterBreaks
    <3>2. Kept(ev', d) /\ ev'.batch = ev.batch
      BY <1>3, <3>1, IterMoves
    <3> QED
      BY <1>2, <1>4, <1>6, <3>2
  <2> QED
    BY <1>6, <2>1, <2>2, <2>3
<1>7. CASE Track /\ wt.drained = 0 /\ wt.call = "none" /\ wt'.drained = 0 /\ wt'.call = "none"
  <2>1. ev' = ev
    BY <1>7, Zenon DEF Track
  <2> QED
    BY <1>2, <1>3, <1>4, <1>7, <2>1
<1>8. CASE /\ PollWatch \/ ReapAndPoll
           /\ wt'.drained = wt.drained /\ \E st : wt'.call \in AfterPoll(st)
  <2>1. ev' = ev /\ (watching = "watch" \/ (watching = "wait" /\ wt.call = "polls"))
    BY <1>8, Zenon DEF PollWatch, ReapAndPoll, MayPoll
  <2>2. wt'.call \in {"none", "drains", "timeout", "drains_last"}
        /\ (watching = "watch" => wt'.call = "none")
    BY <1>8, <2>1 DEF AfterPoll
  <2>3. ev.batch = {}
    BY <1>4, <2>1
  <2> QED
    BY <1>2, <1>3, <1>8, <2>1, <2>2, <2>3
<1>9. CASE CallWait /\ CursorAt(wt, wt', wt.drained, "drains")
  <2>1. ev' = ev /\ watching = "wait" /\ wt.call = "none"
    BY <1>9, Zenon DEF CallWait
  <2> QED
    BY <1>2, <1>3, <1>4, <1>9, <2>1 DEF CursorAt
<1>10. CASE Drain /\ CursorAt(wt, wt', Len(log), HandsOn[wt.call])
  <2>1. /\ wt.call \in {"drains", "drains_last"}
        /\ ev' = [ev EXCEPT !.batch = (d + 1)..n]
    BY <1>10 DEF Drain, HandsOn, Undelivered
  <2>2. wt'.call \in {"hands", "hands_last"} /\ wt'.drained = n /\ wt'.w = wt.w
    BY <1>10, <2>1 DEF CursorAt, HandsOn
  <2>3. ev.batch = {} /\ watching = "wait"
    BY <1>4, <2>1
  <2>4. Kept(ev', n)
    BY <1>2, <1>3, <2>1, <2>3, BatchTaken
  <2> QED
    BY <1>2, <2>2, <2>3, <2>4
<1>11. CASE HandOn /\ CursorAt(wt, wt', wt.drained, NextCall[wt.call])
  <2>1. /\ wt.call \in {"hands", "hands_last"}
        /\ ev' = [ev EXCEPT !.handed = @ \cup ev.batch, !.batch = {}]
    BY <1>11 DEF HandOn, NextCall
  <2>2. /\ wt'.call \in {"polls", "returned"} /\ wt'.drained = d /\ wt'.w = wt.w
        /\ wt'.call = "returned" => wt.call = "hands_last"
    BY <1>11, <2>1 DEF CursorAt, NextCall
  <2>3. Kept(ev', d) /\ ev'.batch = {}
    BY <1>3, <2>1, BatchHanded
  <2> QED
    BY <1>2, <1>4, <2>1, <2>2, <2>3
<1>12. CASE HandOnRaises /\ CursorAt(wt, wt', wt.drained, "none")
  <2>1. PICK i \in ev.batch :
          ev' = [ev EXCEPT !.handed = @ \cup {j \in ev.batch : j <= i}, !.batch = {},
                           !.dropped = @ \/ i < d]
    BY <1>12, Zenon DEF HandOnRaises
  <2> DEFINE S == {j \in ev.batch : j <= i}
  <2>2. ev' = [ev EXCEPT !.handed = @ \cup S, !.batch = {}, !.dropped = @ \/ i < d]
    BY <2>1
  <2>3. S = {j \in ev.batch : j <= i}
    OBVIOUS
  <2> HIDE DEF S, d
  <2>4. Kept(ev', d) /\ ev'.batch = {}
    BY <1>3, <2>2, <2>3, BatchDropped
  <2> QED
    BY <1>2, <1>12, <2>4 DEF CursorAt, d
<1>13. CASE IterEvents /\ CursorAt(wt, wt', Len(log), wt.call)
  <2>1. watching = "wait" /\ wt.call = "none" /\ ev.iter = {} /\ ev' = [ev EXCEPT !.iter = (d + 1)..n]
    BY <1>13, Zenon DEF IterEvents, Iterating, Undelivered
  <2>2. ev.batch = {}
    BY <1>4, <2>1
  <2>3. Kept(ev', n) /\ ev'.batch = {}
    BY <1>2, <1>3, <2>1, <2>2, IterTaken
  <2> QED
    BY <1>2, <1>13, <2>1, <2>3 DEF CursorAt
<1> QED
  BY <1>1, <1>6, <1>7, <1>8, <1>9, <1>10, <1>11, <1>12, <1>13, Zenon DEF CursorStep

LEMMA WitnessingAgrees == LogInv /\ WitnessInv /\ EventInv => WatchAgrees
<1> SUFFICES ASSUME LogInv, WitnessInv, EventInv PROVE WatchAgrees
  OBVIOUS
<1> DEFINE w == Len(log)
           p == Witnessed(log, wt, w)
           claim == LatestOf(OwnedIn(log, wt.subject, "started", 1..w))
<1>1. IsLog(log) /\ WitSound(log, wt) /\ w \in Nat
  BY DEF LogInv, WitnessInv, IsLog
<1>2. w \in wt.w..w
  BY <1>1 DEF WitSound, Knows
<1>3. Knows(log, p) /\ Carries(wt, p) /\ p.w = w /\ (p.claim = 0 => p.endRead = w)
  BY <1>1, <1>2, WitnessedKnows DEF WitSound
<1> HIDE DEF p
<1>4. p.claim = claim /\ p.subject = wt.subject
  BY <1>3 DEF Knows, Traces, Carries
<1>5. claim # 0 /\ BeaconsOf(log, claim, w) # {} => p.seen = LatestOf(BeaconsOf(log, claim, w))
  BY <1>3, <1>4 DEF Knows, Traces
<1>6. claim \in Nat
  <2>1. OwnedIn(log, wt.subject, "started", 1..w) \in SUBSET (1..w)
    BY DEF OwnedIn
  <2> QED
    BY <1>1, <2>1, LatestTells
<1> HIDE DEF claim, w
<1>7. CurrentHeartbeat(log, claim, w) =
        LatestOf({i \in (claim + 1)..w : log[i].topic \in {"commit", "heartbeat"} /\ log[i].claim = claim})
  BY <1>1, <1>6, HeartbeatIs
<1>8. WitnessVerdict(log, p) = Tier(log, wt.subject, w)
  BY <1>1, <1>3, <1>4, WitnessTells
<1>9. wt.status = "probed_dead" => wt.claim # 0 /\ ~Ended(ClaimVerdict(log, wt.claim, wt.w).tier)
  BY <1>1 DEF WitSound
<1>10. wt.call = "returned" =>
         /\ wt.w <= wt.drained
         /\ ~ev.dropped => 1..wt.w \subseteq ev.handed \cup ev.iter
  <2>1. wt.call = "returned" => ev.batch = {} /\ wt.w <= wt.drained
    BY DEF EventInv
  <2>2. wt.w \in Nat /\ wt.drained \in Nat
    BY <1>1 DEF WitSound, Knows, EventInv
  <2> QED
    BY <2>1, <2>2 DEF EventInv, Kept
<1> QED
  BY <1>4, <1>5, <1>7, <1>8, <1>9, <1>10, Zenon DEF WatchAgrees, Tier, p, claim, w

(* A witness agrees with the log.  Polled at any W and whatever landed     *)
(* between the polls, it has its subject's newest claim, the time that     *)
(* claim was last seen, and the verdict that a read of the whole log gives *)
(* (of an observed run, peek_terminal's); a handle found dead is so called *)
(* only while a claim without an end is held; and a wait that returned has *)
(* its cursor past every record under its W, and has handed each on or     *)
(* left it to a generator, as long as no callback raised in a batch and no *)
(* consumer broke a generator off: the cursor moves before either is given *)
(* a record (_drain), and what was left of that batch is not read again.   *)
THEOREM WitnessAgrees == ClientSpec => []WatchAgrees
<1>1. ClientInit => LogInv /\ WitnessInv /\ EventInv
  BY StartsObserved, StartsWitnessing, StartsHanding DEF ObserverInv
<1>2. LogInv /\ WitnessInv /\ EventInv /\ [ClientNext]_clientVars
        => LogInv' /\ WitnessInv' /\ EventInv'
  BY LogGrows, StaysWitnessing, StaysHanding
<1>3. LogInv /\ WitnessInv /\ EventInv => WatchAgrees
  BY WitnessingAgrees
<1> QED
  BY <1>1, <1>2, <1>3, PTL DEF ClientSpec
=============================================================================
