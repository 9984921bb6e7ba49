---------------------------- MODULE PagingProofs -----------------------------
(***************************************************************************)
(* Proofs about Paging for any number of metrics, ticks, page sizes and    *)
(* writes: what a page of an ordered set of keys is, the order of the keys *)
(* of data points, and that paging loses nothing.                          *)
(***************************************************************************)
EXTENDS Paging, FiniteSetTheorems, WellFoundedInduction, TLAPS

-----------------------------------------------------------------------------
(* Ordered sets of keys                                                    *)

Directions == {Forward, Backward}

(* Before is a strict linear order on keys. *)
LEMMA BeforeOrder ==
  ASSUME NEW d \in Directions, NEW i \in Nat, NEW j \in Nat, NEW k \in Nat
  PROVE  /\ ~Before(i, i, d)
         /\ Before(i, j, d) => ~Before(j, i, d)
         /\ Before(i, j, d) /\ Before(j, k, d) => Before(i, k, d)
         /\ i = j \/ Before(i, j, d) \/ Before(j, i, d)
BY DEF Before, Directions, Forward, Backward

(* A finite set of keys that is not empty has a first one. *)
LEMMA FirstKey ==
  ASSUME NEW d \in Directions, NEW S \in SUBSET Nat, IsFiniteSet(S), S # {}
  PROVE  \E k \in S : \A j \in S : ~Before(j, k, d)
<1> DEFINE Earlier(k) == {j \in S : Before(j, k, d)}
           F == {Earlier(k) : k \in S}
<1>1. F \subseteq FiniteSubsetsOf(S)
  <2> SUFFICES ASSUME NEW k \in S PROVE Earlier(k) \in FiniteSubsetsOf(S) OBVIOUS
  <2>1. Earlier(k) \in SUBSET S OBVIOUS
  <2>2. IsFiniteSet(Earlier(k)) BY <2>1, FS_Subset
  <2> QED BY <2>1, <2>2 DEF FiniteSubsetsOf
<1>2. F # {} OBVIOUS
<1>3. PICK U \in F : \A V \in F : <<V, U>> \notin StrictSubsetOrdering(S)
  <2> HIDE DEF F
  <2> QED BY <1>1, <1>2, FS_StrictSubsetOrderingWellFounded, WFMin
<1>4. PICK k \in S : U = Earlier(k) OBVIOUS
<1>5. ASSUME NEW j \in S, Before(j, k, d) PROVE FALSE
  <2>1. Earlier(j) \subseteq Earlier(k)
    BY <1>5, BeforeOrder
  <2>2. j \in Earlier(k) /\ j \notin Earlier(j)
    BY <1>5, BeforeOrder
  <2>3. Earlier(j) \in F OBVIOUS
  <2>4. Earlier(j) \in SUBSET S /\ Earlier(k) \in SUBSET S OBVIOUS
  <2>5. Earlier(j) # Earlier(k) BY <2>2
  <2> HIDE DEF Earlier, F
  <2>6. <<Earlier(j), Earlier(k)>> \in StrictSubsetOrdering(S)
    BY <2>1, <2>4, <2>5 DEF StrictSubsetOrdering
  <2> QED BY <1>3, <1>4, <2>3, <2>6
<1> QED BY <1>5

(* The rank of a key is a number, and grows along the order. *)
LEMMA RankGrows ==
  ASSUME NEW d \in Directions, NEW S \in SUBSET Nat, IsFiniteSet(S), NEW k \in S
  PROVE  /\ Rank(S, k, d) \in Nat
         /\ \A j \in S : Before(j, k, d) <=> Rank(S, j, d) < Rank(S, k, d)
<1> DEFINE Earlier(i) == {j \in S : Before(j, i, d)}
<1>1. ASSUME NEW i \in S PROVE IsFiniteSet(Earlier(i)) /\ Cardinality(Earlier(i)) \in Nat
  <2>1. Earlier(i) \in SUBSET S OBVIOUS
  <2>2. IsFiniteSet(Earlier(i)) BY <2>1, FS_Subset
  <2> QED BY <2>2, FS_CardinalityType
<1>2. ASSUME NEW i \in S, NEW j \in S, Before(j, i, d)
      PROVE  Cardinality(Earlier(j)) < Cardinality(Earlier(i))
  <2>1. Earlier(j) \in SUBSET Earlier(i)
    BY <1>2, BeforeOrder
  <2>2. j \in Earlier(i) /\ j \notin Earlier(j) BY <1>2, BeforeOrder
  <2>3. Earlier(j) # Earlier(i) BY <2>2
  <2> HIDE DEF Earlier
  <2>4. /\ Cardinality(Earlier(j)) <= Cardinality(Earlier(i))
        /\ Cardinality(Earlier(i)) = Cardinality(Earlier(j)) => Earlier(i) = Earlier(j)
    BY <1>1, <2>1, FS_Subset
  <2> QED BY <1>1, <2>3, <2>4
<1>3. \A i \in S : Rank(S, i, d) = Cardinality(Earlier(i)) BY DEF Rank
<1>4. Rank(S, k, d) \in Nat BY <1>1, <1>3
<1>5. ASSUME NEW j \in S PROVE Before(j, k, d) <=> Rank(S, j, d) < Rank(S, k, d)
  <2>0. Rank(S, j, d) \in Nat BY <1>1, <1>3
  <2>1. CASE j = k BY <2>1, <1>4, BeforeOrder
  <2>2. CASE Before(j, k, d) BY <2>2, <1>2, <1>3
  <2>3. CASE Before(k, j, d)
    <3>1. Rank(S, k, d) < Rank(S, j, d) BY <2>3, <1>2, <1>3
    <3>2. ~Before(j, k, d) BY <2>3, BeforeOrder
    <3> QED BY <3>1, <3>2, <2>0, <1>4
  <2> QED BY <2>1, <2>2, <2>3, BeforeOrder
<1> QED BY <1>4, <1>5

(* Read n records: what is left out is the key to continue from and what is *)
(* behind it, or there is no such key and nothing is left out.              *)
LEMMA PageCuts ==
  ASSUME NEW d \in Directions, NEW S \in SUBSET Nat, IsFiniteSet(S), NEW n \in Nat \ {0}
  PROVE  LET k == ContinueFrom(S, d, n)
         IN  \/ k = NoKey /\ Records(S, d, n) = S
             \/ k \in S /\ Records(S, d, n) = {j \in S : Before(j, k, d)}
<1> DEFINE k == ContinueFrom(S, d, n)
<1>1. CASE \E j \in S : Rank(S, j, d) = n
  <2>1. k \in S /\ Rank(S, k, d) = n BY <1>1 DEF ContinueFrom
  <2>2. \A j \in S : Before(j, k, d) <=> Rank(S, j, d) < n
    BY <2>1, RankGrows
  <2> QED BY <2>1, <2>2 DEF Records
<1>2. CASE ~\E j \in S : Rank(S, j, d) = n
  <2> DEFINE Late == {j \in S : Rank(S, j, d) >= n}
  <2>1. ASSUME Late # {} PROVE FALSE
    <3>1. Late \in SUBSET S OBVIOUS
    <3>2. IsFiniteSet(Late) /\ Late \in SUBSET Nat BY <3>1, FS_Subset
    <3>3. PICK m \in Late : \A j \in Late : ~Before(j, m, d)
      <4> HIDE DEF Late
      <4> QED BY <2>1, <3>2, FirstKey
    <3> DEFINE Earlier == {j \in S : Before(j, m, d)}
    <3>4. Earlier \in SUBSET S OBVIOUS
    <3>5. IsFiniteSet(Earlier) /\ Earlier \in SUBSET Nat BY <3>4, FS_Subset
    <3>6. Rank(S, m, d) = Cardinality(Earlier) BY DEF Rank
    <3>7. Rank(S, m, d) \in Nat /\ Rank(S, m, d) >= n BY <3>1, RankGrows
    <3>8. Earlier # {}
      BY <3>6, <3>7, FS_EmptySet
    <3> DEFINE e == IF d = Forward THEN Backward ELSE Forward
    <3>9. e \in Directions /\ \A i, j : Before(i, j, e) <=> Before(j, i, d)
      BY DEF Directions, Before, Forward, Backward
    <3>10. PICK p \in Earlier : \A j \in Earlier : ~Before(j, p, e)
      <4> HIDE DEF Earlier, e
      <4> QED BY <3>5, <3>8, <3>9, FirstKey
    <3>11. {j \in S : Before(j, p, d)} = Earlier \ {p}
      <4>1. ASSUME NEW j \in S, Before(j, p, d) PROVE j \in Earlier \ {p}
        BY <4>1, <3>1, BeforeOrder
      <4>2. ASSUME NEW j \in Earlier \ {p} PROVE Before(j, p, d)
        <5>1. ~Before(p, j, d) BY <4>2, <3>9, <3>10
        <5> QED BY <5>1, <4>2, BeforeOrder
      <4> QED BY <4>1, <4>2
    <3>12. Rank(S, p, d) = Cardinality(Earlier) - 1
      <4>1. Rank(S, p, d) = Cardinality(Earlier \ {p}) BY <3>11 DEF Rank
      <4> HIDE DEF Earlier
      <4> QED BY <4>1, <3>5, FS_RemoveElement
    <3>13. p \in S /\ Before(p, m, d) OBVIOUS
    <3>14. p \notin Late BY <3>3, <3>13
    <3>15. Rank(S, p, d) \in Nat /\ Rank(S, p, d) < n BY <3>13, <3>14, RankGrows
    <3>16. Rank(S, m, d) = n BY <3>6, <3>7, <3>12, <3>15
    <3> QED BY <3>16, <1>2
  <2>2. \A j \in S : Rank(S, j, d) < n
    BY <2>1, RankGrows
  <2> QED BY <1>2, <2>2 DEF Records, ContinueFrom
<1> QED BY <1>1, <1>2

-----------------------------------------------------------------------------
(* Keys of data points                                                     *)

(* A quotient and its remainder give the number back. *)
LEMMA Recompose ==
  ASSUME NEW k \in Nat, NEW D \in Nat, NEW q \in Nat, NEW r \in Nat, r = k - D * q
  PROVE  q * D + r = k
OBVIOUS

(* Every number has a quotient and a remainder below the divisor. *)
LEMMA DivMod ==
  ASSUME NEW k \in Nat, NEW D \in Nat, D > 0
  PROVE  \E q \in Nat, r \in 0..(D - 1) :
           k \div D = q /\ k % D = r /\ k = q * D + r
<1> DEFINE q == k \div D
           r == k % D
<1>1. q \in Nat /\ r \in 0..(D - 1) OBVIOUS
<1>2. r = k - D * q OBVIOUS
<1>3. r \in Nat BY <1>1
<1> HIDE DEF q, r
<1>4. k = q * D + r BY <1>1, <1>2, <1>3, Recompose
<1> QED BY <1>1, <1>4 DEF q, r

(* A key taken apart gives the metric and the tick it was made of. *)
LEMMA KeyParts ==
  ASSUME NEW k \in Nat
  PROVE  /\ MetricOf(k) \in Nat /\ TickOf(k) \in Ticks
         /\ k = Key(MetricOf(k), TickOf(k))
<1> DEFINE D == MaxTick + 1
<1>1. D \in Nat /\ D > 0 /\ Ticks = 0..(D - 1) BY ConstantsAssumption DEF Ticks
<1>2. MetricOf(k) = k \div D /\ TickOf(k) = k % D BY DEF MetricOf, TickOf
<1>3. \A m, t : Key(m, t) = m * D + t BY DEF Key
<1> HIDE DEF D
<1>4. PICK q \in Nat, r \in 0..(D - 1) : k \div D = q /\ k % D = r /\ k = q * D + r
  BY <1>1, DivMod
<1> QED BY <1>1, <1>2, <1>3, <1>4

(* The keys of one metric lie together: a smaller metric, a smaller key. *)
LEMMA KeyOrder ==
  ASSUME NEW j \in Nat, NEW k \in Nat, MetricOf(j) < MetricOf(k)
  PROVE  j < k
<1> DEFINE D == MaxTick + 1
           a == MetricOf(j)
           b == MetricOf(k)
<1>1. D \in Nat \ {0} BY ConstantsAssumption
<1>2. /\ a \in Nat /\ b \in Nat
      /\ TickOf(j) \in 0..(D - 1) /\ TickOf(k) \in 0..(D - 1)
      /\ j = a * D + TickOf(j) /\ k = b * D + TickOf(k)
  BY KeyParts, ConstantsAssumption DEF Key, Ticks
<1>3. \A x, y \in Nat : x < y => x * D + D <= y * D
  <2> HIDE DEF D
  <2> SUFFICES ASSUME NEW x \in Nat, NEW y \in Nat, x < y PROVE x * D + D <= y * D OBVIOUS
  <2>1. (x + 1) * D = x * D + D BY <1>1
  <2>2. y = (x + 1) + (y - x - 1) /\ y - x - 1 \in Nat OBVIOUS
  <2>3. y * D = (x + 1) * D + (y - x - 1) * D BY <1>1, <2>2
  <2>4. (y - x - 1) * D >= 0 BY <1>1, <2>2
  <2> QED BY <1>1, <2>1, <2>3, <2>4
<1> HIDE DEF D, a, b
<1>4. a * D + D <= b * D BY <1>2, <1>3 DEF a, b
<1>5. a * D \in Nat /\ b * D \in Nat BY <1>1, <1>2
<1> QED BY <1>1, <1>2, <1>4, <1>5

(* The parts of a key that was made. *)
LEMMA PartsOfKey ==
  ASSUME NEW m \in Nat, NEW t \in Ticks
  PROVE  Key(m, t) \in Nat /\ MetricOf(Key(m, t)) = m /\ TickOf(Key(m, t)) = t
<1> DEFINE D == MaxTick + 1
<1>1. D \in Nat \ {0} /\ t \in 0..(D - 1) BY ConstantsAssumption DEF Ticks
<1>2. Key(m, t) = m * D + t BY DEF Key
<1> HIDE DEF D
<1>3. m * D \in Nat BY <1>1
<1>4. m * D + t \in Nat /\ (m * D + t) \div D = m /\ (m * D + t) % D = t
  BY <1>1, <1>3
<1> QED BY <1>2, <1>4 DEF MetricOf, TickOf, D

(* Where a query over one metric stands among all keys: a key at or beyond   *)
(* one of the metric, and of another metric, is behind all of this one.      *)
LEMMA OtherMetricBehind ==
  ASSUME NEW d \in Directions, NEW k \in Nat, NEW n \in Nat, NEW p \in Nat,
         MetricOf(p) = MetricOf(k), ~Before(n, p, d), MetricOf(n) # MetricOf(k)
  PROVE  Before(k, n, d)
<1>1. MetricOf(k) \in Nat /\ MetricOf(n) \in Nat BY KeyParts
<1>2. CASE MetricOf(n) < MetricOf(k)
  <2>1. n < p /\ n < k BY <1>2, KeyOrder
  <2> QED BY <2>1 DEF Before, Directions, Forward, Backward
<1>3. CASE MetricOf(k) < MetricOf(n)
  <2>1. p < n /\ k < n BY <1>3, KeyOrder
  <2> QED BY <2>1 DEF Before, Directions, Forward, Backward
<1> QED BY <1>1, <1>2, <1>3

-----------------------------------------------------------------------------
(* The inductive invariant                                                 *)

(* The key at which the next page begins. *)
Position == IF route = "logs" THEN from ELSE Key(metric, from)

(* What the query stood for and has not returned is still to come ... *)
NothingPassed ==
  status = "paging" => /\ route # "none"
                       /\ \A k \in start \ got : from # NoKey => ~Before(k, Position, direction)

(* ... and pages of a log end where the next begins. *)
PagesFollow ==
  status = "paging" /\ route = "logs" =>
    IF pages = 0 THEN got = {} ELSE from # NoKey /\ \A k \in got : Before(k, from, direction)

IInv ==
  /\ TypeOK
  /\ IsFiniteSet(points)
  /\ NothingPassed
  /\ PagesFollow
  /\ status = "done" => start \subseteq got
  /\ route = "logs" => again = {}

(* What is stored are keys, finitely many of them. *)
LEMMA Keys ==
  ASSUME TypeOK, IsFiniteSet(points)
  PROVE  /\ log \in SUBSET Nat /\ IsFiniteSet(log)
         /\ points \in SUBSET Nat /\ \A k \in points : MetricOf(k) \in Metrics
         /\ direction \in Directions /\ count \in Nat \ {0} /\ metric \in Nat
<1>1. log \in SUBSET Ticks /\ points \in SUBSET PointKeys BY DEF TypeOK
<1>2. Ticks \in SUBSET Nat /\ IsFiniteSet(Ticks)
  BY ConstantsAssumption, FS_Interval DEF Ticks
<1>3. IsFiniteSet(log) BY <1>1, <1>2, FS_Subset
<1>4. ASSUME NEW k \in PointKeys PROVE k \in Nat /\ MetricOf(k) \in Metrics
  <2>1. PICK m \in Metrics, t \in Ticks : k = Key(m, t) BY <1>4 DEF PointKeys
  <2> QED BY <2>1, PartsOfKey, ConstantsAssumption
<1> QED BY <1>1, <1>2, <1>3, <1>4, ConstantsAssumption DEF TypeOK, Directions

(* What is beyond a position in a set of keys is such a set. *)
LEMMA BeyondKeys ==
  ASSUME NEW S \in SUBSET Nat, IsFiniteSet(S), NEW k, NEW d
  PROVE  Beyond(S, k, d) \in SUBSET S /\ IsFiniteSet(Beyond(S, k, d))
<1>1. Beyond(S, k, d) \in SUBSET S BY DEF Beyond
<1> QED BY <1>1, FS_Subset

(* A record that is written, a log's or a metric's, disturbs no query. *)
LEMMA WriteStep ==
  ASSUME IInv, NEW t \in Ticks, NEW m \in Metrics, WriteLog(t) \/ WritePoint(m, t)
  PROVE  IInv'
<1>1. TypeOK'
  <2>1. CASE WriteLog(t)
    BY <2>1, ConstantsAssumption DEF IInv, TypeOK, WriteLog, query
  <2>2. CASE WritePoint(m, t)
    <3>1. points' \subseteq PointKeys BY <2>2 DEF IInv, TypeOK, WritePoint, PointKeys
    <3> QED BY <2>2, <3>1, ConstantsAssumption DEF IInv, TypeOK, WritePoint, query
  <2> QED BY <2>1, <2>2
<1>2. IsFiniteSet(points')
  <2>1. CASE WriteLog(t) BY <2>1 DEF WriteLog, IInv
  <2>2. CASE WritePoint(m, t) BY <2>2, FS_AddElement DEF WritePoint, IInv
  <2> QED BY <2>1, <2>2
<1>3. UNCHANGED <<query, from, status, got, again, pages>> BY DEF WriteLog, WritePoint
<1> QED BY <1>1, <1>2, <1>3 DEF IInv, NothingPassed, PagesFollow, Position, query

(* A query begins. *)
LEMMA BeginStep ==
  ASSUME IInv, NEW r \in {"logs", "metrics"}, NEW m \in Metrics, NEW d \in Directions,
         NEW n \in Counts, NEW f \in Ticks \cup {NoKey}, Begin(r, m, d, n, f)
  PROVE  IInv'
<1>1. UNCHANGED db BY DEF Begin
<1>2. start' \subseteq IF r = "logs" THEN log ELSE {k \in points : MetricOf(k) = m}
  BY DEF Begin, Beyond, OfMetric
<1>3. TypeOK'
  BY <1>1, <1>2, ConstantsAssumption DEF Begin, IInv, TypeOK, db, Directions
<1>4. NothingPassed'
  <2>1. f # NoKey => Key(m, f) # NoKey BY PartsOfKey, ConstantsAssumption
  <2>2. route' = r /\ metric' = m /\ direction' = d /\ from' = f /\ r # "none" BY DEF Begin
  <2>3. ASSUME f # NoKey, NEW k \in start' PROVE ~Before(k, Position', d)
    <3>1. CASE r = "logs" BY <2>2, <2>3, <3>1 DEF Begin, Position, Beyond
    <3>2. CASE r # "logs" BY <2>1, <2>2, <2>3, <3>2 DEF Begin, Position, Beyond
    <3> QED BY <3>1, <3>2
  <2> QED BY <2>2, <2>3 DEF NothingPassed
<1> QED BY <1>1, <1>3, <1>4 DEF Begin, IInv, PagesFollow, db

(* A page of a log. *)
LEMMA LogStep ==
  ASSUME IInv, GetLogs
  PROVE  IInv'
<1> DEFINE S == Beyond(log, from, direction)
           R == Records(S, direction, count)
           k == ContinueFrom(S, direction, count)
<1>1. Turn(R, k) /\ route = "logs" BY DEF GetLogs
<1>2. /\ log \in SUBSET Nat /\ IsFiniteSet(log) /\ direction \in Directions
      /\ count \in Nat \ {0}
  BY Keys DEF IInv
<1>3. S \in SUBSET log /\ IsFiniteSet(S) BY <1>2, BeyondKeys
<1>4. \/ k = NoKey /\ R = S
      \/ k \in S /\ R = {j \in S : Before(j, k, direction)}
  <2> HIDE DEF S
  <2> QED BY <1>2, <1>3, PageCuts
<1>5. start \ got \subseteq S
  BY <1>1 DEF IInv, TypeOK, NothingPassed, Position, Turn, Beyond
<1>6. got \cap R = {}
  <2>1. R \subseteq S BY DEF Records
  <2>2. from = NoKey => got = {} BY <1>1 DEF IInv, PagesFollow, Turn
  <2>3. ASSUME NEW j \in got, j \in S, from # NoKey PROVE FALSE
    <3>1. Before(j, from, direction) BY <2>3, <1>1 DEF IInv, PagesFollow, Turn
    <3>2. ~Before(j, from, direction) BY <2>3 DEF Beyond
    <3> QED BY <3>1, <3>2
  <2> QED BY <2>1, <2>2, <2>3
<1> HIDE DEF S, R, k
<1>7. k \in Ticks \cup {NoKey} BY <1>3, <1>4 DEF IInv, TypeOK
<1>8. R \subseteq log BY <1>3, <1>4
<1>9. pages' \in 0..MaxPages /\ pages' # 0
  BY <1>1, ConstantsAssumption DEF Turn, IInv, TypeOK
<1>10. TypeOK'
  BY <1>1, <1>6, <1>7, <1>8, <1>9 DEF Turn, IInv, TypeOK, db, query
<1>11. NothingPassed'
  <2>1. ASSUME k # NoKey, NEW j \in start, j \notin got \cup R PROVE ~Before(j, k, direction)
    BY <2>1, <1>4, <1>5
  <2> QED BY <2>1, <1>1 DEF NothingPassed, Turn, Position, query
<1>12. PagesFollow'
  <2>1. ASSUME k # NoKey, NEW j \in got PROVE Before(j, k, direction)
    <3>1. k \in S /\ k \in Nat /\ j \in Nat
      BY <2>1, <1>1, <1>2, <1>3, <1>4 DEF IInv, TypeOK
    <3>2. from # NoKey /\ Before(j, from, direction)
      BY <2>1, <1>1 DEF IInv, PagesFollow, Turn
    <3>3. ~Before(k, from, direction) BY <3>1, <3>2 DEF S, Beyond
    <3>4. from \in Nat BY <3>2, <1>2, ConstantsAssumption DEF IInv, TypeOK, Ticks
    <3>5. k = from \/ Before(from, k, direction)
      BY <3>1, <3>3, <3>4, <1>2, BeforeOrder
    <3> QED BY <3>1, <3>2, <3>4, <3>5, <1>2, BeforeOrder
  <2>2. k # NoKey => \A j \in R : Before(j, k, direction) BY <1>4
  <2> QED BY <1>1, <1>9, <2>1, <2>2 DEF PagesFollow, Turn, query
<1>13. status' = "done" => start' \subseteq got'
  <2>1. k \in S => k # NoKey BY <1>2, <1>3, ConstantsAssumption
  <2> QED BY <2>1, <1>1, <1>4, <1>5 DEF Turn, query
<1> QED BY <1>1, <1>6, <1>10, <1>11, <1>12, <1>13 DEF IInv, Turn, db, query

(* A page of a metric.  The database is read across metrics, so the key to  *)
(* continue from, or a record of the page, may be another metric's: then    *)
(* all that was left of this one is in the page.                            *)
LEMMA MetricStep ==
  ASSUME IInv, GetMetrics
  PROVE  IInv'
<1> DEFINE t == IF from # NoKey THEN from ELSE IF direction = Forward THEN 0 ELSE MaxTick
           p == Key(metric, t)
           S == Beyond(points, p, direction)
           R == Records(S, direction, count)
           k == ContinueFrom(S, direction, count)
           Mine == {j \in R : MetricOf(j) = metric}
           f == IF k = NoKey \/ \E j \in R : MetricOf(j) # metric THEN NoKey ELSE TickOf(k)
<1>1. Turn(Mine, f) /\ route = "metrics" BY DEF GetMetrics
<1>2. /\ points \in SUBSET Nat /\ IsFiniteSet(points) /\ direction \in Directions
      /\ count \in Nat \ {0} /\ metric \in Nat
  BY Keys DEF IInv
<1>3. t \in Ticks BY ConstantsAssumption DEF IInv, TypeOK, Ticks
<1>4. p \in Nat /\ MetricOf(p) = metric /\ TickOf(p) = t /\ p # NoKey
  <2> HIDE DEF t
  <2> QED BY <1>2, <1>3, PartsOfKey, ConstantsAssumption
<1>5. S = {j \in points : ~Before(j, p, direction)} BY <1>4 DEF Beyond
<1>6. S \in SUBSET points /\ IsFiniteSet(S) BY <1>2, BeyondKeys
<1>7. \/ k = NoKey /\ R = S
      \/ k \in S /\ R = {j \in S : Before(j, k, direction)}
  <2> HIDE DEF S
  <2> QED BY <1>2, <1>6, PageCuts
<1>8. start \subseteq points /\ \A j \in start : MetricOf(j) = metric
  BY <1>1 DEF IInv, TypeOK
<1>9. start \ got \subseteq S
  <2> SUFFICES ASSUME NEW j \in start \ got PROVE ~Before(j, p, direction)
    BY <1>5, <1>8
  <2>1. CASE from # NoKey
    BY <2>1, <1>1 DEF IInv, NothingPassed, Position, Turn
  <2>2. CASE from = NoKey
    <3>1. j \in Nat /\ MetricOf(j) = metric BY <1>2, <1>8
    <3>2. TickOf(j) \in Ticks /\ j = Key(metric, TickOf(j)) BY <3>1, KeyParts
    <3>3. p = Key(metric, IF direction = Forward THEN 0 ELSE MaxTick) BY <2>2
    <3> DEFINE b == metric * (MaxTick + 1)
               u == TickOf(j)
    <3>4. b \in Nat BY <1>2, ConstantsAssumption
    <3>5. j = b + u /\ p = b + (IF direction = Forward THEN 0 ELSE MaxTick)
      BY <3>2, <3>3 DEF Key
    <3>6. u \in 0..MaxTick BY <3>2 DEF Ticks
    <3> HIDE DEF b, u, p
    <3> QED BY <3>4, <3>5, <3>6, <1>2, ConstantsAssumption
      DEF Before, Directions, Forward, Backward
  <2> QED BY <2>1, <2>2
<1> HIDE DEF t, p, S, R, k
<1>10. k \in S => k \in Nat /\ k # NoKey /\ TickOf(k) \in Ticks
  BY <1>2, <1>6, KeyParts, ConstantsAssumption
<1>11. R \subseteq S BY <1>7
<1>12. ASSUME NEW j \in start \ got, NEW n \in S, MetricOf(n) # metric
       PROVE  Before(j, n, direction)
  <2>1. j \in Nat /\ MetricOf(j) = metric BY <1>2, <1>8
  <2>2. n \in Nat /\ ~Before(n, p, direction) BY <1>2, <1>5
  <2> QED BY <2>1, <2>2, <1>2, <1>4, <1>12, OtherMetricBehind
<1>13. ASSUME f = NoKey, NEW j \in start \ got PROVE j \in R
  <2>1. CASE k = NoKey BY <2>1, <1>7, <1>9, <1>10, <1>13
  <2>2. CASE k # NoKey
    <3>1. k \in S /\ R = {i \in S : Before(i, k, direction)} BY <2>2, <1>7
    <3>2. CASE \E i \in R : MetricOf(i) # metric
      <4>1. PICK i \in R : MetricOf(i) # metric BY <3>2
      <4>2. Before(j, i, direction) BY <4>1, <1>11, <1>12, <1>13
      <4>3. Before(i, k, direction) BY <3>1, <4>1
      <4>4. j \in Nat /\ i \in Nat /\ k \in Nat BY <1>2, <1>6, <1>8, <1>10, <1>11, <3>1, <4>1
      <4>5. Before(j, k, direction) BY <4>2, <4>3, <4>4, <1>2, BeforeOrder
      <4> QED BY <4>5, <3>1, <1>9, <1>13
    <3>3. CASE ~\E i \in R : MetricOf(i) # metric
      <4>1. TickOf(k) = NoKey BY <1>13, <2>2, <3>3
      <4> QED BY <4>1, <3>1, <1>10, ConstantsAssumption DEF Ticks
    <3> QED BY <3>2, <3>3
  <2> QED BY <2>1, <2>2
<1>14. ASSUME f # NoKey, NEW j \in start \ got, j \notin R
       PROVE  ~Before(j, Key(metric, f), direction)
  <2>1. k # NoKey /\ f = TickOf(k) /\ k \in S /\ R = {i \in S : Before(i, k, direction)}
    BY <1>7, <1>14
  <2>2. ~Before(j, k, direction) BY <2>1, <1>9, <1>14
  <2>3. MetricOf(k) = metric BY <2>1, <2>2, <1>12, <1>14
  <2>4. k = Key(metric, f) BY <2>1, <2>3, <1>10, KeyParts
  <2> QED BY <2>2, <2>4
<1>15. f \in Ticks \cup {NoKey} BY <1>7, <1>10
<1>16. Mine \subseteq {j \in points : MetricOf(j) = metric} BY <1>6, <1>11
<1>17. \A j \in start \cap R : j \in Mine BY <1>8
<1> HIDE DEF f, Mine
<1>18. pages' \in 0..MaxPages BY <1>1, ConstantsAssumption DEF Turn, IInv, TypeOK
<1>19. TypeOK'
  <2>1. got \cup start \subseteq {j \in points : MetricOf(j) = metric}
    BY <1>1 DEF IInv, TypeOK
  <2>2. got' \cup start' \subseteq {j \in points' : MetricOf(j) = metric'}
    BY <2>1, <1>1, <1>16 DEF Turn, db, query
  <2>3. again' \subseteq got' BY <1>1 DEF Turn, IInv, TypeOK
  <2> QED BY <2>2, <2>3, <1>1, <1>15, <1>18 DEF Turn, IInv, TypeOK, db, query
<1>20. NothingPassed'
  BY <1>1, <1>14, <1>17 DEF NothingPassed, Turn, Position, query
<1>21. status' = "done" => start' \subseteq got'
  BY <1>1, <1>13, <1>17 DEF Turn, query
<1> QED BY <1>1, <1>19, <1>20, <1>21 DEF IInv, PagesFollow, Turn, db, query

-----------------------------------------------------------------------------
(* The theorems                                                            *)

(* The database and the pager start within the invariant. *)
LEMMA InitInv == Init => IInv
<1> SUFFICES ASSUME Init PROVE IInv OBVIOUS
<1>1. TypeOK BY ConstantsAssumption DEF Init, TypeOK
<1>2. IsFiniteSet(points) BY FS_EmptySet DEF Init
<1> QED BY <1>1, <1>2 DEF Init, IInv, NothingPassed, PagesFollow

(* Every write, query and page keeps it. *)
LEMMA NextInv == IInv /\ [Next]_vars => IInv'
<1> SUFFICES ASSUME IInv, [Next]_vars PROVE IInv' OBVIOUS
<1>1. ASSUME NEW t \in Ticks, WriteLog(t) PROVE IInv'
  <2>1. metric \in Metrics BY DEF IInv, TypeOK
  <2> QED BY <1>1, <2>1, WriteStep
<1>2. ASSUME NEW m \in Metrics, NEW t \in Ticks, WritePoint(m, t) PROVE IInv'
  BY <1>2, WriteStep
<1>3. ASSUME NEW r \in {"logs", "metrics"}, NEW m \in Metrics, NEW d \in {Forward, Backward},
             NEW n \in Counts, NEW f \in Ticks \cup {NoKey}, Begin(r, m, d, n, f)
      PROVE  IInv'
  BY <1>3, BeginStep DEF Directions
<1>4. CASE GetLogs BY <1>4, LogStep
<1>5. CASE GetMetrics BY <1>5, MetricStep
<1>6. CASE UNCHANGED vars
  BY <1>6 DEF vars, db, query, IInv, TypeOK, NothingPassed, PagesFollow, Position
<1> QED BY <1>1, <1>2, <1>3, <1>4, <1>5, <1>6 DEF Next

(* The inductive invariant holds throughout, whatever is written and read. *)
THEOREM Invariance == Spec => []IInv
BY InitInv, NextInv, PTL DEF Spec

(* For any metrics, ticks and page sizes the pager keeps values of the      *)
(* kinds the code keeps, and returns only what is stored and asked for:     *)
(* nothing of another metric (routes/metrics.rs).                           *)
THEOREM TypeCorrectness == Spec => []TypeOK
<1>1. IInv => TypeOK BY DEF IInv
<1> QED BY <1>1, Invariance, PTL

(* Whatever is written between two pages, and however the pages are cut,    *)
(* nothing that was stored when a query began is lost, and pages of a log   *)
(* neither overlap nor repeat (Db::read_range and both routes).             *)
THEOREM PagerExactTheorem == Spec => []PagerExact
<1>1. IInv => PagerExact
  BY DEF IInv, PagerExact, NothingPassed, PagesFollow, Position
<1> QED BY <1>1, Invariance, PTL
=============================================================================
