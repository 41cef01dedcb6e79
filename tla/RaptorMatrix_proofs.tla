------------------------- MODULE RaptorMatrix_proofs ------------------------
(***************************************************************************)
(* What the matrices answer, for every timetable, transfer set and matrix  *)
(* request and any order of scans: the rows of fastest times and of        *)
(* percentiles are exact (MatrixRowsExact).                                *)
(*                                                                         *)
(* MInv says of a worker's origin at work that its tables satisfy what     *)
(* Raptor_proofs shows of a search, and that its cells and samples are     *)
(* those of the passes run so far; and of the origins before that their    *)
(* rows are exact.  What all passes so far reach is what the last of their *)
(* departures reaches alone (LastDepartureLeads), and the reset between    *)
(* two origins leaves the tables a search begins with (NextOriginBlank),   *)
(* so that nothing depends on the origins before.                          *)
(***************************************************************************)
EXTENDS RaptorMatrix, Raptor_proofs

----------------------------------------------------------------------------
(* What the matrices take from an origin's arrivals.                       *)

LEMMA MinOf ==
  ASSUME NEW S \in SUBSET Int, NEW m \in S, \A x \in S : m <= x
  PROVE  Min(S) = m
<1>1. \A x \in S : (\A y \in S : x <= y) => x = m
  OBVIOUS
<1> QED BY <1>1 DEF Min

\* What a row's travel time is chosen from.
LinkSeconds(arrivals, links, d) ==
  {LinkArrival(arrivals, links[i]) - d : i \in LinksTaken(arrivals, links)}
LinkTables == Seq([stop : Stops, duration : Nat])

LEMMA LinkTimes ==
  ASSUME NEW arrivals \in [Stops -> 0 .. Unreached], NEW links \in LinkTables
  PROVE  \A i \in LinksTaken(arrivals, links) :
           i \in Nat /\ LinkArrival(arrivals, links[i]) \in Nat /\ LinkArrival(arrivals, links[i]) < Unreached
<1> SUFFICES ASSUME NEW i \in LinksTaken(arrivals, links)
             PROVE  i \in Nat /\ LinkArrival(arrivals, links[i]) \in Nat /\ LinkArrival(arrivals, links[i]) < Unreached
  OBVIOUS
<1>1. i \in 1 .. Len(links) /\ Len(links) \in Nat /\ LinkArrival(arrivals, links[i]) < Unreached
  BY DEF LinksTaken, LinkTables
<1>2. links[i].stop \in Stops /\ links[i].duration \in Nat
  <2>1. links[i] \in [stop : Stops, duration : Nat]
    BY <1>1, ElementOfSeq DEF LinkTables
  <2> QED BY <2>1
<1>3. arrivals[links[i].stop] \in Nat
  <2>1. arrivals[links[i].stop] \in 0 .. Unreached /\ Unreached \in Nat
    BY <1>2, TimeAssumption
  <2> QED BY <2>1
<1> QED BY <1>1, <1>2, <1>3 DEF LinkArrival

\* The first of the links with the earliest arrival is one where there is any.
LEMMA ChosenIs ==
  ASSUME NEW arrivals \in [Stops -> 0 .. Unreached], NEW links \in LinkTables, NEW d \in Nat
  PROVE  LET exact == Min({Unreached} \cup LinkSeconds(arrivals, links, d))
             chosen == Chosen(arrivals, links)
         IN  IF chosen = {} THEN exact = Unreached
             ELSE exact # Unreached /\ exact = LinkArrival(arrivals, links[Min(chosen)]) - d
<1> DEFINE taken == LinksTaken(arrivals, links)
           at(i) == LinkArrival(arrivals, links[i])
           chosen == Chosen(arrivals, links)
           exact == Min({Unreached} \cup LinkSeconds(arrivals, links, d))
<1>1. \A i \in taken : i \in Nat /\ at(i) \in Nat /\ at(i) < Unreached
  BY LinkTimes
<1>2. chosen = {i \in taken : \A j \in taken : at(i) < at(j) \/ (at(i) = at(j) /\ i <= j)}
  BY DEF Chosen
<1>3. LinkSeconds(arrivals, links, d) = {at(i) - d : i \in taken}
  BY DEF LinkSeconds
<1>4. Unreached \in Nat
  BY TimeAssumption
<1> HIDE DEF taken, at, chosen
<1>5. CASE taken = {}
  <2>1. LinkSeconds(arrivals, links, d) = {} /\ chosen = {}
    BY <1>2, <1>3, <1>5
  <2>2. exact = Unreached
    BY <1>4, <2>1, MinOf
  <2> QED BY <2>1, <2>2 DEF chosen
<1>6. CASE taken # {}
  <2> DEFINE times == {at(i) : i \in taken}
  <2>1. times \in SUBSET Nat /\ times # {}
    BY <1>1, <1>6
  <2>2. PICK t \in times : \A u \in times : t <= u
    <3> HIDE DEF times
    <3> QED BY <2>1, SmallestElement
  <2> DEFINE earliest == {i \in taken : at(i) = t}
  <2>3. earliest \in SUBSET Nat /\ earliest # {}
    BY <1>1
  <2>4. PICK i \in earliest : \A j \in earliest : i <= j
    <3> HIDE DEF earliest
    <3> QED BY <2>3, SmallestElement
  <2>5. i \in chosen
    <3>1. i \in taken /\ at(i) = t
      OBVIOUS
    <3>2. ASSUME NEW j \in taken PROVE at(i) < at(j) \/ (at(i) = at(j) /\ i <= j)
      <4>1. t <= at(j) /\ at(j) \in Nat /\ t \in Nat
        BY <1>1, <2>1, <2>2
      <4>2. at(j) = t => i <= j
        BY <2>4
      <4> QED BY <3>1, <4>1, <4>2
    <3> QED BY <1>2, <3>1, <3>2
  <2>6. chosen \in SUBSET Nat
    BY <1>1, <1>2
  <2>7. Min(chosen) \in chosen
    BY <2>5, <2>6, MinIs
  <2>8. Min(chosen) \in taken /\ \A j \in taken : at(Min(chosen)) <= at(j)
    <3>1. \A c \in chosen : c \in taken /\ \A j \in taken : at(c) <= at(j)
      BY <1>1, <1>2
    <3> QED BY <2>7, <3>1
  <2>9. exact = at(Min(chosen)) - d
    <3> DEFINE all == {Unreached} \cup {at(j) - d : j \in taken}
               m == at(Min(chosen)) - d
    <3>1. all \in SUBSET Int
      BY <1>1, <1>4
    <3>2. m \in all
      BY <2>8
    <3>3. m <= Unreached
      BY <1>1, <1>4, <2>8
    <3>4. \A j \in taken : m <= at(j) - d
      BY <1>1, <2>8
    <3>5. \A x \in all : m <= x
      BY <3>3, <3>4
    <3>6. Min(all) = m
      <4> HIDE DEF all, m
      <4> QED BY <3>1, <3>2, <3>5, MinOf
    <3> QED BY <1>3, <3>6
  <2>10. exact # Unreached
    BY <1>1, <1>4, <2>8, <2>9
  <2> QED BY <2>5, <2>9, <2>10 DEF chosen, at
<1> QED BY <1>5, <1>6

\* Walking all the way is a time, whatever is reached with rides.
LEMMA FloorIs ==
  ASSUME q \in Queries, NEW links \in LinkTables
  PROVE  WalkFloor(q, links) \in 0 .. Unreached
<1> DEFINE times == {Unreached} \cup {x[1].duration + x[2].duration :
                                        x \in {x \in q.access \X Range(links) : x[1].stop = x[2].stop}}
<1>1. \A i \in DOMAIN links : links[i].duration \in Nat
  <2>1. DOMAIN links = 1 .. Len(links)
    BY DEF LinkTables
  <2>2. \A i \in 1 .. Len(links) : links[i] \in [stop : Stops, duration : Nat]
    BY ElementOfSeq DEF LinkTables
  <2> QED BY <2>1, <2>2
<1>2. \A x \in q.access \X Range(links) : x[1].duration + x[2].duration \in Nat
  <2>1. \A a \in q.access : a.duration \in Nat
    BY QueriesAssumption DEF WellFormedRequest
  <2>2. \A l \in Range(links) : l.duration \in Nat
    BY <1>1 DEF Range
  <2> QED BY <2>1, <2>2
<1>3. times \in SUBSET Nat /\ Unreached \in times /\ Unreached \in Nat
  BY <1>2, TimeAssumption
<1> HIDE DEF times
<1>4. Min(times) \in Nat /\ Min(times) <= Unreached
  BY <1>3, MinIs
<1>5. WalkFloor(q, links) = Min(times)
  BY DEF WalkFloor, times
<1> QED BY <1>3, <1>4, <1>5

\* A sample's time by the earliest link is that of leaving at its mark.
LEMMA SampleIs ==
  ASSUME q \in Queries, NEW arrivals \in [Stops -> 0 .. Unreached], NEW links \in LinkTables, NEW d \in Nat
  PROVE  LET floor == WalkFloor(q, links)
             seconds == LinkSeconds(arrivals, links, d)
             exact == Min({Min({Unreached} \cup seconds), floor})
         IN  Min({floor} \cup seconds) = exact /\ exact \in Int /\ exact <= Unreached
<1> DEFINE seconds == LinkSeconds(arrivals, links, d)
<1>1. PICK floor \in 0 .. Unreached : floor = WalkFloor(q, links)
  BY FloorIs
<1>2. \A x \in seconds : x \in Int /\ x >= -d /\ x < Unreached
  <2>1. \A i \in LinksTaken(arrivals, links) : LinkArrival(arrivals, links[i]) \in Nat /\ LinkArrival(arrivals, links[i]) < Unreached
    BY LinkTimes
  <2> QED BY <2>1, TimeAssumption DEF LinkSeconds
<1> HIDE DEF seconds
<1>3. Unreached \in Nat /\ floor \in Nat /\ floor <= Unreached
  BY TimeAssumption
<1>4. PICK m \in {floor} \cup seconds : m = Min({floor} \cup seconds) /\ \A x \in {floor} \cup seconds : m <= x
  <2> DEFINE all == {floor} \cup seconds
  <2>1. all \in SUBSET Int /\ all # {} /\ \A x \in all : x >= -d
    BY <1>2, <1>3
  <2> HIDE DEF all
  <2>2. Min(all) \in all /\ \A x \in all : Min(all) <= x
    BY <2>1, LeastOf
  <2> QED BY <2>2 DEF all
<1>5. m \in Int /\ m <= Unreached
  BY <1>2, <1>3
<1>6. PICK e \in {Unreached} \cup seconds : e = Min({Unreached} \cup seconds) /\ \A x \in {Unreached} \cup seconds : e <= x
  <2> DEFINE all == {Unreached} \cup seconds
  <2>1. all \in SUBSET Int /\ all # {} /\ \A x \in all : x >= -d
    BY <1>2, <1>3
  <2> HIDE DEF all
  <2>2. Min(all) \in all /\ \A x \in all : Min(all) <= x
    BY <2>1, LeastOf
  <2> QED BY <2>2 DEF all
<1>7. e \in Int /\ m <= e
  <2>1. CASE e = Unreached
    BY <1>3, <1>5, <2>1
  <2>2. CASE e \in seconds
    BY <1>2, <1>4, <2>2
  <2> QED BY <1>6, <2>1, <2>2
<1>8. m = floor \/ m = e
  <2>1. m \in seconds => e <= m
    BY <1>6
  <2>2. m = floor \/ m \in seconds
    BY <1>4
  <2> QED BY <1>5, <1>7, <2>1, <2>2
<1>9. Min({e, floor}) = m
  <2>1. {e, floor} \in SUBSET Int /\ m \in {e, floor} /\ \A x \in {e, floor} : m <= x
    BY <1>3, <1>4, <1>7, <1>8
  <2> QED BY <2>1, MinOf
<1> QED BY <1>1, <1>4, <1>5, <1>6, <1>9 DEF seconds

\* Any times can be put in order.
Sorts(order, t, n) ==
  /\ order \in [1 .. n -> 1 .. n]
  /\ Range(order) = 1 .. n
  /\ \A i, j \in 1 .. n : i < j => t[order[i]] <= t[order[j]]
SampleTimes == {x \in Int : x <= Unreached}

LEMMA Sortable == \A n \in Nat : \A t \in [1 .. n -> SampleTimes] : \E order : Sorts(order, t, n)
<1> DEFINE Fine(n) == \A t \in [1 .. n -> SampleTimes] : \E order : Sorts(order, t, n)
           others == {n \in Nat : ~Fine(n)}
<1>1. Fine(0)
  <2> SUFFICES ASSUME NEW t \in [1 .. 0 -> SampleTimes] PROVE \E order : Sorts(order, t, 0)
    OBVIOUS
  <2> DEFINE none == [i \in 1 .. 0 |-> i]
  <2>1. none \in [1 .. 0 -> 1 .. 0] /\ Range(none) = 1 .. 0
    BY DEF Range
  <2>2. \A i, j \in 1 .. 0 : i < j => t[none[i]] <= t[none[j]]
    OBVIOUS
  <2> QED BY <2>1, <2>2 DEF Sorts
\* The last is a greatest one; the others are in order before it.
<1>2. ASSUME NEW m \in Nat, Fine(m) PROVE Fine(m + 1)
  <2> SUFFICES ASSUME NEW t \in [1 .. m + 1 -> SampleTimes] PROVE \E order : Sorts(order, t, m + 1)
    OBVIOUS
  <2>1. Unreached \in Nat /\ \A i \in 1 .. m + 1 : t[i] \in Int /\ t[i] <= Unreached
    BY TimeAssumption DEF SampleTimes
  <2>2. PICK g \in 1 .. m + 1 : \A i \in 1 .. m + 1 : t[i] <= t[g]
    <3> DEFINE slack == {Unreached - t[i] : i \in 1 .. m + 1}
    <3>1. slack \in SUBSET Nat
      BY <2>1
    <3>2. m + 1 \in 1 .. m + 1
      OBVIOUS
    <3>3. slack # {}
      BY <3>2
    <3>4. PICK x \in slack : \A y \in slack : x <= y
      <4> HIDE DEF slack
      <4> QED BY <3>1, <3>3, SmallestElement
    <3>5. PICK g \in 1 .. m + 1 : x = Unreached - t[g]
      OBVIOUS
    <3>6. \A i \in 1 .. m + 1 : Unreached - t[g] <= Unreached - t[i]
      BY <3>4, <3>5
    <3>7. \A a, b, c \in Int : a - b <= a - c => c <= b
      OBVIOUS
    <3>8. \A i \in 1 .. m + 1 : t[i] <= t[g]
      BY <2>1, <3>6, <3>7
    <3> QED BY <3>8
  <2> DEFINE skip(i) == IF i < g THEN i ELSE i + 1
             rest == [i \in 1 .. m |-> t[skip(i)]]
  <2>3. \A i \in 1 .. m : skip(i) \in 1 .. m + 1 /\ skip(i) # g
    OBVIOUS
  <2>4. \A k \in 1 .. m + 1 : k # g => \E i \in 1 .. m : skip(i) = k
    <3> SUFFICES ASSUME NEW k \in 1 .. m + 1, k # g PROVE \E i \in 1 .. m : skip(i) = k
      OBVIOUS
    <3>1. CASE k < g
      BY <3>1
    <3>2. CASE k > g
      <4>1. k - 1 \in 1 .. m /\ skip(k - 1) = k
        BY <3>2
      <4> QED BY <4>1
    <3> QED BY <3>1, <3>2
  <2> HIDE DEF skip
  <2>5. rest \in [1 .. m -> SampleTimes]
    BY <2>3
  <2>6. PICK first : Sorts(first, rest, m)
    BY <1>2, <2>5
  <2> DEFINE order == [i \in 1 .. m + 1 |-> IF i = m + 1 THEN g ELSE skip(first[i])]
  <2>7. \A i \in 1 .. m : i \in 1 .. m + 1 /\ i # m + 1 /\ first[i] \in 1 .. m
    BY <2>6 DEF Sorts
  <2>8. \A i \in 1 .. m + 1 : i = m + 1 \/ i \in 1 .. m
    OBVIOUS
  <2>9. \A i \in 1 .. m + 1 : order[i] \in 1 .. m + 1
    BY <2>3, <2>7, <2>8
  <2>10. \A k \in 1 .. m + 1 : \E i \in 1 .. m + 1 : order[i] = k
    <3> SUFFICES ASSUME NEW k \in 1 .. m + 1 PROVE \E i \in 1 .. m + 1 : order[i] = k
      OBVIOUS
    <3>1. CASE k = g
      <4>1. m + 1 \in 1 .. m + 1 /\ order[m + 1] = g
        OBVIOUS
      <4> QED BY <3>1, <4>1
    <3>2. CASE k # g
      <4>1. PICK j \in 1 .. m : skip(j) = k
        BY <2>4, <3>2
      <4>2. PICK i \in 1 .. m : first[i] = j
        BY <2>6 DEF Sorts, Range
      <4> QED BY <2>7, <4>1, <4>2
    <3> QED BY <3>1, <3>2
  <2>11. \A i, j \in 1 .. m + 1 : i < j => t[order[i]] <= t[order[j]]
    <3> SUFFICES ASSUME NEW i \in 1 .. m + 1, NEW j \in 1 .. m + 1, i < j PROVE t[order[i]] <= t[order[j]]
      OBVIOUS
    <3>1. CASE j = m + 1
      <4>1. order[j] = g
        BY <3>1
      <4> QED BY <2>2, <2>9, <4>1
    <3>2. CASE j # m + 1
      <4>1. i \in 1 .. m /\ j \in 1 .. m
        BY <3>2
      <4>2. rest[first[i]] <= rest[first[j]]
        BY <2>6, <4>1 DEF Sorts
      <4>3. order[i] = skip(first[i]) /\ order[j] = skip(first[j])
        BY <2>7, <4>1
      <4> QED BY <2>7, <4>1, <4>2, <4>3
    <3> QED BY <3>1, <3>2
  <2>12. order \in [1 .. m + 1 -> 1 .. m + 1] /\ Range(order) = 1 .. m + 1
    <3>1. order \in [1 .. m + 1 -> 1 .. m + 1]
      BY <2>9
    <3> QED BY <2>10, <3>1 DEF Range
  <2> QED BY <2>11, <2>12 DEF Sorts
<1>3. ASSUME others # {} PROVE FALSE
  <2>1. PICK n \in others : \A j \in others : n <= j
    <3>1. others \in SUBSET Nat
      OBVIOUS
    <3> HIDE DEF others
    <3> QED BY <1>3, <3>1, SmallestElement
  <2>2. n \in Nat /\ n # 0 /\ ~Fine(n)
    BY <1>1, <2>1
  <2>3. n - 1 \in Nat /\ n - 1 \notin others /\ (n - 1) + 1 = n
    <3>1. n - 1 \in Nat /\ ~(n <= n - 1) /\ (n - 1) + 1 = n
      BY <2>2
    <3> QED BY <2>1, <3>1
  <2>4. Fine(n - 1)
    BY <2>3
  <2> HIDE DEF Fine, others
  <2> QED BY <1>2, <2>2, <2>3, <2>4
<1> QED BY <1>3

LEMMA AscendingIs ==
  ASSUME NEW n \in Nat, NEW t \in [1 .. n -> SampleTimes]
  PROVE  \E order : Sorts(order, t, n) /\ Ascending(t) = [i \in 1 .. n |-> t[order[i]]]
<1> DEFINE Fits(order) == /\ Range(order) = DOMAIN t
                          /\ \A i, j \in DOMAIN t : i < j => t[order[i]] <= t[order[j]]
           order == CHOOSE order \in [DOMAIN t -> DOMAIN t] : Fits(order)
<1>1. DOMAIN t = 1 .. n
  OBVIOUS
<1>2. \E some \in [DOMAIN t -> DOMAIN t] : Fits(some)
  BY <1>1, Sortable DEF Sorts
<1>3. order \in [DOMAIN t -> DOMAIN t] /\ Fits(order)
  <2> HIDE DEF Fits
  <2> QED BY <1>2
<1>4. Ascending(t) = [i \in DOMAIN t |-> t[order[i]]]
  BY DEF Ascending
<1> HIDE DEF order
<1>5. Sorts(order, t, n)
  BY <1>1, <1>3 DEF Sorts
<1> QED BY <1>1, <1>4, <1>5

\* Renaming a range of positions gives no more of them.
LEMMA ImageBound ==
  ASSUME NEW a \in Nat, NEW b \in Nat, NEW order, NEW n \in Nat, \A i \in a .. b : order[i] \in 1 .. n
  PROVE  LET image == {order[i] : i \in a .. b}
         IN  IsFiniteSet(image) /\ Cardinality(image) <= IF a > b THEN 0 ELSE b - a + 1
<1> DEFINE image == {order[i] : i \in a .. b}
           f == [i \in a .. b |-> order[i]]
<1>1. f \in Surjection(a .. b, image)
  BY DEF Surjection
<1>2. IsFiniteSet(a .. b) /\ Cardinality(a .. b) = IF a > b THEN 0 ELSE b - a + 1
  BY FS_Interval
<1> HIDE DEF f, image
<1>3. IsFiniteSet(image) /\ Cardinality(image) <= Cardinality(a .. b)
  BY <1>1, <1>2, FS_Surjection
<1> QED BY <1>2, <1>3 DEF image

LEMMA RankInside ==
  ASSUME NEW n \in Nat \ {0}, NEW c \in 0 .. 100
  PROVE  RankOf(c, n) \in 0 .. n - 1
<1>1. PICK m \in Nat : m = n - 1
  OBVIOUS
<1>2. PICK x \in Nat : x = c * m
  OBVIOUS
<1>3. x <= 100 * m
  <2>1. \A i, j \in Nat : i * j \in Nat
    OBVIOUS
  <2>2. PICK r \in Nat : r = 100 - c /\ r * m \in Nat
    BY <2>1
  <2>3. (c + r) * m = c * m + r * m
    OBVIOUS
  <2> QED BY <1>2, <2>2, <2>3
<1>4. 2 * c * (n - 1) = 2 * x
  BY <1>1, <1>2
<1>5. (2 * x + 100) \div 200 \in 0 .. m
  BY <1>3
<1> QED BY <1>1, <1>4, <1>5 DEF RankOf

\* The nearest rank has more times up to it, and no more before it, than its
\* rank says.
LEMMA NearestRankIs ==
  ASSUME NEW n \in Nat \ {0}, NEW t \in [1 .. n -> SampleTimes], NEW c \in 0 .. 100
  PROVE  LET v == NearestRank(Ascending(t), c)
         IN  /\ Cardinality({m \in 1 .. n : t[m] <= v}) > RankOf(c, n)
             /\ Cardinality({m \in 1 .. n : t[m] < v}) <= RankOf(c, n)
<1>1. PICK order : Sorts(order, t, n) /\ Ascending(t) = [i \in 1 .. n |-> t[order[i]]]
  BY AscendingIs
<1>2. PICK r \in 0 .. n - 1 : r = RankOf(c, n)
  BY RankInside
<1>3. order \in [1 .. n -> 1 .. n] /\ \A k \in 1 .. n : \E i \in 1 .. n : order[i] = k
  BY <1>1 DEF Sorts, Range
<1>4. \A i \in 1 .. n : t[i] \in Int
  BY DEF SampleTimes
<1>5. Len(Ascending(t)) = n
  <2>1. [i \in 1 .. n |-> t[order[i]]] \in [1 .. n -> Int]
    BY <1>3, <1>4
  <2>2. \A f \in [1 .. n -> Int] : f \in Seq(Int) /\ Len(f) = n
    OBVIOUS
  <2> QED BY <1>1, <2>1, <2>2
<1>6. Min({r, n - 1}) = r
  <2>1. {r, n - 1} \in SUBSET Int /\ r \in {r, n - 1} /\ \A x \in {r, n - 1} : r <= x
    OBVIOUS
  <2> QED BY <2>1, MinOf
<1>7. NearestRank(Ascending(t), c) = Ascending(t)[1 + r]
  BY <1>2, <1>5, <1>6 DEF NearestRank
<1>8. 1 + r \in 1 .. n
  OBVIOUS
<1>9. PICK v \in Int : v = t[order[1 + r]] /\ v = NearestRank(Ascending(t), c)
  BY <1>1, <1>3, <1>4, <1>7, <1>8
<1>16. /\ \A i \in 1 .. n : 1 + r < i => v <= t[order[i]]
       /\ \A i \in 1 .. n : i < 1 + r => t[order[i]] <= v
  <2>1. \A i, j \in 1 .. n : i < j => t[order[i]] <= t[order[j]]
    BY <1>1 DEF Sorts
  <2> QED BY <1>8, <1>9, <2>1, ZenonT(60)
<1>17. \A i \in 1 .. n : i = 1 + r => t[order[i]] = v
  BY <1>9
<1> DEFINE upTo == {m \in 1 .. n : t[m] <= v}
           before == {m \in 1 .. n : t[m] < v}
           early == {order[i] : i \in 1 .. r}
           late == {order[i] : i \in r + 2 .. n}
<1>10. IsFiniteSet(early) /\ Cardinality(early) <= r
  <2>1. 1 \in Nat /\ r \in Nat /\ \A i \in 1 .. r : order[i] \in 1 .. n
    <3>1. \A i \in 1 .. r : i \in 1 .. n
      OBVIOUS
    <3>2. \A i \in 1 .. n : order[i] \in 1 .. n
      BY <1>3
    <3>3. r \in Nat /\ r + 2 \in Nat
      OBVIOUS
    <3> QED BY <3>1, <3>2, <3>3
  <2>2. IsFiniteSet(early) /\ Cardinality(early) <= IF 1 > r THEN 0 ELSE r - 1 + 1
    BY <2>1, ImageBound
  <2>3. Cardinality(early) \in Nat
    BY <2>2, FS_CardinalityType
  <2> HIDE DEF early
  <2> QED BY <2>1, <2>2, <2>3
<1>11. IsFiniteSet(late) /\ Cardinality(late) <= n - r - 1
  <2>1. r + 2 \in Nat /\ n \in Nat /\ \A i \in r + 2 .. n : order[i] \in 1 .. n
    <3>1. \A i \in r + 2 .. n : i \in 1 .. n
      OBVIOUS
    <3>2. \A i \in 1 .. n : order[i] \in 1 .. n
      BY <1>3
    <3>3. r \in Nat /\ r + 2 \in Nat
      OBVIOUS
    <3> QED BY <3>1, <3>2, <3>3
  <2>2. IsFiniteSet(late) /\ Cardinality(late) <= IF r + 2 > n THEN 0 ELSE n - (r + 2) + 1
    BY <2>1, ImageBound
  <2>3. Cardinality(late) \in Nat
    BY <2>2, FS_CardinalityType
  <2> HIDE DEF late
  <2> QED BY <2>1, <2>2, <2>3
<1>12. before \subseteq early
  <2> SUFFICES ASSUME NEW m \in before PROVE m \in early
    OBVIOUS
  <2>1. PICK i \in 1 .. n : order[i] = m
    BY <1>3
  <2>2. t[order[i]] < v /\ t[order[i]] \in Int
    BY <1>4, <2>1
  <2>3. 1 + r < i => v <= t[order[i]]
    BY <1>16
  <2>4. i # 1 + r
    BY <1>17, <2>2
  <2>5. i \in 1 .. r
    BY <2>2, <2>3, <2>4
  <2> QED BY <2>1, <2>5
<1>13. (1 .. n) \ upTo \subseteq late
  <2> SUFFICES ASSUME NEW m \in 1 .. n, ~(t[m] <= v) PROVE m \in late
    OBVIOUS
  <2>1. PICK i \in 1 .. n : order[i] = m
    BY <1>3
  <2>2. v < t[order[i]] /\ t[order[i]] \in Int
    BY <1>4, <2>1
  <2>3. i < 1 + r => t[order[i]] <= v
    BY <1>16
  <2>4. i # 1 + r
    BY <1>17, <2>2
  <2>5. i \in r + 2 .. n
    BY <2>2, <2>3, <2>4
  <2> QED BY <2>1, <2>5
<1> HIDE DEF early, late
<1>14. Cardinality(before) <= r
  <2>1. Cardinality(before) <= Cardinality(early) /\ IsFiniteSet(before)
    BY <1>10, <1>12, FS_Subset
  <2>2. Cardinality(before) \in Nat /\ Cardinality(early) \in Nat
    BY <1>10, <2>1, FS_CardinalityType
  <2> HIDE DEF before
  <2> QED BY <1>10, <2>1, <2>2
<1>15. Cardinality(upTo) > r
  <2> DEFINE all == 1 .. n
             beyond == all \ upTo
  <2>1. IsFiniteSet(all) /\ Cardinality(all) = n
    BY FS_Interval
  <2>2. upTo \subseteq all
    OBVIOUS
  <2>3. Cardinality(beyond) <= Cardinality(late) /\ IsFiniteSet(beyond)
    BY <1>11, <1>13, FS_Subset
  <2>4. IsFiniteSet(upTo)
    BY <2>1, <2>2, FS_Subset
  <2>5. all \cap upTo = upTo
    BY <2>2
  <2> HIDE DEF all, upTo
  <2>6. Cardinality(beyond) = Cardinality(all) - Cardinality(upTo)
    BY <2>1, <2>5, FS_Difference
  <2>7. Cardinality(beyond) \in Nat /\ Cardinality(upTo) \in Nat /\ Cardinality(late) \in Nat
    BY <1>11, <2>3, <2>4, FS_CardinalityType
  <2> HIDE DEF beyond
  <2> QED BY <1>11, <2>1, <2>3, <2>6, <2>7
<1> QED BY <1>2, <1>9, <1>14, <1>15

----------------------------------------------------------------------------
(* The rows of a matrix: the passes of an origin so far reach what the last *)
(* of their departures alone does.                                          *)

LEMMA StartedByLast ==
  ASSUME q \in Queries, NEW i \in 1 .. Len(q.departures)
  PROVE  R!Started(q, {q.departures[j] : j \in 1 .. i}) = R!Started(q, {q.departures[i]})
<1> DEFINE D == {q.departures[j] : j \in 1 .. i}
           links(s) == {a \in q.access : a.stop = s /\ s \notin q.excluded}
           all(s) == {Unreached} \cup {d + a.duration : d \in D, a \in links(s)}
           last(s) == {Unreached} \cup {d + a.duration : d \in {q.departures[i]}, a \in links(s)}
<1>1. Len(q.departures) \in Nat /\ i \in Nat
  BY DeparturesSeq
<1>2. ASSUME NEW j \in 1 .. i
      PROVE  q.departures[j] \in Nat /\ q.departures[i] \in Nat /\ q.departures[i] <= q.departures[j]
  <2>1. j \in 1 .. Len(q.departures) /\ (j < i \/ j = i)
    BY <1>1
  <2>2. q.departures[j] \in Times /\ q.departures[i] \in Times
    BY <2>1, DeparturesSeq, ElementOfSeq
  <2>3. j < i => q.departures[i] < q.departures[j]
    BY <2>1, QueriesAssumption DEF WellFormedRequest
  <2>4. \A x, y \in Times : x \in Nat /\ y \in Nat /\ (x < y \/ x = y => x <= y)
    BY DEF Times
  <2> QED BY <2>1, <2>2, <2>3, <2>4
<1>3. i \in 1 .. i
  BY <1>1
<1>4. \A d \in D : d \in Nat /\ q.departures[i] \in Nat /\ q.departures[i] <= d
  BY <1>2
<1>5. q.departures[i] \in D
  BY <1>3
<1>6. \A a \in q.access : a.duration \in Nat
  BY QueriesAssumption DEF WellFormedRequest
<1> HIDE DEF D
<1>7. ASSUME NEW s \in Stops PROVE R!Min(all(s)) = R!Min(last(s))
  <2>1. all(s) \in SUBSET Nat /\ last(s) \in SUBSET Nat /\ last(s) # {}
    BY <1>4, <1>5, <1>6, TimeAssumption
  <2>2. PICK m \in last(s) : m = R!Min(last(s)) /\ \A x \in last(s) : m <= x
    <3> HIDE DEF last
    <3> QED BY <2>1, LeastIs
  <2>3. m \in all(s)
    <3>1. \A x \in last(s) : x # Unreached => \E d \in {q.departures[i]}, a \in links(s) : x = d + a.duration
      OBVIOUS
    <3>2. m # Unreached => \E d \in D, a \in links(s) : m = d + a.duration
      <4> HIDE DEF last, links
      <4> QED BY <1>5, <2>2, <3>1
    <3> QED BY <3>2
  <2>4. ASSUME NEW x \in all(s) PROVE m <= x
    <3>1. CASE x = Unreached
      BY <2>2, <3>1
    <3>2. CASE x # Unreached
      <4>1. PICK d \in D, a \in links(s) : x = d + a.duration
        BY <3>2
      <4>2. q.departures[i] + a.duration \in last(s)
        BY <4>1
      <4>3. a.duration \in Nat /\ d \in Nat /\ q.departures[i] \in Nat /\ q.departures[i] <= d /\ m \in Nat
        BY <1>4, <1>6, <2>1, <2>2
      <4>4. m <= q.departures[i] + a.duration
        BY <2>2, <4>2
      <4> HIDE DEF last
      <4> QED BY <4>1, <4>3, <4>4
    <3> QED BY <3>1, <3>2
  <2> HIDE DEF all, last
  <2>5. R!Min(all(s)) = m
    BY <2>1, <2>3, <2>4, MinimumIs
  <2> QED BY <2>2, <2>5
<1>8. R!Started(q, D) = [s \in Stops |-> R!Min(all(s))]
  BY DEF R!Started
<1>9. R!Started(q, {q.departures[i]}) = [s \in Stops |-> R!Min(last(s))]
  BY DEF R!Started
<1> HIDE DEF all, last
<1>10. R!Started(q, D) = R!Started(q, {q.departures[i]})
  BY <1>7, <1>8, <1>9
<1> QED BY <1>10 DEF D

\* Leaving later is leaving at the last candidate, and waiting.
LEMMA LastDepartureLeads ==
  ASSUME q \in Queries, NEW i \in 1 .. Len(q.departures)
  PROVE  \A k \in Rounds :
           R!Earliest(q, {q.departures[j] : j \in 1 .. i})[k] = R!Earliest(q, {q.departures[i]})[k]
<1> DEFINE D == {q.departures[j] : j \in 1 .. i}
           all == R!Earliest(q, D)
           last == R!Earliest(q, {q.departures[i]})
           others == {k \in 0 .. q.rounds : all[k] # last[k]}
<1>1. /\ all[0] = R!Started(q, D)
      /\ \A k \in 1 .. q.rounds : all[k] = R!Further(q, all[k - 1])
  BY EarliestRounds
<1>2. /\ last[0] = R!Started(q, {q.departures[i]})
      /\ \A k \in 1 .. q.rounds : last[k] = R!Further(q, last[k - 1])
  BY EarliestRounds
<1>3. R!Started(q, D) = R!Started(q, {q.departures[i]})
  BY StartedByLast
<1>4. q.rounds \in Nat
  BY RoundsType
<1> HIDE DEF D, all, last
<1>5. ASSUME others # {} PROVE FALSE
  <2>1. others \in SUBSET Nat
    BY <1>4
  <2>2. PICK k \in others : \A j \in others : k <= j
    <3> HIDE DEF others
    <3> QED BY <1>5, <2>1, SmallestElement
  <2>3. k \in 0 .. q.rounds /\ all[k] # last[k] /\ k # 0
    BY <1>1, <1>2, <1>3, <2>2
  <2>4. k \in 1 .. q.rounds /\ k - 1 \in 0 .. q.rounds /\ ~(k <= k - 1)
    BY <1>4, <2>3
  <2>5. all[k - 1] = last[k - 1]
    BY <2>2, <2>4
  <2> QED BY <1>1, <1>2, <2>3, <2>4, <2>5
<1> QED BY <1>5 DEF Rounds, all, last, D

\* An instance whose finished passes are exact (RaptorPassExact).
Fit(n) == TwinsAgree(n) /\ AccessCloses(n)

LEMMA PassAlone ==
  ASSUME RInv, CInv, SInv, PassEnded
  PROVE  /\ pass \in 1 .. Len(q.departures) /\ Now \in Nat
         /\ best[q.rounds] \in [Stops -> 0 .. Unreached]
         /\ Fit(q) => best[q.rounds] = R!Earliest(q, {Now})[q.rounds]
<1>1. q \in Queries /\ TablesOK
  BY TablesTyped DEF RInv
<1>2. q.rounds \in Rounds
  <2>1. \A n \in Nat : n \in 0 .. n
    OBVIOUS
  <2> QED BY <1>1, <2>1, RoundsType DEF Rounds
<1>3. pass \in 1 .. Len(q.departures)
  <2>1. pass \in 0 .. Len(q.departures) /\ pass > 0
    BY DEF RInv, TypeOK, PassEnded, InRound
  <2>2. Len(q.departures) \in Nat
    BY <1>1, DeparturesSeq
  <2> QED BY <2>1, <2>2
<1>4. Now \in Nat
  <2>1. Now \in Times
    BY <1>1, <1>3, DeparturesSeq, ElementOfSeq DEF Now
  <2> QED BY <2>1 DEF Times
<1>5. best[q.rounds] \in [Stops -> 0 .. Unreached]
  BY <1>1, <1>2 DEF TablesOK
<1>6. ASSUME Fit(q) PROVE best[q.rounds] = R!Earliest(q, {Now})[q.rounds]
  <2>1. best[q.rounds] = R!Earliest(q, Departed)[q.rounds]
    BY <1>2, <1>6, TablesExact DEF Fit, EarliestArrival
  <2>2. R!Earliest(q, Departed)[q.rounds] = R!Earliest(q, {Now})[q.rounds]
    BY <1>1, <1>2, <1>3, LastDepartureLeads DEF Departed, Now
  <2> QED BY <2>1, <2>2
<1> QED BY <1>3, <1>4, <1>5, <1>6

LEMMA PointLinks ==
  ASSUME q \in Queries, q.use = "matrix", NEW p \in Points
  PROVE  q.points[p] \in LinkTables
BY MatrixAssumption DEF WellFormedMatrix, Points, LinkTables

\* A fastest cell has the seconds of its origin's only departure.
LEMMA FastestFold ==
  ASSUME RInv, CInv, SInv, PassEnded, q.use = "matrix", q.product = "fastest", Fit(q), NEW p \in Points
  PROVE  FastestExact(q, p, Fastest(p))
<1> DEFINE arrivals == best[q.rounds]
           links == q.points[p]
           chosen == Chosen(arrivals, links)
           exact == Min({Unreached} \cup LinkSeconds(arrivals, links, Now))
<1>1. q \in Queries
  BY DEF RInv, TypeOK
<1>2. Now = q.departures[1]
  <2>1. Len(q.departures) = 1
    BY <1>1, MatrixAssumption DEF WellFormedMatrix
  <2>2. pass \in 1 .. Len(q.departures)
    BY PassAlone
  <2> QED BY <2>1, <2>2 DEF Now
<1>3. arrivals \in [Stops -> 0 .. Unreached] /\ Now \in Nat /\ arrivals = R!Earliest(q, {Now})[q.rounds]
  BY PassAlone
<1>4. links \in LinkTables
  BY <1>1, PointLinks
<1>5. ExactSeconds(q, q.departures[1], q.points[p]) = exact
  BY <1>2, <1>3 DEF ExactSeconds, LinkSeconds
<1>6. IF chosen = {} THEN exact = Unreached
      ELSE exact # Unreached /\ exact = LinkArrival(arrivals, links[Min(chosen)]) - Now
  BY <1>3, <1>4, ChosenIs
<1>7. chosen = {} => Fastest(p) = NoRow
  BY DEF Fastest
<1>8. chosen # {} => Fastest(p).seconds = LinkArrival(arrivals, links[Min(chosen)]) - Now
  BY DEF Fastest, Row
<1> HIDE DEF arrivals, links, chosen, exact
<1> QED BY <1>5, <1>6, <1>7, <1>8 DEF FastestExact

----------------------------------------------------------------------------
(* A worker's origins, one after another.                                   *)

\* The passes an origin has folded or sampled.
Finished == IF pc = "next pass" THEN pass ELSE pass - 1
Sample == [mark : Nat, arrivals : [Stops -> 0 .. Unreached]]

\* The i-th sample is what leaving at the i-th mark reaches.
Sampled(i, sample) ==
  /\ sample.mark = q.departures[i]
  /\ Fit(q) => sample.arrivals = R!Earliest(q, {q.departures[i]})[q.rounds]
SamplesGood ==
  q.product = "window" =>
    /\ samples \in Seq(Sample) /\ Len(samples) = Finished
    /\ \A i \in 1 .. Len(samples) : Sampled(i, samples[i])
CellsGood ==
  q.product = "fastest" /\ Fit(q) /\ pc = "next pass" /\ pass = Len(q.departures)
  => \A p \in Points : FastestExact(q, p, cells[p])
RowsGood ==
  /\ \E S : matrix \in Seq(S)
  /\ \A i \in DOMAIN matrix : Fit(matrix[i].request) => RowExact(matrix[i])
OriginGood ==
  /\ RInv /\ CInv /\ SInv
  /\ pc = "collect" => round = 1
  /\ CellsGood /\ SamplesGood
MInv == q.use = "matrix" /\ (pc # "filled" => OriginGood) /\ RowsGood

LEMMA SequenceDomain == \A S : \A x \in Seq(S) : DOMAIN x = 1 .. Len(x) /\ Len(x) \in Nat
OBVIOUS
LEMMA EmptySequence == \A S : <<>> \in Seq(S) /\ Len(<<>>) = 0 /\ DOMAIN <<>> = {} /\ 1 .. Len(<<>>) = {}
OBVIOUS
LEMMA FunctionLength == \A S : \A m \in Nat : \A f \in [1 .. m -> S] : f \in Seq(S) /\ Len(f) = m
OBVIOUS

LEMMA MatrixFacts ==
  ASSUME q \in Queries, q.use = "matrix"
  PROVE  /\ Len(q.departures) \in Nat /\ \A i \in 1 .. Len(q.departures) : q.departures[i] \in Nat
         /\ DOMAIN q.departures = 1 .. Len(q.departures)
         /\ q.product \in {"fastest", "window"} => Len(q.departures) \in Nat \ {0}
         /\ q.product = "window" => q.percentiles \subseteq 0 .. 100
<1>1. q.departures \in Seq(Times) /\ Len(q.departures) \in Nat
  BY DeparturesSeq
<1>2. \A i \in 1 .. Len(q.departures) : q.departures[i] \in Nat
  <2>1. \A i \in 1 .. Len(q.departures) : q.departures[i] \in Times
    BY <1>1, ElementOfSeq
  <2>2. \A x \in Times : x \in Nat
    BY DEF Times
  <2> QED BY <2>1, <2>2
<1>3. DOMAIN q.departures = 1 .. Len(q.departures)
  BY <1>1
<1>4. /\ q.product = "fastest" => Len(q.departures) = 1
      /\ q.product = "window" => Len(q.departures) > 0 /\ q.percentiles \subseteq 0 .. 100
  BY MatrixAssumption DEF WellFormedMatrix
<1>5. q.product \in {"fastest", "window"} => Len(q.departures) \in Nat \ {0}
  <2>1. PICK m \in Nat : m = Len(q.departures)
    BY <1>1
  <2>2. q.product \in {"fastest", "window"} => m = 1 \/ m > 0
    BY <1>4, <2>1
  <2>3. m = 1 \/ m > 0 => m \in Nat \ {0}
    OBVIOUS
  <2> QED BY <2>1, <2>2, <2>3
<1> QED BY <1>1, <1>2, <1>3, <1>4, <1>5

\* The samples of all marks give the exact percentiles.
LEMMA WindowRow ==
  ASSUME q \in Queries, q.use = "matrix", q.product = "window", SamplesGood, Fit(q),
         pc = "next pass", pass = Len(q.departures), NEW p \in Points
  PROVE  PercentilesExact(q, p, Percentiles(p))
<1> DEFINE n == Len(q.departures)
           links == q.points[p]
           exact == [m \in DOMAIN q.departures |-> ExactSample(q, q.departures[m], links)]
           times == [i \in DOMAIN samples |-> TravelTime(samples[i], links)]
<1>1. /\ n \in Nat \ {0} /\ DOMAIN q.departures = 1 .. n /\ q.percentiles \subseteq 0 .. 100
      /\ \A i \in 1 .. n : q.departures[i] \in Nat
  <2>1. /\ n \in Nat \ {0} /\ DOMAIN q.departures = 1 .. n /\ q.percentiles \subseteq 0 .. 100
        /\ \A i \in 1 .. n : q.departures[i] \in Nat
    BY MatrixFacts
  <2> HIDE DEF n
  <2> QED BY <2>1
<1>2. links \in LinkTables
  BY PointLinks
<1>3. samples \in Seq(Sample) /\ Len(samples) = n /\ \A i \in 1 .. n : Sampled(i, samples[i])
  BY DEF SamplesGood, Finished
<1>4. DOMAIN samples = 1 .. n
  <2>1. DOMAIN samples = 1 .. Len(samples)
    BY <1>3, SequenceDomain
  <2> QED BY <1>3, <2>1
<1> HIDE DEF n, links
<1>5. ASSUME NEW i \in 1 .. n
      PROVE  /\ TravelTime(samples[i], links) = ExactSample(q, q.departures[i], links)
             /\ ExactSample(q, q.departures[i], links) \in SampleTimes
  <2> DEFINE arrivals == samples[i].arrivals
             d == q.departures[i]
             floor == WalkFloor(q, links)
             seconds == LinkSeconds(arrivals, links, d)
  <2>1. samples[i] \in Sample
    BY <1>3, ElementOfSeq
  <2>2. samples[i].mark = d /\ arrivals = R!Earliest(q, {d})[q.rounds]
    BY <1>3 DEF Sampled
  <2>3. arrivals \in [Stops -> 0 .. Unreached]
    BY <2>1 DEF Sample
  <2>4. d \in Nat
    BY <1>1
  <2>5. LET some == Min({Min({Unreached} \cup seconds), floor})
        IN  Min({floor} \cup seconds) = some /\ some \in Int /\ some <= Unreached
    <3> HIDE DEF arrivals, d
    <3> QED BY <1>2, <2>3, <2>4, SampleIs
  <2>6. TravelTime(samples[i], links) = Min({floor} \cup seconds)
    BY <2>2 DEF TravelTime, LinkSeconds
  <2>7. ExactSample(q, d, links) = Min({Min({Unreached} \cup seconds), floor})
    BY <2>2 DEF ExactSample, ExactSeconds, LinkSeconds
  <2> HIDE DEF seconds, floor, arrivals
  <2> QED BY <2>5, <2>6, <2>7 DEF SampleTimes
<1>6. exact \in [1 .. n -> SampleTimes] /\ DOMAIN exact = 1 .. n
  BY <1>1, <1>5
<1>7. times = exact
  BY <1>1, <1>4, <1>5
<1>8. Percentiles(p) = [c \in q.percentiles |-> NearestRank(Ascending(times), c)]
  BY DEF Percentiles, links
<1> HIDE DEF times, exact
<1>9. Len(exact) = n
  <2>1. n \in Nat
    BY <1>1
  <2> QED BY <1>6, <2>1, FunctionLength
<1>10. ASSUME NEW c \in q.percentiles
       PROVE  /\ Cardinality({m \in DOMAIN exact : exact[m] <= Percentiles(p)[c]}) > RankOf(c, Len(exact))
              /\ Cardinality({m \in DOMAIN exact : exact[m] < Percentiles(p)[c]}) <= RankOf(c, Len(exact))
  <2>1. Percentiles(p)[c] = NearestRank(Ascending(exact), c)
    BY <1>7, <1>8
  <2>2. c \in 0 .. 100
    BY <1>1, ZenonT(60)
  <2>3. LET v == NearestRank(Ascending(exact), c)
        IN  /\ Cardinality({m \in 1 .. n : exact[m] <= v}) > RankOf(c, n)
            /\ Cardinality({m \in 1 .. n : exact[m] < v}) <= RankOf(c, n)
    BY <1>1, <1>6, <2>2, NearestRankIs
  <2> QED BY <1>6, <1>9, <2>1, <2>3
<1> QED BY <1>10 DEF PercentilesExact, exact, links

LEMMA RowGood ==
  ASSUME OriginGood, q.use = "matrix", OriginEnds, Fit(q)
  PROVE  RowExact(OriginRow)
<1>1. q \in Queries /\ pc = "next pass" /\ pass = Len(q.departures) /\ SamplesGood
  BY DEF OriginGood, RInv, TypeOK, OriginEnds
<1>2. /\ OriginRow.request = q
      /\ OriginRow.cells = IF q.product = "window" THEN [p \in Points |-> Percentiles(p)] ELSE cells
  BY DEF OriginRow
<1>3. ASSUME NEW p \in Points
      PROVE  /\ q.product = "fastest" => FastestExact(q, p, OriginRow.cells[p])
             /\ q.product = "window" => PercentilesExact(q, p, OriginRow.cells[p])
  <2>1. ASSUME q.product = "fastest" PROVE FastestExact(q, p, OriginRow.cells[p])
    <3>1. OriginRow.cells = cells
      BY <1>2, <2>1
    <3> QED BY <1>1, <2>1, <3>1 DEF OriginGood, CellsGood
  <2>2. ASSUME q.product = "window" PROVE PercentilesExact(q, p, OriginRow.cells[p])
    <3>1. OriginRow.cells[p] = Percentiles(p)
      BY <1>2, <2>2
    <3> QED BY <1>1, <2>2, <3>1, WindowRow
  <2> QED BY <2>1, <2>2
<1> HIDE DEF OriginRow
<1> QED BY <1>2, <1>3 DEF RowExact, Points

\* One more row that is exact where its request fits.
LEMMA RowsAppend ==
  ASSUME RowsGood, NEW row, Fit(row.request) => RowExact(row), matrix' = Append(matrix, row)
  PROVE  RowsGood'
<1>1. PICK S : matrix \in Seq(S)
  BY DEF RowsGood
<1>2. PICK T : T = S \cup {row}
  OBVIOUS
<1>3. matrix \in Seq(T) /\ row \in T
  <2>1. \A s \in Seq(S) : s \in Seq(S \cup {row})
    OBVIOUS
  <2> QED BY <1>1, <1>2, <2>1
<1>4. /\ Append(matrix, row) \in Seq(T)
      /\ \A i \in DOMAIN Append(matrix, row) :
           (i \in DOMAIN matrix /\ Append(matrix, row)[i] = matrix[i]) \/ Append(matrix, row)[i] = row
  BY <1>3
<1>5. ASSUME NEW i \in DOMAIN matrix' PROVE Fit(matrix'[i].request) => RowExact(matrix'[i])
  BY <1>4 DEF RowsGood
<1>6. RowsGood' <=> /\ \E U : matrix' \in Seq(U)
                    /\ \A i \in DOMAIN matrix' : Fit(matrix'[i].request) => RowExact(matrix'[i])
  BY DEF RowsGood
<1> QED BY <1>4, <1>5, <1>6

----------------------------------------------------------------------------
(* The steps of a worker.                                                   *)

\* A pass's steps are the search's, and none folds, ends or restarts it.
LEMMA PassMoves ==
  ASSUME PassStep
  PROVE  /\ Next /\ q' = q /\ UNCHANGED matrixVars
         /\ pc # "filled" /\ pc' # "filled" /\ pc' # "next pass"
         /\ pass' = IF pc = "next pass" THEN pass + 1 ELSE pass
         /\ pc' = "collect" => round' = 1
<1>1. UNCHANGED matrixVars
  BY DEF PassStep
<1>2. CASE StartPass
  BY <1>1, <1>2 DEF StartPass, Next
<1>3. CASE \E a \in pending : SeedAccess(a)
  BY <1>1, <1>3 DEF SeedAccess, Next
<1>4. CASE CollectPatterns
  BY <1>1, <1>4 DEF CollectPatterns, Next
<1>5. CASE \E p \in DOMAIN queue_position : DequeuePattern(p)
  BY <1>1, <1>5 DEF DequeuePattern, Next
<1>6. CASE \E stream \in Streams : Alight(stream)
  BY <1>1, <1>6 DEF Alight, Next
<1>7. CASE Board
  BY <1>1, <1>7 DEF Board, Next
<1>8. CASE StartWalking
  BY <1>1, <1>8 DEF StartWalking, Next
<1>9. CASE \E w \in pending : Walk(w)
  BY <1>1, <1>9 DEF Walk, Next
<1>10. CASE EndRound
  BY <1>1, <1>10 DEF EndRound, Next
<1> QED BY <1>2, <1>3, <1>4, <1>5, <1>6, <1>7, <1>8, <1>9, <1>10 DEF PassStep

LEMMA RowsStay ==
  ASSUME RowsGood, matrix' = matrix
  PROVE  RowsGood'
BY DEF RowsGood

LEMMA SamplesStay ==
  ASSUME SamplesGood, q' = q, samples' = samples, Finished' = Finished
  PROVE  SamplesGood'
BY DEF SamplesGood, Sampled

LEMMA MatrixPass ==
  ASSUME MInv, PassStep
  PROVE  MInv'
<1>1. /\ Next /\ q' = q /\ cells' = cells /\ samples' = samples /\ matrix' = matrix
      /\ pc # "filled" /\ pc' # "filled" /\ pc' # "next pass"
      /\ pass' = IF pc = "next pass" THEN pass + 1 ELSE pass
      /\ pc' = "collect" => round' = 1
  BY PassMoves DEF matrixVars
<1>2. OriginGood
  BY <1>1 DEF MInv
<1>3. RInv' /\ CInv' /\ SInv'
  BY <1>1, <1>2, InvNext, ClosedNext, RealNext DEF OriginGood
<1>4. CellsGood'
  BY <1>1 DEF CellsGood
<1>5. SamplesGood'
  <2>1. pass \in Int
    <3>1. pass \in 0 .. Len(q.departures) /\ q \in Queries
      BY <1>2 DEF OriginGood, RInv, TypeOK
    <3> QED BY <3>1, DeparturesSeq
  <2>2. Finished' = Finished
    <3>1. CASE pc = "next pass"
      <4>1. Finished' = (pass + 1) - 1 /\ Finished = pass
        BY <1>1, <3>1 DEF Finished
      <4> QED BY <2>1, <4>1
    <3>2. CASE pc # "next pass"
      BY <1>1, <3>2 DEF Finished
    <3> QED BY <3>1, <3>2
  <2> QED BY <1>1, <1>2, <2>2, SamplesStay DEF OriginGood
<1>6. RowsGood'
  BY <1>1, RowsStay DEF MInv
<1> QED BY <1>1, <1>3, <1>4, <1>5, <1>6 DEF MInv, OriginGood

\* A finished pass is folded: the search itself stays as it is.
LEMMA FoldStays ==
  ASSUME RInv, CInv, SInv, FoldPass
  PROVE  RInv' /\ CInv' /\ SInv'
<1>1. /\ q' = q /\ UNCHANGED <<tau, labels, best, marked, pass, round, transit, pending, thresholds, journeys>>
      /\ UNCHANGED <<queue_position, pattern, position, currents>>
      /\ q \in Queries /\ TablesOK /\ marked \subseteq Stops
      /\ pc = "collect" /\ pc' = "next pass"
  BY TablesTyped DEF RInv, FoldPass, tables, scanning, emitted, TablesOK
<1>2. RInv'
  <2>1. TablesOK' /\ ChainsConsistent' /\ BestIsPrefixMin'
    BY <1>1, TablesSame DEF RInv
  <2>2. TypeOK'
    BY <1>1, <2>1 DEF RInv, TypeOK, TablesOK, InRound, InScan, StopsOf, Rides, Rounds
  <2>3. BoardedGood' /\ TransitGood' /\ PendingGood'
    BY <1>1 DEF RInv, TransitGood, BoardedGood, PendingGood, InScan
  <2> QED BY <2>1, <2>2, <2>3 DEF RInv
<1>3. CInv'
  BY <1>1, <1>2, ClosedAtRest
<1>4. SInv'
  BY <1>1, <1>2, RealQuiet DEF Scanning, InScan
<1> QED BY <1>2, <1>3, <1>4

LEMMA MatrixFold ==
  ASSUME MInv, FoldPass
  PROVE  MInv'
<1>1. /\ q' = q /\ pc = "collect" /\ pc' = "next pass" /\ pass' = pass /\ matrix' = matrix
  BY DEF FoldPass
<1>2. OriginGood /\ q.use = "matrix"
  BY <1>1 DEF MInv
<1>3. RInv /\ CInv /\ SInv /\ PassEnded /\ q \in Queries
  BY <1>1, <1>2 DEF OriginGood, PassEnded, RInv, TypeOK
<1>4. RInv' /\ CInv' /\ SInv'
  BY <1>3, FoldStays
<1>5. CellsGood'
  <2> SUFFICES ASSUME q.product = "fastest", Fit(q), NEW p \in Points
               PROVE  FastestExact(q, p, cells'[p])
    BY <1>1 DEF CellsGood, Points
  <2>1. cells'[p] = Fastest(p)
    BY DEF FoldPass
  <2> QED BY <1>2, <1>3, <2>1, FastestFold
<1>6. SamplesGood'
  <2> SUFFICES ASSUME q.product = "window"
               PROVE  /\ samples' \in Seq(Sample) /\ Len(samples') = pass
                      /\ \A i \in 1 .. Len(samples') : Sampled(i, samples'[i])
    BY <1>1 DEF SamplesGood, Finished, Sampled
  <2>1. PICK new : new = [mark |-> Now, arrivals |-> best[q.rounds]]
    OBVIOUS
  <2>2. samples' = Append(samples, new)
    BY <2>1 DEF FoldPass
  <2>3. /\ pass \in Nat /\ Now \in Nat /\ best[q.rounds] \in [Stops -> 0 .. Unreached]
        /\ Fit(q) => best[q.rounds] = R!Earliest(q, {Now})[q.rounds]
    <3>1. pass \in 1 .. Len(q.departures) /\ Len(q.departures) \in Nat
      BY <1>3, PassAlone, DeparturesSeq
    <3> QED BY <1>3, <3>1, PassAlone
  <2>4. new \in Sample /\ Sampled(pass, new)
    BY <2>1, <2>3 DEF Sample, Sampled, Now
  <2>5. samples \in Seq(Sample) /\ Len(samples) = pass - 1 /\ \A i \in 1 .. Len(samples) : Sampled(i, samples[i])
    BY <1>1, <1>2 DEF OriginGood, SamplesGood, Finished
  <2>6. /\ samples' \in Seq(Sample) /\ Len(samples') = pass
        /\ \A i \in 1 .. pass : (i \in 1 .. Len(samples) /\ samples'[i] = samples[i]) \/ (i = pass /\ samples'[i] = new)
    BY <2>2, <2>3, <2>4, <2>5
  <2> QED BY <2>4, <2>5, <2>6
<1>7. RowsGood'
  BY <1>1, RowsStay DEF MInv
<1> QED BY <1>1, <1>2, <1>4, <1>5, <1>6, <1>7 DEF MInv, OriginGood

\* The next origin's request asks of the same timetable.
LEMMA RequestFollows ==
  ASSUME q \in Queries, q.use = "matrix", q.origins # <<>>, NEW n, n = NextRequest(q)
  PROVE  /\ n \in Queries /\ n.use = "matrix"
         /\ n.rounds = q.rounds /\ n.trips = q.trips /\ n.pattern_stops = q.pattern_stops
<1>1. {"rounds", "trips", "pattern_stops"} \subseteq DOMAIN q /\ n \in {m \in Queries : m.use = "matrix"}
  BY MatrixAssumption DEF WellFormedMatrix
<1>2. n.rounds = q.rounds /\ n.trips = q.trips /\ n.pattern_stops = q.pattern_stops
  BY <1>1 DEF NextRequest
<1> QED BY <1>1, <1>2

\* What a reset leaves is a search about to begin.
LEMMA NextOriginBlank ==
  ASSUME RInv, q.use = "matrix", NextOrigin
  PROVE  Blank' /\ q'.use = "matrix"
<1>1. /\ q' = NextRequest(q) /\ q.origins # <<>> /\ pc = "next pass" /\ pc' = pc
      /\ pass' = 0 /\ round' = round /\ tau' = AllUnreached /\ best' = AllUnreached
      /\ labels' = [k \in Rounds |-> [s \in Stops |-> NoLabel]]
      /\ marked' = {} /\ transit' = [s \in Stops |-> NoRide] /\ pending' = pending
      /\ UNCHANGED <<queue_position, currents, thresholds, journeys>>
  BY DEF NextOrigin, OriginEnds, scanning, emitted
<1>2. /\ q \in Queries /\ round \in Rounds /\ pending = {}
      /\ DOMAIN queue_position \subseteq DOMAIN q.pattern_stops
      /\ \A p \in DOMAIN queue_position : queue_position[p] \in 1 .. Len(StopsOf(p))
      /\ currents \in [Streams -> {NoRide} \cup [trip : q.trips, board : Nat]]
      /\ thresholds \in [Rounds -> 0 .. Unreached]
      /\ \A j \in journeys : j.departure \in Times /\ j.arrival \in Times /\ j.rides \in 1 .. q.rounds
  BY <1>1 DEF RInv, TypeOK
<1>3. /\ q' \in Queries /\ q'.use = "matrix"
      /\ q'.rounds = q.rounds /\ q'.trips = q.trips /\ q'.pattern_stops = q.pattern_stops
  BY <1>1, <1>2, RequestFollows
<1>4. Rounds' = Rounds /\ AllUnreached' = AllUnreached
  BY <1>3 DEF Rounds, AllUnreached
<1>5. \A p \in DOMAIN queue_position' : queue_position'[p] \in 1 .. Len(StopsOf(p)')
  BY <1>1, <1>2, <1>3 DEF StopsOf
<1>6. Blank'
  BY <1>1, <1>2, <1>3, <1>4, <1>5 DEF Blank
<1> QED BY <1>3, <1>6

LEMMA MatrixNextOrigin ==
  ASSUME MInv, NextOrigin
  PROVE  MInv'
<1>1. /\ pc = "next pass" /\ pc' = pc /\ pass' = 0 /\ samples' = <<>> /\ matrix' = Append(matrix, OriginRow) /\ OriginEnds
  BY DEF NextOrigin, OriginEnds
<1>2. OriginGood /\ q.use = "matrix"
  BY <1>1 DEF MInv
<1>3. Blank' /\ q'.use = "matrix"
  BY <1>2, NextOriginBlank DEF OriginGood
<1>4. RInv' /\ CInv' /\ SInv'
  <2>1. Blank' => RInv'
    BY InvBlank, PTL
  <2>2. Blank' => CInv'
    BY ClosedBlank, PTL
  <2>3. Blank' => SInv'
    BY RealBlank, PTL
  <2> QED BY <1>3, <2>1, <2>2, <2>3
<1>5. CellsGood'
  <2>1. (q \in Queries)'
    BY <1>3 DEF Blank
  <2>2. (q.product = "fastest")' => Len(q.departures)' = 1
    BY <1>3, <2>1, MatrixAssumption DEF WellFormedMatrix
  <2>3. 0 # 1
    OBVIOUS
  <2> QED BY <1>1, <2>2, <2>3 DEF CellsGood
<1>6. SamplesGood'
  <2>1. samples' \in Seq(Sample) /\ Len(samples') = 0 /\ 1 .. Len(samples') = {}
    BY <1>1, EmptySequence
  <2>2. Finished' = 0
    BY <1>1 DEF Finished
  <2> QED BY <2>1, <2>2 DEF SamplesGood
<1>7. RowsGood'
  <2>1. PICK row : row = OriginRow
    OBVIOUS
  <2>2. row.request = q
    BY <2>1 DEF OriginRow
  <2>3. Fit(row.request) => RowExact(row)
    BY <1>1, <1>2, <2>1, <2>2, RowGood
  <2> QED BY <1>1, <2>1, <2>3, RowsAppend DEF MInv
<1> QED BY <1>1, <1>3, <1>4, <1>5, <1>6, <1>7 DEF MInv, OriginGood

LEMMA MatrixLastOrigin ==
  ASSUME MInv, LastOrigin
  PROVE  MInv'
<1>1. pc = "next pass" /\ pc' = "filled" /\ q' = q /\ matrix' = Append(matrix, OriginRow) /\ OriginEnds
  BY DEF LastOrigin, OriginEnds
<1>2. OriginGood /\ q.use = "matrix"
  BY <1>1 DEF MInv
<1>3. RowsGood'
  <2>1. PICK row : row = OriginRow
    OBVIOUS
  <2>2. row.request = q
    BY <2>1 DEF OriginRow
  <2>3. Fit(row.request) => RowExact(row)
    BY <1>1, <1>2, <2>1, <2>2, RowGood
  <2> QED BY <1>1, <2>1, <2>3, RowsAppend DEF MInv
<1> QED BY <1>1, <1>2, <1>3 DEF MInv

LEMMA MatrixStutter ==
  ASSUME MInv, UNCHANGED <<vars, matrixVars>>
  PROVE  MInv'
<1>1. UNCHANGED vars /\ q' = q /\ pc' = pc /\ pass' = pass /\ round' = round
  BY DEF vars
<1>2. cells' = cells /\ samples' = samples /\ matrix' = matrix
  BY DEF matrixVars
<1>3. ASSUME OriginGood PROVE OriginGood'
  <2>1. RInv' /\ CInv' /\ SInv'
    BY <1>1, <1>3, InvNext, ClosedNext, RealNext DEF OriginGood
  <2>2. CellsGood'
    BY <1>1, <1>2, <1>3 DEF OriginGood, CellsGood, Points
  <2>3. SamplesGood'
    BY <1>1, <1>2, <1>3, SamplesStay DEF OriginGood, Finished
  <2> QED BY <1>1, <1>3, <2>1, <2>2, <2>3 DEF OriginGood
<1>4. RowsGood'
  BY <1>2, RowsStay DEF MInv
<1> QED BY <1>1, <1>3, <1>4 DEF MInv

LEMMA MatrixStarts ==
  ASSUME q.use = "matrix", Init, MatrixInit
  PROVE  MInv
<1>1. Blank
  BY InitBlank
<1>2. RInv /\ CInv /\ SInv
  BY <1>1, InvBlank, ClosedBlank, RealBlank
<1>3. pc = "next pass" /\ pass = 0 /\ samples = <<>> /\ matrix = <<>> /\ q \in Queries
  BY DEF Init, MatrixInit
<1>4. CellsGood
  <2>1. q.product = "fastest" => Len(q.departures) = 1
    BY <1>3, MatrixAssumption DEF WellFormedMatrix
  <2>2. 0 # 1
    OBVIOUS
  <2> QED BY <1>3, <2>1, <2>2 DEF CellsGood
<1>5. SamplesGood
  <2>1. samples \in Seq(Sample) /\ Len(samples) = 0 /\ 1 .. Len(samples) = {}
    BY <1>3, EmptySequence
  <2>2. Finished = 0
    BY <1>3 DEF Finished
  <2> QED BY <2>1, <2>2 DEF SamplesGood
<1>6. RowsGood
  <2>1. matrix \in Seq({}) /\ DOMAIN matrix = {}
    BY <1>3, EmptySequence
  <2> QED BY <2>1 DEF RowsGood
<1> QED BY <1>2, <1>3, <1>4, <1>5, <1>6 DEF MInv, OriginGood

\* Whatever origins a worker searched before, a row of fastest times has the
\* exact time of every destination, and a row of percentiles the nearest ranks
\* of the exact times at every mark: no table, cell or sample of an earlier
\* origin, and no order of a pass's scans, shows in it (matrices.rs,
\* travel_time_matrix, travel_time_percentiles; search.rs, Search::reset).
THEOREM MatrixRowsExact ==
  MatrixSpec => [](\A i \in DOMAIN matrix : Fit(matrix[i].request) => RowExact(matrix[i]))
<1>1. q.use = "matrix" /\ Init /\ MatrixInit => MInv
  BY MatrixStarts
<1>2. MInv /\ [MatrixNext]_<<vars, matrixVars>> => MInv'
  BY MatrixPass, MatrixFold, MatrixNextOrigin, MatrixLastOrigin, MatrixStutter DEF MatrixNext
<1>3. MInv => \A i \in DOMAIN matrix : Fit(matrix[i].request) => RowExact(matrix[i])
  BY DEF MInv, RowsGood
<1> QED BY <1>1, <1>2, <1>3, PTL DEF MatrixSpec
=============================================================================
