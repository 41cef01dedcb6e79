------------------------ MODULE TimetableBuild_proofs ------------------------
(***************************************************************************)
(* Theorems about TimetableBuild, for any feed: no trip of a pattern       *)
(* overtakes another, a pattern is split only where its trips overtake,    *)
(* and every lookup returns the best trip that can be caught.              *)
(***************************************************************************)
EXTENDS TimetableBuild, FiniteSetTheorems, WellFoundedInduction, TLAPS

----------------------------------------------------------------------------
(* Numbers and sequences.                                                  *)

\* A nonempty set of naturals has a least element.
LEMMA LeastNat ==
  ASSUME NEW T, T \subseteq Nat, T # {}
  PROVE  \E x \in T : \A y \in T : x <= y
<1>1. IsWellFoundedOn(OpToRel(<, Nat), Nat)
  BY NatLessThanWellFounded
<1>2. PICK x \in T : \A y \in T : ~(<<y, x>> \in OpToRel(<, Nat))
  BY <1>1, WFMin
<1>3. \A y \in T : ~(y < x)
  BY <1>2 DEF OpToRel
<1> QED BY <1>3

\* A nonempty set of naturals below a bound has a greatest element.
LEMMA GreatestBelow ==
  ASSUME NEW n \in Nat, NEW T, T \subseteq 0 .. n, T # {}
  PROVE  \E x \in T : \A y \in T : y <= x
<1> DEFINE U == {u \in Nat : u <= n /\ n - u \in T}
<1>1. U \subseteq Nat /\ U # {}
  <2>1. PICK y \in T : TRUE
    OBVIOUS
  <2>2. n - y \in Nat /\ n - y <= n /\ n - (n - y) = y
    BY <2>1
  <2> QED BY <2>1, <2>2
<1> HIDE DEF U
<1>2. PICK u \in U : \A w \in U : u <= w
  BY <1>1, LeastNat
<1>3. u \in Nat /\ n - u \in T
  BY DEF U
<1>4. ASSUME NEW y \in T PROVE y <= n - u
  <2>1. y \in 0 .. n
    OBVIOUS
  <2>2. n - y \in Nat /\ n - y <= n /\ n - (n - y) = y
    BY <2>1
  <2>3. n - y \in U
    BY <2>2 DEF U
  <2>4. u <= n - y
    BY <1>2, <2>3
  <2> QED BY <1>3, <2>1, <2>4
<1> QED BY <1>3, <1>4

LEMMA ElementOfSeq == \A S : \A x \in Seq(S) : \A i \in 1 .. Len(x) : x[i] \in S
  OBVIOUS

LEMMA FunctionIsSeq ==
  ASSUME NEW S, NEW n \in Nat, NEW f \in [1 .. n -> S]
  PROVE  f \in Seq(S) /\ Len(f) = n
OBVIOUS

\* The division of interpolation keeps a share of the span within it.
LEMMA ShareOfSpan ==
  ASSUME NEW span \in Nat, NEW part \in Nat, NEW gaps \in Nat, gaps > 0
  PROVE  (span * part) \div gaps \in Nat
<1>1. span * part \in Nat
  OBVIOUS
<1>2. \A m \in Nat : \A k \in Nat : k > 0 => m \div k \in Nat
  OBVIOUS
<1> QED BY <1>1, <1>2

----------------------------------------------------------------------------
(* The times of a trip that is added.                                      *)

\* A given field, once a lone time stands for both, is blank in full or not at all.
TimedFields == [arrival : Fields, departure : Fields]
Givens == {given \in Seq(TimedFields) :
             \A i \in 1 .. Len(given) : IsTimed(given[i]) => given[i].departure \in Nat}

LEMMA TimedType ==
  ASSUME NEW field \in TimedFields
  PROVE  /\ Timed(field) \in TimedFields
         /\ IsTimed(Timed(field)) => Timed(field).arrival \in Nat /\ Timed(field).departure \in Nat
  BY BlankAssumption DEF TimedFields, Timed, IsTimed, Fields

\* a and b are the timed stops nearest to the blank stop i.
Surround(given, a, i, b) ==
  /\ a \in 1 .. i - 1 /\ b \in i + 1 .. Len(given)
  /\ IsTimed(given[a]) /\ IsTimed(given[b])
  /\ \A j \in a + 1 .. b - 1 : ~IsTimed(given[j])
Span(given, a, b) ==
  IF given[b].arrival > given[a].departure THEN given[b].arrival - given[a].departure ELSE 0

LEMMA BlankSurrounded ==
  ASSUME NEW given \in Givens, Len(given) >= 2, Anchored(given),
         NEW i \in 1 .. Len(given), ~IsTimed(given[i])
  PROVE  \E a, b \in 1 .. Len(given) : Surround(given, a, i, b)
<1> DEFINE n == Len(given)
           Earlier1 == {a \in 1 .. i - 1 : IsTimed(given[a])}
           Later1 == {b \in i + 1 .. n : IsTimed(given[b])}
<1>1. n \in Nat /\ given \in Seq(TimedFields)
  BY DEF Givens
<1>2. i # 1 /\ i # n /\ i \in Nat /\ i > 1 /\ i < n
  BY <1>1 DEF Anchored
<1>3. 1 \in Earlier1 /\ n \in Later1
  BY <1>1, <1>2 DEF Anchored
<1>4. PICK a \in 1 .. i - 1 : IsTimed(given[a]) /\ \A j \in a + 1 .. i - 1 : ~IsTimed(given[j])
  <2> HIDE DEF n, Later1
  <2>1. Earlier1 \subseteq 0 .. i - 1 /\ Earlier1 # {} /\ i - 1 \in Nat
    BY <1>2, <1>3
  <2> HIDE DEF Earlier1
  <2>2. PICK a \in Earlier1 : \A y \in Earlier1 : y <= a
    BY <2>1, GreatestBelow
  <2> USE DEF Earlier1
  <2> QED BY <2>2, <1>2
<1>5. PICK b \in i + 1 .. n : IsTimed(given[b]) /\ \A j \in i + 1 .. b - 1 : ~IsTimed(given[j])
  <2> HIDE DEF Earlier1
  <2>1. Later1 \subseteq Nat /\ Later1 # {}
    BY <1>1, <1>2, <1>3
  <2> HIDE DEF Later1
  <2>2. PICK b \in Later1 : \A y \in Later1 : b <= y
    BY <2>1, LeastNat
  <2> USE DEF Later1
  <2> QED BY <2>2, <1>1, <1>2
<1> HIDE DEF Earlier1, Later1, n
<1>6. \A j \in a + 1 .. b - 1 : j \in a + 1 .. i - 1 \/ j = i \/ j \in i + 1 .. b - 1
  BY <1>1, <1>2
<1>7. Surround(given, a, i, b)
  BY <1>4, <1>5, <1>6 DEF Surround, n
<1>8. a \in 1 .. n /\ b \in 1 .. n
  BY <1>1, <1>2, <1>4, <1>5
<1> QED BY <1>7, <1>8 DEF n

\* Interpolation measures from those two stops and no others.
LEMMA BetweenNearest ==
  ASSUME NEW given \in Givens, NEW a, NEW b, NEW i \in 1 .. Len(given), Surround(given, a, i, b)
  PROVE  Between(given, i) = given[a].departure + (Span(given, a, b) * (i - a)) \div (b - a)
<1> DEFINE IsBefore(x) == IsTimed(given[x]) /\ \A j \in x + 1 .. i - 1 : ~IsTimed(given[j])
           IsAfter(x) == IsTimed(given[x]) /\ \A j \in i + 1 .. x - 1 : ~IsTimed(given[j])
<1>1. Len(given) \in Nat
  BY DEF Givens
<1>2. a \in 1 .. i - 1 /\ b \in i + 1 .. Len(given) /\ IsTimed(given[a]) /\ IsTimed(given[b])
      /\ \A j \in a + 1 .. b - 1 : ~IsTimed(given[j])
  BY DEF Surround
<1>3. IsBefore(a) /\ \A x \in 1 .. i - 1 : IsBefore(x) => x = a
  <2>1. IsBefore(a)
    BY <1>1, <1>2
  <2>2. ASSUME NEW x \in 1 .. i - 1, IsBefore(x), x # a PROVE FALSE
    <3>1. x < a => a \in x + 1 .. i - 1
      BY <1>1, <1>2
    <3>2. x > a => x \in a + 1 .. b - 1
      BY <1>1, <1>2
    <3> QED BY <1>1, <1>2, <2>2, <3>1, <3>2
  <2> HIDE DEF IsBefore
  <2> QED BY <2>1, <2>2
<1>4. IsAfter(b) /\ \A x \in i + 1 .. Len(given) : IsAfter(x) => x = b
  <2>1. IsAfter(b)
    BY <1>1, <1>2
  <2>2. ASSUME NEW x \in i + 1 .. Len(given), IsAfter(x), x # b PROVE FALSE
    <3>1. x > b => b \in i + 1 .. x - 1
      BY <1>1, <1>2
    <3>2. x < b => x \in a + 1 .. b - 1
      BY <1>1, <1>2
    <3> QED BY <1>1, <1>2, <2>2, <3>1, <3>2
  <2> HIDE DEF IsAfter
  <2> QED BY <2>1, <2>2
<1> DEFINE before == CHOOSE x \in 1 .. i - 1 : IsBefore(x)
           after == CHOOSE x \in i + 1 .. Len(given) : IsAfter(x)
<1>5. before = a
  <2> HIDE DEF IsBefore
  <2> QED BY <1>2, <1>3
<1>6. after = b
  <2> HIDE DEF IsAfter
  <2> QED BY <1>2, <1>4
<1>7. Between(given, i) =
        given[before].departure
        + ((IF given[after].arrival > given[before].departure
              THEN given[after].arrival - given[before].departure ELSE 0)
           * (i - before)) \div (after - before)
  BY DEF Between
<1> HIDE DEF before, after, IsBefore, IsAfter
<1> QED BY <1>5, <1>6, <1>7 DEF Span

LEMMA SpanType ==
  ASSUME NEW given \in Givens, NEW a \in 1 .. Len(given), NEW b \in 1 .. Len(given),
         IsTimed(given[a]), IsTimed(given[b])
  PROVE  /\ given[a].departure \in Nat /\ given[b].arrival \in Nat
         /\ Span(given, a, b) \in Nat
<1>1. given \in Seq(TimedFields) /\ given[a].departure \in Nat
  BY DEF Givens
<1>2. given[b] \in TimedFields
  BY <1>1, ElementOfSeq
<1>3. given[b].arrival \in Nat
  BY <1>2 DEF TimedFields, Fields, IsTimed
<1> QED BY <1>1, <1>3 DEF Span

LEMMA BetweenType ==
  ASSUME NEW given \in Givens, Len(given) >= 2, Anchored(given),
         NEW i \in 1 .. Len(given), ~IsTimed(given[i])
  PROVE  Between(given, i) \in Nat
<1>1. PICK a, b \in 1 .. Len(given) : Surround(given, a, i, b)
  BY BlankSurrounded
<1>2. Between(given, i) = given[a].departure + (Span(given, a, b) * (i - a)) \div (b - a)
  BY <1>1, BetweenNearest
<1>3. Len(given) \in Nat /\ i - a \in Nat /\ b - a \in Nat /\ b - a > 0
  BY <1>1 DEF Surround, Givens
<1>4. given[a].departure \in Nat /\ Span(given, a, b) \in Nat
  BY <1>1, SpanType DEF Surround
<1>5. (Span(given, a, b) * (i - a)) \div (b - a) \in Nat
  BY <1>3, <1>4, ShareOfSpan
<1> QED BY <1>2, <1>4, <1>5

LEMMA FilledType ==
  ASSUME NEW given \in Givens, Len(given) >= 2, Anchored(given)
  PROVE  Filled(given) \in StopTimes /\ Len(Filled(given)) = Len(given)
<1>1. Len(given) \in Nat /\ given \in Seq(TimedFields)
  BY DEF Givens
<1>2. ASSUME NEW i \in 1 .. Len(given)
      PROVE  Filled(given)[i] \in [arrival : Nat, departure : Nat]
  <2>1. CASE IsTimed(given[i])
    <3>1. Filled(given)[i] = given[i]
      BY <2>1 DEF Filled
    <3>2. given[i] \in TimedFields
      BY <1>1, ElementOfSeq
    <3>3. given[i].departure \in Nat
      BY <2>1 DEF Givens
    <3>4. given[i].arrival \in Nat
      BY <2>1, <3>2 DEF IsTimed, TimedFields, Fields
    <3> QED BY <3>1, <3>2, <3>3, <3>4 DEF TimedFields
  <2>2. CASE ~IsTimed(given[i])
    <3>1. Between(given, i) \in Nat
      BY <2>2, BetweenType
    <3>2. Filled(given)[i] = [arrival |-> Between(given, i), departure |-> Between(given, i)]
      BY <2>2 DEF Filled
    <3> QED BY <3>1, <3>2
  <2> QED BY <2>1, <2>2
<1>3. Filled(given) = [i \in 1 .. Len(given) |-> Filled(given)[i]]
  BY DEF Filled
<1>4. Filled(given) \in [1 .. Len(given) -> [arrival : Nat, departure : Nat]]
  BY <1>2, <1>3
<1> QED BY <1>1, <1>4, FunctionIsSeq DEF StopTimes

LEMMA StopTimesFields ==
  ASSUME NEW a \in StopTimes, NEW i \in 1 .. Len(a)
  PROVE  a[i].arrival \in Nat /\ a[i].departure \in Nat
<1>1. a[i] \in [arrival : Nat, departure : Nat]
  BY ElementOfSeq DEF StopTimes
<1> QED BY <1>1

\* The share of a span grows with the part asked for, and never beyond the span.
LEMMA ShareGrows ==
  ASSUME NEW span \in Nat, NEW k \in Nat, NEW l \in Nat, k <= l, NEW gaps \in Nat, gaps > 0
  PROVE  (span * k) \div gaps <= (span * l) \div gaps
<1>1. span * k \in Nat /\ span * l \in Nat /\ span * k <= span * l
  OBVIOUS
<1>2. \A m, n, g \in Nat : g > 0 /\ m <= n => m \div g <= n \div g
  OBVIOUS
<1> QED BY <1>1, <1>2

LEMMA WholeShare ==
  ASSUME NEW span \in Nat, NEW gaps \in Nat, gaps > 0
  PROVE  (span * gaps) \div gaps = span
OBVIOUS

\* The given times run forwards: at each timed stop, and from each to every later one.
Flow(given) ==
  \A i \in 1 .. Len(given) : IsTimed(given[i]) =>
    /\ given[i].arrival <= given[i].departure
    /\ \A j \in 1 .. i - 1 : IsTimed(given[j]) => given[j].departure <= given[i].arrival

\* Where they do, no blank that interpolation fills comes before the stop
\* ahead of it or after the next one.
LEMMA FilledForwards ==
  ASSUME NEW given \in Givens, Len(given) >= 2, Anchored(given), Flow(given)
  PROVE  Forwards(Filled(given))
<1> DEFINE n == Len(given)
           f == Filled(given)
<1>1. n \in Nat /\ given \in Seq(TimedFields) /\ f \in StopTimes /\ Len(f) = n
  BY FilledType DEF Givens
<1>2. \A i \in 1 .. n : IsTimed(given[i]) => f[i] = given[i]
  BY DEF Filled
<1>3. \A i \in 1 .. n : ~IsTimed(given[i]) =>
        f[i].arrival = Between(given, i) /\ f[i].departure = Between(given, i)
  BY DEF Filled
<1>4. \A i \in 1 .. n : f[i].arrival \in Nat /\ f[i].departure \in Nat
  BY <1>1, StopTimesFields
<1> HIDE DEF f
<1>5. ASSUME NEW i \in 1 .. n PROVE f[i].arrival <= f[i].departure
  <2>1. CASE IsTimed(given[i])
    BY <2>1, <1>2 DEF Flow
  <2>2. CASE ~IsTimed(given[i])
    BY <2>2, <1>3, <1>4
  <2> QED BY <2>1, <2>2
\* What a blank stop is given, with the timed stops around it named.
<1>6. ASSUME NEW a, NEW b, NEW i \in 1 .. n, Surround(given, a, i, b)
      PROVE  /\ a \in 1 .. n /\ b \in 1 .. n /\ a < i /\ i < b
             /\ IsTimed(given[a]) /\ IsTimed(given[b])
             /\ given[a].departure \in Nat /\ Span(given, a, b) \in Nat
             /\ given[a].departure + Span(given, a, b) = given[b].arrival
             /\ i - a \in Nat /\ b - a \in Nat /\ b - a > 0 /\ i - a <= b - a
             /\ (Span(given, a, b) * (i - a)) \div (b - a) \in Nat
             /\ ~IsTimed(given[i])
  <2>1. a \in 1 .. n /\ b \in 1 .. n /\ a < i /\ i < b /\ IsTimed(given[a]) /\ IsTimed(given[b])
        /\ a \in 1 .. b - 1 /\ i \in a + 1 .. b - 1
    BY <1>1, <1>6 DEF Surround
  <2>2. given[a].departure \in Nat /\ given[b].arrival \in Nat /\ Span(given, a, b) \in Nat
    BY <2>1, SpanType
  <2>3. given[a].departure <= given[b].arrival
    BY <2>1 DEF Flow
  <2>4. given[a].departure + Span(given, a, b) = given[b].arrival
    BY <2>2, <2>3 DEF Span
  <2>5. i - a \in Nat /\ b - a \in Nat /\ b - a > 0 /\ i - a <= b - a
    BY <1>1, <2>1
  <2>6. (Span(given, a, b) * (i - a)) \div (b - a) \in Nat
    BY <2>2, <2>5, ShareOfSpan
  <2>7. ~IsTimed(given[i])
    BY <2>1, <1>6 DEF Surround
  <2> QED BY <2>1, <2>2, <2>4, <2>5, <2>6, <2>7
<1>7. ASSUME NEW i \in 1 .. n, i > 1 PROVE f[i - 1].departure <= f[i].arrival
  <2>1. i - 1 \in 1 .. n /\ i - 1 \in 1 .. i - 1
    BY <1>1, <1>7
  <2>2. CASE IsTimed(given[i - 1]) /\ IsTimed(given[i])
    BY <2>1, <2>2, <1>2 DEF Flow
  <2>3. CASE IsTimed(given[i - 1]) /\ ~IsTimed(given[i])
    <3>1. PICK a, b \in 1 .. n : Surround(given, a, i, b)
      BY <2>3, BlankSurrounded
    <3>2. a = i - 1
      <4>1. a \in 1 .. i - 1 /\ b \in i + 1 .. n /\ \A j \in a + 1 .. b - 1 : ~IsTimed(given[j])
        BY <3>1 DEF Surround
      <4>2. a < i - 1 => i - 1 \in a + 1 .. b - 1
        BY <4>1, <1>1
      <4> QED BY <4>1, <4>2, <2>3
    <3>3. f[i].arrival = given[a].departure + (Span(given, a, b) * (i - a)) \div (b - a)
      BY <2>3, <3>1, <1>3, BetweenNearest
    <3>4. f[i - 1] = given[a]
      BY <2>1, <2>3, <3>2, <1>2
    <3>5. given[a].departure \in Nat /\ (Span(given, a, b) * (i - a)) \div (b - a) \in Nat
      BY <3>1, <1>6
    <3> QED BY <3>3, <3>4, <3>5
  <2>4. CASE ~IsTimed(given[i - 1]) /\ IsTimed(given[i])
    <3>1. PICK a, b \in 1 .. n : Surround(given, a, i - 1, b)
      BY <2>1, <2>4, BlankSurrounded
    <3>2. b = i
      <4>1. a \in 1 .. i - 2 /\ b \in i .. n /\ \A j \in a + 1 .. b - 1 : ~IsTimed(given[j])
        BY <3>1, <1>1 DEF Surround
      <4>2. b > i => i \in a + 1 .. b - 1
        BY <4>1, <1>1
      <4> QED BY <4>1, <4>2, <2>4
    <3>3. f[i - 1].departure
            = given[a].departure + (Span(given, a, b) * (i - 1 - a)) \div (b - a)
      BY <2>1, <2>4, <3>1, <1>3, BetweenNearest
    <3>4. f[i].arrival = given[b].arrival
      BY <2>4, <3>2, <1>2
    <3>5. /\ given[a].departure \in Nat /\ Span(given, a, b) \in Nat
          /\ given[a].departure + Span(given, a, b) = given[b].arrival
          /\ i - 1 - a \in Nat /\ b - a \in Nat /\ b - a > 0 /\ i - 1 - a <= b - a
          /\ (Span(given, a, b) * (i - 1 - a)) \div (b - a) \in Nat
      BY <2>1, <3>1, <1>6
    <3> DEFINE span == Span(given, a, b)
               k == i - 1 - a
               gaps == b - a
               share == (span * k) \div gaps
    <3>6. share <= span
      <4> HIDE DEF span, k, gaps
      <4>1. share <= (span * gaps) \div gaps
        BY <3>5, ShareGrows DEF span, k, gaps
      <4>2. (span * gaps) \div gaps = span
        BY <3>5, WholeShare DEF span, k, gaps
      <4> QED BY <4>1, <4>2
    <3> HIDE DEF span, k, gaps, share
    <3>7. f[i - 1].departure = given[a].departure + share /\ given[a].departure + span = given[b].arrival
          /\ span \in Nat /\ share \in Nat
      BY <3>3, <3>5 DEF span, k, gaps, share
    <3> QED BY <3>4, <3>5, <3>6, <3>7, SMTT(30)
  <2>5. CASE ~IsTimed(given[i - 1]) /\ ~IsTimed(given[i])
    <3>1. PICK a, b \in 1 .. n : Surround(given, a, i, b)
      BY <2>5, BlankSurrounded
    <3>2. Surround(given, a, i - 1, b)
      <4>1. /\ a \in 1 .. i - 1 /\ b \in i + 1 .. n /\ IsTimed(given[a]) /\ IsTimed(given[b])
            /\ \A j \in a + 1 .. b - 1 : ~IsTimed(given[j])
        BY <3>1 DEF Surround
      <4>2. a # i - 1
        BY <4>1, <2>5
      <4>3. a \in 1 .. (i - 1) - 1 /\ b \in (i - 1) + 1 .. n
        BY <4>1, <4>2, <1>1
      <4> QED BY <4>1, <4>3 DEF Surround
    <3>3. f[i - 1].departure
            = given[a].departure + (Span(given, a, b) * (i - 1 - a)) \div (b - a)
      BY <2>1, <2>5, <3>2, <1>3, BetweenNearest
    <3>4. f[i].arrival = given[a].departure + (Span(given, a, b) * (i - a)) \div (b - a)
      BY <2>5, <3>1, <1>3, BetweenNearest
    <3>5. /\ given[a].departure \in Nat /\ Span(given, a, b) \in Nat
          /\ i - a \in Nat /\ b - a \in Nat /\ b - a > 0
          /\ (Span(given, a, b) * (i - a)) \div (b - a) \in Nat
      BY <3>1, <1>6
    <3>6. i - 1 - a \in Nat /\ (Span(given, a, b) * (i - 1 - a)) \div (b - a) \in Nat
      BY <2>1, <3>2, <1>6
    <3> DEFINE span == Span(given, a, b)
               k == i - 1 - a
               l == i - a
               gaps == b - a
               share == (span * k) \div gaps
               more == (span * l) \div gaps
    <3>7. share <= more
      <4>1. k <= l
        <5>1. i \in Int /\ a \in Int
          BY <1>1
        <5> HIDE DEF share, more, span, gaps
        <5> QED BY <5>1
      <4> HIDE DEF span, k, l, gaps
      <4>2. span \in Nat /\ k \in Nat /\ l \in Nat /\ gaps \in Nat /\ gaps > 0
        BY <3>5, <3>6 DEF span, k, l, gaps
      <4> QED BY <4>1, <4>2, ShareGrows
    <3> HIDE DEF span, k, l, gaps, share, more
    <3>8. /\ f[i - 1].departure = given[a].departure + share
          /\ f[i].arrival = given[a].departure + more
          /\ given[a].departure \in Nat /\ share \in Nat /\ more \in Nat
      BY <3>3, <3>4, <3>5, <3>6 DEF span, k, l, gaps, share, more
    <3> QED BY <3>7, <3>8
  <2> QED BY <2>2, <2>3, <2>4, <2>5
<1> QED BY <1>1, <1>5, <1>7 DEF Forwards, f

\* Times that run forwards from stop to stop do so between any two stops.
LEMMA ForwardsThroughout ==
  ASSUME NEW s \in StopTimes, Forwards(s), NEW j \in 1 .. Len(s), NEW i \in 1 .. Len(s), j < i
  PROVE  s[j].departure <= s[i].arrival
<1>1. Len(s) \in Nat /\ \A k \in 1 .. Len(s) : s[k].arrival \in Nat /\ s[k].departure \in Nat
  BY StopTimesFields DEF StopTimes
<1> DEFINE Bad == {k \in j + 1 .. Len(s) : ~(s[j].departure <= s[k].arrival)}
<1>2. CASE Bad = {}
  BY <1>1, <1>2, SMTT(30)
<1>3. CASE Bad # {}
  <2>1. Bad \subseteq Nat
    BY <1>1
  <2> HIDE DEF Bad
  <2>2. PICK k \in Bad : \A y \in Bad : k <= y
    BY <1>3, <2>1, LeastNat
  <2> USE DEF Bad
  <2>3. k \in 1 .. Len(s) /\ k > 1 /\ k - 1 \in 1 .. Len(s)
    BY <1>1, <2>2
  <2>4. s[k - 1].departure <= s[k].arrival /\ s[k - 1].arrival <= s[k - 1].departure
    BY <2>3 DEF Forwards
  <2>5. k - 1 # j
    BY <2>2, <2>4
  <2>6. k - 1 \in j + 1 .. Len(s) /\ k - 1 \notin Bad
    <3>1. k \in j + 1 .. Len(s)
      BY <2>2
    <3>2. k - 1 \in j + 1 .. Len(s)
      <4> HIDE DEF Bad
      <4> QED BY <1>1, <3>1, <2>5
    <3>3. k \in Int /\ k - 1 \in Int /\ ~(k <= k - 1)
      BY <3>1
    <3> HIDE DEF Bad
    <3> QED BY <2>2, <3>2, <3>3
  <2>7. s[j].departure <= s[k - 1].arrival
    BY <2>6
  <2>8. s[j].departure <= s[k].arrival
    BY <1>1, <2>3, <2>4, <2>7, SMTT(30)
  <2> QED BY <2>2, <2>8
<1> QED BY <1>2, <1>3

\* Filling blanks neither spoils a good trip nor mends a bad one.
LEMMA FilledForwardsIffFlow ==
  ASSUME NEW given \in Givens, Len(given) >= 2, Anchored(given)
  PROVE  Forwards(Filled(given)) <=> Flow(given)
<1> DEFINE f == Filled(given)
<1>1. Len(given) \in Nat /\ f \in StopTimes /\ Len(f) = Len(given)
  BY FilledType DEF Givens
<1>2. \A i \in 1 .. Len(given) : IsTimed(given[i]) => f[i] = given[i]
  BY DEF Filled
<1> HIDE DEF f
<1>3. ASSUME Forwards(f) PROVE Flow(given)
  <2>1. ASSUME NEW i \in 1 .. Len(given), IsTimed(given[i])
        PROVE  given[i].arrival <= given[i].departure
    BY <2>1, <1>1, <1>2, <1>3 DEF Forwards
  <2>2. ASSUME NEW i \in 1 .. Len(given), IsTimed(given[i]), NEW j \in 1 .. i - 1, IsTimed(given[j])
        PROVE  given[j].departure <= given[i].arrival
    <3>1. j \in 1 .. Len(f) /\ i \in 1 .. Len(f) /\ j < i
      BY <1>1
    <3>2. f[j].departure <= f[i].arrival
      BY <3>1, <1>1, <1>3, ForwardsThroughout
    <3> QED BY <3>1, <3>2, <2>2, <1>1, <1>2
  <2> QED BY <2>1, <2>2 DEF Flow
<1> QED BY <1>3, FilledForwards DEF f

----------------------------------------------------------------------------
(* The inductive invariant.                                                *)

\* Nothing is placed while the feed is read.
Fresh == pc = "reading" => at = 1 /\ left = {} /\ chains = <<>> /\ patterns = <<>>
KeysDistinct == \A i, j \in 1 .. Len(registered) : registered[i] = registered[j] => i = j
\* A builder trip has a time for every stop of its pattern, of which there are two at least.
Lengths == \A t \in DOMAIN times : /\ Len(times[t]) = Len(registered[pattern_of[t]].stops)
                                   /\ Len(times[t]) >= 2
\* The open chains hold placed trips of the pattern at work, one each at least.
ChainTrips ==
  \A c \in 1 .. Len(chains) :
    /\ Len(chains[c]) >= 1
    /\ \A i \in 1 .. Len(chains[c]) : chains[c][i] \notin left /\ pattern_of[chains[c][i]] = at
KeyOf(p) == [route |-> p.route, stops |-> p.stops]
\* A final pattern holds trips of one registered pattern that is done with.
PatternTrips ==
  \A p \in 1 .. Len(patterns) : \E k \in 1 .. at - 1 :
    /\ k <= Len(registered)
    /\ KeyOf(patterns[p]) = registered[k]
    /\ \A i \in 1 .. Len(patterns[p].trips) : pattern_of[patterns[p].trips[i]] = k
\* What is still to place sorts after what is placed.
ChainsSorted ==
  \A c \in 1 .. Len(chains) : \A i \in 1 .. Len(chains[c]) : \A u \in left :
    pattern_of[u] = at => SortsBefore(chains[c][i], u)
\* Why a chain was opened: its trips fit none of the chains before it.
ChainsSplit ==
  \A c, d \in 1 .. Len(chains) : c < d =>
    \A j \in 1 .. Len(chains[d]) : \E i \in 1 .. Len(chains[c]) :
      /\ ~Follows(times[chains[d][j]], times[chains[c][i]])
      /\ SortsBefore(chains[c][i], chains[d][j])
\* The binary search's boundary lies in the range it has left.
Narrowed ==
  pc = "halving" =>
    /\ ~ask.route_excluded
    /\ \A i \in 1 .. Len(TripsAsked) :
         /\ i < low => Passed(TripsAsked[i])
         /\ i >= high => ~Passed(TripsAsked[i])

Placed == ChainTrips /\ PatternTrips /\ ChainsSorted /\ ChainsSplit
BInv == /\ TypeOK /\ Fresh /\ KeysDistinct /\ Lengths /\ Placed
        /\ NoOvertaking /\ SplitOnlyOnOvertaking /\ Narrowed /\ LookupExact

LEMMA FeedFacts ==
  ASSUME feed \in Feeds
  PROVE  /\ Len(feed) \in Nat
         /\ DOMAIN feed = 1 .. Len(feed)
         /\ \A t \in 1 .. Len(feed) : /\ feed[t] \in FeedTrips
                                      /\ Len(feed[t].times) = Len(feed[t].stops)
<1>1. feed \in Seq(FeedTrips) /\ \A t \in DOMAIN feed : Len(feed[t].times) = Len(feed[t].stops)
  BY FeedsAssumption
<1>2. DOMAIN feed = 1 .. Len(feed) /\ Len(feed) \in Nat
  BY <1>1
<1> QED BY <1>1, <1>2, ElementOfSeq

LEMMA GivenType ==
  ASSUME NEW trip \in FeedTrips
  PROVE  LET given == [i \in 1 .. Len(trip.times) |-> Timed(trip.times[i])]
         IN  given \in Givens /\ Len(given) = Len(trip.times) /\ Len(given) \in Nat
<1> DEFINE given == [i \in 1 .. Len(trip.times) |-> Timed(trip.times[i])]
<1>1. trip.times \in Seq(TimedFields) /\ Len(trip.times) \in Nat
  BY DEF FeedTrips, TimedFields
<1>2. \A i \in 1 .. Len(trip.times) : Timed(trip.times[i]) \in TimedFields
  BY <1>1, ElementOfSeq, TimedType
<1>3. given \in [1 .. Len(trip.times) -> TimedFields]
  BY <1>2
<1>4. given \in Seq(TimedFields) /\ Len(given) = Len(trip.times)
  <2> HIDE DEF given
  <2> QED BY <1>1, <1>3, FunctionIsSeq
<1>5. \A i \in 1 .. Len(given) : IsTimed(given[i]) => given[i].departure \in Nat
  BY <1>1, <1>4, ElementOfSeq, TimedType
<1> QED BY <1>1, <1>4, <1>5 DEF Givens

\* Registering a key leaves every registered pattern where it was.
LEMMA Registering ==
  ASSUME registered \in Seq(Keys), KeysDistinct, NEW key \in Keys,
         NEW all, all = IF \E p \in 1 .. Len(registered) : registered[p] = key
                          THEN registered ELSE Append(registered, key)
  PROVE  /\ all \in Seq(Keys) /\ Len(all) \in Nat /\ Len(registered) <= Len(all)
         /\ \A i, j \in 1 .. Len(all) : all[i] = all[j] => i = j
         /\ \E p \in 1 .. Len(all) : all[p] = key
         /\ \A p \in 1 .. Len(registered) : all[p] = registered[p]
<1>1. CASE \E p \in 1 .. Len(registered) : registered[p] = key
  BY <1>1 DEF KeysDistinct
<1>2. CASE ~ \E p \in 1 .. Len(registered) : registered[p] = key
  <2>1. all = Append(registered, key)
    BY <1>2
  <2>2. /\ all \in Seq(Keys) /\ Len(all) = Len(registered) + 1 /\ Len(registered) \in Nat
        /\ all[Len(all)] = key
        /\ \A p \in 1 .. Len(registered) : all[p] = registered[p]
    BY <2>1
  <2>3. \A i, j \in 1 .. Len(all) : all[i] = all[j] => i = j
    BY <1>2, <2>2 DEF KeysDistinct
  <2> QED BY <2>2, <2>3
<1> QED BY <1>1, <1>2

LEMMA EmptyTyped == \A S : <<>> \in Seq(S) /\ Len(<<>>) = 0
  OBVIOUS

LEMMA BInit == Init => BInv
<1> SUFFICES ASSUME Init PROVE BInv
  OBVIOUS
<1>1. Len(feed) \in Nat
  BY FeedFacts DEF Init
<1>2. Len(registered) = 0 /\ Len(chains) = 0 /\ Len(patterns) = 0 /\ DOMAIN times = {}
  BY EmptyTyped DEF Init
<1>3. TypeOK
  <2>1. times \in [{} -> StopTimes] /\ pattern_of \in [{} -> 1 .. Len(registered)]
    BY DEF Init
  <2>2. registered \in Seq(Keys) /\ chains \in Seq(Seq(DOMAIN times))
        /\ patterns \in Seq([stops : Seq(Nat), route : Nat, trips : Seq(DOMAIN times)])
    BY EmptyTyped DEF Init
  <2> QED BY <1>1, <1>2, <2>1, <2>2 DEF Init, TypeOK
<1>4. Placed
  BY <1>2 DEF Placed, ChainTrips, PatternTrips, ChainsSorted, ChainsSplit
<1>5. NoOvertaking /\ SplitOnlyOnOvertaking
  BY <1>2 DEF NoOvertaking, SplitOnlyOnOvertaking
<1>6. Fresh /\ KeysDistinct /\ Lengths /\ Narrowed /\ LookupExact
  BY <1>2 DEF Init, Fresh, KeysDistinct, Lengths, Narrowed, LookupExact
<1> QED BY <1>3, <1>4, <1>5, <1>6 DEF BInv

LEMMA BReadTrip == BInv /\ ReadTrip => BInv'
<1> SUFFICES ASSUME BInv, ReadTrip PROVE BInv'
  OBVIOUS
<1> DEFINE trip == feed[next]
           given == [i \in 1 .. Len(trip.times) |-> Timed(trip.times[i])]
<1>1. /\ TypeOK /\ Fresh /\ KeysDistinct /\ Lengths
      /\ pc = "reading" /\ next <= Len(feed) /\ next' = next + 1
      /\ UNCHANGED <<feed, pc, finishing, lookup>>
      /\ IF Len(given) < 2 \/ ~Anchored(given) THEN Quarantine ELSE Add(given)
  BY DEF BInv, ReadTrip
<1>2. /\ feed \in Feeds /\ feed' = feed /\ Len(feed) \in Nat /\ DOMAIN feed = 1 .. Len(feed)
      /\ next \in 1 .. Len(feed) /\ next' \in 1 .. Len(feed) + 1
  BY <1>1, FeedFacts DEF TypeOK
<1>3. trip \in FeedTrips /\ Len(trip.times) = Len(trip.stops)
  BY <1>2, FeedFacts
<1>4. given \in Givens /\ Len(given) = Len(trip.times) /\ Len(given) \in Nat
  BY <1>3, GivenType
<1>5. chains = <<>> /\ patterns = <<>> /\ at = 1 /\ left = {}
  BY <1>1 DEF Fresh
<1>6. chains' = <<>> /\ patterns' = <<>> /\ at' = 1 /\ left' = {} /\ pc' = "reading"
      /\ ask' = ask /\ low' = low /\ high' = high /\ answer' = answer
  BY <1>1, <1>5 DEF finishing, lookup
<1>7. Placed' /\ NoOvertaking' /\ SplitOnlyOnOvertaking' /\ Narrowed' /\ LookupExact'
  <2>1. chains' = <<>> /\ patterns' = <<>> /\ pc' \notin {"halving", "answered"}
    BY <1>6
  <2>2. Len(chains') = 0 /\ Len(patterns') = 0
    BY <2>1, EmptyTyped
  <2>3. Placed'
    BY <2>2 DEF Placed, ChainTrips, PatternTrips, ChainsSorted, ChainsSplit
  <2>4. NoOvertaking' /\ SplitOnlyOnOvertaking'
    BY <2>2 DEF NoOvertaking, SplitOnlyOnOvertaking
  <2>5. Narrowed' /\ LookupExact'
    BY <2>1 DEF Narrowed, LookupExact
  <2> QED BY <2>3, <2>4, <2>5
<1>8. Fresh'
  BY <1>6 DEF Fresh
<1>9. ASSUME /\ registered' \in Seq(Keys)
             /\ DOMAIN times' \subseteq 1 .. Len(feed) /\ times' \in [DOMAIN times' -> StopTimes]
             /\ pattern_of' \in [DOMAIN times' -> 1 .. Len(registered')]
             /\ quarantined' \subseteq 1 .. Len(feed) /\ interpolated' \subseteq 1 .. Len(feed)
             /\ KeysDistinct' /\ Lengths'
             /\ answer' \in DOMAIN times' \cup {NoTrip}
      PROVE  BInv'
  <2>1. Len(registered') \in Nat
    BY <1>9
  <2>2. chains' \in Seq(Seq(DOMAIN times'))
        /\ patterns' \in Seq([stops : Seq(Nat), route : Nat, trips : Seq(DOMAIN times')])
    BY <1>6, EmptyTyped
  <2>3. TypeOK'
    BY <1>2, <1>6, <1>9, <2>1, <2>2 DEF TypeOK, Sources
  <2> QED BY <1>7, <1>8, <1>9, <2>3 DEF BInv
<1> DEFINE T1 == /\ registered \in Seq(Keys)
                 /\ DOMAIN times \subseteq 1 .. Len(feed) /\ times \in [DOMAIN times -> StopTimes]
                 /\ pattern_of \in [DOMAIN times -> 1 .. Len(registered)]
                 /\ quarantined \subseteq 1 .. Len(feed) /\ interpolated \subseteq 1 .. Len(feed)
                 /\ answer \in DOMAIN times \cup {NoTrip}
<1>10. T1
  BY <1>1, <1>2 DEF TypeOK, Sources
<1>11. CASE Quarantine
  <2>1. /\ quarantined' = quarantined \cup {next}
        /\ registered' = registered /\ times' = times /\ pattern_of' = pattern_of
        /\ interpolated' = interpolated
    BY <1>11 DEF Quarantine
  <2>2. KeysDistinct' /\ Lengths'
    BY <1>1, <2>1 DEF KeysDistinct, Lengths
  <2>3. quarantined' \subseteq 1 .. Len(feed)
    BY <2>1, <1>2, <1>10
  <2> QED BY <1>9, <1>10, <1>6, <2>1, <2>2, <2>3
<1>12. CASE Add(given) /\ ~(Len(given) < 2 \/ ~Anchored(given))
  <2> DEFINE key == [route |-> trip.route, stops |-> trip.stops]
             all == IF \E p \in 1 .. Len(registered) : registered[p] = key
                      THEN registered ELSE Append(registered, key)
             filled == Filled(given)
  <2>1. key \in Keys
    BY <1>3 DEF FeedTrips, Keys
  <2>2. /\ registered' = all
        /\ interpolated' \in {interpolated, interpolated \cup {next}}
        /\ IF Forwards(filled)
             THEN /\ times' = [t \in DOMAIN times \cup {next} |->
                                 IF t = next THEN filled ELSE times[t]]
                  /\ pattern_of' = [t \in DOMAIN pattern_of \cup {next} |->
                                      IF t = next THEN CHOOSE p \in 1 .. Len(all) : all[p] = key
                                      ELSE pattern_of[t]]
                  /\ quarantined' = quarantined
             ELSE /\ quarantined' = quarantined \cup {next}
                  /\ times' = times /\ pattern_of' = pattern_of
    BY <1>12 DEF Add
  <2>3. filled \in StopTimes /\ Len(filled) = Len(trip.stops) /\ Len(filled) >= 2
    BY <1>12, <1>3, <1>4, FilledType
  <2>0. all = IF \E p \in 1 .. Len(registered) : registered[p] = key
                THEN registered ELSE Append(registered, key)
    OBVIOUS
  <2> HIDE DEF filled, key, given, all
  <2>4. /\ all \in Seq(Keys) /\ Len(all) \in Nat /\ Len(registered) <= Len(all)
        /\ \A i, j \in 1 .. Len(all) : all[i] = all[j] => i = j
        /\ \E p \in 1 .. Len(all) : all[p] = key
        /\ \A p \in 1 .. Len(registered) : all[p] = registered[p]
    BY <1>1, <1>10, <2>1, <2>0, Registering, SMTT(30)
  <2>5. KeysDistinct'
    BY <2>2, <2>4 DEF KeysDistinct
  <2>6. interpolated' \subseteq 1 .. Len(feed)
    BY <2>2, <1>2, <1>10
  <2>7. 1 .. Len(registered) \subseteq 1 .. Len(all)
    BY <2>4, <1>10
  <2>8. DOMAIN pattern_of = DOMAIN times
    BY <1>10
  <2>9. CASE Forwards(filled)
    <3> DEFINE new == CHOOSE p \in 1 .. Len(all) : all[p] = key
    <3>1. new \in 1 .. Len(all) /\ all[new] = key
      BY <2>4
    <3> HIDE DEF new
    <3>2. DOMAIN times' = DOMAIN times \cup {next}
      BY <2>2, <2>9
    <3>3. times' \in [DOMAIN times' -> StopTimes]
      BY <2>2, <2>3, <2>9, <3>2, <1>10
    <3>4. pattern_of' = [t \in DOMAIN pattern_of \cup {next} |->
                           IF t = next THEN new ELSE pattern_of[t]]
      BY <2>2, <2>9 DEF new
    <3>5. pattern_of' \in [DOMAIN times' -> 1 .. Len(registered')]
      BY <2>2, <2>7, <2>8, <3>1, <3>2, <3>4, <1>10
    <3>6. Lengths'
      <4> SUFFICES ASSUME NEW t \in DOMAIN times'
                   PROVE  /\ Len(times'[t]) = Len(registered'[pattern_of'[t]].stops)
                          /\ Len(times'[t]) >= 2
        BY DEF Lengths
      <4>1. CASE t = next
        <5>1. times'[t] = filled /\ pattern_of'[t] = new
          BY <4>1, <2>2, <2>8, <2>9, <3>2, <3>4
        <5>2. registered'[new].stops = trip.stops
          BY <2>2, <3>1 DEF key
        <5> QED BY <5>1, <5>2, <2>3
      <4>2. CASE t # next
        <5>1. t \in DOMAIN times /\ times'[t] = times[t] /\ pattern_of'[t] = pattern_of[t]
          BY <4>2, <2>2, <2>8, <2>9, <3>2, <3>4
        <5>2. pattern_of[t] \in 1 .. Len(registered)
          BY <5>1, <1>10
        <5>3. registered'[pattern_of[t]] = registered[pattern_of[t]]
          BY <2>2, <2>4, <5>2
        <5> QED BY <5>1, <5>3, <1>1 DEF Lengths
      <4> QED BY <4>1, <4>2
    <3>7. DOMAIN times' \subseteq 1 .. Len(feed)
      BY <3>2, <1>2, <1>10
    <3>8. quarantined' = quarantined
      BY <2>2, <2>9
    <3>9. answer' \in DOMAIN times' \cup {NoTrip}
      BY <1>6, <1>10, <3>2
    <3>10. registered' \in Seq(Keys) /\ quarantined' \subseteq 1 .. Len(feed)
      BY <2>2, <2>4, <3>8, <1>10
    <3> QED BY <1>9, <2>5, <2>6, <3>3, <3>5, <3>6, <3>7, <3>9, <3>10
  <2>10. CASE ~Forwards(filled)
    <3>1. quarantined' = quarantined \cup {next} /\ times' = times /\ pattern_of' = pattern_of
      BY <2>2, <2>10
    <3>2. pattern_of' \in [DOMAIN times' -> 1 .. Len(registered')]
      BY <2>2, <2>7, <3>1, <1>10
    <3>3. Lengths'
      <4>1. \A t \in DOMAIN times : registered'[pattern_of[t]] = registered[pattern_of[t]]
        BY <2>2, <2>4, <1>10
      <4> QED BY <4>1, <3>1, <1>1 DEF Lengths
    <3>4. quarantined' \subseteq 1 .. Len(feed) /\ registered' \in Seq(Keys)
      BY <2>2, <2>4, <3>1, <1>2, <1>10
    <3>5. /\ DOMAIN times' \subseteq 1 .. Len(feed) /\ times' \in [DOMAIN times' -> StopTimes]
          /\ answer' \in DOMAIN times' \cup {NoTrip}
      BY <3>1, <1>6, <1>10
    <3> QED BY <1>9, <2>5, <2>6, <3>2, <3>3, <3>4, <3>5
  <2> QED BY <2>9, <2>10
<1> QED BY <1>1, <1>11, <1>12

LEMMA BStartFinish == BInv /\ StartFinish => BInv'
<1> SUFFICES ASSUME BInv, StartFinish PROVE BInv'
  OBVIOUS
<1>1. /\ TypeOK /\ Fresh /\ KeysDistinct /\ Lengths
      /\ pc = "reading" /\ pc' = "chaining" /\ left' = DOMAIN times
      /\ feed' = feed /\ next' = next /\ registered' = registered /\ times' = times
      /\ pattern_of' = pattern_of /\ quarantined' = quarantined /\ interpolated' = interpolated
      /\ at' = at /\ chains' = chains /\ patterns' = patterns
      /\ ask' = ask /\ low' = low /\ high' = high /\ answer' = answer
  BY DEF BInv, StartFinish, reading, lookup
<1>2. chains' = <<>> /\ patterns' = <<>> /\ pc' \notin {"reading", "halving", "answered"}
  BY <1>1 DEF Fresh
<1>3. Len(chains') = 0 /\ Len(patterns') = 0
  BY <1>2, EmptyTyped
<1>4. Placed'
  BY <1>3 DEF Placed, ChainTrips, PatternTrips, ChainsSorted, ChainsSplit
<1>5. NoOvertaking' /\ SplitOnlyOnOvertaking'
  BY <1>3 DEF NoOvertaking, SplitOnlyOnOvertaking
<1>6. Narrowed' /\ LookupExact' /\ Fresh'
  BY <1>2 DEF Narrowed, LookupExact, Fresh
<1>7. KeysDistinct' /\ Lengths'
  BY <1>1 DEF KeysDistinct, Lengths
<1>8. TypeOK'
  BY <1>1 DEF TypeOK, Sources
<1> QED BY <1>4, <1>5, <1>6, <1>7, <1>8 DEF BInv

----------------------------------------------------------------------------
(* The order of stop times.                                                *)

LEMMA FollowsTransitive ==
  ASSUME NEW a \in StopTimes, NEW b \in StopTimes, NEW c \in StopTimes,
         Len(a) = Len(b), Len(b) = Len(c), Follows(c, b), Follows(b, a)
  PROVE  Follows(c, a)
<1> SUFFICES ASSUME NEW i \in 1 .. Len(c)
             PROVE  c[i].arrival >= a[i].arrival /\ c[i].departure >= a[i].departure
  BY DEF Follows
<1>1. /\ a[i].arrival \in Nat /\ a[i].departure \in Nat /\ b[i].arrival \in Nat
      /\ b[i].departure \in Nat /\ c[i].arrival \in Nat /\ c[i].departure \in Nat
  BY StopTimesFields
<1>2. c[i].arrival >= b[i].arrival /\ c[i].departure >= b[i].departure
  BY DEF Follows
<1>3. b[i].arrival >= a[i].arrival /\ b[i].departure >= a[i].departure
  BY DEF Follows
<1> QED BY <1>1, <1>2, <1>3

\* A trip that sorts later and does not follow is not followed either: the
\* two overtake each other.
LEMMA SortedOvertakes ==
  ASSUME NEW u, NEW t, times[u] \in StopTimes, times[t] \in StopTimes,
         Len(times[u]) = Len(times[t]), Len(times[u]) >= 2,
         SortsBefore(u, t), ~Follows(times[t], times[u])
  PROVE  ~Follows(times[u], times[t])
<1> SUFFICES ASSUME Follows(times[u], times[t]) PROVE FALSE
  OBVIOUS
<1> DEFINE a == times[u]
           b == times[t]
<1>1. /\ a \in StopTimes /\ b \in StopTimes /\ Len(a) = Len(b) /\ Len(a) >= 2
      /\ Follows(a, b) /\ ~Follows(b, a)
      /\ \/ a[1].departure < b[1].departure
         \/ LexBefore(a, b)
         \/ a = b
  BY DEF SortsBefore
<1> HIDE DEF a, b
<1>2. Len(a) \in Nat /\ 1 \in 1 .. Len(a)
  BY <1>1 DEF StopTimes
<1>3. \A i \in 1 .. Len(a) : /\ a[i].arrival \in Nat /\ a[i].departure \in Nat
                             /\ b[i].arrival \in Nat /\ b[i].departure \in Nat
                             /\ a[i].arrival >= b[i].arrival /\ a[i].departure >= b[i].departure
  BY <1>1, StopTimesFields DEF Follows
<1>4. ~(a[1].departure < b[1].departure)
  BY <1>2, <1>3
<1>5. ~LexBefore(a, b)
  <2> SUFFICES ASSUME NEW i \in 1 .. Len(a), Earlier(a[i], b[i]) PROVE FALSE
    BY DEF LexBefore
  <2> QED BY <1>3 DEF Earlier
<1>6. CASE a = b
  BY <1>1, <1>6
<1> QED BY <1>1, <1>4, <1>5, <1>6

----------------------------------------------------------------------------
(* A step of finish.                                                       *)

\* Wherever PlaceTrip puts trip t, it is the end of one chain whose last trip
\* it follows, and follows the last trip of no chain before that one.
PlacedAt(t, c, m) ==
  /\ Len(chains') \in Nat /\ c \in 1 .. Len(chains')
  /\ \A d \in 1 .. Len(chains) : d \in 1 .. Len(chains')
  /\ \A d \in 1 .. Len(chains') : d # c => d \in 1 .. Len(chains) /\ chains'[d] = chains[d]
  /\ chains'[c] \in Seq(DOMAIN times)
  /\ Len(chains'[c]) = m + 1
  /\ chains'[c][m + 1] = t
  /\ c \in 1 .. Len(chains) => /\ m = Len(chains[c])
                               /\ Follows(times[t], times[chains[c][m]])
                               /\ \A i \in 1 .. m : chains'[c][i] = chains[c][i]
  /\ c \notin 1 .. Len(chains) => m = 0
  /\ \A d \in 1 .. c - 1 : /\ d \in 1 .. Len(chains)
                           /\ ~Follows(times[t], times[chains[d][Len(chains[d])]])

LEMMA Placement ==
  ASSUME BInv, NEW t \in left, PlaceTrip(t)
  PROVE  \E c, m \in Nat : PlacedAt(t, c, m)
<1>1. /\ chains \in Seq(Seq(DOMAIN times)) /\ t \in DOMAIN times
      /\ \A c \in 1 .. Len(chains) : chains[c] \in Seq(DOMAIN times)
      /\ Len(chains) \in Nat
  <2>1. chains \in Seq(Seq(DOMAIN times)) /\ t \in DOMAIN times
    BY DEF BInv, TypeOK
  <2> QED BY <2>1, ElementOfSeq
<1>2. CASE \E c \in 1 .. Len(chains) :
              /\ Fits(t, chains[c])
              /\ \A d \in 1 .. c - 1 : ~Fits(t, chains[d])
              /\ chains' = [chains EXCEPT ![c] = Append(@, t)]
  <2>1. PICK c \in 1 .. Len(chains) :
              /\ Fits(t, chains[c])
              /\ \A d \in 1 .. c - 1 : ~Fits(t, chains[d])
              /\ chains' = [chains EXCEPT ![c] = Append(@, t)]
    BY <1>2
  <2>2. /\ Len(chains') = Len(chains)
        /\ \A d \in 1 .. Len(chains) : d # c => chains'[d] = chains[d]
        /\ chains'[c] = Append(chains[c], t)
    BY <1>1, <2>1
  <2>3. Len(chains[c]) \in Nat /\ chains[c] \in Seq(DOMAIN times)
    BY <1>1
  <2>4. /\ chains'[c] \in Seq(DOMAIN times)
        /\ Len(chains'[c]) = Len(chains[c]) + 1
        /\ chains'[c][Len(chains[c]) + 1] = t
        /\ \A i \in 1 .. Len(chains[c]) : chains'[c][i] = chains[c][i]
    BY <1>1, <2>2, <2>3
  <2>5. Follows(times[t], times[chains[c][Len(chains[c])]])
    BY <2>1 DEF Fits
  <2>6. \A d \in 1 .. c - 1 : ~Follows(times[t], times[chains[d][Len(chains[d])]])
    BY <2>1 DEF Fits
  <2>7. PlacedAt(t, c, Len(chains[c]))
    BY <1>1, <2>1, <2>2, <2>3, <2>4, <2>5, <2>6 DEF PlacedAt
  <2> QED BY <1>1, <2>3, <2>7
<1>3. CASE /\ \A c \in 1 .. Len(chains) : ~Fits(t, chains[c])
           /\ chains' = Append(chains, <<t>>)
  <2> DEFINE c == Len(chains) + 1
  <2>1. /\ Len(chains') = c /\ chains'[c] = <<t>>
        /\ \A d \in 1 .. Len(chains) : chains'[d] = chains[d]
    BY <1>1, <1>3
  <2>2. <<t>> \in Seq(DOMAIN times) /\ Len(<<t>>) = 0 + 1 /\ <<t>>[0 + 1] = t
    BY <1>1
  <2>3. \A d \in 1 .. c - 1 : ~Follows(times[t], times[chains[d][Len(chains[d])]])
    BY <1>1, <1>3 DEF Fits
  <2>4. c \in 1 .. Len(chains') /\ c \notin 1 .. Len(chains)
        /\ \A d \in 1 .. Len(chains') : d # c => d \in 1 .. Len(chains)
    BY <1>1, <2>1
  <2>5. c - 1 = Len(chains)
    BY <1>1
  <2>6. PlacedAt(t, c, 0)
    BY <1>1, <2>1, <2>2, <2>3, <2>4, <2>5 DEF PlacedAt
  <2> QED BY <1>1, <2>6
<1> QED BY <1>2, <1>3 DEF PlaceTrip

LEMMA BPlaceTrip == \A t \in left : BInv /\ PlaceTrip(t) => BInv'
<1> SUFFICES ASSUME NEW t \in left, BInv, PlaceTrip(t) PROVE BInv'
  OBVIOUS
<1>1. PICK c \in Nat, m \in Nat : PlacedAt(t, c, m)
  BY Placement
<1>2. /\ TypeOK /\ Fresh /\ KeysDistinct /\ Lengths /\ Narrowed /\ LookupExact
      /\ ChainTrips /\ PatternTrips /\ ChainsSorted /\ ChainsSplit
      /\ NoOvertaking /\ SplitOnlyOnOvertaking
  BY DEF BInv, Placed
<1>3. /\ pc = "chaining" /\ pc' = pc /\ pattern_of[t] = at /\ left' = left \ {t}
      /\ \A u \in left : u # t /\ pattern_of[u] = at => SortsBefore(t, u)
      /\ feed' = feed /\ next' = next /\ registered' = registered /\ times' = times
      /\ pattern_of' = pattern_of /\ quarantined' = quarantined /\ interpolated' = interpolated
      /\ at' = at /\ patterns' = patterns
      /\ ask' = ask /\ low' = low /\ high' = high /\ answer' = answer
  BY DEF PlaceTrip, reading, lookup
<1>4. /\ Len(chains) \in Nat /\ t \in DOMAIN times /\ left \subseteq DOMAIN times
      /\ \A d \in 1 .. Len(chains) : /\ chains[d] \in Seq(DOMAIN times)
                                     /\ Len(chains[d]) \in Nat /\ Len(chains[d]) >= 1
                                     /\ \A i \in 1 .. Len(chains[d]) :
                                          /\ chains[d][i] \in DOMAIN times
                                          /\ chains[d][i] \notin left
                                          /\ pattern_of[chains[d][i]] = at
  <2>1. chains \in Seq(Seq(DOMAIN times)) /\ t \in DOMAIN times /\ left \subseteq DOMAIN times
    BY <1>2 DEF TypeOK
  <2>2. \A d \in 1 .. Len(chains) : chains[d] \in Seq(DOMAIN times)
    BY <2>1, ElementOfSeq
  <2>3. \A d \in 1 .. Len(chains) : \A i \in 1 .. Len(chains[d]) : chains[d][i] \in DOMAIN times
    BY <2>2, ElementOfSeq
  <2> QED BY <2>1, <2>2, <2>3, <1>2 DEF ChainTrips
\* Any two trips of the pattern at work have times that compare.
<1>5. \A u \in DOMAIN times : pattern_of[u] = at =>
        times[u] \in StopTimes /\ Len(times[u]) = Len(times[t]) /\ Len(times[u]) >= 2
  BY <1>2, <1>3, <1>4 DEF Lengths, TypeOK
\* The chains after the step, in the terms of those before it.
<1> DEFINE n == Len(chains)
           new == chains'[c]
<1>6. /\ Len(chains') \in Nat /\ c \in 1 .. Len(chains')
      /\ \A d \in 1 .. n : d \in 1 .. Len(chains')
      /\ \A d \in 1 .. Len(chains') : d # c => d \in 1 .. n /\ chains'[d] = chains[d]
      /\ new \in Seq(DOMAIN times) /\ Len(new) = m + 1 /\ new[m + 1] = t
      /\ \A d \in 1 .. c - 1 : /\ d \in 1 .. n
                               /\ ~Follows(times[t], times[chains[d][Len(chains[d])]])
  BY <1>1 DEF PlacedAt
<1>7. \A i \in 1 .. m : /\ c \in 1 .. n /\ m = Len(chains[c]) /\ new[i] = chains[c][i]
                        /\ Follows(times[t], times[chains[c][m]])
  BY <1>1, <1>6 DEF PlacedAt
<1>8. \A i \in 1 .. Len(new) : i \in 1 .. m \/ (i = m + 1 /\ new[i] = t)
  BY <1>6
<1> HIDE DEF n, new
<1>9. ChainTrips'
  <2>1. ASSUME NEW d \in 1 .. Len(chains')
        PROVE  /\ Len(chains'[d]) >= 1
               /\ \A i \in 1 .. Len(chains'[d]) :
                    chains'[d][i] \notin left' /\ pattern_of[chains'[d][i]] = at
    <3>1. CASE d # c
      <4>1. d \in 1 .. Len(chains) /\ chains'[d] = chains[d]
        BY <3>1, <1>6 DEF n
      <4>2. /\ Len(chains[d]) >= 1
            /\ \A i \in 1 .. Len(chains[d]) :
                 chains[d][i] \notin left /\ pattern_of[chains[d][i]] = at
        BY <4>1, <1>4
      <4>3. \A u : u \notin left => u \notin left'
        BY <1>3
      <4> QED BY <4>1, <4>2, <4>3
    <3>2. CASE d = c
      <4>1. Len(new) >= 1
        BY <1>6
      <4>2. \A i \in 1 .. Len(new) : new[i] \notin left' /\ pattern_of[new[i]] = at
        <5> TAKE i \in 1 .. Len(new)
        <5>1. CASE i \in 1 .. m
          <6>1. c \in 1 .. Len(chains) /\ i \in 1 .. Len(chains[c]) /\ new[i] = chains[c][i]
            BY <5>1, <1>7 DEF n
          <6>2. chains[c][i] \notin left /\ pattern_of[chains[c][i]] = at
            BY <6>1, <1>4
          <6> QED BY <6>1, <6>2, <1>3
        <5>2. CASE i = m + 1 /\ new[i] = t
          BY <5>2, <1>3
        <5> QED BY <5>1, <5>2, <1>8
      <4> QED BY <3>2, <4>1, <4>2 DEF new
    <3> QED BY <3>1, <3>2
  <2> QED BY <2>1, <1>3 DEF ChainTrips
<1>10. ChainsSorted'
  <2>1. ASSUME NEW d \in 1 .. Len(chains'), NEW i \in 1 .. Len(chains'[d]), NEW u \in left',
               pattern_of[u] = at
        PROVE  SortsBefore(chains'[d][i], u)
    <3>1. u \in left /\ u # t
      BY <1>3
    <3>2. CASE d # c
      BY <3>1, <3>2, <2>1, <1>2, <1>6 DEF ChainsSorted, n
    <3>3. CASE d = c /\ i \in 1 .. m
      BY <3>1, <3>3, <2>1, <1>2, <1>7 DEF ChainsSorted, n, new
    <3>4. CASE d = c /\ i \notin 1 .. m
      <4>1. chains'[d][i] = t
        BY <3>4, <1>8 DEF new
      <4> QED BY <4>1, <3>1, <2>1, <1>3
    <3> QED BY <3>2, <3>3, <3>4
  <2> QED BY <2>1, <1>3 DEF ChainsSorted, SortsBefore
<1>11. ChainsSplit'
  <2>1. ASSUME NEW b \in 1 .. Len(chains'), NEW d \in 1 .. Len(chains'), b < d,
               NEW j \in 1 .. Len(chains'[d])
        PROVE  \E i \in 1 .. Len(chains'[b]) :
                 /\ ~Follows(times[chains'[d][j]], times[chains'[b][i]])
                 /\ SortsBefore(chains'[b][i], chains'[d][j])
    \* An earlier chain keeps its trips.
    <3>1. \A k \in 1 .. n : \A i \in 1 .. Len(chains[k]) :
            i \in 1 .. Len(chains'[k]) /\ chains'[k][i] = chains[k][i]
      <4> TAKE k \in 1 .. n
      <4> TAKE i \in 1 .. Len(chains[k])
      <4>1. CASE k # c
        BY <4>1, <1>6
      <4>2. CASE k = c
        <5>1. m = Len(chains[c])
          BY <1>1, <4>2 DEF PlacedAt, n
        <5>2. i \in 1 .. m
          BY <5>1, <4>2
        <5> QED BY <4>2, <5>1, <5>2, <1>6, <1>7 DEF new
      <4> QED BY <4>1, <4>2
    <3>2. CASE d \in 1 .. n /\ j \in 1 .. Len(chains[d])
      <4>1. b \in 1 .. n
        BY <2>1, <3>2, <1>4 DEF n
      <4>2. PICK i \in 1 .. Len(chains[b]) :
              /\ ~Follows(times[chains[d][j]], times[chains[b][i]])
              /\ SortsBefore(chains[b][i], chains[d][j])
        BY <4>1, <3>2, <2>1, <1>2 DEF ChainsSplit, n
      <4>3. /\ i \in 1 .. Len(chains'[b]) /\ chains'[b][i] = chains[b][i]
            /\ chains'[d][j] = chains[d][j]
        BY <3>1, <3>2, <4>1
      <4> QED BY <4>2, <4>3
    <3>3. CASE ~(d \in 1 .. n /\ j \in 1 .. Len(chains[d]))
      <4>1. d = c
        BY <3>3, <1>6
      <4>2. chains'[d][j] = t
        <5>1. j \notin 1 .. m
          BY <3>3, <4>1, <1>7
        <5> QED BY <5>1, <4>1, <1>8 DEF new
      <4>3. b \in 1 .. c - 1 /\ b \in 1 .. n
        BY <4>1, <2>1, <1>6
      <4> DEFINE last == chains[b][Len(chains[b])]
      <4>4. ~Follows(times[t], times[last])
        BY <4>3, <1>6
      <4>5. Len(chains[b]) \in 1 .. Len(chains[b])
        BY <4>3, <1>4 DEF n
      <4>6. SortsBefore(last, t)
        BY <4>3, <4>5, <1>2, <1>3 DEF ChainsSorted, n
      <4>7. Len(chains[b]) \in 1 .. Len(chains'[b]) /\ chains'[b][Len(chains[b])] = last
        BY <3>1, <4>3, <4>5
      <4> QED BY <4>2, <4>4, <4>6, <4>7
    <3> QED BY <3>2, <3>3
  <2> QED BY <2>1, <1>3 DEF ChainsSplit, SortsBefore
<1>12. NoOvertaking'
  <2>1. ASSUME NEW d \in 1 .. Len(chains'), NEW i \in 1 .. Len(chains'[d]),
               NEW j \in 1 .. Len(chains'[d]), i < j
        PROVE  Follows(times[chains'[d][j]], times[chains'[d][i]])
    <3>1. CASE d # c
      BY <3>1, <2>1, <1>2, <1>6 DEF NoOvertaking, n
    <3>2. CASE d = c /\ j \in 1 .. m
      <4>1. i \in 1 .. m
        BY <3>2, <2>1
      <4> QED BY <4>1, <3>2, <2>1, <1>2, <1>7 DEF NoOvertaking, n, new
    <3>3. CASE d = c /\ j \notin 1 .. m
      <4>1. chains'[d][j] = t /\ j = m + 1
        BY <3>3, <1>8 DEF new
      <4>2. i \in 1 .. m
        BY <4>1, <2>1
      <4>3. /\ c \in 1 .. n /\ m = Len(chains[c]) /\ chains'[d][i] = chains[c][i]
            /\ Follows(times[t], times[chains[c][m]])
        BY <4>2, <3>3, <1>7 DEF new
      <4>4. CASE i = m
        BY <4>1, <4>3, <4>4
      <4>5. CASE i < m
        <5>1. m \in 1 .. m
          BY <4>2
        <5>2. Follows(times[chains[c][m]], times[chains[c][i]])
          BY <4>2, <4>3, <4>5, <5>1, <1>2 DEF NoOvertaking, n
        <5>3. /\ chains[c][m] \in DOMAIN times /\ pattern_of[chains[c][m]] = at
              /\ chains[c][i] \in DOMAIN times /\ pattern_of[chains[c][i]] = at
          BY <4>2, <4>3, <5>1, <1>4 DEF n
        <5>4. /\ times[t] \in StopTimes /\ times[chains[c][m]] \in StopTimes
              /\ times[chains[c][i]] \in StopTimes
              /\ Len(times[chains[c][i]]) = Len(times[chains[c][m]])
              /\ Len(times[chains[c][m]]) = Len(times[t])
          BY <5>3, <1>3, <1>4, <1>5
        <5>5. Follows(times[t], times[chains[c][i]])
          BY <4>3, <5>2, <5>4, FollowsTransitive
        <5> QED BY <4>1, <4>3, <5>5
      <4> QED BY <4>2, <4>4, <4>5
    <3> QED BY <3>1, <3>2, <3>3
  <2> QED BY <2>1, <1>2, <1>3 DEF NoOvertaking
<1>13. PatternTrips' /\ SplitOnlyOnOvertaking'
  BY <1>2, <1>3 DEF PatternTrips, SplitOnlyOnOvertaking
<1>14. KeysDistinct' /\ Lengths' /\ Fresh' /\ Narrowed' /\ LookupExact'
  BY <1>2, <1>3 DEF KeysDistinct, Lengths, Fresh, Narrowed, LookupExact
<1>15. TypeOK'
  <2>1. chains' \in Seq(Seq(DOMAIN times))
    <3>1. \A d \in 1 .. Len(chains') : chains'[d] \in Seq(DOMAIN times)
      BY <1>4, <1>6 DEF n, new
    <3>2. chains' \in [1 .. Len(chains') -> Seq(DOMAIN times)]
      <4>1. chains' = [d \in 1 .. Len(chains') |-> chains'[d]]
        <5>1. chains \in Seq(Seq(DOMAIN times))
          BY <1>2 DEF TypeOK
        <5>2. \/ \E k \in 1 .. Len(chains) : chains' = [chains EXCEPT ![k] = Append(@, t)]
              \/ chains' = Append(chains, <<t>>)
          BY DEF PlaceTrip
        <5> QED BY <5>1, <5>2, <1>4
      <4> QED BY <3>1, <4>1
    <3> QED BY <3>2, <1>6, FunctionIsSeq
  <2> QED BY <2>1, <1>2, <1>3 DEF TypeOK, Sources
<1> QED BY <1>9, <1>10, <1>11, <1>12, <1>13, <1>14, <1>15 DEF BInv, Placed

LEMMA JoinedSequences ==
  ASSUME NEW S, NEW s \in Seq(S), NEW r \in Seq(S)
  PROVE  /\ s \o r \in Seq(S) /\ Len(s \o r) = Len(s) + Len(r)
         /\ \A i \in 1 .. Len(s) : (s \o r)[i] = s[i]
         /\ \A i \in 1 .. Len(s \o r) : i \notin 1 .. Len(s) =>
              i - Len(s) \in 1 .. Len(r) /\ (s \o r)[i] = r[i - Len(s)]
OBVIOUS

\* The chains of the pattern at work are appended to the final patterns.
LEMMA FinalPatterns ==
  ASSUME BInv, FinishPattern
  PROVE  /\ Len(registered) \in Nat /\ at \in 1 .. Len(registered) /\ registered[at] \in Keys
         /\ Len(chains) \in Nat /\ Len(patterns) \in Nat
         /\ \A c \in 1 .. Len(chains) : chains[c] \in Seq(DOMAIN times)
         /\ patterns' \in Seq([stops : Seq(Nat), route : Nat, trips : Seq(DOMAIN times)])
         /\ Len(patterns') = Len(patterns) + Len(chains)
         /\ \A p \in 1 .. Len(patterns) : patterns'[p] = patterns[p]
         /\ \A p \in 1 .. Len(patterns') : p \notin 1 .. Len(patterns) =>
              /\ p - Len(patterns) \in 1 .. Len(chains)
              /\ patterns'[p].trips = chains[p - Len(patterns)]
              /\ KeyOf(patterns'[p]) = registered[at]
<1> DEFINE Finals == [stops : Seq(Nat), route : Nat, trips : Seq(DOMAIN times)]
           key == registered[at]
           done == [c \in 1 .. Len(chains) |->
                      [stops |-> key.stops, route |-> key.route, trips |-> chains[c]]]
           n == Len(patterns)
<1>1. /\ TypeOK /\ Fresh /\ KeysDistinct /\ Lengths
      /\ ChainTrips /\ PatternTrips /\ ChainsSplit
      /\ NoOvertaking /\ SplitOnlyOnOvertaking
  BY DEF BInv, Placed
<1>2. /\ pc = "chaining" /\ pc' = pc /\ at <= Len(registered) /\ at' = at + 1
      /\ patterns' = patterns \o done /\ chains' = <<>>
      /\ feed' = feed /\ next' = next /\ registered' = registered /\ times' = times
      /\ pattern_of' = pattern_of /\ quarantined' = quarantined /\ interpolated' = interpolated
      /\ left' = left /\ ask' = ask /\ low' = low /\ high' = high /\ answer' = answer
  BY DEF FinishPattern, reading, lookup
<1>3. /\ Len(registered) \in Nat /\ at \in 1 .. Len(registered) /\ key \in Keys
      /\ Len(chains) \in Nat /\ patterns \in Seq(Finals) /\ n \in Nat
      /\ \A c \in 1 .. Len(chains) : chains[c] \in Seq(DOMAIN times)
  <2>1. /\ registered \in Seq(Keys) /\ at \in 1 .. Len(registered) + 1
        /\ chains \in Seq(Seq(DOMAIN times)) /\ patterns \in Seq(Finals)
    BY <1>1 DEF TypeOK
  <2>2. at \in 1 .. Len(registered)
    BY <2>1, <1>2
  <2> HIDE DEF Finals
  <2> QED BY <2>1, <2>2, ElementOfSeq
<1>4. done \in Seq(Finals) /\ Len(done) = Len(chains)
  <2>1. done \in [1 .. Len(chains) -> Finals]
    BY <1>3 DEF Keys
  <2> HIDE DEF done, Finals
  <2> QED BY <1>3, <2>1, FunctionIsSeq
<1>5. /\ patterns' \in Seq(Finals) /\ Len(patterns') = n + Len(chains)
      /\ \A p \in 1 .. n : patterns'[p] = patterns[p]
      /\ \A p \in 1 .. Len(patterns') : p \notin 1 .. n =>
           p - n \in 1 .. Len(chains) /\ patterns'[p] = done[p - n]
  <2> HIDE DEF done, Finals
  <2>1. /\ patterns \o done \in Seq(Finals) /\ Len(patterns \o done) = Len(patterns) + Len(done)
        /\ \A i \in 1 .. Len(patterns) : (patterns \o done)[i] = patterns[i]
        /\ \A i \in 1 .. Len(patterns \o done) : i \notin 1 .. Len(patterns) =>
             /\ i - Len(patterns) \in 1 .. Len(done)
             /\ (patterns \o done)[i] = done[i - Len(patterns)]
    <3>1. patterns \in Seq(Finals) /\ done \in Seq(Finals)
      BY <1>3, <1>4
    <3> QED BY <3>1, JoinedSequences, Zenon
  <2>2. patterns' = patterns \o done /\ Len(done) = Len(chains)
    BY <1>2, <1>4
  <2> QED BY <2>1, <2>2
\* What a new pattern holds: the chain it was.
<1>6. \A p \in 1 .. Len(patterns') : p \notin 1 .. n =>
        /\ p - n \in 1 .. Len(chains)
        /\ patterns'[p].trips = chains[p - n]
        /\ KeyOf(patterns'[p]) = key
  <2>1. \A c \in 1 .. Len(chains) : done[c].trips = chains[c] /\ KeyOf(done[c]) = key
    BY <1>3 DEF KeyOf, Keys
  <2> HIDE DEF done
  <2> QED BY <2>1, <1>5
<1> QED BY <1>3, <1>5, <1>6

LEMMA BFinishPattern == BInv /\ FinishPattern => BInv'
<1> SUFFICES ASSUME BInv, FinishPattern PROVE BInv'
  OBVIOUS
<1> DEFINE Finals == [stops : Seq(Nat), route : Nat, trips : Seq(DOMAIN times)]
           key == registered[at]
           n == Len(patterns)
<1>1. /\ TypeOK /\ Fresh /\ KeysDistinct /\ Lengths
      /\ ChainTrips /\ PatternTrips /\ ChainsSplit
      /\ NoOvertaking /\ SplitOnlyOnOvertaking
  BY DEF BInv, Placed
<1>2. /\ pc = "chaining" /\ pc' = pc /\ at <= Len(registered) /\ at' = at + 1
      /\ chains' = <<>>
      /\ feed' = feed /\ next' = next /\ registered' = registered /\ times' = times
      /\ pattern_of' = pattern_of /\ quarantined' = quarantined /\ interpolated' = interpolated
      /\ left' = left /\ ask' = ask /\ low' = low /\ high' = high /\ answer' = answer
  BY DEF FinishPattern, reading, lookup
<1>3. /\ Len(registered) \in Nat /\ at \in 1 .. Len(registered) /\ key \in Keys
      /\ Len(chains) \in Nat /\ n \in Nat
      /\ \A c \in 1 .. Len(chains) : chains[c] \in Seq(DOMAIN times)
  BY FinalPatterns
<1>5. /\ patterns' \in Seq(Finals) /\ Len(patterns') = n + Len(chains)
      /\ \A p \in 1 .. n : patterns'[p] = patterns[p]
  BY FinalPatterns
\* What a new pattern holds: the chain it was.
<1>6. \A p \in 1 .. Len(patterns') : p \notin 1 .. n =>
        /\ p - n \in 1 .. Len(chains)
        /\ patterns'[p].trips = chains[p - n]
        /\ KeyOf(patterns'[p]) = key
  BY FinalPatterns
<1> HIDE DEF Finals, n
<1>7. \A c \in 1 .. Len(chains) : \A i \in 1 .. Len(chains[c]) :
        chains[c][i] \in DOMAIN times /\ pattern_of[chains[c][i]] = at
  BY <1>1, <1>3, ElementOfSeq DEF ChainTrips
<1>8. NoOvertaking'
  <2>1. ASSUME NEW p \in 1 .. Len(patterns'), NEW i \in 1 .. Len(patterns'[p].trips),
               NEW j \in 1 .. Len(patterns'[p].trips), i < j
        PROVE  Follows(times[patterns'[p].trips[j]], times[patterns'[p].trips[i]])
    <3>1. CASE p \in 1 .. n
      <4>1. patterns'[p] = patterns[p] /\ p \in 1 .. Len(patterns)
        BY <3>1, <1>5 DEF n
      <4> QED BY <4>1, <2>1, <1>1 DEF NoOvertaking
    <3>2. CASE p \notin 1 .. n
      <4>1. p - n \in 1 .. Len(chains) /\ patterns'[p].trips = chains[p - n]
        BY <3>2, <1>6
      <4> QED BY <4>1, <2>1, <1>1 DEF NoOvertaking
    <3> QED BY <3>1, <3>2
  <2>2. Len(chains') = 0
    BY <1>2, EmptyTyped
  <2> QED BY <2>1, <2>2, <1>2 DEF NoOvertaking
<1>9. PatternTrips'
  <2>1. ASSUME NEW p \in 1 .. Len(patterns')
        PROVE  \E k \in 1 .. at' - 1 :
                 /\ k <= Len(registered)
                 /\ KeyOf(patterns'[p]) = registered[k]
                 /\ \A i \in 1 .. Len(patterns'[p].trips) : pattern_of[patterns'[p].trips[i]] = k
    <3>1. CASE p \in 1 .. n
      <4>1. patterns'[p] = patterns[p] /\ p \in 1 .. Len(patterns)
        BY <3>1, <1>5 DEF n
      <4>2. PICK k \in 1 .. at - 1 :
                 /\ k <= Len(registered)
                 /\ KeyOf(patterns[p]) = registered[k]
                 /\ \A i \in 1 .. Len(patterns[p].trips) : pattern_of[patterns[p].trips[i]] = k
        BY <4>1, <1>1 DEF PatternTrips
      <4>3. k \in 1 .. at' - 1
        BY <1>2, <1>3
      <4> QED BY <4>1, <4>2, <4>3
    <3>2. CASE p \notin 1 .. n
      <4>1. p - n \in 1 .. Len(chains) /\ patterns'[p].trips = chains[p - n]
            /\ KeyOf(patterns'[p]) = registered[at]
        BY <3>2, <1>6
      <4>2. at \in 1 .. at' - 1 /\ at <= Len(registered)
        BY <1>2, <1>3
      <4> QED BY <4>1, <4>2, <1>7
    <3> QED BY <3>1, <3>2
  <2>2. registered' = registered /\ pattern_of' = pattern_of
    BY <1>2
  <2> QED BY <2>1, <2>2 DEF PatternTrips
<1>10. SplitOnlyOnOvertaking'
  <2>1. ASSUME NEW p \in 1 .. Len(patterns'), NEW r \in 1 .. Len(patterns'), p < r,
               KeyOf(patterns'[p]) = KeyOf(patterns'[r]),
               NEW j \in 1 .. Len(patterns'[r].trips)
        PROVE  \E i \in 1 .. Len(patterns'[p].trips) :
                 LET t == patterns'[r].trips[j]
                     u == patterns'[p].trips[i]
                 IN  ~Follows(times[t], times[u]) /\ ~Follows(times[u], times[t])
    <3>1. CASE r \in 1 .. n
      <4>1. /\ p \in 1 .. n /\ patterns'[p] = patterns[p] /\ patterns'[r] = patterns[r]
            /\ p \in 1 .. Len(patterns) /\ r \in 1 .. Len(patterns)
        BY <3>1, <2>1, <1>3, <1>5 DEF n
      <4>2. patterns[p].route = patterns[r].route /\ patterns[p].stops = patterns[r].stops
        BY <4>1, <2>1 DEF KeyOf
      <4> QED BY <4>1, <4>2, <2>1, <1>1 DEF SplitOnlyOnOvertaking
    <3>2. CASE r \notin 1 .. n /\ p \in 1 .. n
      \* The two keys were registered at different places.
      <4>1. patterns'[p] = patterns[p] /\ p \in 1 .. Len(patterns)
        BY <3>2, <1>5 DEF n
      <4>2. PICK k \in 1 .. at - 1 : k <= Len(registered) /\ KeyOf(patterns[p]) = registered[k]
        BY <4>1, <1>1 DEF PatternTrips
      <4>3. KeyOf(patterns'[r]) = registered[at]
        BY <3>2, <1>6
      <4>4. k \in 1 .. Len(registered) /\ k # at /\ registered[k] = registered[at]
        BY <4>1, <4>2, <4>3, <2>1, <1>3
      <4> QED BY <4>4, <1>1, <1>3 DEF KeysDistinct
    <3>3. CASE r \notin 1 .. n /\ p \notin 1 .. n
      <4> DEFINE c == p - n
                 d == r - n
      <4>1. /\ c \in 1 .. Len(chains) /\ d \in 1 .. Len(chains)
            /\ patterns'[p].trips = chains[c] /\ patterns'[r].trips = chains[d]
        BY <3>3, <1>6
      <4>2. c < d
        BY <2>1, <1>3, <1>5
      <4> HIDE DEF c, d
      <4>3. PICK i \in 1 .. Len(chains[c]) :
              /\ ~Follows(times[chains[d][j]], times[chains[c][i]])
              /\ SortsBefore(chains[c][i], chains[d][j])
        BY <4>1, <4>2, <2>1, <1>1 DEF ChainsSplit
      <4> DEFINE t == chains[d][j]
                 u == chains[c][i]
      <4>4. t \in DOMAIN times /\ u \in DOMAIN times /\ pattern_of[t] = pattern_of[u]
        BY <4>1, <2>1, <1>7
      <4>5. /\ times[t] \in StopTimes /\ times[u] \in StopTimes
            /\ Len(times[u]) = Len(times[t]) /\ Len(times[u]) >= 2
        BY <4>4, <1>1 DEF Lengths, TypeOK
      <4>6. ~Follows(times[u], times[t])
        BY <4>3, <4>5, SortedOvertakes
      <4> QED BY <4>1, <4>3, <4>6
    <3> QED BY <3>1, <3>2, <3>3
  <2>2. ASSUME NEW p \in 1 .. Len(patterns'), NEW r \in 1 .. Len(patterns'), p < r,
               patterns'[p].route = patterns'[r].route, patterns'[p].stops = patterns'[r].stops,
               NEW t \in {patterns'[r].trips[j] : j \in 1 .. Len(patterns'[r].trips)}
        PROVE  \E i \in 1 .. Len(patterns'[p].trips) :
                 LET u == patterns'[p].trips[i]
                 IN  ~Follows(times[t], times[u]) /\ ~Follows(times[u], times[t])
    <3>1. PICK j \in 1 .. Len(patterns'[r].trips) : t = patterns'[r].trips[j]
      OBVIOUS
    <3>2. KeyOf(patterns'[p]) = KeyOf(patterns'[r])
      BY <2>2 DEF KeyOf
    <3> QED BY <2>1, <2>2, <3>1, <3>2
  <2>3. times' = times
    BY <1>2
  <2> QED BY <2>2, <2>3 DEF SplitOnlyOnOvertaking
<1>11. ChainTrips' /\ ChainsSorted' /\ ChainsSplit'
  <2>1. Len(chains') = 0
    BY <1>2, EmptyTyped
  <2> QED BY <2>1 DEF ChainTrips, ChainsSorted, ChainsSplit
<1>12. KeysDistinct' /\ Lengths' /\ Fresh' /\ Narrowed' /\ LookupExact'
  BY <1>1, <1>2 DEF KeysDistinct, Lengths, Fresh, Narrowed, LookupExact
<1>13. TypeOK'
  <2>1. patterns' \in Seq([stops : Seq(Nat), route : Nat, trips : Seq(DOMAIN times)])
    BY <1>5 DEF Finals
  <2>2. chains' \in Seq(Seq(DOMAIN times))
    BY <1>2, EmptyTyped
  <2>3. at' \in 1 .. Len(registered) + 1
    BY <1>2, <1>3
  <2> QED BY <2>1, <2>2, <2>3, <1>1, <1>2 DEF TypeOK, Sources
<1> QED BY <1>8, <1>9, <1>10, <1>11, <1>12, <1>13 DEF BInv, Placed

----------------------------------------------------------------------------
(* A step of a lookup.                                                     *)

Unmoved == /\ feed' = feed /\ next' = next /\ registered' = registered /\ times' = times
           /\ pattern_of' = pattern_of /\ quarantined' = quarantined
           /\ interpolated' = interpolated
           /\ at' = at /\ left' = left /\ chains' = chains /\ patterns' = patterns

\* A lookup leaves what was built as it is.
LEMMA BuiltStays ==
  ASSUME BInv, Unmoved, pc' # "reading"
  PROVE  /\ Fresh' /\ KeysDistinct' /\ Lengths' /\ Placed'
         /\ NoOvertaking' /\ SplitOnlyOnOvertaking'
<1>1. Placed' /\ KeysDistinct' /\ Lengths'
  <2>1. Placed'
    <3>1. ChainTrips /\ PatternTrips /\ ChainsSorted /\ ChainsSplit
      BY DEF BInv, Placed
    <3>2. \A t, u : SortsBefore(t, u)' <=> SortsBefore(t, u)
      BY DEF Unmoved, SortsBefore
    <3>3. ChainTrips'
      BY <3>1 DEF Unmoved, ChainTrips
    <3>4. PatternTrips'
      BY <3>1 DEF Unmoved, PatternTrips
    <3>5. ChainsSorted'
      BY <3>1, <3>2 DEF Unmoved, ChainsSorted
    <3>6. ChainsSplit'
      BY <3>1, <3>2 DEF Unmoved, ChainsSplit
    <3> QED BY <3>3, <3>4, <3>5, <3>6 DEF Placed
  <2>2. KeysDistinct'
    BY DEF Unmoved, BInv, KeysDistinct
  <2>3. Lengths'
    BY DEF Unmoved, BInv, Lengths
  <2> QED BY <2>1, <2>2, <2>3
<1>2. NoOvertaking'
  BY DEF Unmoved, BInv, NoOvertaking
<1>3. SplitOnlyOnOvertaking'
  <2> DEFINE Split(pats, ts) ==
        \A p, r \in 1 .. Len(pats) :
          p < r /\ pats[p].route = pats[r].route /\ pats[p].stops = pats[r].stops =>
            \A t \in {pats[r].trips[j] : j \in 1 .. Len(pats[r].trips)} :
              \E i \in 1 .. Len(pats[p].trips) :
                LET u == pats[p].trips[i]
                IN  ~Follows(ts[t], ts[u]) /\ ~Follows(ts[u], ts[t])
  <2>1. SplitOnlyOnOvertaking = Split(patterns, times)
    BY DEF SplitOnlyOnOvertaking
  <2>2. SplitOnlyOnOvertaking' = Split(patterns', times')
    BY DEF SplitOnlyOnOvertaking
  <2>3. SplitOnlyOnOvertaking /\ patterns' = patterns /\ times' = times
    BY DEF Unmoved, BInv
  <2> HIDE DEF Split
  <2> QED BY <2>1, <2>2, <2>3
<1>4. Fresh'
  BY DEF Fresh
<1> QED BY <1>1, <1>2, <1>3, <1>4

\* The build hands its patterns to the lookups as they are.
LEMMA BBuilt == BInv /\ Built => BInv'
<1> SUFFICES ASSUME BInv, Built PROVE BInv'
  OBVIOUS
<1>1. /\ pc' = "built" /\ Unmoved
      /\ ask' = ask /\ low' = low /\ high' = high /\ answer' = answer
  BY DEF Built, Unmoved, reading, finishing, lookup
<1>2. /\ Fresh' /\ KeysDistinct' /\ Lengths' /\ Placed'
      /\ NoOvertaking' /\ SplitOnlyOnOvertaking'
  BY <1>1, BuiltStays
<1>3. TypeOK'
  BY <1>1 DEF BInv, TypeOK, Sources, Unmoved
<1>4. Narrowed' /\ LookupExact'
  BY <1>1 DEF BInv, Narrowed, LookupExact
<1> QED BY <1>1, <1>2, <1>3, <1>4 DEF BInv

\* The trips of a final pattern have a time at each of its stops.
LEMMA TripsOfPattern ==
  ASSUME BInv, NEW p \in 1 .. Len(patterns)
  PROVE  /\ Len(patterns[p].trips) \in Nat
         /\ \A i \in 1 .. Len(patterns[p].trips) :
              LET t == patterns[p].trips[i]
              IN  /\ t \in DOMAIN times
                  /\ times[t] \in StopTimes
                  /\ Len(times[t]) = Len(patterns[p].stops)
<1>1. patterns[p] \in [stops : Seq(Nat), route : Nat, trips : Seq(DOMAIN times)]
  BY ElementOfSeq DEF BInv, TypeOK
<1>2. PICK k \in 1 .. at - 1 :
         /\ KeyOf(patterns[p]) = registered[k]
         /\ \A i \in 1 .. Len(patterns[p].trips) : pattern_of[patterns[p].trips[i]] = k
  BY DEF BInv, Placed, PatternTrips
<1>3. registered[k].stops = patterns[p].stops
  BY <1>2 DEF KeyOf
<1>4. patterns[p].trips \in Seq(DOMAIN times) /\ Len(patterns[p].trips) \in Nat
  BY <1>1
<1>5. ASSUME NEW i \in 1 .. Len(patterns[p].trips)
      PROVE  /\ patterns[p].trips[i] \in DOMAIN times
             /\ times[patterns[p].trips[i]] \in StopTimes
             /\ Len(times[patterns[p].trips[i]]) = Len(patterns[p].stops)
  <2>1. patterns[p].trips[i] \in DOMAIN times
    BY <1>4, ElementOfSeq
  <2>2. times[patterns[p].trips[i]] \in StopTimes
    BY <2>1 DEF BInv, TypeOK
  <2>3. Len(times[patterns[p].trips[i]]) = Len(registered[k].stops)
    BY <2>1, <1>2 DEF BInv, Lengths
  <2> QED BY <2>1, <2>2, <2>3, <1>3
<1> QED BY <1>4, <1>5

\* Along the pattern asked about, the trips that belong before the boundary
\* come first.
LEMMA PassedFirst ==
  ASSUME BInv, pc = "halving", NEW i \in 1 .. Len(TripsAsked), NEW j \in 1 .. Len(TripsAsked),
         i < j, Passed(TripsAsked[j])
  PROVE  Passed(TripsAsked[i])
<1> DEFINE p == ask.pattern
           k == ask.position
           a == times[TripsAsked[i]]
           b == times[TripsAsked[j]]
<1>1. /\ p \in 1 .. Len(patterns) /\ k \in Nat \ {0} /\ ask.reached \in Nat
      /\ k <= Len(patterns[p].stops) /\ ask.latest \in BOOLEAN
  BY ReachedAssumption DEF BInv, TypeOK
<1>2. /\ a \in StopTimes /\ b \in StopTimes
      /\ Len(a) = Len(patterns[p].stops) /\ Len(b) = Len(patterns[p].stops)
  BY <1>1, TripsOfPattern DEF TripsAsked
<1>3. Follows(b, a)
  BY <1>1 DEF BInv, NoOvertaking, TripsAsked
<1> HIDE DEF a, b
<1>4. k \in 1 .. Len(a) /\ k \in 1 .. Len(b)
  BY <1>1, <1>2 DEF StopTimes
<1>5. /\ a[k].arrival \in Nat /\ a[k].departure \in Nat
      /\ b[k].arrival \in Nat /\ b[k].departure \in Nat
  BY <1>2, <1>4, StopTimesFields
<1>6. b[k].arrival >= a[k].arrival /\ b[k].departure >= a[k].departure
  BY <1>3, <1>4 DEF Follows
<1> USE DEF a, b
<1>7. CASE ask.latest
  BY <1>1, <1>5, <1>6, <1>7, SMTT(30) DEF Passed
<1>8. CASE ~ask.latest
  BY <1>1, <1>5, <1>6, <1>8, SMTT(30) DEF Passed
<1> QED BY <1>7, <1>8

LEMMA BAsk ==
  ASSUME BInv, NEW latest \in BOOLEAN, NEW route_excluded \in BOOLEAN,
         NEW p \in 1 .. Len(patterns), NEW reached \in Reached, NEW usable \in SUBSET DOMAIN times,
         NEW i \in 1 .. Len(patterns[p].stops), Ask(latest, p, i, reached, usable, route_excluded)
  PROVE  BInv'
<1> DEFINE trips == patterns[p].trips
<1>1. /\ pc = "built" /\ low' = 1 /\ high' = Len(trips) + 1 /\ answer' = NoTrip
      /\ ask' = [latest |-> latest, pattern |-> p, position |-> i, reached |-> reached,
                 usable |-> usable, route_excluded |-> route_excluded]
      /\ pc' = IF route_excluded THEN "answered" ELSE "halving"
      /\ Unmoved
  BY DEF Ask, Unmoved, reading, finishing
<1>2. Fresh' /\ KeysDistinct' /\ Lengths' /\ Placed' /\ NoOvertaking' /\ SplitOnlyOnOvertaking'
  BY <1>1, BuiltStays
<1>3. Len(trips) \in Nat /\ i \in Nat \ {0}
  <2>1. patterns[p] \in [stops : Seq(Nat), route : Nat, trips : Seq(DOMAIN times)]
    BY ElementOfSeq DEF BInv, TypeOK
  <2> QED BY <2>1, TripsOfPattern
<1>4. TripsAsked' = trips
  BY <1>1 DEF TripsAsked, Unmoved
<1> HIDE DEF trips
<1>5. TypeOK'
  <2>1. /\ ask' \in [latest : BOOLEAN, pattern : 1 .. Len(patterns), position : Nat \ {0},
                     reached : Reached, usable : SUBSET DOMAIN times, route_excluded : BOOLEAN]
        /\ ask'.position <= Len(patterns[ask'.pattern].stops)
    BY <1>1, <1>3
  <2>2. low' \in 1 .. high' /\ high' \in 1 .. Len(TripsAsked') + 1
    BY <1>1, <1>3, <1>4
  <2>3. pc' \in {"reading", "chaining", "built", "halving", "answered"}
    BY <1>1
  <2> QED BY <2>1, <2>2, <2>3, <1>1 DEF Unmoved, BInv, TypeOK, Sources
<1>6. Narrowed'
  BY <1>1, <1>3, <1>4 DEF Narrowed
<1>7. LookupExact'
  BY <1>1 DEF LookupExact, Catchable
<1> QED BY <1>2, <1>5, <1>6, <1>7 DEF BInv

LEMMA BHalve == BInv /\ Halve => BInv'
<1> SUFFICES ASSUME BInv, Halve PROVE BInv'
  OBVIOUS
<1> DEFINE mid == low + (high - low) \div 2
           n == Len(TripsAsked)
<1>1. /\ pc = "halving" /\ pc' = pc /\ low < high /\ ask' = ask /\ answer' = answer
      /\ \/ Passed(TripsAsked[mid]) /\ low' = mid + 1 /\ high' = high
         \/ ~Passed(TripsAsked[mid]) /\ high' = mid /\ low' = low
      /\ Unmoved
  BY DEF Halve, Beyond, Unmoved, reading, finishing
<1>2. Fresh' /\ KeysDistinct' /\ Lengths' /\ Placed' /\ NoOvertaking' /\ SplitOnlyOnOvertaking'
  BY <1>1, BuiltStays
<1>3. n \in Nat /\ low \in 1 .. high /\ high \in 1 .. n + 1
  <2>1. ask.pattern \in 1 .. Len(patterns)
    BY <1>1 DEF BInv, TypeOK
  <2>2. n \in Nat
    BY <2>1, TripsOfPattern DEF TripsAsked
  <2> QED BY <2>2, <1>1 DEF BInv, TypeOK
<1>4. mid \in low .. high - 1 /\ mid \in 1 .. n
  <2>1. \A x, y \in Nat : x < y => x + (y - x) \div 2 \in x .. y - 1
    OBVIOUS
  <2> QED BY <2>1, <1>1, <1>3
<1> HIDE DEF mid
<1>5. TripsAsked' = TripsAsked
  BY <1>1 DEF TripsAsked, Unmoved
<1>6. \A t : Passed(t)' = Passed(t)
  BY <1>1 DEF Passed, Unmoved
<1> HIDE DEF n
<1>7. low' \in 1 .. high' /\ high' \in 1 .. n + 1
  BY <1>1, <1>3, <1>4
<1>8. \A i \in 1 .. n : /\ i < low => Passed(TripsAsked[i])
                        /\ i >= high => ~Passed(TripsAsked[i])
  <2>1. Narrowed
    BY DEF BInv
  <2> QED BY <2>1, <1>1, Zenon DEF Narrowed, n
<1>9. \A i \in 1 .. n : /\ i < low' => Passed(TripsAsked[i])
                        /\ i >= high' => ~Passed(TripsAsked[i])
  <2>1. CASE Passed(TripsAsked[mid]) /\ low' = mid + 1 /\ high' = high
    <3> TAKE i \in 1 .. n
    <3>1. i >= high' => ~Passed(TripsAsked[i])
      BY <2>1, <1>8
    <3>2. CASE i < mid
      BY <3>1, <3>2, <2>1, <1>1, <1>4, PassedFirst DEF n
    <3>3. CASE i >= mid
      BY <3>1, <3>3, <2>1, <1>3, <1>4
    <3> QED BY <3>2, <3>3, <1>3, <1>4
  <2>2. CASE ~Passed(TripsAsked[mid]) /\ high' = mid /\ low' = low
    <3> TAKE i \in 1 .. n
    <3>1. i < low' => Passed(TripsAsked[i])
      BY <2>2, <1>8
    <3>2. CASE i > mid
      BY <3>1, <3>2, <2>2, <1>1, <1>4, PassedFirst DEF n
    <3>3. CASE i <= mid
      BY <3>1, <3>3, <2>2, <1>3, <1>4
    <3> QED BY <3>2, <3>3, <1>3, <1>4
  <2> QED BY <2>1, <2>2, <1>1
<1>10. Narrowed'
  <2>1. ~ask.route_excluded
    BY <1>1 DEF BInv, Narrowed
  <2> QED BY <2>1, <1>1, <1>5, <1>6, <1>9 DEF Narrowed, n
<1>11. TypeOK'
  BY <1>1, <1>5, <1>7 DEF BInv, TypeOK, Sources, Unmoved, n
<1>12. LookupExact'
  BY <1>1 DEF LookupExact
<1> QED BY <1>2, <1>10, <1>11, <1>12 DEF BInv

\* The trip the scan stops at is the best of those that can be caught.
LEMMA BFind == BInv /\ Find => BInv'
<1> SUFFICES ASSUME BInv, Find PROVE BInv'
  OBVIOUS
<1> DEFINE n == Len(TripsAsked)
           range == IF ask.latest THEN 1 .. low - 1 ELSE low .. n
           usable == {i \in range : TripsAsked[i] \in ask.usable}
           best == CHOOSE i \in usable : \A j \in usable : IF ask.latest THEN j <= i ELSE i <= j
<1>1. /\ pc = "halving" /\ pc' = "answered" /\ low >= high
      /\ ask' = ask /\ low' = low /\ high' = high
      /\ answer' = IF usable = {} THEN NoTrip ELSE TripsAsked[best]
      /\ Unmoved
  BY DEF Find, Unmoved, reading, finishing
<1>2. Fresh' /\ KeysDistinct' /\ Lengths' /\ Placed' /\ NoOvertaking' /\ SplitOnlyOnOvertaking'
  BY <1>1, BuiltStays
<1>3. /\ ask \in [latest : BOOLEAN, pattern : 1 .. Len(patterns), position : Nat \ {0},
                  reached : Reached, usable : SUBSET DOMAIN times, route_excluded : BOOLEAN]
      /\ ask.position <= Len(patterns[ask.pattern].stops)
      /\ low \in 1 .. high /\ high \in 1 .. n + 1
  BY <1>1 DEF BInv, TypeOK
<1>4. /\ n \in Nat
      /\ \A i \in 1 .. n : /\ TripsAsked[i] \in DOMAIN times /\ times[TripsAsked[i]] \in StopTimes
                           /\ Len(times[TripsAsked[i]]) = Len(patterns[ask.pattern].stops)
  BY <1>3, TripsOfPattern DEF TripsAsked
<1>5. low = high /\ low \in 1 .. n + 1
  BY <1>1, <1>3, <1>4
<1>6. /\ ~ask.route_excluded
      /\ \A i \in 1 .. n :
           /\ i < low => Passed(TripsAsked[i])
           /\ i >= low => ~Passed(TripsAsked[i])
  <2>1. Narrowed
    BY DEF BInv
  <2>2. /\ ~ask.route_excluded
        /\ \A i \in 1 .. n :
             /\ i < low => Passed(TripsAsked[i])
             /\ i >= high => ~Passed(TripsAsked[i])
    BY <2>1, <1>1, Zenon DEF Narrowed
  <2> QED BY <2>2, <1>5, Zenon
<1>7. range \subseteq 1 .. n
  BY <1>4, <1>5
\* The usable trips on this side of the boundary are those that can be caught.
<1>8. \A t : t \in Catchable <=> \E i \in usable : TripsAsked[i] = t
  <2>1. ASSUME NEW i \in 1 .. n
        PROVE  i \in range <=> IF ask.latest
                                 THEN times[TripsAsked[i]][ask.position].arrival <= ask.reached
                                 ELSE times[TripsAsked[i]][ask.position].departure >= ask.reached
    <3> DEFINE s == times[TripsAsked[i]][ask.position]
    <3>1. ask.position \in 1 .. Len(times[TripsAsked[i]])
      BY <1>3, <1>4 DEF StopTimes
    <3>2. s.arrival \in Nat /\ s.departure \in Nat /\ ask.reached \in Nat
      BY <3>1, <1>3, <1>4, StopTimesFields, ReachedAssumption
    <3>3. CASE ask.latest
      <4>1. Passed(TripsAsked[i]) <=> s.arrival <= ask.reached
        BY <3>3 DEF Passed
      <4>2. i \in range <=> i < low
        BY <3>3, <1>5, <1>4
      <4> QED BY <4>1, <4>2, <3>3, <1>4, <1>5, <1>6
    <3>4. CASE ~ask.latest
      <4>1. Passed(TripsAsked[i]) <=> s.departure < ask.reached
        BY <3>4 DEF Passed
      <4>2. i \in range <=> i >= low
        BY <3>4, <1>5, <1>4
      <4>3. s.departure >= ask.reached <=> ~Passed(TripsAsked[i])
        BY <4>1, <3>2
      <4> QED BY <4>2, <4>3, <3>4, <1>4, <1>5, <1>6
    <3> QED BY <3>3, <3>4
  <2> HIDE DEF range
  <2>2. \A t : t \in Catchable <=>
          /\ t \in ask.usable
          /\ \E i \in 1 .. n : TripsAsked[i] = t
          /\ IF ask.latest THEN times[t][ask.position].arrival <= ask.reached
                           ELSE times[t][ask.position].departure >= ask.reached
    BY <1>6 DEF Catchable
  <2> HIDE DEF n
  <2> QED BY <2>1, <2>2, <1>7
<1> HIDE DEF range
<1>9. usable # {} => /\ best \in usable
                     /\ \A j \in usable : IF ask.latest THEN j <= best ELSE best <= j
  <2> SUFFICES ASSUME usable # {}
               PROVE  \E i \in usable : \A j \in usable : IF ask.latest THEN j <= i ELSE i <= j
    OBVIOUS
  <2>1. usable \subseteq 0 .. n /\ usable \subseteq Nat
    <3>1. usable \subseteq range
      OBVIOUS
    <3> HIDE DEF usable, n
    <3> QED BY <3>1, <1>4, <1>7
  <2> HIDE DEF usable
  <2>2. CASE ask.latest
    BY <2>1, <2>2, <1>4, GreatestBelow
  <2>3. CASE ~ask.latest
    BY <2>1, <2>3, LeastNat
  <2> QED BY <2>2, <2>3
<1>10. usable \subseteq 1 .. n
  BY <1>7
<1> HIDE DEF usable, best
<1>11. \A i, j \in 1 .. n : i <= j => Follows(times[TripsAsked[j]], times[TripsAsked[i]])
  <2> TAKE i \in 1 .. n
  <2> TAKE j \in 1 .. n
  <2> HAVE i <= j
  <2>1. CASE i < j
    BY <2>1, <1>3 DEF BInv, NoOvertaking, TripsAsked
  <2>2. CASE i = j
    <3>1. times[TripsAsked[i]] \in StopTimes
      BY <1>4
    <3>2. \A k \in 1 .. Len(times[TripsAsked[i]]) :
            /\ times[TripsAsked[i]][k].arrival \in Nat
            /\ times[TripsAsked[i]][k].departure \in Nat
      BY <3>1, StopTimesFields
    <3> QED BY <2>2, <3>2 DEF Follows
  <2> QED BY <2>1, <2>2, <1>4
<1>12. TripsAsked' = TripsAsked /\ Catchable' = Catchable
  BY <1>1 DEF TripsAsked, Catchable, Unmoved
<1>13. LookupExact'
  <2>1. CASE usable = {}
    <3>1. Catchable = {} /\ answer' = NoTrip
      BY <2>1, <1>1, <1>8
    <3> QED BY <3>1, <1>12 DEF LookupExact
  <2>2. CASE usable # {}
    <3>1. answer' = TripsAsked[best] /\ best \in usable /\ best \in 1 .. n
      BY <2>2, <1>1, <1>9, <1>10
    <3>2. answer' \in Catchable
      BY <3>1, <1>8
    <3>3. ASSUME NEW t \in Catchable
          PROVE  IF ask.latest THEN Follows(times[answer'], times[t])
                               ELSE Follows(times[t], times[answer'])
      <4>1. PICK j \in usable : TripsAsked[j] = t
        BY <1>8
      <4>2. j \in 1 .. n /\ IF ask.latest THEN j <= best ELSE best <= j
        BY <2>2, <1>9, <1>10
      <4> QED BY <4>1, <4>2, <3>1, <1>11
    <3>4. times' = times /\ ask' = ask
      BY <1>1 DEF Unmoved
    <3> QED BY <3>2, <3>3, <3>4, <1>12 DEF LookupExact
  <2> QED BY <2>1, <2>2
<1>14. TypeOK'
  <2>1. answer' \in DOMAIN times \cup {NoTrip}
    <3>1. CASE usable = {}
      BY <3>1, <1>1
    <3>2. CASE usable # {}
      BY <3>2, <1>1, <1>4, <1>9, <1>10
    <3> QED BY <3>1, <3>2
  <2>2. low' \in 1 .. high' /\ high' \in 1 .. Len(TripsAsked') + 1
    BY <1>1, <1>3, <1>12
  <2>3. pc' \in {"reading", "chaining", "built", "halving", "answered"} /\ ask' = ask
    BY <1>1
  <2>4. /\ ask' \in [latest : BOOLEAN, pattern : 1 .. Len(patterns'), position : Nat \ {0},
                     reached : Reached, usable : SUBSET DOMAIN times', route_excluded : BOOLEAN]
        /\ ask'.position <= Len(patterns'[ask'.pattern].stops)
    BY <1>1, <1>3 DEF Unmoved
  <2>5. Unmoved
    BY <1>1
  <2> QED BY <2>1, <2>2, <2>3, <2>4, <2>5 DEF Unmoved, BInv, TypeOK, Sources
<1>15. Narrowed'
  BY <1>1 DEF Narrowed
<1> QED BY <1>2, <1>13, <1>14, <1>15 DEF BInv

LEMMA BReturn == BInv /\ Return => BInv'
<1> SUFFICES ASSUME BInv, Return PROVE BInv'
  OBVIOUS
<1>1. pc' = "built" /\ answer' = NoTrip /\ Unmoved
  BY DEF Return, Unmoved, reading, finishing
<1>2. Fresh' /\ KeysDistinct' /\ Lengths' /\ Placed' /\ NoOvertaking' /\ SplitOnlyOnOvertaking'
  BY <1>1, BuiltStays
<1>3. TypeOK'
  BY <1>1 DEF Unmoved, BInv, TypeOK, Sources
<1>4. Narrowed' /\ LookupExact'
  BY <1>1 DEF Narrowed, LookupExact
<1> QED BY <1>2, <1>3, <1>4 DEF BInv

LEMMA BStutter == BInv /\ UNCHANGED vars => BInv'
<1> SUFFICES ASSUME BInv, UNCHANGED vars PROVE BInv'
  OBVIOUS
<1>1. pc' = pc /\ ask' = ask /\ low' = low /\ high' = high /\ answer' = answer /\ Unmoved
  BY DEF vars, Unmoved
<1>2. KeysDistinct' /\ Lengths' /\ Placed'
  BY <1>1 DEF Unmoved, BInv, Placed, ChainTrips, PatternTrips, ChainsSorted, ChainsSplit,
              SortsBefore, KeysDistinct, Lengths
<1>3. Fresh' /\ NoOvertaking'
  BY <1>1 DEF Unmoved, BInv, Fresh, NoOvertaking
<1>4. SplitOnlyOnOvertaking'
  <2>1. SplitOnlyOnOvertaking /\ patterns' = patterns /\ times' = times
    BY <1>1 DEF BInv, Unmoved
  <2> QED BY <2>1, SMTT(30) DEF SplitOnlyOnOvertaking
<1>5. TripsAsked' = TripsAsked /\ Catchable' = Catchable /\ \A t : Passed(t)' = Passed(t)
  BY <1>1 DEF Unmoved, TripsAsked, Catchable, Passed
<1>6. Narrowed'
  <2>1. Narrowed
    BY DEF BInv
  <2> QED BY <2>1, <1>1, <1>5 DEF Narrowed
<1>7. LookupExact'
  <2>1. LookupExact /\ times' = times
    BY <1>1 DEF BInv, Unmoved
  <2> QED BY <2>1, <1>1, <1>5 DEF LookupExact
<1>8. TypeOK'
  BY <1>1, <1>5 DEF Unmoved, BInv, TypeOK, Sources
<1> QED BY <1>2, <1>3, <1>4, <1>6, <1>7, <1>8 DEF BInv

LEMMA BNext == BInv /\ [Next]_vars => BInv'
<1> SUFFICES ASSUME BInv, [Next]_vars PROVE BInv'
  OBVIOUS
<1>1. CASE ReadTrip
  BY <1>1, BReadTrip
<1>2. CASE StartFinish
  BY <1>2, BStartFinish
<1>3. CASE \E t \in left : PlaceTrip(t)
  BY <1>3, BPlaceTrip
<1>4. CASE FinishPattern
  BY <1>4, BFinishPattern
<1>5. CASE Built
  BY <1>5, BBuilt
<1>6. CASE \E latest, route_excluded \in BOOLEAN, p \in 1 .. Len(patterns), reached \in Reached,
              usable \in SUBSET DOMAIN times :
             \E i \in 1 .. Len(patterns[p].stops) : Ask(latest, p, i, reached, usable, route_excluded)
  BY <1>6, BAsk
<1>7. CASE Halve
  BY <1>7, BHalve
<1>8. CASE Find
  BY <1>8, BFind
<1>9. CASE Return
  BY <1>9, BReturn
<1>10. CASE NothingToAsk \/ UNCHANGED vars
  BY <1>10, BStutter DEF NothingToAsk
<1> QED BY <1>1, <1>2, <1>3, <1>4, <1>5, <1>6, <1>7, <1>8, <1>9, <1>10 DEF Next

LEMMA BAlways == Spec => []BInv
<1>1. Init => BInv
  BY BInit
<1>2. BInv /\ [Next]_vars => BInv'
  BY BNext
<1> QED BY <1>1, <1>2, PTL DEF Spec

----------------------------------------------------------------------------
(* Conservation: what becomes of every trip of the feed.                   *)

GivenOf(t) == [i \in 1 .. Len(feed[t].times) |-> Timed(feed[t].times[i])]
KeyOfTrip(t) == [route |-> feed[t].route, stops |-> feed[t].stops]
\* No time the feed gives is changed.
Keeps(stop_times, given) ==
  \A i \in 1 .. Len(stop_times) :
    /\ given[i].arrival # Blank => stop_times[i].arrival = given[i].arrival
    /\ given[i].departure # Blank => stop_times[i].departure = given[i].departure
\* The trips that were read are with the builder, or quarantined if flawed.
TripsRead ==
  /\ \A t \in 1 .. next - 1 :
       IF Flawed(t) THEN t \in quarantined /\ t \notin DOMAIN times
       ELSE /\ t \in DOMAIN times /\ t \notin quarantined
            /\ registered[pattern_of[t]] = KeyOfTrip(t)
            /\ Forwards(times[t])
            /\ Keeps(times[t], feed[t].times)
  /\ \A t \in DOMAIN times \cup quarantined : t < next
  /\ pc # "reading" => next = Len(feed) + 1
\* A trip waits for its pattern, and once placed is in a chain or a pattern.
InChain(t) == \E c \in 1 .. Len(chains) : \E i \in 1 .. Len(chains[c]) : chains[c][i] = t
InPattern(t) ==
  \E p \in 1 .. Len(patterns) : \E i \in 1 .. Len(patterns[p].trips) : patterns[p].trips[i] = t
Waiting == \A t \in left : pattern_of[t] >= at
Listed == pc # "reading" => \A t \in DOMAIN times \ left : InChain(t) \/ InPattern(t)
ListedOnce ==
  /\ \A c, d \in 1 .. Len(chains) :
       \A i \in 1 .. Len(chains[c]) : \A j \in 1 .. Len(chains[d]) :
         chains[c][i] = chains[d][j] => c = d /\ i = j
  /\ \A p, r \in 1 .. Len(patterns) :
       \A i \in 1 .. Len(patterns[p].trips) : \A j \in 1 .. Len(patterns[r].trips) :
         patterns[p].trips[i] = patterns[r].trips[j] => p = r /\ i = j
AllPlaced == pc \notin {"reading", "chaining"} => left = {} /\ chains = <<>>

KInv == TripsRead /\ Waiting /\ Listed /\ ListedOnce /\ AllPlaced

\* A trip is flawed unless it has two stops or more, times at its ends, and times that flow.
LEMMA FlawedIs ==
  ASSUME feed \in Feeds, NEW t \in 1 .. Len(feed)
  PROVE  Flawed(t) <=> \/ Len(GivenOf(t)) < 2 \/ ~Anchored(GivenOf(t)) \/ ~Flow(GivenOf(t))
<1>1. GivenOf(t) \in Givens /\ Len(GivenOf(t)) \in Nat
  BY FeedFacts, GivenType DEF GivenOf
<1>2. \A i \in 1 .. Len(GivenOf(t)) : IsTimed(GivenOf(t)[i]) =>
        GivenOf(t)[i].arrival \in Nat /\ GivenOf(t)[i].departure \in Nat
  <2> TAKE i \in 1 .. Len(GivenOf(t))
  <2> HAVE IsTimed(GivenOf(t)[i])
  <2>1. GivenOf(t) \in Seq(TimedFields) /\ GivenOf(t)[i].departure \in Nat
    BY <1>1 DEF Givens
  <2>2. GivenOf(t)[i] \in TimedFields
    BY <2>1, ElementOfSeq
  <2> QED BY <2>1, <2>2 DEF TimedFields, Fields, IsTimed
<1> DEFINE g == GivenOf(t)
<1>3. Flawed(t) <=> \/ Len(g) < 2 \/ ~Anchored(g)
                    \/ \E i \in 1 .. Len(g) :
                         /\ IsTimed(g[i])
                         /\ \/ g[i].departure < g[i].arrival
                            \/ \E j \in 1 .. i - 1 : IsTimed(g[j]) /\ g[i].arrival < g[j].departure
  BY DEF Flawed, GivenOf
<1>4. Flow(g) <=> ~ \E i \in 1 .. Len(g) :
                      /\ IsTimed(g[i])
                      /\ \/ g[i].departure < g[i].arrival
                         \/ \E j \in 1 .. i - 1 : IsTimed(g[j]) /\ g[i].arrival < g[j].departure
  <2>1. \A i \in 1 .. Len(g) : \A j \in 1 .. i - 1 : j \in 1 .. Len(g)
    BY <1>1
  <2> HIDE DEF g
  <2>2. \A i \in 1 .. Len(g) : IsTimed(g[i]) =>
          (g[i].arrival <= g[i].departure <=> ~(g[i].departure < g[i].arrival))
    BY <1>2 DEF g
  <2>3. \A i \in 1 .. Len(g) : \A j \in 1 .. i - 1 : IsTimed(g[i]) /\ IsTimed(g[j]) =>
          (g[j].departure <= g[i].arrival <=> ~(g[i].arrival < g[j].departure))
    BY <1>2, <2>1 DEF g
  <2> QED BY <2>2, <2>3 DEF Flow
<1> QED BY <1>3, <1>4

\* Filling blanks leaves every time the feed gave as it was.
LEMMA FilledKeeps ==
  ASSUME feed \in Feeds, NEW t \in 1 .. Len(feed), Len(GivenOf(t)) >= 2, Anchored(GivenOf(t))
  PROVE  Keeps(Filled(GivenOf(t)), feed[t].times)
<1>1. /\ GivenOf(t) \in Givens /\ Len(GivenOf(t)) = Len(feed[t].times)
      /\ feed[t].times \in Seq(TimedFields)
  BY FeedFacts, GivenType DEF GivenOf, FeedTrips, TimedFields
<1>2. Len(Filled(GivenOf(t))) = Len(feed[t].times)
  BY <1>1, FilledType
<1>3. ASSUME NEW i \in 1 .. Len(feed[t].times)
      PROVE  LET g == feed[t].times[i]
                 f == Filled(GivenOf(t))[i]
             IN  /\ g.arrival # Blank => f.arrival = g.arrival
                 /\ g.departure # Blank => f.departure = g.departure
  <2> DEFINE g == feed[t].times[i]
  <2>1. g \in TimedFields
    BY <1>1, ElementOfSeq
  <2>2. GivenOf(t)[i] = Timed(g)
    BY DEF GivenOf
  <2>3. /\ g.arrival # Blank => Timed(g).arrival = g.arrival
        /\ g.departure # Blank => Timed(g).departure = g.departure
        /\ g.arrival # Blank \/ g.departure # Blank => IsTimed(Timed(g))
    BY <2>1 DEF TimedFields, Timed, IsTimed
  <2>4. IsTimed(GivenOf(t)[i]) => Filled(GivenOf(t))[i] = GivenOf(t)[i]
    BY <1>1 DEF Filled
  <2> HIDE DEF g
  <2>5. /\ g.arrival # Blank => Filled(GivenOf(t))[i].arrival = g.arrival
        /\ g.departure # Blank => Filled(GivenOf(t))[i].departure = g.departure
    BY <2>2, <2>3, <2>4
  <2> QED BY <2>5 DEF g
<1> QED BY <1>2, <1>3 DEF Keeps

LEMMA KInit == Init => KInv
<1> SUFFICES ASSUME Init PROVE KInv
  OBVIOUS
<1>1. Len(chains) = 0 /\ Len(patterns) = 0 /\ DOMAIN times = {} /\ left = {} /\ quarantined = {}
      /\ pc = "reading" /\ next = 1
  BY EmptyTyped DEF Init
<1>2. 1 .. next - 1 = {}
  BY <1>1
<1> QED BY <1>1, <1>2 DEF KInv, TripsRead, Waiting, Listed, ListedOnce, AllPlaced

LEMMA KReadTrip == BInv /\ KInv /\ ReadTrip => KInv'
<1> SUFFICES ASSUME BInv, KInv, ReadTrip PROVE KInv'
  OBVIOUS
<1> DEFINE given == GivenOf(next)
<1>1. /\ TypeOK /\ Fresh /\ KeysDistinct
      /\ pc = "reading" /\ next <= Len(feed) /\ next' = next + 1
      /\ UNCHANGED <<feed, pc, finishing, lookup>>
      /\ IF Len(given) < 2 \/ ~Anchored(given) THEN Quarantine ELSE Add(given)
  BY DEF BInv, ReadTrip, GivenOf
<1>2. /\ feed \in Feeds /\ feed' = feed /\ Len(feed) \in Nat
      /\ next \in 1 .. Len(feed) /\ next \in Nat
      /\ registered \in Seq(Keys) /\ pattern_of \in [DOMAIN times -> 1 .. Len(registered)]
  BY <1>1, FeedFacts DEF TypeOK
<1>3. /\ chains' = <<>> /\ patterns' = <<>> /\ at' = 1 /\ left' = {} /\ pc' = "reading"
  BY <1>1 DEF Fresh, finishing
<1>4. Waiting' /\ Listed' /\ ListedOnce' /\ AllPlaced'
  <2>1. Len(chains') = 0 /\ Len(patterns') = 0
    BY <1>3, EmptyTyped
  <2> QED BY <1>3, <2>1 DEF Waiting, Listed, ListedOnce, AllPlaced
<1>5. given \in Givens /\ Len(given) \in Nat /\ feed[next] \in FeedTrips
  BY <1>2, FeedFacts, GivenType DEF GivenOf
<1>6. \A t : Flawed(t)' = Flawed(t) /\ KeyOfTrip(t)' = KeyOfTrip(t)
  BY <1>2 DEF Flawed, KeyOfTrip
\* What is left to show: the next trip is dealt with, and the others stay as they were.
<1>7. ASSUME IF Flawed(next) THEN next \in quarantined' /\ next \notin DOMAIN times'
             ELSE /\ next \in DOMAIN times' /\ next \notin quarantined'
                  /\ registered'[pattern_of'[next]] = KeyOfTrip(next)
                  /\ Forwards(times'[next])
                  /\ Keeps(times'[next], feed[next].times),
             DOMAIN times' \cup quarantined' \subseteq DOMAIN times \cup quarantined \cup {next},
             \A t \in 1 .. next - 1 :
               /\ t \in quarantined' <=> t \in quarantined
               /\ t \in DOMAIN times' <=> t \in DOMAIN times
               /\ t \in DOMAIN times => /\ times'[t] = times[t] /\ pattern_of'[t] = pattern_of[t]
                                        /\ registered'[pattern_of[t]] = registered[pattern_of[t]]
      PROVE  TripsRead'
  <2>1. \A t \in 1 .. next - 1 :
          IF Flawed(t) THEN t \in quarantined /\ t \notin DOMAIN times
          ELSE /\ t \in DOMAIN times /\ t \notin quarantined
               /\ registered[pattern_of[t]] = KeyOfTrip(t)
               /\ Forwards(times[t])
               /\ Keeps(times[t], feed[t].times)
    BY DEF KInv, TripsRead
  <2>2. \A t \in 1 .. next' - 1 :
          IF Flawed(t) THEN t \in quarantined' /\ t \notin DOMAIN times'
          ELSE /\ t \in DOMAIN times' /\ t \notin quarantined'
               /\ registered'[pattern_of'[t]] = KeyOfTrip(t)
               /\ Forwards(times'[t])
               /\ Keeps(times'[t], feed[t].times)
    <3> TAKE t \in 1 .. next' - 1
    <3>1. t \in 1 .. next - 1 \/ t = next
      BY <1>1, <1>2
    <3>2. CASE t = next
      BY <3>2, <1>7
    <3>3. CASE t \in 1 .. next - 1
      <4>1. CASE Flawed(t)
        BY <3>3, <4>1, <2>1, <1>7
      <4>2. CASE ~Flawed(t)
        <5>1. /\ t \in DOMAIN times /\ t \notin quarantined
              /\ registered[pattern_of[t]] = KeyOfTrip(t) /\ Forwards(times[t])
              /\ Keeps(times[t], feed[t].times)
          BY <3>3, <4>2, <2>1
        <5>2. /\ t \in DOMAIN times' /\ t \notin quarantined'
              /\ times'[t] = times[t] /\ pattern_of'[t] = pattern_of[t]
              /\ registered'[pattern_of[t]] = registered[pattern_of[t]]
          BY <3>3, <5>1, <1>7
        <5> QED BY <4>2, <5>1, <5>2
      <4> QED BY <4>1, <4>2
    <3> QED BY <3>1, <3>2, <3>3
  <2>3. \A t \in DOMAIN times' \cup quarantined' : t < next'
    <3>1. \A t \in DOMAIN times \cup quarantined : t < next
      BY DEF KInv, TripsRead
    <3>2. DOMAIN times \cup quarantined \subseteq 1 .. Len(feed)
      BY <1>1, <1>2, FeedFacts DEF TypeOK, Sources
    <3> QED BY <3>1, <3>2, <1>1, <1>2, <1>7
  <2>4. pc' = "reading"
    BY <1>3
  <2> QED BY <2>2, <2>3, <2>4, <1>2, <1>6, Zenon DEF TripsRead, Forwards, Keeps
<1>8. next \notin DOMAIN times /\ next \notin quarantined /\ next \notin 1 .. next - 1
  <2>1. \A t \in DOMAIN times \cup quarantined : t < next
    BY DEF KInv, TripsRead
  <2> QED BY <1>2, <2>1
<1>9. CASE Quarantine /\ (Len(given) < 2 \/ ~Anchored(given))
  <2>1. quarantined' = quarantined \cup {next}
        /\ registered' = registered /\ times' = times /\ pattern_of' = pattern_of
    BY <1>9 DEF Quarantine
  <2>2. Flawed(next)
    BY <1>2, <1>9, FlawedIs
  <2>3. TripsRead'
    BY <2>1, <2>2, <1>7, <1>8
  <2> QED BY <1>4, <2>3 DEF KInv
<1>10. CASE Add(given) /\ ~(Len(given) < 2 \/ ~Anchored(given))
  <2> DEFINE key == KeyOfTrip(next)
             all == IF \E p \in 1 .. Len(registered) : registered[p] = key
                      THEN registered ELSE Append(registered, key)
             filled == Filled(given)
  <2>1. key \in Keys
    BY <1>5 DEF FeedTrips, Keys, KeyOfTrip
  <2>2. /\ registered' = all
        /\ IF Forwards(filled)
             THEN /\ times' = [t \in DOMAIN times \cup {next} |->
                                 IF t = next THEN filled ELSE times[t]]
                  /\ pattern_of' = [t \in DOMAIN pattern_of \cup {next} |->
                                      IF t = next THEN CHOOSE p \in 1 .. Len(all) : all[p] = key
                                      ELSE pattern_of[t]]
                  /\ quarantined' = quarantined
             ELSE /\ quarantined' = quarantined \cup {next}
                  /\ times' = times /\ pattern_of' = pattern_of
    BY <1>10 DEF Add, KeyOfTrip
  <2>3. Len(given) >= 2 /\ Anchored(given)
    BY <1>5, <1>10
  <2>4. Flawed(next) <=> ~Forwards(filled)
    BY <1>2, <1>5, <2>3, FlawedIs, FilledForwardsIffFlow
  <2>5. Keeps(filled, feed[next].times)
    BY <1>2, <2>3, FilledKeeps
  <2>6. all = IF \E p \in 1 .. Len(registered) : registered[p] = key
                THEN registered ELSE Append(registered, key)
    OBVIOUS
  <2> HIDE DEF filled, key, given, all
  <2>7. /\ \E p \in 1 .. Len(all) : all[p] = key
        /\ \A p \in 1 .. Len(registered) : all[p] = registered[p]
    BY <1>1, <1>2, <2>1, <2>6, Registering
  <2>8. \A t \in DOMAIN times : registered'[pattern_of[t]] = registered[pattern_of[t]]
    BY <1>2, <2>2, <2>7
  <2>9. CASE Forwards(filled)
    <3> DEFINE new == CHOOSE p \in 1 .. Len(all) : all[p] = key
    <3>1. all[new] = key
      BY <2>7
    <3> HIDE DEF new
    <3>2. /\ DOMAIN times' = DOMAIN times \cup {next} /\ quarantined' = quarantined
          /\ times'[next] = filled
          /\ \A t \in DOMAIN times : t # next => times'[t] = times[t]
      BY <2>2, <2>9
    <3>3. /\ pattern_of'[next] = new
          /\ \A t \in DOMAIN times : t # next => pattern_of'[t] = pattern_of[t]
      BY <1>2, <2>2, <2>9 DEF new
    <3>4. registered'[pattern_of'[next]] = KeyOfTrip(next)
      BY <2>2, <3>1, <3>3 DEF key
    <3>5. TripsRead'
      BY <1>7, <1>8, <2>4, <2>5, <2>8, <2>9, <3>2, <3>3, <3>4
    <3> QED BY <1>4, <3>5 DEF KInv
  <2>10. CASE ~Forwards(filled)
    <3>1. quarantined' = quarantined \cup {next} /\ times' = times /\ pattern_of' = pattern_of
      BY <2>2, <2>10
    <3>2. TripsRead'
      BY <1>7, <1>8, <2>4, <2>8, <2>10, <3>1
    <3> QED BY <1>4, <3>2 DEF KInv
  <2> QED BY <2>9, <2>10
<1> QED BY <1>1, <1>9, <1>10

\* Beyond reading, what was read stays as it is.
LEMMA TripsStayRead ==
  ASSUME TripsRead, next = Len(feed) + 1,
         feed' = feed, next' = next, registered' = registered, times' = times,
         pattern_of' = pattern_of, quarantined' = quarantined
  PROVE  TripsRead'
<1>1. \A t : Flawed(t)' = Flawed(t)
  BY DEF Flawed
<1>2. \A t : KeyOfTrip(t)' = KeyOfTrip(t)
  BY DEF KeyOfTrip
<1>3. \A t : Forwards(times[t])' = Forwards(times[t])
             /\ Keeps(times[t], feed[t].times)' = Keeps(times[t], feed[t].times)
  BY DEF Forwards, Keeps
<1> QED BY <1>1, <1>2, <1>3, Zenon DEF TripsRead

LEMMA KStartFinish == BInv /\ KInv /\ StartFinish => KInv'
<1> SUFFICES ASSUME BInv, KInv, StartFinish PROVE KInv'
  OBVIOUS
<1>1. /\ TypeOK /\ Fresh /\ TripsRead
      /\ pc = "reading" /\ pc' = "chaining" /\ next > Len(feed) /\ left' = DOMAIN times
      /\ feed' = feed /\ next' = next /\ registered' = registered /\ times' = times
      /\ pattern_of' = pattern_of /\ quarantined' = quarantined
      /\ at' = at /\ chains' = chains /\ patterns' = patterns
  BY DEF BInv, KInv, StartFinish, reading, lookup
<1>2. next = Len(feed) + 1
  <2>1. next \in 1 .. Len(feed) + 1 /\ Len(feed) \in Nat
    BY <1>1, FeedFacts DEF TypeOK
  <2> QED BY <1>1, <2>1
<1>3. TripsRead'
  BY <1>1, <1>2, TripsStayRead
<1>4. Len(chains') = 0 /\ Len(patterns') = 0 /\ at' = 1
  BY <1>1, EmptyTyped DEF Fresh
<1>5. Waiting'
  <2>1. Len(registered) \in Nat
    BY <1>1 DEF TypeOK
  <2> QED BY <2>1, <1>1, <1>4 DEF TypeOK, Waiting
<1>6. Listed' /\ ListedOnce' /\ AllPlaced'
  BY <1>1, <1>4 DEF Listed, ListedOnce, AllPlaced
<1> QED BY <1>3, <1>5, <1>6 DEF KInv

LEMMA KPlaceTrip == \A t \in left : BInv /\ KInv /\ PlaceTrip(t) => KInv'
<1> SUFFICES ASSUME NEW t \in left, BInv, KInv, PlaceTrip(t) PROVE KInv'
  OBVIOUS
<1>1. PICK c \in Nat, m \in Nat : PlacedAt(t, c, m)
  BY Placement
<1>2. /\ TypeOK /\ ChainTrips /\ TripsRead /\ Waiting /\ Listed /\ ListedOnce
  BY DEF BInv, Placed, KInv
<1>3. /\ pc = "chaining" /\ pc' = pc /\ left' = left \ {t}
      /\ feed' = feed /\ next' = next /\ registered' = registered /\ times' = times
      /\ pattern_of' = pattern_of /\ quarantined' = quarantined
      /\ at' = at /\ patterns' = patterns
  BY DEF PlaceTrip, reading, lookup
<1>4. TripsRead'
  <2>1. next = Len(feed) + 1
    BY <1>2, <1>3 DEF TripsRead
  <2> QED BY <2>1, <1>2, <1>3, TripsStayRead
<1>5. Waiting' /\ AllPlaced'
  BY <1>2, <1>3 DEF Waiting, AllPlaced
<1>6. \A d \in 1 .. Len(chains) :
        /\ chains[d] \in Seq(DOMAIN times) /\ Len(chains[d]) \in Nat
        /\ \A i \in 1 .. Len(chains[d]) : chains[d][i] # t
  <2>1. \A d \in 1 .. Len(chains) : chains[d] \in Seq(DOMAIN times)
    BY <1>2, ElementOfSeq DEF TypeOK
  <2> QED BY <2>1, <1>2 DEF ChainTrips
\* The chains after the step: the end of c is t, everything else was there.
<1>7. /\ c \in 1 .. Len(chains') /\ m + 1 \in 1 .. Len(chains'[c]) /\ chains'[c][m + 1] = t
      /\ \A d \in 1 .. Len(chains') : \A i \in 1 .. Len(chains'[d]) :
           (d # c \/ i # m + 1) =>
             d \in 1 .. Len(chains) /\ i \in 1 .. Len(chains[d]) /\ chains'[d][i] = chains[d][i]
      /\ \A d \in 1 .. Len(chains) : \A i \in 1 .. Len(chains[d]) :
           d \in 1 .. Len(chains') /\ i \in 1 .. Len(chains'[d]) /\ chains'[d][i] = chains[d][i]
  <2>1. c \in 1 .. Len(chains') /\ Len(chains'[c]) = m + 1 /\ chains'[c][m + 1] = t
    BY <1>1 DEF PlacedAt
  <2>2. ASSUME NEW d \in 1 .. Len(chains'), NEW i \in 1 .. Len(chains'[d]), d # c \/ i # m + 1
        PROVE  d \in 1 .. Len(chains) /\ i \in 1 .. Len(chains[d]) /\ chains'[d][i] = chains[d][i]
    <3>1. CASE d # c
      BY <3>1, <1>1 DEF PlacedAt
    <3>2. CASE d = c
      <4>1. i \in 1 .. m /\ m # 0
        BY <3>2, <2>1, <2>2
      <4> QED BY <4>1, <3>2, <1>1 DEF PlacedAt
    <3> QED BY <3>1, <3>2
  <2>3. ASSUME NEW d \in 1 .. Len(chains), NEW i \in 1 .. Len(chains[d])
        PROVE  d \in 1 .. Len(chains') /\ i \in 1 .. Len(chains'[d]) /\ chains'[d][i] = chains[d][i]
    <3>1. CASE d # c
      BY <3>1, <1>1 DEF PlacedAt
    <3>2. CASE d = c
      <4>1. i \in 1 .. m /\ i \in 1 .. m + 1
        BY <3>2, <1>1 DEF PlacedAt
      <4> QED BY <4>1, <3>2, <2>1, <1>1 DEF PlacedAt
    <3> QED BY <3>1, <3>2
  <2> QED BY <2>1, <2>2, <2>3
<1>8. Listed'
  <2> SUFFICES ASSUME NEW u \in DOMAIN times, u \notin left'
               PROVE  InChain(u)' \/ InPattern(u)'
    BY <1>3 DEF Listed
  <2>1. CASE u = t
    BY <2>1, <1>7 DEF InChain
  <2>2. CASE u # t
    <3>1. InChain(u) \/ InPattern(u)
      BY <2>2, <1>2, <1>3 DEF Listed
    <3>2. InChain(u) => InChain(u)'
      BY <1>7 DEF InChain
    <3>3. InPattern(u) => InPattern(u)'
      BY <1>3 DEF InPattern
    <3> QED BY <3>1, <3>2, <3>3
  <2> QED BY <2>1, <2>2
<1>9. ListedOnce'
  <2>1. ASSUME NEW d \in 1 .. Len(chains'), NEW e \in 1 .. Len(chains'),
               NEW i \in 1 .. Len(chains'[d]), NEW j \in 1 .. Len(chains'[e]),
               chains'[d][i] = chains'[e][j]
        PROVE  d = e /\ i = j
    <3>1. CASE (d # c \/ i # m + 1) /\ (e # c \/ j # m + 1)
      <4>1. /\ d \in 1 .. Len(chains) /\ i \in 1 .. Len(chains[d]) /\ chains'[d][i] = chains[d][i]
            /\ e \in 1 .. Len(chains) /\ j \in 1 .. Len(chains[e]) /\ chains'[e][j] = chains[e][j]
        BY <3>1, <1>7
      <4>2. chains[d][i] = chains[e][j]
        BY <4>1, <2>1
      <4>3. \A x, y \in 1 .. Len(chains) :
              \A k \in 1 .. Len(chains[x]) : \A l \in 1 .. Len(chains[y]) :
                chains[x][k] = chains[y][l] => x = y /\ k = l
        BY <1>2 DEF ListedOnce
      <4> QED BY <4>1, <4>2, <4>3
    <3>2. CASE (d = c /\ i = m + 1) /\ (e # c \/ j # m + 1)
      <4>1. chains'[d][i] = t
        BY <3>2, <1>7
      <4>2. e \in 1 .. Len(chains) /\ j \in 1 .. Len(chains[e]) /\ chains'[e][j] = chains[e][j]
        BY <3>2, <1>7, Zenon
      <4> QED BY <4>1, <4>2, <2>1, <1>6, Zenon
    <3>3. CASE (d # c \/ i # m + 1) /\ (e = c /\ j = m + 1)
      <4>1. chains'[e][j] = t
        BY <3>3, <1>7
      <4>2. d \in 1 .. Len(chains) /\ i \in 1 .. Len(chains[d]) /\ chains'[d][i] = chains[d][i]
        BY <3>3, <1>7, Zenon
      <4> QED BY <4>1, <4>2, <2>1, <1>6, Zenon
    <3> QED BY <3>1, <3>2, <3>3
  <2>2. \A p, r \in 1 .. Len(patterns') :
          \A i \in 1 .. Len(patterns'[p].trips) : \A j \in 1 .. Len(patterns'[r].trips) :
            patterns'[p].trips[i] = patterns'[r].trips[j] => p = r /\ i = j
    BY <1>2, <1>3, SMTT(30) DEF ListedOnce
  <2> QED BY <2>1, <2>2 DEF ListedOnce
<1> QED BY <1>4, <1>5, <1>8, <1>9 DEF KInv

LEMMA KFinishPattern == BInv /\ KInv /\ FinishPattern => KInv'
<1> SUFFICES ASSUME BInv, KInv, FinishPattern PROVE KInv'
  OBVIOUS
<1> DEFINE n == Len(patterns)
<1>1. /\ TypeOK /\ ChainTrips /\ PatternTrips /\ TripsRead /\ Waiting /\ Listed /\ ListedOnce
  BY DEF BInv, Placed, KInv
<1>2. /\ pc = "chaining" /\ pc' = pc /\ at' = at + 1 /\ chains' = <<>>
      /\ \A t \in left : pattern_of[t] # at
      /\ feed' = feed /\ next' = next /\ registered' = registered /\ times' = times
      /\ pattern_of' = pattern_of /\ quarantined' = quarantined /\ left' = left
  BY DEF FinishPattern, reading, lookup
<1>3. /\ at \in Nat /\ Len(registered) \in Nat /\ Len(chains) \in Nat /\ n \in Nat
      /\ Len(patterns') = n + Len(chains)
      /\ \A p \in 1 .. n : patterns'[p] = patterns[p]
      /\ \A p \in 1 .. Len(patterns') : p \notin 1 .. n =>
           p - n \in 1 .. Len(chains) /\ patterns'[p].trips = chains[p - n]
  <2>1. \A r \in Nat : \A x \in 1 .. r : x \in Nat
    OBVIOUS
  <2> QED BY <2>1, FinalPatterns
<1>4. TripsRead'
  <2>1. next = Len(feed) + 1
    BY <1>1, <1>2 DEF TripsRead
  <2> QED BY <2>1, <1>1, <1>2, TripsStayRead
<1>5. Waiting' /\ AllPlaced'
  <2>1. \A t \in left : pattern_of[t] \in Nat /\ pattern_of[t] >= at /\ pattern_of[t] # at
    BY <1>1, <1>2, <1>3 DEF Waiting, TypeOK
  <2> QED BY <2>1, <1>2, <1>3 DEF Waiting, AllPlaced
<1>6. Listed'
  <2> SUFFICES ASSUME NEW u \in DOMAIN times, u \notin left
               PROVE  InPattern(u)'
    BY <1>2 DEF Listed
  <2>1. CASE InPattern(u)
    <3>1. PICK p \in 1 .. n : \E i \in 1 .. Len(patterns[p].trips) : patterns[p].trips[i] = u
      BY <2>1 DEF InPattern
    <3>2. p \in 1 .. Len(patterns') /\ patterns'[p] = patterns[p]
      BY <1>3
    <3> QED BY <3>1, <3>2 DEF InPattern
  <2>2. CASE InChain(u)
    <3>1. PICK c \in 1 .. Len(chains) : \E i \in 1 .. Len(chains[c]) : chains[c][i] = u
      BY <2>2 DEF InChain
    <3>2. n + c \in 1 .. Len(patterns') /\ n + c \notin 1 .. n /\ (n + c) - n = c
      BY <1>3
    <3>3. patterns'[n + c].trips = chains[c]
      BY <3>2, <1>3
    <3> QED BY <3>1, <3>2, <3>3 DEF InPattern
  <2> QED BY <2>1, <2>2, <1>1, <1>2 DEF Listed
<1>7. ListedOnce'
  <2>1. Len(chains') = 0
    BY <1>2, EmptyTyped
  <2>2. \A p \in 1 .. n : \A i \in 1 .. Len(patterns[p].trips) :
          pattern_of[patterns[p].trips[i]] # at
    BY <1>1, <1>3 DEF PatternTrips
  <2>3. \A c \in 1 .. Len(chains) : \A i \in 1 .. Len(chains[c]) : pattern_of[chains[c][i]] = at
    BY <1>1 DEF ChainTrips
  <2>4. ASSUME NEW p \in 1 .. Len(patterns'), NEW r \in 1 .. Len(patterns'),
               NEW i \in 1 .. Len(patterns'[p].trips), NEW j \in 1 .. Len(patterns'[r].trips),
               patterns'[p].trips[i] = patterns'[r].trips[j]
        PROVE  p = r /\ i = j
    <3>1. CASE p \in 1 .. n /\ r \in 1 .. n
      <4>1. patterns'[p] = patterns[p] /\ patterns'[r] = patterns[r]
        BY <3>1, <1>3
      <4> QED BY <4>1, <3>1, <2>4, <1>1 DEF ListedOnce
    <3>2. CASE p \in 1 .. n /\ r \notin 1 .. n
      <4>1. /\ patterns'[p] = patterns[p]
            /\ r - n \in 1 .. Len(chains) /\ patterns'[r].trips = chains[r - n]
        BY <3>2, <1>3
      <4>2. pattern_of[patterns'[p].trips[i]] # at
        BY <4>1, <3>2, <2>2
      <4>3. pattern_of[patterns'[r].trips[j]] = at
        BY <4>1, <2>3
      <4> QED BY <4>2, <4>3, <2>4
    <3>3. CASE p \notin 1 .. n /\ r \in 1 .. n
      <4>1. /\ patterns'[r] = patterns[r]
            /\ p - n \in 1 .. Len(chains) /\ patterns'[p].trips = chains[p - n]
        BY <3>3, <1>3
      <4>2. pattern_of[patterns'[r].trips[j]] # at
        BY <4>1, <3>3, <2>2
      <4>3. pattern_of[patterns'[p].trips[i]] = at
        BY <4>1, <2>3
      <4> QED BY <4>2, <4>3, <2>4
    <3>4. CASE p \notin 1 .. n /\ r \notin 1 .. n
      <4>1. /\ p - n \in 1 .. Len(chains) /\ patterns'[p].trips = chains[p - n]
            /\ r - n \in 1 .. Len(chains) /\ patterns'[r].trips = chains[r - n]
        BY <3>4, <1>3
      <4>0. /\ i \in 1 .. Len(chains[p - n]) /\ j \in 1 .. Len(chains[r - n])
            /\ chains[p - n][i] = chains[r - n][j]
        BY <4>1, <2>4
      <4>2. p - n = r - n /\ i = j
        <5>1. \A x, y \in 1 .. Len(chains) :
                \A k \in 1 .. Len(chains[x]) : \A l \in 1 .. Len(chains[y]) :
                  chains[x][k] = chains[y][l] => x = y /\ k = l
          BY <1>1 DEF ListedOnce
        <5> DEFINE x == p - n
                   y == r - n
        <5>2. x \in 1 .. Len(chains) /\ y \in 1 .. Len(chains) /\ i \in 1 .. Len(chains[x])
              /\ j \in 1 .. Len(chains[y]) /\ chains[x][i] = chains[y][j]
          BY <4>0, <4>1
        <5> HIDE DEF x, y
        <5>3. x = y /\ i = j
          BY <5>1, <5>2
        <5> QED BY <5>3 DEF x, y
      <4> QED BY <4>2, <1>3
    <3> QED BY <3>1, <3>2, <3>3, <3>4
  <2> QED BY <2>1, <2>4 DEF ListedOnce
<1> QED BY <1>4, <1>5, <1>6, <1>7 DEF KInv

\* A step that leaves the build alone, or ends it.
LEMMA KUnmoved ==
  ASSUME KInv, Unmoved, pc' = "reading" <=> pc = "reading",
         pc' \notin {"reading", "chaining"} => left = {} /\ chains = <<>>
  PROVE  KInv'
<1>1. TripsRead'
  <2>1. CASE pc = "reading"
    <3>1. \A t : Flawed(t)' = Flawed(t) /\ KeyOfTrip(t)' = KeyOfTrip(t)
      BY DEF Flawed, KeyOfTrip, Unmoved
    <3>2. \A t : Forwards(times[t])' = Forwards(times[t])
                 /\ Keeps(times[t], feed[t].times)' = Keeps(times[t], feed[t].times)
      BY DEF Forwards, Keeps, Unmoved
    <3>3. TripsRead /\ pc' = "reading"
      BY <2>1 DEF KInv
    <3> QED BY <3>1, <3>2, <3>3, Zenon DEF TripsRead, Unmoved
  <2>2. CASE pc # "reading"
    <3>1. TripsRead /\ next = Len(feed) + 1
      BY <2>2 DEF KInv, TripsRead
    <3> QED BY <3>1, TripsStayRead DEF Unmoved
  <2> QED BY <2>1, <2>2
<1>2. Waiting'
  BY DEF KInv, Waiting, Unmoved
<1>3. Listed'
  <2>1. \A t : InChain(t)' = InChain(t) /\ InPattern(t)' = InPattern(t)
    BY DEF InChain, InPattern, Unmoved
  <2> QED BY <2>1, Zenon DEF KInv, Listed, Unmoved
<1>4. ListedOnce'
  BY DEF KInv, ListedOnce, Unmoved
<1>5. AllPlaced'
  BY DEF AllPlaced, Unmoved
<1> QED BY <1>1, <1>2, <1>3, <1>4, <1>5 DEF KInv

\* With every pattern finished nothing waits and no chain is open.
LEMMA KBuilt == BInv /\ KInv /\ Built => KInv'
<1> SUFFICES ASSUME BInv, KInv, Built PROVE KInv'
  OBVIOUS
<1>1. /\ pc = "chaining" /\ pc' = "built" /\ at > Len(registered) /\ Unmoved
  BY DEF Built, Unmoved, reading, finishing, lookup
<1>2. TypeOK /\ ChainTrips /\ Waiting
  BY DEF BInv, Placed, KInv
<1>3. Len(registered) \in Nat /\ at \in Nat /\ \A t \in DOMAIN times : pattern_of[t] \in 1 .. Len(registered)
  BY <1>2 DEF TypeOK
<1>4. left = {}
  BY <1>1, <1>2, <1>3 DEF Waiting, TypeOK
<1>5. chains = <<>>
  <2>1. chains \in Seq(Seq(DOMAIN times))
    BY <1>2 DEF TypeOK
  <2>2. \A c \in 1 .. Len(chains) : chains[c] \in Seq(DOMAIN times)
    BY <2>1, ElementOfSeq
  <2>3. ASSUME NEW c \in 1 .. Len(chains) PROVE FALSE
    <3>1. 1 \in 1 .. Len(chains[c]) /\ pattern_of[chains[c][1]] = at
      BY <2>2, <1>2 DEF ChainTrips
    <3>2. chains[c][1] \in DOMAIN times
      BY <3>1, <2>2, ElementOfSeq
    <3> QED BY <3>1, <3>2, <1>1, <1>3
  <2>4. Len(chains) \in Nat /\ 1 .. Len(chains) = {}
    BY <2>1, <2>3
  <2>5. Len(chains) = 0
    BY <2>4
  <2> QED BY <2>1, <2>5
<1> QED BY <1>1, <1>4, <1>5, KUnmoved

LEMMA KNext == BInv /\ KInv /\ [Next]_vars => KInv'
<1> SUFFICES ASSUME BInv, KInv, [Next]_vars PROVE KInv'
  OBVIOUS
<1>1. CASE ReadTrip
  BY <1>1, KReadTrip
<1>2. CASE StartFinish
  BY <1>2, KStartFinish
<1>3. CASE \E t \in left : PlaceTrip(t)
  BY <1>3, KPlaceTrip
<1>4. CASE FinishPattern
  BY <1>4, KFinishPattern
<1>5. CASE Built
  BY <1>5, KBuilt
<1>6. CASE \E latest, route_excluded \in BOOLEAN, p \in 1 .. Len(patterns), reached \in Reached,
              usable \in SUBSET DOMAIN times :
             \E i \in 1 .. Len(patterns[p].stops) : Ask(latest, p, i, reached, usable, route_excluded)
  <2>1. pc = "built" /\ pc' \in {"answered", "halving"} /\ Unmoved
    BY <1>6 DEF Ask, Unmoved, reading, finishing
  <2> QED BY <2>1, KUnmoved DEF KInv, AllPlaced
<1>7. CASE Halve
  <2>1. pc = "halving" /\ pc' = pc /\ Unmoved
    BY <1>7 DEF Halve, Unmoved, reading, finishing
  <2> QED BY <2>1, KUnmoved DEF KInv, AllPlaced
<1>8. CASE Find
  <2>1. pc = "halving" /\ pc' = "answered" /\ Unmoved
    BY <1>8 DEF Find, Unmoved, reading, finishing
  <2> QED BY <2>1, KUnmoved DEF KInv, AllPlaced
<1>9. CASE Return
  <2>1. pc = "answered" /\ pc' = "built" /\ Unmoved
    BY <1>9 DEF Return, Unmoved, reading, finishing
  <2> QED BY <2>1, KUnmoved DEF KInv, AllPlaced
<1>10. CASE NothingToAsk \/ UNCHANGED vars
  <2>1. pc' = pc /\ Unmoved
    BY <1>10 DEF NothingToAsk, vars, Unmoved
  <2> QED BY <2>1, KUnmoved DEF KInv, AllPlaced
<1> QED BY <1>1, <1>2, <1>3, <1>4, <1>5, <1>6, <1>7, <1>8, <1>9, <1>10 DEF Next

\* Where a trip is listed once, that place is all of Places.
LEMMA PlacesOf ==
  ASSUME NEW p \in 1 .. Len(patterns), NEW i \in 1 .. Len(patterns[p].trips), ListedOnce
  PROVE  Places(patterns[p].trips[i]) = {<<p, i>>}
<1> DEFINE t == patterns[p].trips[i]
<1>1. \A place : place \in Places(t) <=>
        \E r \in 1 .. Len(patterns) : \E j \in 1 .. Len(patterns[r].trips) :
          patterns[r].trips[j] = t /\ place = <<r, j>>
  BY DEF Places
<1>2. \A r \in 1 .. Len(patterns) : \A j \in 1 .. Len(patterns[r].trips) :
        patterns[r].trips[j] = t <=> (r = p /\ j = i)
  BY DEF ListedOnce
<1> HIDE DEF t
<1>3. \A place : place \in Places(t) <=> place = <<p, i>>
  BY <1>1, <1>2
<1> QED BY <1>3 DEF t

LEMMA ConservedByParts == BInv /\ KInv => TripsConserved
<1> SUFFICES ASSUME BInv, KInv, pc \notin {"reading", "chaining"}, NEW t \in Sources
             PROVE  IF Flawed(t) THEN t \in quarantined /\ Places(t) = {}
                    ELSE /\ t \notin quarantined
                         /\ Cardinality(Places(t)) = 1
                         /\ \A place \in Places(t) : /\ patterns[place[1]].route = feed[t].route
                                                     /\ patterns[place[1]].stops = feed[t].stops
                         /\ Forwards(times[t])
                         /\ \A i \in 1 .. Len(times[t]) :
                              /\ feed[t].times[i].arrival # Blank => times[t][i].arrival = feed[t].times[i].arrival
                              /\ feed[t].times[i].departure # Blank =>
                                   times[t][i].departure = feed[t].times[i].departure
  BY Zenon DEF TripsConserved
<1>1. /\ TypeOK /\ PatternTrips /\ TripsRead /\ Listed /\ ListedOnce /\ AllPlaced
  BY DEF BInv, Placed, KInv
<1>2. /\ next = Len(feed) + 1 /\ left = {} /\ Len(chains) = 0
  BY <1>1, EmptyTyped DEF TripsRead, AllPlaced
<1>3. t \in 1 .. next - 1
  BY <1>1, <1>2, FeedFacts DEF TypeOK, Sources
<1>4. IF Flawed(t) THEN t \in quarantined /\ t \notin DOMAIN times
      ELSE /\ t \in DOMAIN times /\ t \notin quarantined
           /\ registered[pattern_of[t]] = KeyOfTrip(t)
           /\ Forwards(times[t])
           /\ Keeps(times[t], feed[t].times)
  BY <1>1, <1>3, Zenon DEF TripsRead
<1>5. CASE Flawed(t)
  <2>1. \A p \in 1 .. Len(patterns) : \A i \in 1 .. Len(patterns[p].trips) : patterns[p].trips[i] # t
    BY <1>4, <1>5, TripsOfPattern
  <2>2. Places(t) = {}
    BY <2>1 DEF Places
  <2> QED BY <1>4, <1>5, <2>2
<1>6. CASE ~Flawed(t)
  <2>1. InPattern(t)
    <3>1. InChain(t) \/ InPattern(t)
      BY <1>1, <1>2, <1>4, <1>6 DEF Listed
    <3> QED BY <3>1, <1>2 DEF InChain
  <2>2. PICK p \in 1 .. Len(patterns) : \E i \in 1 .. Len(patterns[p].trips) : patterns[p].trips[i] = t
    BY <2>1 DEF InPattern
  <2>3. PICK i \in 1 .. Len(patterns[p].trips) : patterns[p].trips[i] = t
    BY <2>2
  <2>4. Places(t) = {<<p, i>>}
    BY <2>3, <1>1, PlacesOf
  <2>5. Cardinality(Places(t)) = 1
    BY <2>4, FS_Singleton
  <2>6. KeyOf(patterns[p]) = KeyOfTrip(t)
    <3>1. PICK k \in 1 .. at - 1 :
            /\ KeyOf(patterns[p]) = registered[k]
            /\ \A j \in 1 .. Len(patterns[p].trips) : pattern_of[patterns[p].trips[j]] = k
      BY <1>1 DEF PatternTrips
    <3> QED BY <3>1, <2>3, <1>4, <1>6
  <2>7. patterns[p].route = feed[t].route /\ patterns[p].stops = feed[t].stops
    BY <2>6 DEF KeyOf, KeyOfTrip
  <2>8. \A place \in Places(t) : /\ patterns[place[1]].route = feed[t].route
                                 /\ patterns[place[1]].stops = feed[t].stops
    BY <2>4, <2>7
  <2> QED BY <1>4, <1>6, <2>5, <2>8 DEF Keeps
<1> QED BY <1>5, <1>6

----------------------------------------------------------------------------
(* The theorems.                                                           *)

\* Every reachable state of the build and of a lookup is well typed: the
\* binary searches of latest_active_trip and earliest_active_trip stay inside
\* the pattern's trips and their range never inverts.
THEOREM BuildTypeCorrect == Spec => []TypeOK
<1>1. BInv => TypeOK
  BY DEF BInv
<1> QED BY <1>1, BAlways, PTL

\* For any feed, no trip of a pattern TimetableBuilder::finish leaves behind
\* overtakes an earlier one at any stop.
THEOREM PatternsAreFifo == Spec => []NoOvertaking
<1>1. BInv => NoOvertaking
  BY DEF BInv
<1> QED BY <1>1, BAlways, PTL

\* For any feed, finish splits a registered pattern only where its trips
\* overtake each other.
THEOREM SplitsAreNeeded == Spec => []SplitOnlyOnOvertaking
<1>1. BInv => SplitOnlyOnOvertaking
  BY DEF BInv
<1> QED BY <1>1, BAlways, PTL

\* For any feed, either lookup, at any position, time and set of usable trips,
\* returns a trip no trip that could be caught instead beats at any stop.
THEOREM LookupsAreExact == Spec => []LookupExact
<1>1. BInv => LookupExact
  BY DEF BInv
<1> QED BY <1>1, BAlways, PTL

\* First-fit over the sorted trips splits exactly where a trip overtakes.
THEOREM SplitsAreExact == Spec => []SplitsExact
<1>. QED
  BY PatternsAreFifo, SplitsAreNeeded, PTL DEF SplitsExact
\* For any feed, build_timetable and finish lose no trip: a trip is
\* quarantined if and only if it is flawed as given, and every other one is
\* in exactly one pattern, once, of its own route and stops, with every time
\* the feed gave it and those filled in running forwards between them.
THEOREM TripsAreConserved == Spec => []TripsConserved
<1>1. Init => BInv /\ KInv
  BY BInit, KInit
<1>2. BInv /\ KInv /\ [Next]_vars => (BInv /\ KInv)'
  BY BNext, KNext
<1>3. BInv /\ KInv => TripsConserved
  BY ConservedByParts
<1> QED BY <1>1, <1>2, <1>3, PTL DEF Spec
=============================================================================
