---------------------------- MODULE RollupProofs ----------------------------
(***************************************************************************)
(* Proofs about Rollup for all lengths of hours, periods, slots, retention *)
(* and delays the assumptions allow, and any number of checks.             *)
(*                                                                         *)
(* Checks leave the table only when they are older than every hour that is *)
(* computed again (Stored), so that a rollup of an hour makes it exact     *)
(* again; inexact are only hours since the last rollup, no more than one   *)
(* rollup reaches (Recent).  A row and a cell never count more than the    *)
(* checks of their hours (Rows, Cells), of which no two have one in        *)
(* common, so that sums over cells count no check twice (SumOfSizes).      *)
(***************************************************************************)
EXTENDS Rollup, FiniteSetTheorems, WellFoundedInduction, TLAPS

\* Where the maintenance goroutine may be.
Places == {"idle", "rollup", "prune", "keep"}

\* The counts of an hour.
Cell == [total : Nat, ok : Nat]

Types ==
  /\ now \in Nat /\ mnow \in Nat /\ missed \in Nat /\ ucur \in Nat
  /\ up \in BOOLEAN /\ rolled \in BOOLEAN
  /\ mpc \in Places
  /\ upc \in {"idle", "raw", "shown"}
  /\ hours \in [1 .. Span -> Cell]
  /\ least \in [1 .. Span -> Cell]

\* How old a clock is at most when it is used.
Clocks ==
  /\ missed <= MaxMissed
  /\ mnow <= now
  /\ mpc # "idle" => now < mnow + HourLen
  /\ cur # None => cur \in Nat /\ cur <= now /\ now <= cur + Late
  /\ upc # "idle" => ucur <= hourStart(now) /\ hourStart(now) <= ucur + 1

\* The checks that were stored are of the past, and the ones that are no longer
\* in the table are old.
Stored ==
  /\ IsFiniteSet(truth)
  /\ checks \subseteq truth
  /\ \A c \in truth : c.at \in Nat /\ c.ok \in BOOLEAN /\ c.at <= now
  /\ \A c \in truth : c \notin checks => c.at + Retention < mnow

\* The successful or the failed checks.
Of(cs, o) == {c \in cs : c.ok = o}

\* Of the checks counted in n, the successful or the failed ones.
Part(n, o) == IF o THEN n.ok ELSE n.total - n.ok

\* Nothing is counted in n that is not in cs.
Within(n, cs) ==
  /\ n.total \in Nat /\ n.ok \in Nat
  /\ \A o \in BOOLEAN : 0 <= Part(n, o) /\ Part(n, o) <= Cardinality(Of(cs, o))

\* Everything counted in m is counted in n.
Covers(n, m) == \A o \in BOOLEAN : Part(m, o) <= Part(n, o)

\* The checks of an hour.
InHour(cs, h) == {c \in cs : hourStart(c.at) = h}

\* A row of the hourly table is about checks of its hour.
Rows ==
  \A h \in DOMAIN hourly : InHour(truth, h) # {} /\ Within(hourly[h], InHour(truth, h))

\* An hour's row, or that it has none, says exactly what its checks say.
Exact(h) == stats(truth, h) = IF h \in DOMAIN hourly THEN hourly[h] ELSE stats({}, h)

\* Only the hours since the last rollup may be inexact, as long as no more of
\* them can be missed than a rollup computes again.
Recent ==
  MaxMissed <= 1 => \A h \in hourStart(now) - Span + 1 .. hourStart(now) - 1 :
    Exact(h) \/ (~rolled /\ h >= hourStart(now) - 1 - missed)

\* What the i-th cell is about when u is taken for the running hour.
OfCell(cs, u, i) ==
  {c \in cs : IF i = Span THEN hourStart(c.at) >= u ELSE hourStart(c.at) = u - Span + i}

\* What a request has read counts only checks of each cell, and all that its
\* first query could rely on.
Cells ==
  upc # "idle" =>
    /\ \A i \in 1 .. Span :
         /\ Within(hours[i], OfCell(truth, ucur, i))
         /\ Covers(least[i], [total |-> 0, ok |-> 0])
         /\ MaxMissed <= 1 /\ (i < Span \/ upc = "shown") => Covers(hours[i], least[i])
    /\ Within(least[Span], InHour(truth, ucur))

IInv == Types /\ Clocks /\ Stored /\ Rows /\ Recent /\ Cells

-----------------------------------------------------------------------------
(* Lemmas about numbers.                                                   *)

\* The constants, as numbers the provers can use.
LEMMA Numbers ==
  /\ HourLen \in Nat /\ Day \in Nat /\ Span \in Nat /\ Group \in Nat /\ step \in Nat
  /\ HourLen > 0 /\ Day > 0 /\ Span > 0 /\ Group > 0 /\ step > 0
  /\ Retention \in Nat /\ Keep \in Nat /\ Late \in Nat /\ MaxMissed \in Nat /\ MaxTime \in Nat
BY HourAssumption, KeepAssumption

\* A non-empty set of natural numbers has a least element.
LEMMA NatMin == ASSUME NEW T \in SUBSET Nat, T # {}
                PROVE  \E x \in T : \A y \in T : x <= y
<1> DEFINE R == OpToRel(<, Nat)
<1>1. IsWellFoundedOn(R, Nat)
  BY NatLessThanWellFounded
<1> HIDE DEF R
<1>2. PICK x \in T : \A y \in T : ~(<<y, x>> \in R)
  BY <1>1, WFMin, Zenon
<1>3. \A y \in T : ~(<<y, x>> \in OpToRel(<, Nat))
  BY <1>2 DEF R
<1>4. \A y \in T : ~(y < x)
  BY <1>3 DEF OpToRel
<1> QED BY <1>4

\* Induction, over a set of natural numbers instead of a predicate.
LEMMA SetInduction ==
  ASSUME NEW S, 0 \in S, \A n \in Nat : n \in S => n + 1 \in S
  PROVE  \A n \in Nat : n \in S
<1> DEFINE T == {n \in Nat : n \notin S}
<1> SUFFICES ASSUME T # {} PROVE FALSE
  OBVIOUS
<1>1. T \in SUBSET Nat
  OBVIOUS
<1>2. PICK x \in T : \A y \in T : x <= y
  <2> HIDE DEF T
  <2> QED BY <1>1, NatMin
<1>3. x # 0 /\ x - 1 \in Nat /\ x - 1 \notin T
  BY <1>2
<1>4. x - 1 \in S
  BY <1>3
<1>5. (x - 1) + 1 \in S
  BY <1>3, <1>4
<1> QED BY <1>2, <1>5

\* What \div computes, and that nothing else does.
LEMMA DivBounds ==
  ASSUME NEW t \in Int, NEW d \in Nat, d > 0
  PROVE  t \div d \in Int /\ (t \div d) * d <= t /\ t < (t \div d) * d + d
OBVIOUS

\* Multiplication, with the products the steps below meet.
LEMMA Times ==
  ASSUME NEW p \in Int, NEW d \in Int
  PROVE  /\ p * d \in Int
         /\ (p + 1) * d = p * d + d
         /\ (p - 1) * d = p * d - d
OBVIOUS

\* A larger number of units is longer.
LEMMA TimesMonotone ==
  ASSUME NEW p \in Int, NEW q \in Int, NEW d \in Nat, p <= q
  PROVE  p * d <= q * d
OBVIOUS

\* A number with the bounds of a quotient is the quotient.
LEMMA DivIs ==
  ASSUME NEW t \in Int, NEW d \in Nat, d > 0, NEW q \in Int, q * d <= t, t < q * d + d
  PROVE  t \div d = q
<1> DEFINE p == t \div d
<1>1. p \in Int /\ p * d <= t /\ t < p * d + d
  BY DivBounds
<1> HIDE DEF p
<1>2. CASE p < q
  <2>1. (p + 1) * d <= q * d
    BY <1>1, <1>2, TimesMonotone
  <2> QED BY <1>1, <2>1, Times
<1>3. CASE q < p
  <2>1. (q + 1) * d <= p * d
    BY <1>1, <1>3, TimesMonotone
  <2> QED BY <1>1, <2>1, Times
<1> QED BY <1>1, <1>2, <1>3 DEF p

\* A later time is in no earlier unit.
LEMMA DivMonotone ==
  ASSUME NEW s \in Int, NEW t \in Int, NEW d \in Nat, d > 0, s <= t
  PROVE  s \div d <= t \div d
<1> DEFINE p == s \div d
           q == t \div d
<1>1. p \in Int /\ p * d <= s /\ s < p * d + d
  BY DivBounds
<1>2. q \in Int /\ q * d <= t /\ t < q * d + d
  BY DivBounds
<1> HIDE DEF p, q
<1>3. CASE q < p
  <2>1. (q + 1) * d <= p * d
    BY <1>1, <1>2, <1>3, TimesMonotone
  <2> QED BY <1>1, <1>2, <2>1, Times
<1> QED BY <1>1, <1>2, <1>3 DEF p, q

\* Shifting by whole units.
LEMMA DivShift ==
  ASSUME NEW t \in Int, NEW k \in Int, NEW d \in Nat, d > 0
  PROVE  (t + k * d) \div d = t \div d + k
<1> DEFINE p == t \div d
<1>1. p \in Int /\ p * d <= t /\ t < p * d + d
  BY DivBounds
<1> HIDE DEF p
<1>2. (p + k) * d = p * d + k * d /\ k * d \in Int /\ t + k * d \in Int /\ p + k \in Int
  BY <1>1
<1>3. (t + k * d) \div d = p + k
  BY <1>1, <1>2, DivIs
<1> QED BY <1>3 DEF p

-----------------------------------------------------------------------------
(* Sums.                                                                   *)

\* The equation of the recursive function in Sum.
SumStep(f, a, g) == [i \in Nat |-> IF i < a THEN 0 ELSE g[i - 1] + f[i]]

\* The function g up to n.
SumPart(f, a, n, g) == \A i \in 0 .. n : g[i] = IF i < a THEN 0 ELSE g[i - 1] + f[i]

\* The recursion determines every value: two solutions agree as far as both go.
LEMMA SumPartUnique ==
  ASSUME NEW f, NEW a \in Nat, a > 0, NEW n \in Nat, NEW m \in Nat, n <= m,
         NEW g, SumPart(f, a, n, g), NEW h, SumPart(f, a, m, h)
  PROVE  g[n] = h[n]
<1> DEFINE S == {i \in Nat : i <= n => g[i] = h[i]}
<1>1. 0 \in S
  BY DEF SumPart
<1>2. ASSUME NEW i \in Nat, i \in S PROVE i + 1 \in S
  <2> SUFFICES ASSUME i + 1 <= n PROVE g[i + 1] = h[i + 1]
    OBVIOUS
  <2>1. g[i] = h[i] /\ i + 1 \in 0 .. n /\ i + 1 \in 0 .. m /\ (i + 1) - 1 = i
    BY <1>2
  <2>2. g[i + 1] = IF i + 1 < a THEN 0 ELSE g[(i + 1) - 1] + f[i + 1]
    BY <2>1 DEF SumPart
  <2>3. h[i + 1] = IF i + 1 < a THEN 0 ELSE h[(i + 1) - 1] + f[i + 1]
    BY <2>1 DEF SumPart
  <2> QED BY <2>1, <2>2, <2>3
<1>3. \A i \in Nat : i \in S
  <2> HIDE DEF S
  <2> QED BY <1>1, <1>2, SetInduction
<1> QED BY <1>3

\* There is a solution as far as any n.
LEMMA SumPartExists ==
  ASSUME NEW f, NEW a \in Nat, a > 0
  PROVE  \A n \in Nat : \E g : SumPart(f, a, n, g)
<1> DEFINE S == {n \in Nat : \E g : SumPart(f, a, n, g)}
<1>1. 0 \in S
  <2>1. SumPart(f, a, 0, [i \in 0 .. 0 |-> 0])
    BY DEF SumPart
  <2> QED BY <2>1
<1>2. ASSUME NEW n \in Nat, n \in S PROVE n + 1 \in S
  <2>1. PICK g : SumPart(f, a, n, g)
    BY <1>2
  <2> DEFINE h == [i \in 0 .. n + 1 |-> IF i <= n THEN g[i]
                                        ELSE IF i < a THEN 0 ELSE g[i - 1] + f[i]]
  <2>2. SumPart(f, a, n + 1, h)
    <3> SUFFICES ASSUME NEW i \in 0 .. n + 1
                 PROVE  h[i] = IF i < a THEN 0 ELSE h[i - 1] + f[i]
      BY DEF SumPart
    <3>1. CASE i <= n
      <4>1. h[i] = g[i] /\ g[i] = IF i < a THEN 0 ELSE g[i - 1] + f[i]
        BY <2>1, <3>1 DEF SumPart
      <4>2. ~(i < a) => h[i - 1] = g[i - 1]
        BY <3>1
      <4> HIDE DEF h
      <4> QED BY <4>1, <4>2
    <3>2. CASE i = n + 1
      <4>1. ~(i < a) => h[i - 1] = g[i - 1]
        BY <3>2
      <4>2. h[i] = IF i < a THEN 0 ELSE g[i - 1] + f[i]
        BY <3>2
      <4> HIDE DEF h
      <4> QED BY <4>1, <4>2
    <3> QED BY <3>1, <3>2
  <2> HIDE DEF h
  <2> QED BY <2>2
<1>3. \A n \in Nat : n \in S
  <2> HIDE DEF S
  <2> QED BY <1>1, <1>2, SetInduction
<1> QED BY <1>3

\* The recursive function of Sum exists ...
LEMMA SumExists ==
  ASSUME NEW f, NEW a \in Nat, a > 0
  PROVE  \E g : g = SumStep(f, a, g)
<1> DEFINE part(n) == CHOOSE g : SumPart(f, a, n, g)
           G == [n \in Nat |-> part(n)[n]]
<1>1. \A n \in Nat : SumPart(f, a, n, part(n))
  BY SumPartExists
<1>2. ASSUME NEW n \in Nat PROVE G[n] = IF n < a THEN 0 ELSE G[n - 1] + f[n]
  <2>1. part(n)[n] = IF n < a THEN 0 ELSE part(n)[n - 1] + f[n]
    <3> HIDE DEF part
    <3>1. SumPart(f, a, n, part(n)) /\ n \in 0 .. n
      BY <1>1
    <3> QED BY <3>1 DEF SumPart
  <2>2. CASE n < a
    <3> HIDE DEF part
    <3> QED BY <2>1, <2>2
  <2>3. CASE ~(n < a)
    <3> HIDE DEF part
    <3>1. n - 1 \in Nat /\ n - 1 <= n
      BY <2>3
    <3>2. part(n - 1)[n - 1] = part(n)[n - 1]
      BY <1>1, <3>1, SumPartUnique
    <3>3. G[n] = part(n)[n] /\ G[n - 1] = part(n - 1)[n - 1]
      BY <3>1
    <3> HIDE DEF G
    <3> QED BY <2>1, <2>3, <3>2, <3>3
  <2> QED BY <2>2, <2>3
<1>3. G = [n \in Nat |-> G[n]]
  OBVIOUS
<1> HIDE DEF G
<1>4. G = SumStep(f, a, G)
  BY <1>2, <1>3 DEF SumStep
<1> QED BY <1>4

\* ... so that a sum is the sum of one part less and its last part.
LEMMA SumIs ==
  ASSUME NEW f, NEW a \in Nat, a > 0, NEW b \in Nat
  PROVE  Sum(f, a, b) = IF b < a THEN 0 ELSE Sum(f, a, b - 1) + f[b]
<1> DEFINE s == CHOOSE g : g = SumStep(f, a, g)
<1>1. s = SumStep(f, a, s)
  BY SumExists
<1>2. \A n : Sum(f, a, n) = s[n]
  BY DEF Sum, SumStep
<1> HIDE DEF s
<1>3. s[b] = IF b < a THEN 0 ELSE s[b - 1] + f[b]
  BY <1>1 DEF SumStep
<1> QED BY <1>2, <1>3

\* Induction over the upper end of a sum: b = a - 1, then one more.
LEMMA SumInduction ==
  ASSUME NEW a \in Nat, a > 0, NEW B \in Nat, NEW S,
         \A b \in Nat : b < a => b \in S,
         \A b \in Nat : a <= b /\ b <= B /\ b - 1 \in S => b \in S
  PROVE  B \in S
<1> DEFINE T == {b \in Nat : b <= B => b \in S}
<1>1. 0 \in T
  OBVIOUS
<1>2. ASSUME NEW b \in Nat, b \in T PROVE b + 1 \in T
  <2> SUFFICES ASSUME b + 1 <= B PROVE b + 1 \in S
    OBVIOUS
  <2>1. b \in S /\ b = (b + 1) - 1
    BY <1>2
  <2>2. CASE b + 1 < a
    BY <2>2
  <2>3. CASE a <= b + 1
    BY <2>1, <2>3
  <2> QED BY <2>2, <2>3
<1>3. \A b \in Nat : b \in T
  <2> HIDE DEF T
  <2> QED BY <1>1, <1>2, SetInduction
<1> QED BY <1>3

\* A sum of integers is an integer.
LEMMA SumInt ==
  ASSUME NEW a \in Nat, a > 0, NEW B \in Nat, NEW f, \A i \in a .. B : f[i] \in Int
  PROVE  Sum(f, a, B) \in Int
<1> DEFINE S == {b \in Nat : Sum(f, a, b) \in Int}
<1>1. ASSUME NEW b \in Nat, b < a PROVE b \in S
  <2>1. Sum(f, a, b) = 0
    BY <1>1, SumIs
  <2> QED BY <2>1
<1>2. ASSUME NEW b \in Nat, a <= b, b <= B, b - 1 \in S PROVE b \in S
  <2>1. Sum(f, a, b) = Sum(f, a, b - 1) + f[b]
    BY <1>2, SumIs
  <2> QED BY <1>2, <2>1
<1>3. B \in S
  <2> HIDE DEF S
  <2> QED BY <1>1, <1>2, SumInduction
<1> QED BY <1>3

\* Sums of larger parts are larger.
LEMMA SumMonotone ==
  ASSUME NEW a \in Nat, a > 0, NEW B \in Nat, NEW f, NEW g,
         \A i \in a .. B : f[i] \in Int /\ g[i] \in Int /\ f[i] <= g[i]
  PROVE  Sum(f, a, B) <= Sum(g, a, B)
<1> DEFINE S == {b \in Nat : /\ Sum(f, a, b) \in Int /\ Sum(g, a, b) \in Int
                             /\ Sum(f, a, b) <= Sum(g, a, b)}
<1>1. ASSUME NEW b \in Nat, b < a PROVE b \in S
  <2>1. Sum(f, a, b) = 0 /\ Sum(g, a, b) = 0
    BY <1>1, SumIs
  <2> QED BY <2>1
<1>2. ASSUME NEW b \in Nat, a <= b, b <= B, b - 1 \in S PROVE b \in S
  <2>1. Sum(f, a, b) = Sum(f, a, b - 1) + f[b]
    BY <1>2, SumIs
  <2>2. Sum(g, a, b) = Sum(g, a, b - 1) + g[b]
    BY <1>2, SumIs
  <2> QED BY <1>2, <2>1, <2>2
<1>3. B \in S
  <2> HIDE DEF S
  <2> QED BY <1>1, <1>2, SumInduction
<1> QED BY <1>3

\* Sums are subtracted part by part.
LEMMA SumMinus ==
  ASSUME NEW a \in Nat, a > 0, NEW B \in Nat, NEW f, NEW g, NEW d,
         \A i \in a .. B : f[i] \in Int /\ g[i] \in Int /\ d[i] = f[i] - g[i]
  PROVE  Sum(d, a, B) = Sum(f, a, B) - Sum(g, a, B)
<1> DEFINE S == {b \in Nat : /\ Sum(f, a, b) \in Int /\ Sum(g, a, b) \in Int
                             /\ Sum(d, a, b) = Sum(f, a, b) - Sum(g, a, b)}
<1>1. ASSUME NEW b \in Nat, b < a PROVE b \in S
  <2>1. Sum(f, a, b) = 0 /\ Sum(g, a, b) = 0 /\ Sum(d, a, b) = 0
    BY <1>1, SumIs
  <2> QED BY <2>1
<1>2. ASSUME NEW b \in Nat, a <= b, b <= B, b - 1 \in S PROVE b \in S
  <2>1. Sum(f, a, b) = Sum(f, a, b - 1) + f[b]
    BY <1>2, SumIs
  <2>2. Sum(g, a, b) = Sum(g, a, b - 1) + g[b]
    BY <1>2, SumIs
  <2>3. Sum(d, a, b) = Sum(d, a, b - 1) + d[b]
    BY <1>2, SumIs
  <2> QED BY <1>2, <2>1, <2>2, <2>3
<1>3. B \in S
  <2> HIDE DEF S
  <2> QED BY <1>1, <1>2, SumInduction
<1> QED BY <1>3

\* Numbers of members of disjoint sets add up to at most the members of a set
\* that holds them all.
LEMMA SumOfSizes ==
  ASSUME NEW a \in Nat, a > 0, NEW B \in Nat, NEW f, NEW T, NEW G, IsFiniteSet(T),
         \A i \in a .. B : G[i] \subseteq T /\ f[i] \in Int /\ f[i] <= Cardinality(G[i]),
         \A i, j \in a .. B : i # j => G[i] \cap G[j] = {}
  PROVE  Sum(f, a, B) <= Cardinality(T)
<1> DEFINE U(b) == UNION {G[i] : i \in a .. b}
           S == {b \in Nat : Sum(f, a, b) \in Int /\ Sum(f, a, b) <= Cardinality(U(b))}
<1>0. \A b \in Nat : b <= B => U(b) \subseteq T /\ IsFiniteSet(U(b)) /\ Cardinality(U(b)) \in Nat
  <2>1. \A b \in Nat : b <= B => U(b) \in SUBSET T
    OBVIOUS
  <2> HIDE DEF U
  <2> QED BY <2>1, FS_Subset, FS_CardinalityType
<1>1. ASSUME NEW b \in Nat, b < a PROVE b \in S
  <2>1. Sum(f, a, b) = 0
    BY <1>1, SumIs
  <2>2. U(b) = {}
    BY <1>1
  <2>3. Cardinality(U(b)) = 0
    BY <2>2, FS_EmptySet
  <2> HIDE DEF U
  <2> QED BY <2>1, <2>3
<1>2. ASSUME NEW b \in Nat, a <= b, b <= B, b - 1 \in S PROVE b \in S
  <2>1. Sum(f, a, b) = Sum(f, a, b - 1) + f[b]
    BY <1>2, SumIs
  <2>2. U(b) = U(b - 1) \cup G[b]
    <3>1. a .. b = (a .. (b - 1)) \cup {b}
      BY <1>2
    <3> QED BY <3>1
  <2>3. U(b - 1) \cap G[b] = {}
    <3>1. \A i \in a .. (b - 1) : i # b /\ i \in a .. B /\ b \in a .. B
      BY <1>2
    <3> QED BY <3>1
  <2>4. IsFiniteSet(G[b]) /\ Cardinality(G[b]) \in Nat /\ f[b] \in Int /\ f[b] <= Cardinality(G[b])
    <3>1. G[b] \in SUBSET T /\ f[b] \in Int /\ f[b] <= Cardinality(G[b])
      BY <1>2
    <3> QED BY <3>1, FS_Subset, FS_CardinalityType
  <2>5. IsFiniteSet(U(b - 1)) /\ Cardinality(U(b - 1)) \in Nat
    <3> HIDE DEF U
    <3> QED BY <1>0, <1>2
  <2>6. Sum(f, a, b - 1) \in Int /\ Sum(f, a, b - 1) <= Cardinality(U(b - 1))
    BY <1>2
  <2> HIDE DEF U
  <2>7. Cardinality(U(b)) = Cardinality(U(b - 1)) + Cardinality(G[b]) - Cardinality({})
    BY <2>2, <2>3, <2>4, <2>5, FS_Union
  <2>8. Cardinality(U(b)) = Cardinality(U(b - 1)) + Cardinality(G[b])
    BY <2>4, <2>5, <2>7, FS_EmptySet
  <2> QED BY <2>1, <2>4, <2>5, <2>6, <2>8
<1>3. B \in S
  <2> HIDE DEF S
  <2> QED BY <1>1, <1>2, SumInduction
<1>4. Cardinality(U(B)) <= Cardinality(T) /\ Cardinality(T) \in Nat
  <2>1. U(B) \in SUBSET T
    BY <1>0
  <2> HIDE DEF U
  <2> QED BY <2>1, FS_Subset, FS_CardinalityType
<1>5. Sum(f, a, B) \in Int /\ Sum(f, a, B) <= Cardinality(U(B)) /\ Cardinality(U(B)) \in Nat
  <2> HIDE DEF U
  <2> QED BY <1>0, <1>3
<1> HIDE DEF U
<1> QED BY <1>4, <1>5

-----------------------------------------------------------------------------
(* Hours.                                                                  *)

\* A time lies in its hour.
LEMMA HourBounds ==
  ASSUME NEW t \in Int
  PROVE  /\ hourStart(t) \in Int
         /\ hourStart(t) * HourLen \in Int
         /\ hourStart(t) * HourLen <= t
         /\ t < hourStart(t) * HourLen + HourLen
BY Numbers, DivBounds, Times DEF hourStart

\* Hours of times are natural numbers.
LEMMA HourNat == ASSUME NEW t \in Nat PROVE hourStart(t) \in Nat
<1> DEFINE h == hourStart(t)
<1>1. h \in Int /\ h * HourLen \in Int /\ t < h * HourLen + HourLen
  BY HourBounds
<1> HIDE DEF h
<1>2. CASE h < 0
  <2>1. (h + 1) * HourLen <= 0 * HourLen /\ (h + 1) * HourLen = h * HourLen + HourLen
    BY <1>1, <1>2, Numbers, Times, TimesMonotone
  <2> QED BY <1>1, <2>1, Numbers
<1> QED BY <1>1, <1>2 DEF h

\* Hours do not go back as time goes on.
LEMMA HourMonotone ==
  ASSUME NEW s \in Int, NEW t \in Int, s <= t PROVE hourStart(s) <= hourStart(t)
BY Numbers, DivMonotone DEF hourStart

\* An hour later it is the next hour at the latest.
LEMMA HourNear ==
  ASSUME NEW s \in Int, NEW t \in Int, t <= s + HourLen PROVE hourStart(t) <= hourStart(s) + 1
<1>1. (s + 1 * HourLen) \div HourLen = s \div HourLen + 1
  BY Numbers, DivShift
<1>2. hourStart(s + HourLen) = hourStart(s) + 1
  BY <1>1, Numbers DEF hourStart
<1>3. hourStart(t) <= hourStart(s + HourLen)
  BY Numbers, HourMonotone
<1> QED BY <1>2, <1>3

\* The time that may pass from an hour to the k-th after it.
LEMMA HourApart ==
  ASSUME NEW s \in Int, NEW t \in Int, NEW k \in Int, hourStart(t) <= hourStart(s) + k
  PROVE  k * HourLen \in Int /\ t < s + k * HourLen + HourLen
<1> DEFINE p == hourStart(s)
           q == hourStart(t)
<1>1. p \in Int /\ p * HourLen \in Int /\ p * HourLen <= s
  BY HourBounds
<1>2. q \in Int /\ q * HourLen \in Int /\ t < q * HourLen + HourLen
  BY HourBounds
<1> HIDE DEF p, q
<1>3. q <= p + k
  BY DEF p, q
<1>4. q * HourLen <= (p + k) * HourLen
  BY <1>1, <1>2, <1>3, Numbers, TimesMonotone
<1>5. (p + k) * HourLen = p * HourLen + k * HourLen /\ k * HourLen \in Int
  BY <1>1, Numbers
<1> QED BY <1>1, <1>2, <1>4, <1>5, Numbers

\* A check of the two hours Rollup computes again, or later, is in the table.
LEMMA KeptRecent ==
  ASSUME Types, Stored, NEW h \in Int, h >= hourStart(mnow) - 2
  PROVE  InHour(checks, h) = InHour(truth, h)
<1> SUFFICES ASSUME NEW c \in truth, hourStart(c.at) = h, c \notin checks PROVE FALSE
  BY DEF InHour, Stored
<1>1. c.at \in Nat /\ mnow \in Nat /\ c.at + Retention < mnow
  BY DEF Types, Stored
<1>2. mnow < c.at + 2 * HourLen + HourLen
  <2>1. hourStart(mnow) <= hourStart(c.at) + 2
    BY <1>1, HourBounds
  <2> QED BY <1>1, <2>1, HourApart
<1> QED BY <1>1, <1>2, Numbers, RetentionAssumption

-----------------------------------------------------------------------------
(* Counts.                                                                 *)

\* Count counts the successful and the failed checks, each once.
LEMMA CountParts ==
  ASSUME NEW S, IsFiniteSet(S), \A c \in S : c.ok \in BOOLEAN
  PROVE  /\ Count(S) \in Cell
         /\ \A o \in BOOLEAN : Part(Count(S), o) = Cardinality(Of(S, o))
         /\ \A o \in BOOLEAN : Cardinality(Of(S, o)) \in Nat
<1>1. Of(S, TRUE) = {c \in S : c.ok}
  BY Zenon DEF Of
<1>2. Of(S, TRUE) \in SUBSET S /\ Of(S, FALSE) \in SUBSET S
  BY DEF Of
<1>3. S = Of(S, TRUE) \cup Of(S, FALSE) /\ Of(S, TRUE) \cap Of(S, FALSE) = {}
  BY Zenon DEF Of
<1> DEFINE good == Of(S, TRUE)
           bad  == Of(S, FALSE)
<1>4. /\ IsFiniteSet(good) /\ IsFiniteSet(bad)
      /\ Cardinality(good) \in Nat /\ Cardinality(bad) \in Nat /\ Cardinality(S) \in Nat
  BY <1>2, FS_Subset, FS_CardinalityType
<1>5. S = good \cup bad /\ good \cap bad = {}
  BY <1>3
<1> HIDE DEF good, bad
<1>6. Cardinality(S) = Cardinality(good) + Cardinality(bad) - Cardinality({})
  BY <1>4, <1>5, FS_Union
<1>7. Cardinality(S) = Cardinality(good) + Cardinality(bad)
  BY <1>4, <1>6, FS_EmptySet
<1>8. Count(S).total = Cardinality(S) /\ Count(S).ok = Cardinality(good) /\ Count(S) \in Cell
  BY <1>1, <1>4 DEF Count, Cell, good
<1>9. Part(Count(S), TRUE) = Cardinality(good) /\ Part(Count(S), FALSE) = Cardinality(bad)
  BY <1>4, <1>7, <1>8 DEF Part
<1>10. Part(Count(S), TRUE) = Cardinality(Of(S, TRUE)) /\ Part(Count(S), FALSE) = Cardinality(Of(S, FALSE))
  BY <1>9 DEF good, bad
<1>11. Cardinality(Of(S, TRUE)) \in Nat /\ Cardinality(Of(S, FALSE)) \in Nat
  BY <1>4 DEF good, bad
<1>12. \A o \in BOOLEAN : o = TRUE \/ o = FALSE
  OBVIOUS
<1> QED BY <1>8, <1>10, <1>11, <1>12, Zenon

\* Counts within a set are within a larger one.
LEMMA WithinMore ==
  ASSUME NEW n, NEW S, NEW T, S \subseteq T, IsFiniteSet(T), Within(n, S)
  PROVE  Within(n, T)
<1> SUFFICES ASSUME NEW o \in BOOLEAN PROVE Part(n, o) <= Cardinality(Of(T, o))
  BY DEF Within
<1>1. Of(S, o) \in SUBSET Of(T, o) /\ Of(T, o) \in SUBSET T
  BY DEF Of
<1>2. IsFiniteSet(Of(T, o))
  BY <1>1, FS_Subset
<1>3. /\ Cardinality(Of(S, o)) <= Cardinality(Of(T, o))
      /\ Cardinality(Of(S, o)) \in Nat /\ Cardinality(Of(T, o)) \in Nat
  BY <1>1, <1>2, FS_Subset, FS_CardinalityType
<1>4. Part(n, o) <= Cardinality(Of(S, o)) /\ n.total \in Nat /\ n.ok \in Nat
  BY DEF Within
<1>5. Part(n, o) \in Int
  BY <1>4 DEF Part
<1> QED BY <1>3, <1>4, <1>5

\* A count of some of the checks is within all of them.
LEMMA CountWithin ==
  ASSUME NEW S, NEW T, S \subseteq T, IsFiniteSet(T), \A c \in T : c.ok \in BOOLEAN
  PROVE  Within(Count(S), T) /\ Count(S) \in Cell
<1>1. IsFiniteSet(S) /\ \A c \in S : c.ok \in BOOLEAN
  BY FS_Subset
<1>2. /\ Count(S) \in Cell
      /\ \A o \in BOOLEAN : Part(Count(S), o) = Cardinality(Of(S, o)) /\ Cardinality(Of(S, o)) \in Nat
  BY <1>1, CountParts
<1>3. Within(Count(S), S)
  BY <1>2 DEF Within, Cell
<1> QED BY <1>2, <1>3, WithinMore

\* Nothing counted is within any set.
LEMMA NothingWithin ==
  ASSUME NEW S, IsFiniteSet(S) PROVE Within([total |-> 0, ok |-> 0], S)
<1> SUFFICES ASSUME NEW o \in BOOLEAN PROVE 0 <= Cardinality(Of(S, o))
  BY DEF Within, Part
<1>1. Of(S, o) \in SUBSET S
  BY DEF Of
<1> QED BY <1>1, FS_Subset, FS_CardinalityType

\* Within is about counts only.
LEMMA WithinSame ==
  ASSUME NEW n, NEW m, NEW S, n.total = m.total, n.ok = m.ok, Within(n, S)
  PROVE  Within(m, S)
<1>1. \A o \in BOOLEAN : Part(n, o) = Part(m, o)
  BY DEF Part
<1> QED BY <1>1 DEF Within

\* The counts of an hour in its stats.
LEMMA StatsCount ==
  ASSUME NEW cs, NEW h
  PROVE  /\ stats(cs, h).total = Count(InHour(cs, h)).total
         /\ stats(cs, h).ok = Count(InHour(cs, h)).ok
BY DEF stats, InHour

\* The stats of an hour depend on the checks of the hour only.
LEMMA StatsSame ==
  ASSUME NEW cs, NEW ds, NEW h, InHour(cs, h) = InHour(ds, h)
  PROVE  stats(cs, h) = stats(ds, h)
BY DEF stats, InHour

-----------------------------------------------------------------------------
(* The parts of the invariant, step by step.                               *)

\* The invariant holds in an empty database.
LEMMA InitIInv == Init => IInv
<1> SUFFICES ASSUME Init PROVE IInv
  OBVIOUS
<1>1. Nothing \in [1 .. Span -> Cell]
  BY DEF Nothing, Cell
<1>2. Types
  BY <1>1 DEF Init, Types, Places
<1>3. Clocks
  BY Numbers DEF Init, Clocks
<1>4. Stored
  BY FS_EmptySet DEF Init, Stored
<1>5. DOMAIN hourly = {}
  BY DEF Init
<1>6. Rows
  BY <1>5 DEF Rows
<1>7. Recent
  BY <1>5 DEF Init, Recent, Exact
<1>8. Cells
  BY DEF Init, Cells
<1> QED BY <1>2, <1>3, <1>4, <1>6, <1>7, <1>8 DEF IInv

\* Every step keeps the types.
LEMMA TypesStep == ASSUME IInv, [Next]_vars PROVE Types'
<1> USE DEF IInv, Types
<1>0. Nothing \in [1 .. Span -> Cell]
  BY DEF Nothing, Cell
<1>1. CASE TakeTime
  BY <1>1 DEF TakeTime, table, shown
<1>2. ASSUME NEW ok \in BOOLEAN, NEW ms, Insert(ok, ms) PROVE Types'
  BY <1>2 DEF Insert, shown
<1>3. ASSUME NEW pc \in Places, Begin(pc) PROVE Types'
  BY <1>3 DEF Begin, table, shown
<1>4. CASE RollupCommits
  BY <1>4 DEF RollupCommits, shown, Places
<1>5. CASE PruneChecks \/ PruneHourly \/ MaintenanceFails
  BY <1>5 DEF PruneChecks, PruneHourly, MaintenanceFails, table, shown, Places
<1>6. CASE UptimeHourly
  <2>1. hourStart(now) \in Nat
    BY HourNat
  <2>2. \A h \in DOMAIN hourly : [total |-> hourly[h].total, ok |-> hourly[h].ok] \in Cell
    BY DEF Rows, Within, Cell
  <2>3. \A h : Count(InHour(truth, h)) \in Cell
    <3> SUFFICES ASSUME NEW h PROVE Count(InHour(truth, h)) \in Cell
      OBVIOUS
    <3>1. InHour(truth, h) \subseteq truth
      BY DEF InHour
    <3> QED BY <3>1, CountWithin DEF Stored
  <2>4. hours' \in [1 .. Span -> Cell]
    BY <1>0, <1>6, <2>2 DEF UptimeHourly
  <2>5. least' \in [1 .. Span -> Cell]
    BY <1>0, <1>6, <2>3 DEF UptimeHourly, InHour
  <2> QED BY <1>6, <2>1, <2>4, <2>5 DEF UptimeHourly, table
<1>7. CASE UptimeRaw
  <2>1. Count({c \in checks : c.at >= RawFrom * HourLen}) \in Cell
    BY CountWithin DEF Stored
  <2> QED BY <1>7, <2>1 DEF UptimeRaw, table
<1>8. CASE UptimeDone
  BY <1>0, <1>8 DEF UptimeDone, table
<1>9. CASE Stop \/ Boot
  BY <1>9 DEF Stop, Boot, table, shown, Places
<1>10. CASE Tick
  BY <1>10 DEF Tick, table, shown
<1>11. CASE UNCHANGED vars
  BY <1>11 DEF vars, shown
<1> QED BY <1>1, <1>2, <1>3, <1>4, <1>5, <1>6, <1>7, <1>8, <1>9, <1>10, <1>11 DEF Next, Places

\* Every step keeps the bounds on old clocks; time passes only as Paced lets it.
LEMMA ClocksStep == ASSUME IInv, [Next]_vars PROVE Clocks'
<1> USE DEF IInv, Types, Clocks
<1>0. hourStart(now) \in Int
  BY HourBounds
<1>1. CASE TakeTime
  BY <1>0, <1>1, Numbers DEF TakeTime, table, shown
<1>2. ASSUME NEW ok \in BOOLEAN, NEW ms, Insert(ok, ms) PROVE Clocks'
  BY <1>2 DEF Insert, shown
<1>3. ASSUME NEW pc \in Places, Begin(pc) PROVE Clocks'
  BY <1>3, Numbers DEF Begin, table, shown
<1>4. CASE RollupCommits
  BY <1>4 DEF RollupCommits, shown
<1>5. CASE PruneChecks \/ PruneHourly \/ MaintenanceFails
  BY <1>5 DEF PruneChecks, PruneHourly, MaintenanceFails, table, shown
<1>6. CASE UptimeHourly
  BY <1>0, <1>6 DEF UptimeHourly, table
<1>7. CASE UptimeRaw
  BY <1>7 DEF UptimeRaw, table
<1>8. CASE UptimeDone
  BY <1>8 DEF UptimeDone, table
<1>9. CASE Stop \/ Boot
  BY <1>9, Numbers DEF Stop, Boot, table, shown
<1>10. CASE Tick
  <2>1. hourStart(now) <= hourStart(now + 1) /\ hourStart(now + 1) \in Int
    <3>1. now \in Int /\ now + 1 \in Int /\ now <= now + 1
      OBVIOUS
    <3> QED BY <3>1, HourMonotone, HourBounds
  <2>2. missed' <= MaxMissed
    BY <1>10, Numbers DEF Tick, Paced
  <2>3. mnow' <= now' /\ (mpc' # "idle" => now' < mnow' + HourLen)
    BY <1>10, Numbers DEF Tick, Paced
  <2>4. cur' # None => cur' \in Nat /\ cur' <= now' /\ now' <= cur' + Late
    BY <1>10, Numbers DEF Tick, Paced
  <2>5. upc' # "idle" => ucur' <= hourStart(now') /\ hourStart(now') <= ucur' + 1
    BY <1>0, <1>10, <2>1 DEF Tick, Paced, shown
  <2> QED BY <2>2, <2>3, <2>4, <2>5
<1>11. CASE UNCHANGED vars
  BY <1>11 DEF vars, shown
<1> QED BY <1>1, <1>2, <1>3, <1>4, <1>5, <1>6, <1>7, <1>8, <1>9, <1>10, <1>11 DEF Next, Places

\* Checks get lost by pruning only, and only old ones.
LEMMA StoredStep == ASSUME IInv, [Next]_vars PROVE Stored'
<1> USE DEF IInv, Types, Clocks, Stored
<1>1. CASE UNCHANGED <<checks, truth>> /\ now' \in Nat /\ now' >= now /\ mnow' \in Nat /\ mnow' >= mnow
  BY <1>1, Numbers
<1>2. ASSUME NEW ok \in BOOLEAN, NEW ms, Insert(ok, ms) PROVE Stored'
  <2> DEFINE c == [at |-> cur, ok |-> ok, ms |-> ms]
  <2>1. c.at \in Nat /\ c.ok \in BOOLEAN /\ c.at <= now
    BY <1>2 DEF Insert
  <2>2. checks' = checks \cup {c} /\ truth' = truth \cup {c} /\ UNCHANGED <<now, mnow>>
    BY <1>2 DEF Insert
  <2> HIDE DEF c
  <2>3. IsFiniteSet(truth')
    BY <2>2, FS_AddElement
  <2> QED BY <2>1, <2>2, <2>3
<1>3. CASE PruneChecks
  BY <1>3, Numbers DEF PruneChecks, ChecksBefore
<1>4. CASE TakeTime \/ MaintenanceFails \/ UptimeHourly \/ UptimeRaw \/ UptimeDone
  BY <1>1, <1>4 DEF TakeTime, MaintenanceFails, UptimeHourly, UptimeRaw, UptimeDone, table
<1>5. CASE RollupCommits \/ PruneHourly \/ Stop \/ Boot \/ Tick
  BY <1>1, <1>5 DEF RollupCommits, PruneHourly, Stop, Boot, Tick, table
<1>6. ASSUME NEW pc, Begin(pc) PROVE Stored'
  BY <1>1, <1>6 DEF Begin, table
<1>7. CASE UNCHANGED vars
  BY <1>1, <1>7 DEF vars, table
<1> QED BY <1>2, <1>3, <1>4, <1>5, <1>6, <1>7 DEF Next

\* A rollup writes rows about checks of their hour, and no other step does.
LEMMA RowsStep == ASSUME IInv, [Next]_vars PROVE Rows'
<1> USE DEF IInv
<1>0. Stored'
  BY StoredStep
<1>1. CASE UNCHANGED <<hourly, truth>>
  BY <1>1 DEF Rows, InHour
<1>2. ASSUME NEW ok \in BOOLEAN, NEW ms, Insert(ok, ms) PROVE Rows'
  <2> SUFFICES ASSUME NEW h \in DOMAIN hourly
               PROVE  InHour(truth', h) # {} /\ Within(hourly[h], InHour(truth', h))
    BY <1>2 DEF Insert, Rows, InHour, Within, Of
  <2>1. InHour(truth, h) # {} /\ Within(hourly[h], InHour(truth, h))
    BY DEF Rows
  <2>2. InHour(truth, h) \subseteq InHour(truth', h)
    BY <1>2 DEF Insert, InHour
  <2>3. IsFiniteSet(InHour(truth', h))
    <3>1. InHour(truth', h) \in SUBSET truth'
      BY DEF InHour
    <3> QED BY <1>0, <3>1, FS_Subset DEF Stored
  <2> QED BY <2>1, <2>2, <2>3, WithinMore
<1>3. CASE RollupCommits
  <2> SUFFICES ASSUME NEW h \in DOMAIN hourly'
               PROVE  InHour(truth, h) # {} /\ Within(hourly'[h], InHour(truth, h))
    BY <1>3 DEF RollupCommits, Rows, InHour, Within, Of
  <2>1. CASE h \in Buckets
    <3>1. hourly'[h] = stats(checks, h)
      BY <1>3, <2>1 DEF RollupCommits
    <3>2. InHour(checks, h) # {} /\ InHour(checks, h) \subseteq InHour(truth, h)
      BY <2>1 DEF Buckets, InHour, Stored
    <3>3. IsFiniteSet(InHour(truth, h)) /\ \A c \in InHour(truth, h) : c.ok \in BOOLEAN
      <4>1. InHour(truth, h) \in SUBSET truth
        BY DEF InHour
      <4> QED BY <4>1, FS_Subset DEF Stored
    <3>4. Within(Count(InHour(checks, h)), InHour(truth, h))
      BY <3>2, <3>3, CountWithin
    <3> QED BY <3>1, <3>2, <3>4, StatsCount, WithinSame
  <2>2. CASE h \notin Buckets
    BY <1>3, <2>2 DEF RollupCommits, Rows
  <2> QED BY <2>1, <2>2
<1>4. CASE PruneHourly
  <2> SUFFICES ASSUME NEW h \in DOMAIN hourly'
               PROVE  InHour(truth, h) # {} /\ Within(hourly'[h], InHour(truth, h))
    BY <1>4 DEF PruneHourly, Rows, InHour, Within, Of
  <2> QED BY <1>4 DEF PruneHourly, Rows
<1>5. CASE TakeTime \/ MaintenanceFails \/ UptimeHourly \/ UptimeRaw \/ UptimeDone
  BY <1>1, <1>5 DEF TakeTime, MaintenanceFails, UptimeHourly, UptimeRaw, UptimeDone, table
<1>6. CASE PruneChecks \/ Stop \/ Boot \/ Tick
  BY <1>1, <1>6 DEF PruneChecks, Stop, Boot, Tick, table
<1>7. ASSUME NEW pc, Begin(pc) PROVE Rows'
  BY <1>1, <1>7 DEF Begin, table
<1>8. CASE UNCHANGED vars
  BY <1>1, <1>8 DEF vars, table
<1> QED BY <1>2, <1>3, <1>4, <1>5, <1>6, <1>7, <1>8 DEF Next

\* An hour that Rollup computes from all its checks is exact.
LEMMA RecomputedIsExact ==
  ASSUME IInv, RollupCommits, NEW h \in Recomputed
  PROVE  Exact(h)'
<1> USE DEF IInv
<1>1. h \in Int /\ h >= hourStart(mnow) - 2
  <2>1. hourStart(mnow) \in Int
    BY HourBounds DEF Types
  <2> QED BY <2>1 DEF Recomputed
<1>2. InHour(checks, h) = InHour(truth, h)
  BY <1>1, KeptRecent
<1>3. stats(checks, h) = stats(truth, h)
  BY <1>2, StatsSame
<1>4. truth' = truth
  BY DEF RollupCommits
<1>5. CASE h \in Buckets
  <2>1. h \in DOMAIN hourly' /\ hourly'[h] = stats(checks, h)
    BY <1>5 DEF RollupCommits
  <2> QED BY <1>3, <1>4, <2>1 DEF Exact, stats, hourStart
<1>6. CASE h \notin Buckets
  <2>1. InHour(checks, h) = {}
    BY <1>6 DEF Buckets, InHour
  <2>2. h \notin DOMAIN hourly
    BY <1>2, <2>1 DEF Rows
  <2>3. h \notin DOMAIN hourly'
    BY <1>6, <2>2 DEF RollupCommits
  <2>4. InHour({}, h) = {}
    BY DEF InHour
  <2>5. stats(truth, h) = stats({}, h)
    <3>1. InHour(truth, h) = InHour({}, h)
      BY <1>2, <2>1, <2>4
    <3> HIDE DEF IInv
    <3> QED BY <3>1, StatsSame
  <2> QED BY <1>4, <2>3, <2>5 DEF Exact, stats, hourStart
<1> QED BY <1>5, <1>6

\* An hour stays exact when neither its row nor its checks change.
LEMMA ExactStays ==
  ASSUME NEW h, Exact(h), InHour(truth', h) = InHour(truth, h),
         h \in DOMAIN hourly <=> h \in DOMAIN hourly',
         h \in DOMAIN hourly => hourly'[h] = hourly[h]
  PROVE  Exact(h)'
<1>1. stats(truth', h) = stats(truth, h)
  BY StatsSame
<1>2. Exact(h)' <=> stats(truth', h) = IF h \in DOMAIN hourly' THEN hourly'[h] ELSE stats({}, h)
  BY DEF Exact, stats, hourStart
<1> QED BY <1>1, <1>2 DEF Exact

\* Rollup repairs what stragglers and the end of hours make inexact.
LEMMA RecentStep == ASSUME IInv, [Next]_vars PROVE Recent'
<1> USE DEF IInv, Types
<1> SUFFICES ASSUME MaxMissed <= 1 PROVE Recent'
  BY DEF Recent
<1> DEFINE C == hourStart(now)
<1>0. C \in Int
  BY HourBounds
<1>1. CASE UNCHANGED <<now, hourly, truth, rolled, missed>>
  BY <1>1 DEF Recent, Exact, stats, hourStart
<1>2. ASSUME NEW ok \in BOOLEAN, NEW ms, Insert(ok, ms) PROVE Recent'
  <2> SUFFICES ASSUME NEW h \in C - Span + 1 .. C - 1
               PROVE  Exact(h)' \/ (~rolled' /\ h >= C - 1 - missed)
    BY <1>2 DEF Insert, Recent
  <2>1. cur \in Nat /\ C <= hourStart(cur) + 1 /\ hourStart(cur) \in Int
    <3>1. cur \in Nat /\ cur \in Int /\ now \in Int /\ now <= cur + HourLen
      BY <1>2, Numbers, LateAssumption DEF Insert, Clocks
    <3> QED BY <3>1, HourNear, HourBounds
  <2>2. CASE h = hourStart(cur)
    <3>1. hourStart(cur) # hourStart(now) /\ h >= C - 1
      BY <1>0, <2>1, <2>2
    <3>2. ~rolled'
      BY <1>2, <3>1 DEF Insert
    <3> QED BY <1>0, <3>1, <3>2
  <2>3. CASE h # hourStart(cur)
    <3>1. InHour(truth', h) = InHour(truth, h)
      BY <1>2, <2>3 DEF Insert, InHour
    <3>2. Exact(h) => Exact(h)'
      BY <1>2, <3>1, ExactStays DEF Insert
    <3>3. ~rolled => ~rolled'
      BY <1>2 DEF Insert
    <3> QED BY <3>2, <3>3 DEF Recent
  <2> QED BY <2>2, <2>3
<1>3. CASE RollupCommits
  <2> SUFFICES ASSUME NEW h \in C - Span + 1 .. C - 1
               PROVE  Exact(h)' \/ (~rolled' /\ h >= C - 1 - missed)
    BY <1>3 DEF RollupCommits, Recent
  <2>1. CASE h \in Recomputed
    BY <1>3, <2>1, RecomputedIsExact
  <2>2. CASE h \notin Recomputed
    <3>1. InHour(truth', h) = InHour(truth, h)
      BY <1>3 DEF RollupCommits, InHour
    <3>2. Exact(h) => Exact(h)'
      BY <1>3, <2>2, <3>1, ExactStays DEF RollupCommits, Buckets
    <3>3. CASE hourStart(mnow) = C
      <4>1. ~(h >= C - 1 - missed)
        BY <1>0, <2>2, <3>3, Numbers DEF Recomputed, Clocks
      <4> QED BY <3>2, <4>1 DEF Recent
    <3>4. CASE hourStart(mnow) # C
      <4>1. ~rolled => ~rolled'
        BY <1>3, <3>4 DEF RollupCommits
      <4> QED BY <3>2, <4>1 DEF Recent
    <3> QED BY <3>3, <3>4
  <2> QED BY <2>1, <2>2
<1>4. CASE PruneHourly
  <2> SUFFICES ASSUME NEW h \in C - Span + 1 .. C - 1
               PROVE  Exact(h)' \/ (~rolled' /\ h >= C - 1 - missed)
    BY <1>4 DEF PruneHourly, Recent
  <2>1. h * HourLen >= mnow - Keep
    <3>1. C * HourLen \in Int /\ now < C * HourLen + HourLen
      BY HourBounds
    <3> HIDE DEF C
    <3>2. (C - Span + 1) * HourLen <= h * HourLen
      BY <1>0, Numbers, TimesMonotone
    <3>3. (C - Span + 1) * HourLen = C * HourLen - Span * HourLen + HourLen
      BY <1>0, Numbers
    <3>4. Span * HourLen \in Int /\ h * HourLen \in Int
      BY <1>0, Numbers, Times
    <3> QED BY <1>0, <3>1, <3>2, <3>3, <3>4, Numbers, HourlyKeepAssumption DEF Clocks
  <2>2. Exact(h) => Exact(h)'
    BY <1>4, <2>1, ExactStays DEF PruneHourly, InHour
  <2> QED BY <1>4, <2>2 DEF PruneHourly, Recent
<1>5. CASE Tick
  <2> DEFINE D == hourStart(now + 1)
  <2>1. D \in Int /\ C <= D /\ D <= C + 1
    <3>1. now \in Int /\ now + 1 \in Int /\ now <= now + 1 /\ now + 1 <= now + HourLen
      BY Numbers
    <3> QED BY <3>1, HourBounds, HourMonotone, HourNear
  <2> SUFFICES ASSUME NEW h \in D - Span + 1 .. D - 1
               PROVE  Exact(h)' \/ (~rolled' /\ h >= D - 1 - missed')
    BY <1>5 DEF Tick, Recent
  <2>2. Exact(h) => Exact(h)'
    BY <1>5, ExactStays DEF Tick, table, InHour
  <2>3. CASE D = C
    <3>1. UNCHANGED <<missed, rolled>>
      BY <1>5, <2>3 DEF Tick, HourEnds
    <3> QED BY <2>2, <2>3, <3>1 DEF Recent
  <2>4. CASE D # C
    <3>1. ~rolled' /\ missed' = IF rolled THEN 0 ELSE missed + 1
      BY <1>5, <2>4 DEF Tick, HourEnds
    <3>2. CASE h = C
      BY <1>0, <2>1, <2>4, <3>1, <3>2
    <3>3. CASE h # C
      <4>1. h \in C - Span + 1 .. C - 1
        BY <1>0, <2>1, <2>4, <3>3, Numbers
      <4>2. Exact(h) \/ (~rolled /\ h >= C - 1 - missed)
        BY <4>1 DEF Recent
      <4> QED BY <1>0, <2>1, <2>2, <2>4, <3>1, <4>2
    <3> QED BY <3>2, <3>3
  <2> QED BY <2>3, <2>4
<1>6. CASE TakeTime \/ MaintenanceFails \/ UptimeHourly \/ UptimeRaw \/ UptimeDone
  BY <1>1, <1>6 DEF TakeTime, MaintenanceFails, UptimeHourly, UptimeRaw, UptimeDone, table
<1>7. CASE PruneChecks \/ Stop \/ Boot
  BY <1>1, <1>7 DEF PruneChecks, Stop, Boot, table
<1>8. ASSUME NEW pc, Begin(pc) PROVE Recent'
  BY <1>1, <1>8 DEF Begin, table
<1>9. CASE UNCHANGED vars
  BY <1>1, <1>9 DEF vars, table
<1> QED BY <1>2, <1>3, <1>4, <1>5, <1>6, <1>7, <1>8, <1>9 DEF Next

\* What a request has read stays true while checks are stored and hours end.
LEMMA CellsStep == ASSUME IInv, [Next]_vars PROVE Cells'
<1> USE DEF IInv
<1> DEFINE Zero == [total |-> 0, ok |-> 0]
<1>0. hourStart(now) \in Int /\ ucur \in Int
  BY HourBounds DEF Types
<1>1. CASE UNCHANGED <<upc, ucur, hours, least, truth>>
  BY <1>1 DEF Cells
<1>2. ASSUME NEW ok \in BOOLEAN, NEW ms, Insert(ok, ms) PROVE Cells'
  <2> SUFFICES ASSUME upc # "idle"
               PROVE  /\ \A i \in 1 .. Span : Within(hours[i], OfCell(truth', ucur, i))
                      /\ Within(least[Span], InHour(truth', ucur))
    BY <1>2 DEF Insert, shown, Cells
  <2>1. IsFiniteSet(truth') /\ truth \subseteq truth'
    BY <1>2, StoredStep DEF Stored, Insert
  <2>2. ASSUME NEW i \in 1 .. Span PROVE Within(hours[i], OfCell(truth', ucur, i))
    <3>1. OfCell(truth, ucur, i) \subseteq OfCell(truth', ucur, i) /\ OfCell(truth', ucur, i) \in SUBSET truth'
      BY <2>1 DEF OfCell
    <3>2. Within(hours[i], OfCell(truth, ucur, i))
      BY DEF Cells
    <3> QED BY <2>1, <3>1, <3>2, FS_Subset, WithinMore
  <2>3. Within(least[Span], InHour(truth', ucur))
    <3>1. InHour(truth, ucur) \subseteq InHour(truth', ucur) /\ InHour(truth', ucur) \in SUBSET truth'
      BY <2>1 DEF InHour
    <3>2. Within(least[Span], InHour(truth, ucur))
      BY DEF Cells
    <3> QED BY <2>1, <3>1, <3>2, FS_Subset, WithinMore
  <2> QED BY <2>2, <2>3
<1>3. CASE UptimeHourly
  <2> DEFINE h(i) == hourStart(now) - Span + i
  <2>1. upc' = "raw" /\ ucur' = hourStart(now) /\ truth' = truth
    BY <1>3 DEF UptimeHourly, table
  <2>2. \A i \in 1 .. Span :
          hours'[i] = IF i < Span /\ h(i) \in DOMAIN hourly
                      THEN [total |-> hourly[h(i)].total, ok |-> hourly[h(i)].ok] ELSE Zero
    BY <1>3 DEF UptimeHourly, Nothing
  <2>3. \A i \in 1 .. Span :
          least'[i] = IF rolled /\ up THEN Count(InHour(truth, h(i))) ELSE Zero
    BY <1>3 DEF UptimeHourly, Nothing, InHour
  <2>4. h(Span) = hourStart(now) /\ Span \in 1 .. Span
    BY <1>0, Numbers
  <2>5. \A g : /\ IsFiniteSet(InHour(truth, g)) 
               /\ Within(Count(InHour(truth, g)), InHour(truth, g))
               /\ \A c \in InHour(truth, g) : c.ok \in BOOLEAN
    <3> SUFFICES ASSUME NEW g
                 PROVE  /\ IsFiniteSet(InHour(truth, g)) 
                        /\ Within(Count(InHour(truth, g)), InHour(truth, g))
                        /\ \A c \in InHour(truth, g) : c.ok \in BOOLEAN
      OBVIOUS
    <3>1. InHour(truth, g) \in SUBSET truth
      BY DEF InHour
    <3>2. IsFiniteSet(InHour(truth, g)) /\ \A c \in InHour(truth, g) : c.ok \in BOOLEAN
      BY <3>1, FS_Subset DEF Stored
    <3> QED BY <3>2, CountWithin
  <2>6. ASSUME NEW i \in 1 .. Span PROVE Within(hours'[i], OfCell(truth, hourStart(now), i))
    <3>1. IsFiniteSet(OfCell(truth, hourStart(now), i))
      <4>1. OfCell(truth, hourStart(now), i) \in SUBSET truth
        BY DEF OfCell
      <4> QED BY <4>1, FS_Subset DEF Stored
    <3>2. CASE i < Span /\ h(i) \in DOMAIN hourly
      <4>1. hours'[i].total = hourly[h(i)].total /\ hours'[i].ok = hourly[h(i)].ok
        <5> HIDE DEF h
        <5>1. hours'[i] = [total |-> hourly[h(i)].total, ok |-> hourly[h(i)].ok]
          BY <2>2, <3>2
        <5> QED BY <5>1
      <4>2. OfCell(truth, hourStart(now), i) = InHour(truth, h(i))
        BY <3>2 DEF OfCell, InHour
      <4>3. Within(hourly[h(i)], InHour(truth, h(i)))
        BY <3>2 DEF Rows
      <4> QED BY <4>1, <4>2, <4>3, WithinSame
    <3>3. CASE ~(i < Span /\ h(i) \in DOMAIN hourly)
      <4>1. hours'[i] = Zero
        BY <2>2, <3>3
      <4> QED BY <3>1, <4>1, NothingWithin
    <3> QED BY <3>2, <3>3
  <2>7. ASSUME NEW i \in 1 .. Span PROVE Within(least'[i], InHour(truth, h(i)))
    <3>1. CASE rolled /\ up
      BY <2>3, <2>5, <3>1
    <3>2. CASE ~(rolled /\ up)
      <4>1. least'[i] = Zero
        BY <2>3, <3>2
      <4> QED BY <2>5, <4>1, NothingWithin
    <3> QED BY <3>1, <3>2
  <2>8. ASSUME NEW i \in 1 .. Span PROVE Covers(least'[i], Zero)
    BY <2>7 DEF Covers, Within, Part
  <2>9. ASSUME MaxMissed <= 1, NEW i \in 1 .. Span, i < Span PROVE Covers(hours'[i], least'[i])
    <3>1. CASE rolled /\ up
      <4>1. h(i) \in hourStart(now) - Span + 1 .. hourStart(now) - 1
        BY <1>0, <2>9, Numbers
      <4>2. Exact(h(i))
        BY <2>9, <3>1, <4>1 DEF Recent
      <4>3. least'[i] = Count(InHour(truth, h(i)))
        BY <2>3, <3>1
      <4>4. least'[i].total = stats(truth, h(i)).total /\ least'[i].ok = stats(truth, h(i)).ok
        BY <4>3, StatsCount
      <4>5. hours'[i].total = least'[i].total /\ hours'[i].ok = least'[i].ok
        <5>1. CASE h(i) \in DOMAIN hourly
          <6>1. hours'[i].total = hourly[h(i)].total /\ hours'[i].ok = hourly[h(i)].ok
            <7> HIDE DEF h
            <7>1. hours'[i] = [total |-> hourly[h(i)].total, ok |-> hourly[h(i)].ok]
              BY <2>2, <2>9, <5>1
            <7> QED BY <7>1
          <6>2. stats(truth, h(i)) = hourly[h(i)]
            BY <4>2, <5>1 DEF Exact
          <6> QED BY <4>4, <6>1, <6>2
        <5>2. CASE h(i) \notin DOMAIN hourly
          <6>1. hours'[i] = Zero
            BY <2>2, <5>2
          <6>2. stats(truth, h(i)) = stats({}, h(i))
            BY <4>2, <5>2 DEF Exact
          <6>3. InHour({}, h(i)) = {}
            BY DEF InHour
          <6>4. stats({}, h(i)).total = Count({}).total /\ stats({}, h(i)).ok = Count({}).ok
            BY <6>3, StatsCount
          <6>5. Count({}).total = 0 /\ Count({}).ok = 0
            <7>1. {c \in {} : c.ok} = {}
              OBVIOUS
            <7> QED BY <7>1, FS_EmptySet DEF Count
          <6> QED BY <4>4, <6>1, <6>2, <6>4, <6>5
        <5> QED BY <5>1, <5>2
      <4>6. least'[i].total \in Nat /\ least'[i].ok \in Nat
        BY <2>7 DEF Within
      <4> QED BY <4>5, <4>6 DEF Covers, Part
    <3>2. CASE ~(rolled /\ up)
      <4>1. least'[i] = Zero
        BY <2>3, <3>2
      <4>2. Within(hours'[i], OfCell(truth, hourStart(now), i))
        BY <2>6
      <4> QED BY <4>1, <4>2 DEF Covers, Within, Part
    <3> QED BY <3>1, <3>2
  <2>10. Within(least'[Span], InHour(truth, hourStart(now)))
    BY <2>4, <2>7
  <2> QED BY <2>1, <2>6, <2>8, <2>9, <2>10 DEF Cells
<1>4. CASE UptimeRaw
  <2> DEFINE S == {c \in checks : c.at >= RawFrom * HourLen}
  <2>1. /\ upc = "raw" /\ upc' = "shown" /\ UNCHANGED <<ucur, least, truth>>
        /\ \A i \in 1 .. Span : hours'[i] = IF i = Span THEN Count(S) ELSE hours[i]
    BY <1>4 DEF UptimeRaw, table, Types
  <2>2. S = OfCell(truth, ucur, Span)
    <3>1. ASSUME NEW c \in truth PROVE c.at >= ucur * HourLen <=> hourStart(c.at) >= ucur
      <4> DEFINE g == hourStart(c.at)
      <4>1. c.at \in Int /\ g \in Int /\ g * HourLen \in Int /\ g * HourLen <= c.at /\ c.at < g * HourLen + HourLen
        BY HourBounds DEF Stored
      <4> HIDE DEF g
      <4>2. g >= ucur => g * HourLen >= ucur * HourLen
        BY <1>0, <4>1, Numbers, TimesMonotone
      <4>3. g < ucur => (g + 1) * HourLen <= ucur * HourLen
        BY <1>0, <4>1, Numbers, TimesMonotone
      <4>4. (g + 1) * HourLen = g * HourLen + HourLen /\ ucur * HourLen \in Int
        BY <1>0, <4>1, Numbers, Times
      <4>5. c.at >= ucur * HourLen <=> g >= ucur
        BY <1>0, <4>1, <4>2, <4>3, <4>4, Numbers
      <4> QED BY <4>5 DEF g
    <3>2. ASSUME NEW c \in truth, hourStart(c.at) >= ucur PROVE c \in checks
      <4>1. c.at \in Int /\ hourStart(c.at) \in Int /\ mnow \in Int /\ now \in Int /\ mnow <= now
        <5>1. c.at \in Int /\ mnow \in Int /\ now \in Int /\ mnow <= now
          BY DEF Stored, Types, Clocks
        <5> QED BY <5>1, HourBounds
      <4>2. hourStart(now) <= hourStart(c.at) + 1
        BY <1>0, <2>1, <3>2, <4>1 DEF Clocks
      <4>3. now < c.at + 1 * HourLen + HourLen
        BY <4>1, <4>2, HourApart
      <4>4. ~(c.at + Retention < mnow)
        BY <4>1, <4>3, Numbers, RetentionAssumption
      <4> QED BY <4>4 DEF Stored
    <3> QED BY <3>1, <3>2 DEF OfCell, RawFrom, Stored
  <2>3. IsFiniteSet(OfCell(truth, ucur, Span)) /\ \A c \in OfCell(truth, ucur, Span) : c.ok \in BOOLEAN
    <3>1. OfCell(truth, ucur, Span) \in SUBSET truth
      BY DEF OfCell
    <3> QED BY <3>1, FS_Subset DEF Stored
  <2>4. hours'[Span] = Count(OfCell(truth, ucur, Span)) /\ Within(hours'[Span], OfCell(truth, ucur, Span))
    <3>1. Span \in 1 .. Span
      BY Numbers
    <3>2. hours'[Span] = Count(OfCell(truth, ucur, Span))
      BY <2>1, <2>2, <3>1
    <3> QED BY <2>3, <3>2, CountWithin
  <2>5. Covers(hours'[Span], least[Span])
    <3> SUFFICES ASSUME NEW o \in BOOLEAN PROVE Part(least[Span], o) <= Part(hours'[Span], o)
      BY DEF Covers
    <3>1. InHour(truth, ucur) \subseteq OfCell(truth, ucur, Span)
      BY <1>0 DEF InHour, OfCell
    <3>2. Within(least[Span], InHour(truth, ucur))
      BY <2>1 DEF Cells
    <3>3. Within(least[Span], OfCell(truth, ucur, Span))
      BY <2>3, <3>1, <3>2, WithinMore
    <3>4. Part(hours'[Span], o) = Cardinality(Of(OfCell(truth, ucur, Span), o))
      BY <2>3, <2>4, CountParts
    <3> QED BY <3>3, <3>4 DEF Within
  <2>6. ASSUME NEW i \in 1 .. Span
        PROVE  /\ Within(hours'[i], OfCell(truth, ucur, i))
               /\ MaxMissed <= 1 => Covers(hours'[i], least[i])
               /\ Covers(least[i], Zero)
    <3>1. CASE i = Span
      BY <2>1, <2>4, <2>5, <3>1 DEF Cells
    <3>2. CASE i # Span
      <4>1. i < Span /\ hours'[i] = hours[i]
        <5>1. i < Span
          BY <3>2, Numbers
        <5> HIDE DEF S
        <5> QED BY <2>1, <3>2, <5>1
      <4> QED BY <2>1, <4>1 DEF Cells
    <3> QED BY <3>1, <3>2
  <2>7. Within(least[Span], InHour(truth, ucur))
    BY <2>1 DEF Cells
  <2> QED BY <2>1, <2>6, <2>7 DEF Cells
<1>5. CASE UptimeDone
  BY <1>5 DEF UptimeDone, Cells
<1>6. CASE TakeTime \/ RollupCommits \/ PruneChecks \/ PruneHourly \/ MaintenanceFails
  BY <1>1, <1>6 DEF TakeTime, RollupCommits, PruneChecks, PruneHourly, MaintenanceFails, table, shown
<1>7. CASE Stop \/ Boot \/ Tick
  BY <1>1, <1>7 DEF Stop, Boot, Tick, table, shown
<1>8. ASSUME NEW pc, Begin(pc) PROVE Cells'
  BY <1>1, <1>8 DEF Begin, table, shown
<1>9. CASE UNCHANGED vars
  BY <1>1, <1>9 DEF vars, table, shown
<1> QED BY <1>2, <1>3, <1>4, <1>5, <1>6, <1>7, <1>8, <1>9 DEF Next

\* The inductive invariant of the store, the maintenance goroutine and a request,
\* for every length of downtime.
THEOREM Invariant == Spec => []IInv
<1>1. IInv /\ [Next]_vars => IInv'
  <2> SUFFICES ASSUME IInv, [Next]_vars PROVE IInv'
    OBVIOUS
  <2> QED BY TypesStep, ClocksStep, StoredStep, RowsStep, RecentStep, CellsStep DEF IInv
<1> QED BY InitIInv, <1>1, PTL DEF Spec

\* HourlyExact: with at most one hour end missed, the two hours Rollup recomputes
\* and the retention of checks are enough for every hourly value to be exact.
THEOREM HoursAreExact == ASSUME MaxMissed <= 1 PROVE Spec => []HourlyExact
<1>1. IInv => HourlyExact
  BY DEF IInv, Recent, Exact, HourlyExact
<1> QED BY Invariant, <1>1, PTL

-----------------------------------------------------------------------------
(* What the pages show of the availability.                                *)

\* Part, cell by cell.
Parts(cs, o) == [i \in 1 .. Span |-> Part(cs[i], o)]

\* The total of cells, for the successful and the failed checks.
LEMMA TotalParts ==
  ASSUME NEW cs \in [1 .. Span -> Cell], NEW a \in Nat, a > 0, NEW b \in Nat, b <= Span
  PROVE  /\ Total(cs, a, b).total \in Int /\ Total(cs, a, b).ok \in Int
         /\ \A o \in BOOLEAN : Part(Total(cs, a, b), o) = Sum(Parts(cs, o), a, b)
<1> DEFINE T == [i \in 1 .. Span |-> cs[i].total]
           K == [i \in 1 .. Span |-> cs[i].ok]
           D == Parts(cs, FALSE)
<1>1. \A i \in 1 .. Span : cs[i].total \in Nat /\ cs[i].ok \in Nat
  BY DEF Cell
<1>2. \A i \in a .. b : i \in 1 .. Span
  BY Numbers
<1>3. \A i \in a .. b : /\ T[i] \in Int /\ K[i] \in Int
                        /\ Parts(cs, FALSE)[i] = T[i] - K[i]
  BY <1>1, <1>2 DEF Parts, Part
<1>4. Parts(cs, TRUE) = K
  BY DEF Parts, Part
<1>5. Total(cs, a, b).total = Sum(T, a, b) /\ Total(cs, a, b).ok = Sum(K, a, b)
  BY DEF Total
<1> HIDE DEF T, K
<1>6. Sum(T, a, b) \in Int /\ Sum(K, a, b) \in Int
  BY <1>3, SumInt
<1>7. Sum(D, a, b) = Sum(T, a, b) - Sum(K, a, b)
  <2>1. \A i \in a .. b : T[i] \in Int /\ K[i] \in Int /\ D[i] = T[i] - K[i]
    BY <1>3
  <2> HIDE DEF D
  <2> QED BY <2>1, SumMinus
<1>8. Part(Total(cs, a, b), TRUE) = Sum(Parts(cs, TRUE), a, b)
  BY <1>4, <1>5 DEF Part
<1>9. Part(Total(cs, a, b), FALSE) = Sum(Parts(cs, FALSE), a, b)
  BY <1>5, <1>7 DEF Part
<1>10. \A o \in BOOLEAN : o = TRUE \/ o = FALSE
  OBVIOUS
<1>11. \A o \in BOOLEAN : Part(Total(cs, a, b), o) = Sum(Parts(cs, o), a, b)
  BY <1>8, <1>9, <1>10, Zenon
<1> QED BY <1>5, <1>6, <1>11

\* No check belongs to two cells.
LEMMA OneCell ==
  ASSUME IInv, NEW i \in 1 .. Span, NEW j \in 1 .. Span, i # j
  PROVE  OfCell(truth, ucur, i) \cap OfCell(truth, ucur, j) = {}
<1> SUFFICES ASSUME NEW c \in truth, c \in OfCell(truth, ucur, i), c \in OfCell(truth, ucur, j)
             PROVE  FALSE
  BY DEF OfCell
<1>1. ucur \in Int /\ c.at \in Int /\ hourStart(c.at) \in Int
  <2>1. ucur \in Int /\ c.at \in Int
    BY DEF IInv, Types, Stored
  <2> QED BY <2>1, HourBounds
<1> QED BY <1>1, Numbers DEF OfCell

\* The cells a .. b count no check of theirs twice and none of others, and at
\* least what they have to count.
LEMMA CellSums ==
  ASSUME IInv, upc = "shown", NEW a \in Nat, a > 0, NEW b \in Nat, b <= Span,
         NEW R, IsFiniteSet(R), \A i \in a .. b : OfCell(truth, ucur, i) \subseteq R
  PROVE  /\ Total(hours, a, b).total \in Int /\ Total(hours, a, b).ok \in Int
         /\ Total(least, a, b).total \in Int /\ Total(least, a, b).ok \in Int
         /\ \A o \in BOOLEAN :
              /\ 0 <= Part(Total(least, a, b), o) /\ 0 <= Part(Total(hours, a, b), o)
              /\ MaxMissed <= 1 => Part(Total(least, a, b), o) <= Part(Total(hours, a, b), o)
              /\ Part(Total(hours, a, b), o) <= Cardinality(Of(R, o))
<1> USE DEF IInv
<1>1. hours \in [1 .. Span -> Cell] /\ least \in [1 .. Span -> Cell]
  BY DEF Types
<1>2. /\ Total(hours, a, b).total \in Int /\ Total(hours, a, b).ok \in Int
      /\ \A o \in BOOLEAN : Part(Total(hours, a, b), o) = Sum(Parts(hours, o), a, b)
  BY <1>1, TotalParts
<1>3. /\ Total(least, a, b).total \in Int /\ Total(least, a, b).ok \in Int
      /\ \A o \in BOOLEAN : Part(Total(least, a, b), o) = Sum(Parts(least, o), a, b)
  BY <1>1, TotalParts
<1>4. \A i \in a .. b : i \in 1 .. Span
  BY Numbers
<1>5. ASSUME NEW o \in BOOLEAN
      PROVE  /\ 0 <= Sum(Parts(least, o), a, b) /\ 0 <= Sum(Parts(hours, o), a, b)
             /\ MaxMissed <= 1 => Sum(Parts(least, o), a, b) <= Sum(Parts(hours, o), a, b)
             /\ Sum(Parts(hours, o), a, b) <= Cardinality(Of(R, o))
  <2>1. \A i \in 1 .. Span : /\ hours[i].total \in Nat /\ hours[i].ok \in Nat
                             /\ least[i].total \in Nat /\ least[i].ok \in Nat
    BY <1>1 DEF Cell
  <2>2. \A i \in 1 .. Span : /\ Parts(hours, o)[i] = Part(hours[i], o)
                             /\ Parts(least, o)[i] = Part(least[i], o)
                             /\ Part(hours[i], o) \in Int
                             /\ Part(least[i], o) \in Int
    BY <2>1 DEF Parts, Part
  <2>3. \A i \in 1 .. Span : /\ 0 <= Part(least[i], o) /\ 0 <= Part(hours[i], o)
                             /\ MaxMissed <= 1 => Part(least[i], o) <= Part(hours[i], o)
                             /\ Part(hours[i], o) <= Cardinality(Of(OfCell(truth, ucur, i), o))
    <3>1. Part([total |-> 0, ok |-> 0], o) = 0
      BY DEF Part
    <3> QED BY <3>1 DEF Cells, Covers, Within
  <2> DEFINE Z == [i \in 1 .. Span |-> 0]
             G == [i \in 1 .. Span |-> Of(OfCell(truth, ucur, i), o)]
  <2>4. Sum(Z, a, b) = 0
    <3>1. \A i \in a .. b : Z[i] \in Int /\ Z[i] = Z[i] - Z[i]
      BY <1>4
    <3> HIDE DEF Z
    <3>2. Sum(Z, a, b) = Sum(Z, a, b) - Sum(Z, a, b)
      BY <3>1, SumMinus
    <3>3. Sum(Z, a, b) \in Int
      BY <3>1, SumInt
    <3> QED BY <3>2, <3>3
  <2>5. Sum(Z, a, b) <= Sum(Parts(least, o), a, b) /\ Sum(Z, a, b) <= Sum(Parts(hours, o), a, b)
    <3>1. \A i \in a .. b : Z[i] \in Int /\ Parts(least, o)[i] \in Int /\ Z[i] <= Parts(least, o)[i]
      BY <1>4, <2>2, <2>3
    <3>2. \A i \in a .. b : Z[i] \in Int /\ Parts(hours, o)[i] \in Int /\ Z[i] <= Parts(hours, o)[i]
      BY <1>4, <2>2, <2>3
    <3> HIDE DEF Z
    <3> QED BY <3>1, <3>2, SumMonotone
  <2>6. ASSUME MaxMissed <= 1 PROVE Sum(Parts(least, o), a, b) <= Sum(Parts(hours, o), a, b)
    <3>1. \A i \in a .. b : /\ Parts(least, o)[i] \in Int /\ Parts(hours, o)[i] \in Int
                            /\ Parts(least, o)[i] <= Parts(hours, o)[i]
      BY <1>4, <2>2, <2>3, <2>6
    <3> QED BY <3>1, SumMonotone
  <2>7. Sum(Parts(hours, o), a, b) <= Cardinality(Of(R, o))
    <3>1. Of(R, o) \in SUBSET R
      BY DEF Of
    <3>2. IsFiniteSet(Of(R, o))
      BY <3>1, FS_Subset
    <3>3. \A i \in a .. b : /\ G[i] \subseteq Of(R, o)
                            /\ Parts(hours, o)[i] \in Int
                            /\ Parts(hours, o)[i] <= Cardinality(G[i])
      <4> SUFFICES ASSUME NEW i \in a .. b
                   PROVE  /\ G[i] \subseteq Of(R, o)
                          /\ Parts(hours, o)[i] \in Int
                          /\ Parts(hours, o)[i] <= Cardinality(G[i])
        OBVIOUS
      <4>1. G[i] = Of(OfCell(truth, ucur, i), o) /\ OfCell(truth, ucur, i) \subseteq R
        BY <1>4
      <4>2. G[i] \subseteq Of(R, o)
        BY <4>1 DEF Of
      <4> QED BY <1>4, <2>2, <2>3, <4>1, <4>2
    <3>4. \A i, j \in a .. b : i # j => G[i] \cap G[j] = {}
      <4> SUFFICES ASSUME NEW i \in a .. b, NEW j \in a .. b, i # j PROVE G[i] \cap G[j] = {}
        OBVIOUS
      <4>1. OfCell(truth, ucur, i) \cap OfCell(truth, ucur, j) = {}
        BY <1>4, OneCell
      <4>2. G[i] = Of(OfCell(truth, ucur, i), o) /\ G[j] = Of(OfCell(truth, ucur, j), o)
        BY <1>4
      <4> QED BY <4>1, <4>2 DEF Of
    <3> HIDE DEF G
    <3> QED BY <3>2, <3>3, <3>4, SumOfSizes
  <2> HIDE DEF Z, G
  <2> QED BY <2>4, <2>5, <2>6, <2>7
<1> QED BY <1>2, <1>3, <1>5

\* The counts of Uptime for the last n hours.
LEMMA UptimeIsTrue ==
  ASSUME IInv, upc = "shown", NEW n \in 1 .. Span
  PROVE  LET real == Count({c \in truth : hourStart(c.at) > ucur - n})
             low  == Total(least, Span - n + 1, Span)
         IN  /\ Uptime(n).ok \in 0 .. real.ok
             /\ Uptime(n).total - Uptime(n).ok \in 0 .. real.total - real.ok
             /\ MaxMissed <= 1 =>
                  /\ Uptime(n).ok \in low.ok .. real.ok
                  /\ Uptime(n).total - Uptime(n).ok \in low.total - low.ok .. real.total - real.ok
<1> DEFINE R    == {c \in truth : hourStart(c.at) > ucur - n}
           a    == Span - n + 1
           real == Count(R)
           low  == Total(least, a, Span)
           shows == Total(hours, a, Span)
<1>1. a \in Nat /\ a > 0 /\ Span \in Nat /\ Span <= Span
  BY Numbers
<1>2. IsFiniteSet(R) /\ \A c \in R : c.ok \in BOOLEAN
  <2>1. R \in SUBSET truth
    OBVIOUS
  <2> HIDE DEF R
  <2> QED BY <2>1, FS_Subset DEF IInv, Stored
<1>3. \A i \in a .. Span : OfCell(truth, ucur, i) \subseteq R
  <2> SUFFICES ASSUME NEW i \in a .. Span, NEW c \in truth, c \in OfCell(truth, ucur, i)
               PROVE  hourStart(c.at) > ucur - n
    BY DEF OfCell
  <2>1. ucur \in Int /\ c.at \in Int
    BY DEF IInv, Types, Stored
  <2>2. hourStart(c.at) \in Int
    BY <2>1, HourBounds
  <2> QED BY <2>1, <2>2, Numbers DEF OfCell
<1>4. Count(R) \in Cell /\ \A o \in BOOLEAN : Part(Count(R), o) = Cardinality(Of(R, o))
  <2> HIDE DEF R
  <2> QED BY <1>2, CountParts
<1>5. /\ shows.total \in Int /\ shows.ok \in Int /\ low.total \in Int /\ low.ok \in Int
      /\ \A o \in BOOLEAN : /\ 0 <= Part(shows, o)
                            /\ MaxMissed <= 1 => Part(low, o) <= Part(shows, o)
                            /\ Part(shows, o) <= Part(real, o)
  <2> HIDE DEF R, a
  <2> QED BY <1>1, <1>2, <1>3, <1>4, CellSums
<1>6. real.total \in Int /\ real.ok \in Int
  <2> HIDE DEF R
  <2> QED BY <1>4 DEF Cell
<1>7. Uptime(n) = shows
  BY DEF Uptime
<1> HIDE DEF real, low, shows
<1>8. 0 <= shows.ok /\ shows.ok <= real.ok /\ (MaxMissed <= 1 => low.ok <= shows.ok)
  BY <1>5 DEF Part
<1>9. /\ 0 <= shows.total - shows.ok
      /\ shows.total - shows.ok <= real.total - real.ok
      /\ MaxMissed <= 1 => low.total - low.ok <= shows.total - shows.ok
  BY <1>5 DEF Part
<1>10. /\ Uptime(n).ok \in 0 .. real.ok
       /\ Uptime(n).total - Uptime(n).ok \in 0 .. real.total - real.ok
       /\ MaxMissed <= 1 =>
            /\ Uptime(n).ok \in low.ok .. real.ok
            /\ Uptime(n).total - Uptime(n).ok \in low.total - low.ok .. real.total - real.ok
  BY <1>5, <1>6, <1>7, <1>8, <1>9
<1> QED BY <1>10 DEF real, low

\* The state of a bar.
LEMMA BarsTrue ==
  ASSUME IInv, upc = "shown", NEW n \in {1, Group}, NEW k \in 1 .. Span \div n
  PROVE  LET of(ok) == \E c \in truth : c.ok = ok /\
                         \E i \in (k - 1) * n + 1 .. k * n :
                           \/ hourStart(c.at) = CellHour(i)
                           \/ i = Span /\ hourStart(c.at) > ucur
             low    == Bar(least, k, n)
         IN  /\ cells(n)[k] = "down" => of(FALSE)
             /\ cells(n)[k] = "up" => of(TRUE)
             /\ MaxMissed <= 1 /\ low.ok < low.total => cells(n)[k] = "down"
<1> DEFINE a == (k - 1) * n + 1
           b == k * n
           R == {c \in truth : \E i \in a .. b : c \in OfCell(truth, ucur, i)}
           low   == Total(least, a, b)
           shows == Total(hours, a, b)
<1>1. a \in Nat /\ a > 0 /\ b \in Nat /\ b <= Span
  <2> DEFINE m == Span \div n
  <2>1. n \in Nat /\ n > 0 /\ Span \in Int
    BY Numbers
  <2>2. m \in Int /\ m * n <= Span
    BY <2>1, DivBounds
  <2>3. k \in 1 .. m
    OBVIOUS
  <2> HIDE DEF m
  <2>4. k \in Int /\ 1 <= k /\ k <= m
    BY <2>2, <2>3
  <2>5. k * n <= m * n /\ k * n \in Int /\ m * n \in Int /\ 0 * n <= (k - 1) * n /\ (k - 1) * n \in Int
    BY <2>1, <2>2, <2>4, Times, TimesMonotone
  <2>6. 0 * n <= k * n
    BY <2>1, <2>4, TimesMonotone
  <2> QED BY <2>1, <2>2, <2>5, <2>6, Numbers
<1>2. IsFiniteSet(R)
  <2>1. R \in SUBSET truth
    OBVIOUS
  <2> HIDE DEF R
  <2> QED BY <2>1, FS_Subset DEF IInv, Stored
<1>3. \A i \in a .. b : OfCell(truth, ucur, i) \subseteq R
  BY DEF OfCell
<1>4. /\ shows.total \in Int /\ shows.ok \in Int /\ low.total \in Int /\ low.ok \in Int
      /\ \A o \in BOOLEAN : /\ 0 <= Part(low, o) /\ 0 <= Part(shows, o)
                            /\ MaxMissed <= 1 => Part(low, o) <= Part(shows, o)
                            /\ Part(shows, o) <= Cardinality(Of(R, o))
  <2> HIDE DEF R, a, b
  <2> QED BY <1>1, <1>2, <1>3, CellSums
<1>5. /\ 0 <= shows.ok /\ 0 <= shows.total - shows.ok
      /\ MaxMissed <= 1 => low.total - low.ok <= shows.total - shows.ok
  <2> HIDE DEF low, shows, R
  <2> QED BY <1>4 DEF Part
<1>6. cells(n)[k] = State(shows)
  BY DEF cells, Bar
<1>7. ASSUME NEW o \in BOOLEAN, Part(shows, o) > 0
      PROVE  \E c \in truth : c.ok = o /\ \E i \in a .. b :
               hourStart(c.at) = CellHour(i) \/ (i = Span /\ hourStart(c.at) > ucur)
  <2>1. Of(R, o) # {}
    <3> HIDE DEF R, shows
    <3>1. Part(shows, o) \in Int
      BY <1>4 DEF Part
    <3>2. Of(R, o) = {} => Cardinality(Of(R, o)) = 0
      BY FS_EmptySet
    <3> QED BY <1>4, <1>7, <3>1, <3>2
  <2>2. PICK c \in truth : c.ok = o /\ \E i \in a .. b : c \in OfCell(truth, ucur, i)
    BY <2>1 DEF Of
  <2>3. PICK i \in a .. b : c \in OfCell(truth, ucur, i)
    BY <2>2
  <2>4. ucur \in Int /\ c.at \in Int
    BY DEF IInv, Types, Stored
  <2>5. hourStart(c.at) \in Int
    BY <2>4, HourBounds
  <2>6. hourStart(c.at) = CellHour(i) \/ (i = Span /\ hourStart(c.at) > ucur)
    BY <2>3, <2>4, <2>5, Numbers DEF OfCell, CellHour
  <2> QED BY <2>2, <2>3, <2>6
<1>8. State(shows) = "down" => Part(shows, FALSE) > 0
  <2> HIDE DEF shows
  <2> QED BY <1>4 DEF State, Part
<1>9. State(shows) = "up" => Part(shows, TRUE) > 0
  <2> HIDE DEF shows, low
  <2> QED BY <1>4, <1>5 DEF State, Part
<1>10. MaxMissed <= 1 /\ low.ok < low.total => State(shows) = "down"
  <2> HIDE DEF shows, low
  <2> QED BY <1>4, <1>5 DEF State
<1>11. Bar(least, k, n) = low
  BY DEF Bar
<1>12. cells(n)[k] = "down" =>
         \E c \in truth : c.ok = FALSE /\ \E i \in a .. b :
           hourStart(c.at) = CellHour(i) \/ (i = Span /\ hourStart(c.at) > ucur)
  <2> HIDE DEF shows, a, b
  <2> QED BY <1>6, <1>7, <1>8
<1>13. cells(n)[k] = "up" =>
         \E c \in truth : c.ok = TRUE /\ \E i \in a .. b :
           hourStart(c.at) = CellHour(i) \/ (i = Span /\ hourStart(c.at) > ucur)
  <2> HIDE DEF shows, a, b
  <2> QED BY <1>6, <1>7, <1>9
<1>14. MaxMissed <= 1 /\ Bar(least, k, n).ok < Bar(least, k, n).total => cells(n)[k] = "down"
  <2> HIDE DEF shows, low
  <2> QED BY <1>6, <1>10, <1>11
<1> HIDE DEF low, shows, R
<1> QED BY <1>12, <1>13, <1>14

\* ShownIsTrue: with at most one hour end missed, the availability and the bars
\* count every check of the period once, although they are read in two queries.
THEOREM PagesAreTrue == ASSUME MaxMissed <= 1 PROVE Spec => []ShownIsTrue
<1>1. IInv => UptimeCounts
  BY UptimeIsTrue DEF UptimeCounts
<1>2. IInv => BarsAreTrue
  BY BarsTrue DEF BarsAreTrue
<1>3. IInv => ShownIsTrue
  BY <1>1, <1>2 DEF ShownIsTrue
<1> QED BY Invariant, <1>3, PTL

\* A period counts no check twice and none that did not happen.
NoneInvented ==
  \A n \in 1 .. Span :
    LET real == Count({c \in truth : hourStart(c.at) > ucur - n})
    IN  /\ Uptime(n).ok \in 0 .. real.ok
        /\ Uptime(n).total - Uptime(n).ok \in 0 .. real.total - real.ok

\* A bar is down, or up, only when a check of its hours failed, or succeeded.
BarsHaveReason ==
  \A n \in {1, Group} : \A k \in 1 .. Span \div n :
    LET of(ok) == \E c \in truth : c.ok = ok /\
                    \E i \in (k - 1) * n + 1 .. k * n :
                      \/ hourStart(c.at) = CellHour(i)
                      \/ i = Span /\ hourStart(c.at) > ucur
    IN  (cells(n)[k] = "down" => of(FALSE)) /\ (cells(n)[k] = "up" => of(TRUE))

\* However many hour ends the process missed, Uptime and cells show no check that
\* did not happen and none twice.
THEOREM ShownHappened == Spec => [](upc = "shown" => NoneInvented /\ BarsHaveReason)
<1>1. IInv => (upc = "shown" => NoneInvented)
  BY UptimeIsTrue DEF NoneInvented
<1>2. IInv => (upc = "shown" => BarsHaveReason)
  BY BarsTrue DEF BarsHaveReason
<1> QED BY Invariant, <1>1, <1>2, PTL

-----------------------------------------------------------------------------
(* The latency chart.                                                      *)

\* The 95th percentile is the nearest rank: the latency at the index latency()
\* computes in integers is in the list, at least 95 of 100 are not above it in
\* the order, and one place earlier they would be fewer.
THEOREM PercentileRank ==
  ASSUME NEW n \in Nat, n > 0
  PROVE  /\ p95Rank(n) \in 1 .. n
         /\ 100 * p95Rank(n) >= 95 * n
         /\ 100 * (p95Rank(n) - 1) < 95 * n
BY DEF p95Rank

\* The first value of latency.
LEMMA LatencyAverage ==
  ASSUME NEW S, IsFiniteSet(S), S # {} PROVE latency(S).avg = Average(S)
<1>1. Cardinality(S) # 0
  BY FS_EmptySet
<1> QED BY <1>1 DEF latency

\* The slot a point lies in.
LEMMA SlotOf ==
  ASSUME NEW len \in Nat, len > 0, NEW n \in Nat, NEW L \in Int, NEW i \in 1 .. n, NEW q \in Int
  PROVE  LET first == L * len - (n - 1) * len
         IN  q * len >= first /\ (q * len - first) \div len = i - 1 <=> q = L - (n - i)
<1> DEFINE first == L * len - (n - 1) * len
           r     == q - L + n - 1
<1>1. first \in Int /\ q * len \in Int /\ r \in Int
  BY Times
<1>2. q * len - first = r * len
  <2>1. r * len = q * len - L * len + (n - 1) * len
    OBVIOUS
  <2>2. L * len \in Int /\ (n - 1) * len \in Int /\ q * len \in Int
    BY Times
  <2> QED BY <2>1, <2>2
<1>3. (r * len) \div len = r
  <2>1. r * len \in Int /\ r * len <= r * len /\ r * len < r * len + len
    BY <1>1, Times
  <2> HIDE DEF r
  <2> QED BY <1>1, <2>1, DivIs
<1>4. q * len >= first <=> r * len >= 0
  <2> HIDE DEF first, r
  <2>1. r * len \in Int
    BY <1>1, Times
  <2> QED BY <1>1, <1>2, <2>1
<1>5. r >= 0 => r * len >= 0 * len
  <2> HIDE DEF r
  <2> QED BY <1>1, TimesMonotone
<1>6. r = i - 1 <=> q = L - (n - i)
  OBVIOUS
<1>7. (q * len - first) \div len = r
  BY <1>2, <1>3
<1>8. q * len >= first /\ (q * len - first) \div len = i - 1 <=> r = i - 1
  <2> HIDE DEF first, r
  <2> QED BY <1>1, <1>4, <1>5, <1>7
<1> HIDE DEF r
<1> QED BY <1>6, <1>8

\* A chart made of the points in Q shows the value of the slot's point.
LEMMA SlotShows ==
  ASSUME NEW p, NEW later \in Int, NEW n \in Nat, p.slots = n, NEW i \in 1 .. n,
         NEW len \in Nat, len > 0, SlotLen(p) = len,
         NEW Q \in SUBSET Int, NEW A, Latency(p) = {[at |-> q * len, avg |-> A[q]] : q \in Q}
  PROVE  LET s == later \div len - (n - i)
         IN  slots(p, later)[i] = IF s \in Q THEN A[s] ELSE -1
<1> DEFINE L     == later \div len
           first == L * len - (n - 1) * len
           s     == L - (n - i)
           X     == Latency(p)
           mine  == {x \in X : x.at >= first /\ (x.at - first) \div len = i - 1}
           x0    == [at |-> s * len, avg |-> A[s]]
<1>1. slots(p, later)[i] = IF mine = {} THEN -1 ELSE (CHOOSE x \in mine : \A y \in mine : y.at <= x.at).avg
  BY DEF slots
<1>2. L \in Int /\ s \in Int /\ s * len \in Int
  <2>1. L \in Int
    BY DivBounds
  <2> HIDE DEF L
  <2>2. s \in Int
    BY <2>1
  <2> QED BY <2>1, <2>2, Times
<1>3. \A q \in Q : q * len >= first /\ (q * len - first) \div len = i - 1 <=> q = s
  <2> HIDE DEF L
  <2> QED BY <1>2, SlotOf
<1> HIDE DEF first, L
<1>4. CASE s \in Q
  <2>1. mine = {x0}
    <3>1. x0 \in mine
      <4>1. x0 \in X /\ x0.at = s * len
        BY <1>4
      <4> HIDE DEF x0, X, s
      <4> QED BY <1>3, <1>4, <4>1
    <3>2. ASSUME NEW x \in mine PROVE x = x0
      <4>1. PICK q \in Q : x = [at |-> q * len, avg |-> A[q]]
        BY <3>2
      <4>2. x.at = q * len
        BY <4>1
      <4>3. q = s
        <5> HIDE DEF s, X
        <5> QED BY <1>3, <3>2, <4>2
      <4> QED BY <4>1, <4>3
    <3> HIDE DEF mine, x0
    <3> QED BY <3>1, <3>2
  <2>2. x0.at \in Int /\ x0.avg = A[s]
    BY <1>2
  <2> HIDE DEF mine, x0, s
  <2>3. \E x \in mine : \A y \in mine : y.at <= x.at
    BY <2>1, <2>2
  <2>4. (CHOOSE x \in mine : \A y \in mine : y.at <= x.at) \in mine
    BY <2>3
  <2>5. (CHOOSE x \in mine : \A y \in mine : y.at <= x.at) = x0
    BY <2>1, <2>4
  <2>6. slots(p, later)[i] = A[s]
    BY <1>1, <2>1, <2>2, <2>5
  <2> QED BY <1>4, <2>6 DEF s, L
<1>5. CASE s \notin Q
  <2>1. mine = {}
    <3> SUFFICES ASSUME NEW x \in mine PROVE FALSE
      OBVIOUS
    <3>1. PICK q \in Q : x = [at |-> q * len, avg |-> A[q]]
      OBVIOUS
    <3>2. x.at = q * len
      BY <3>1
    <3>3. q = s
      <4> HIDE DEF s, X
      <4> QED BY <1>3, <3>2
    <3> QED BY <1>5, <3>3
  <2> HIDE DEF mine
  <2>2. slots(p, later)[i] = -1
    BY <1>1, <2>1
  <2> QED BY <1>5, <2>2 DEF L
<1> QED BY <1>4, <1>5

\* Dividing whole units.
LEMMA ExactDiv ==
  ASSUME NEW q \in Int, NEW d \in Nat, d > 0 PROVE (q * d) \div d = q
<1>1. q * d \in Int /\ q * d <= q * d /\ q * d < q * d + d
  BY Times
<1> QED BY <1>1, DivIs

\* The two periods.
Short == [raw |-> TRUE, hours |-> Day, slots |-> (Day * HourLen) \div step]

Long == [raw |-> FALSE, hours |-> Span, slots |-> Span]

\* The points of the short period are as long as its slots.
LEMMA ShortSlots ==
  /\ Short.slots \in Nat /\ Short.slots > 0 /\ SlotLen(Short) = step
  /\ Short.slots * step = Day * HourLen
<1> DEFINE k == HourLen \div step
<1>1. k \in Int /\ HourLen = k * step
  <2>1. HourLen % step = 0
    BY HourAssumption
  <2> QED BY <2>1, Numbers
<1> HIDE DEF k
<1>2. k > 0
  <2>1. CASE k <= 0
    <3>1. k * step <= 0 * step
      BY <1>1, <2>1, Numbers, TimesMonotone
    <3> QED BY <1>1, <3>1, Numbers
  <2> QED BY <1>1, <2>1
<1>3. Day * HourLen = (Day * k) * step /\ Day * k \in Nat /\ Day * k > 0
  <2>1. Day * (k * step) = (Day * k) * step
    BY <1>1, Numbers
  <2>2. 1 * k <= Day * k /\ Day * k \in Int
    BY <1>1, <1>2, Numbers, TimesMonotone, Times
  <2> QED BY <1>1, <1>2, <2>1, <2>2
<1>4. (Day * HourLen) \div step = Day * k
  <2> DEFINE m == Day * k
  <2>1. m \in Int /\ Day * HourLen = m * step
    BY <1>3
  <2> HIDE DEF m
  <2>2. (m * step) \div step = m
    BY <2>1, Numbers, ExactDiv
  <2>3. (Day * HourLen) \div step = m
    BY <2>1, <2>2
  <2> QED BY <2>3 DEF m
<1>5. Short.slots = Day * k /\ Short.hours = Day
  BY <1>4 DEF Short
<1>6. ((Day * k) * step) \div (Day * k) = step
  <2> DEFINE m == Day * k
  <2>1. m \in Nat /\ m > 0
    BY <1>3
  <2> HIDE DEF m
  <2>2. m * step = step * m
    BY <2>1, Numbers
  <2>3. (step * m) \div m = step
    BY <2>1, Numbers, ExactDiv
  <2>4. (m * step) \div m = step
    BY <2>2, <2>3
  <2> QED BY <2>4 DEF m
<1>7. SlotLen(Short) = step
  BY <1>3, <1>5, <1>6 DEF SlotLen
<1> QED BY <1>3, <1>5, <1>7

\* The slots of the long period are hours.
LEMMA LongSlots == Long.slots = Span /\ SlotLen(Long) = HourLen
<1>1. Span * HourLen = HourLen * Span
  BY Numbers
<1>2. (HourLen * Span) \div Span = HourLen
  BY Numbers, ExactDiv
<1> QED BY <1>1, <1>2 DEF Long, SlotLen

\* A slot of the chart from single checks.
LEMMA ShortIsExact ==
  ASSUME IInv, NEW later \in now .. now + HourLen, NEW i \in 1 .. Short.slots
  PROVE  LET slot == later \div step - (Short.slots - i)
             oks  == {c \in truth : c.ok /\ c.at \div step = slot}
         IN  slots(Short, later)[i] = IF oks = {} THEN -1 ELSE Average(oks)
<1> USE DEF IInv
<1> DEFINE n     == Short.slots
           slot  == later \div step - (n - i)
           oks   == {c \in truth : c.ok /\ c.at \div step = slot}
           since == now - Day * HourLen
           read  == {c \in checks : c.ok /\ c.at >= since}
           Q     == {c.at \div step : c \in read}
           A     == [q \in Q |-> latency({c \in read : c.at \div step = q}).avg]
<1>1. n \in Nat /\ n > 0 /\ n * step = Day * HourLen /\ SlotLen(Short) = step
  BY ShortSlots
<1>2. now \in Int /\ later \in Int /\ now <= later /\ since \in Int
  BY Numbers, Times DEF Types
<1>3. later \div step \in Int /\ slot \in Int
  <2>1. later \div step \in Int
    BY <1>2, Numbers, DivBounds
  <2> HIDE DEF n
  <2> QED BY <1>1, <2>1
<1>4. \A c \in checks : c.at \in Int /\ c.at \div step \in Int
  <2>1. \A c \in checks : c.at \in Int
    BY DEF Stored
  <2> QED BY <2>1, Numbers, DivBounds
<1>5. Latency(Short) = {[at |-> q * step, avg |-> A[q]] : q \in Q}
  <2>1. Latency(Short) = rawLatency(since)
    BY DEF Latency, Short, Since
  <2> DEFINE lat(q) == latency({c \in read : c.at \div step = q}).avg
  <2>2. rawLatency(since) = {[at |-> q * step, avg |-> lat(q)] : q \in Q}
    BY DEF rawLatency
  <2>3. \A q \in Q : A[q] = lat(q)
    OBVIOUS
  <2> HIDE DEF A, Q, read, lat
  <2> QED BY <2>1, <2>2, <2>3
<1>6. Q \in SUBSET Int
  BY <1>4
<1>7. slots(Short, later)[i] = IF slot \in Q THEN A[slot] ELSE -1
  <2> HIDE DEF A, Q, n
  <2>1. Short.slots = n /\ i \in 1 .. n
    BY DEF n
  <2> QED BY <1>1, <1>2, <1>5, <1>6, <2>1, Numbers, SlotShows
\* Neither the query nor pruning cuts the slot.
<1>8. {c \in read : c.at \div step = slot} = oks
  <2> SUFFICES ASSUME NEW c \in truth, c.at \div step = slot PROVE c \in checks /\ c.at >= since
    BY DEF Stored
  <2> HIDE DEF n
  <2> DEFINE L == later \div step
  <2>1. c.at \in Int /\ slot * step <= c.at /\ slot * step \in Int
    <3>1. c.at \in Int
      BY DEF Stored
    <3>2. (c.at \div step) * step <= c.at
      BY <3>1, Numbers, DivBounds
    <3> QED BY <1>3, <3>1, <3>2, Numbers, Times
  <2>2. L \in Int /\ L * step \in Int /\ later < L * step + step
    BY <1>2, Numbers, DivBounds, Times
  <2> HIDE DEF L
  <2>3. slot = L - (n - i)
    BY DEF L
  <2> HIDE DEF slot
  <2>4. (L - n + 1) * step <= slot * step
    BY <1>1, <1>3, <2>2, <2>3, Numbers, TimesMonotone
  <2>5. (L - n + 1) * step = L * step - n * step + step /\ n * step \in Int
    BY <1>1, <2>2, Numbers
  <2>6. c.at > since
    BY <1>1, <1>2, <2>1, <2>2, <2>4, <2>5, Numbers
  <2>7. ~(c.at + Retention < mnow)
    BY <1>2, <2>1, <2>6, Numbers, RetentionAssumption DEF Types, Clocks
  <2> QED BY <1>2, <2>1, <2>6, <2>7 DEF Stored
<1>9. slot \in Q <=> oks # {}
  <2>1. slot \in Q <=> {c \in read : c.at \div step = slot} # {}
    <3> HIDE DEF slot, read
    <3> QED OBVIOUS
  <2> HIDE DEF slot, read, oks, Q
  <2> QED BY <1>8, <2>1
<1>10. CASE oks = {}
  <2> HIDE DEF Q, A, slot
  <2> QED BY <1>7, <1>9, <1>10 DEF slot
<1>11. CASE oks # {}
  <2>1. IsFiniteSet(oks)
    <3>1. oks \in SUBSET truth
      OBVIOUS
    <3> HIDE DEF oks
    <3> QED BY <3>1, FS_Subset DEF Stored
  <2>2. slot \in Q
    BY <1>9, <1>11
  <2>3. A[slot] = latency({c \in read : c.at \div step = slot}).avg
    <3> HIDE DEF slot, read
    <3> QED BY <2>2
  <2>4. A[slot] = latency(oks).avg
    <3> HIDE DEF slot, read, oks, A
    <3> QED BY <1>8, <2>3
  <2>5. latency(oks).avg = Average(oks)
    <3> HIDE DEF oks
    <3> QED BY <1>11, <2>1, LatencyAverage
  <2>6. slots(Short, later)[i] = Average(oks)
    <3> HIDE DEF slot, A, Q, oks
    <3> QED BY <1>7, <2>2, <2>4, <2>5
  <2> HIDE DEF Q, A, read
  <2> QED BY <1>11, <2>6
<1> QED BY <1>10, <1>11

\* A slot of a finished hour of the chart from hourly values.
LEMMA LongIsExact ==
  ASSUME IInv, MaxMissed <= 1, rolled, NEW later \in now .. now + HourLen, NEW i \in 1 .. Span,
         later \div HourLen - (Span - i) < hourStart(now)
  PROVE  LET slot == later \div HourLen - (Span - i)
             oks  == {c \in truth : c.ok /\ c.at \div HourLen = slot}
         IN  slots(Long, later)[i] = IF oks = {} THEN -1 ELSE Average(oks)
<1> USE DEF IInv
<1> DEFINE slot  == later \div HourLen - (Span - i)
           oks   == {c \in truth : c.ok /\ c.at \div HourLen = slot}
           since == now - Span * HourLen
           Q     == {g \in DOMAIN hourly : g >= hourStart(since) /\ hourly[g].ok > 0}
           A     == [q \in Q |-> hourly[q].avg]
<1>1. now \in Int /\ later \in Int /\ now <= later
  BY Numbers DEF Types
<1>2. hourStart(now) \in Int /\ later \div HourLen \in Int /\ hourStart(now) <= later \div HourLen
  BY <1>1, Numbers, HourBounds, HourMonotone DEF hourStart
<1>3. slot \in hourStart(now) - Span + 1 .. hourStart(now) - 1 /\ slot \in Int
  BY <1>2, Numbers
<1>4. hourStart(since) = hourStart(now) - Span
  <2>1. -Span \in Int /\ (-Span) * HourLen = -(Span * HourLen) /\ Span * HourLen \in Int
    BY Numbers
  <2>2. (now + (-Span) * HourLen) \div HourLen = now \div HourLen + (-Span)
    BY <1>1, <2>1, Numbers, DivShift
  <2>3. since = now + (-Span) * HourLen
    BY <1>1, <2>1
  <2>4. hourStart(since) = hourStart(now) + (-Span)
    BY <2>2, <2>3 DEF hourStart
  <2> HIDE DEF since
  <2> QED BY <1>2, <2>4, Numbers
<1>5. Q \in SUBSET Int
  <2> SUFFICES ASSUME NEW g \in DOMAIN hourly PROVE g \in Int
    OBVIOUS
  <2>1. PICK c \in truth : hourStart(c.at) = g
    BY DEF Rows, InHour
  <2>2. c.at \in Int
    BY DEF Stored
  <2> QED BY <2>1, <2>2, HourBounds
<1>6. Latency(Long) = {[at |-> q * HourLen, avg |-> A[q]] : q \in Q}
  <2>1. Latency(Long) = hourlyLatency(since)
    BY DEF Latency, Long, Since
  <2>2. hourlyLatency(since) = {[at |-> q * HourLen, avg |-> hourly[q].avg] : q \in Q}
    BY DEF hourlyLatency
  <2>3. \A q \in Q : A[q] = hourly[q].avg
    OBVIOUS
  <2> HIDE DEF A, Q
  <2> QED BY <2>1, <2>2, <2>3
<1>7. slots(Long, later)[i] = IF slot \in Q THEN A[slot] ELSE -1
  <2> HIDE DEF A, Q
  <2> QED BY <1>1, <1>5, <1>6, LongSlots, Numbers, SlotShows
<1>8. Exact(slot)
  <2> HIDE DEF slot
  <2> QED BY <1>3 DEF Recent
<1>9. /\ stats(truth, slot).ok = Cardinality(oks)
      /\ stats(truth, slot).avg = latency(oks).avg
  <2>1. {c \in {d \in truth : hourStart(d.at) = slot} : c.ok} = oks
    BY DEF hourStart
  <2> HIDE DEF slot, oks
  <2> QED BY <2>1 DEF stats, Count
<1>10. IsFiniteSet(oks) /\ Cardinality(oks) \in Nat /\ (Cardinality(oks) = 0 <=> oks = {})
  <2>1. oks \in SUBSET truth
    OBVIOUS
  <2> HIDE DEF oks
  <2>2. IsFiniteSet(oks)
    BY <2>1, FS_Subset DEF Stored
  <2> QED BY <2>2, FS_CardinalityType, FS_EmptySet
<1>11. slot >= hourStart(since)
  <2> HIDE DEF slot, since
  <2> QED BY <1>2, <1>3, <1>4, Numbers
<1> HIDE DEF oks, slot, since
<1>12. CASE slot \in DOMAIN hourly
  <2>1. stats(truth, slot) = hourly[slot]
    BY <1>8, <1>12 DEF Exact
  <2>2. slot \in Q <=> hourly[slot].ok > 0
    BY <1>11, <1>12
  <2>3. hourly[slot].ok = Cardinality(oks) /\ hourly[slot].avg = latency(oks).avg
    BY <1>9, <2>1
  <2>4. slot \in Q <=> oks # {}
    <3> HIDE DEF Q
    <3> QED BY <1>10, <2>2, <2>3
  <2>5. slot \in Q => A[slot] = latency(oks).avg
    BY <2>3
  <2> HIDE DEF Q, A
  <2>6. slots(Long, later)[i] = IF oks = {} THEN -1 ELSE Average(oks)
    BY <1>7, <1>10, <2>4, <2>5, LatencyAverage
  <2> QED BY <2>6 DEF oks, slot
<1>13. CASE slot \notin DOMAIN hourly
  <2>1. stats(truth, slot) = stats({}, slot)
    BY <1>8, <1>13 DEF Exact
  <2>2. stats({}, slot).ok = 0
    <3>1. {c \in {d \in {} : hourStart(d.at) = slot} : c.ok} = {}
      OBVIOUS
    <3> QED BY <3>1, FS_EmptySet DEF stats, Count
  <2>3. oks = {}
    BY <1>9, <1>10, <2>1, <2>2
  <2>4. slot \notin Q
    BY <1>13
  <2> HIDE DEF Q, A
  <2>5. slots(Long, later)[i] = IF oks = {} THEN -1 ELSE Average(oks)
    BY <1>7, <2>3, <2>4
  <2> QED BY <2>5 DEF oks, slot
<1> QED BY <1>12, <1>13

\* The slots of both periods together.
LEMMA ChartTrue == ASSUME MaxMissed <= 1 PROVE IInv => ChartIsExact
<1> SUFFICES ASSUME IInv, NEW p \in periods, p.raw \/ (up /\ rolled), NEW later \in now .. now + HourLen,
                    NEW i \in 1 .. p.slots,
                    p.raw \/ later \div SlotLen(p) - (p.slots - i) < hourStart(now)
             PROVE  LET oks == {c \in truth : c.ok /\ c.at \div SlotLen(p) = later \div SlotLen(p) - (p.slots - i)}
                    IN  slots(p, later)[i] = IF oks = {} THEN -1 ELSE Average(oks)
  BY DEF ChartIsExact
<1>1. p = Short \/ p = Long
  BY DEF periods, Short, Long
<1>2. CASE p = Short
  BY <1>2, ShortSlots, ShortIsExact
<1>3. CASE p = Long
  <2>1. ~p.raw
    BY <1>3 DEF Long
  <2>2. rolled /\ p.slots = Span /\ SlotLen(p) = HourLen
    BY <1>3, <2>1, LongSlots
  <2> QED BY <1>3, <2>1, <2>2, LongIsExact
<1> QED BY <1>1, <1>2, <1>3

\* ChartIsExact: with at most one hour end missed, every slot of the charts is
\* the average of all successful checks of its time.
THEOREM ChartsAreExact == ASSUME MaxMissed <= 1 PROVE Spec => []ChartIsExact
BY Invariant, ChartTrue, PTL

\* The chart of the day at a later reading of the clock.
DayIsExact ==
  \A later \in now .. now + HourLen : \A i \in 1 .. Short.slots :
    LET slot == later \div step - (Short.slots - i)
        oks  == {c \in truth : c.ok /\ c.at \div step = slot}
    IN  slots(Short, later)[i] = IF oks = {} THEN -1 ELSE Average(oks)

\* The chart that Latency makes from single checks is exact however many hour
\* ends the process missed: it needs no rollup, and pruning takes nothing from it.
THEOREM DayChartIsExact == Spec => []DayIsExact
<1>1. IInv => DayIsExact
  BY ShortIsExact DEF DayIsExact
<1> QED BY Invariant, <1>1, PTL
=============================================================================
