---------------------------- MODULE BoundsProofs ----------------------------
(***************************************************************************)
(* The arithmetic of a query, for all times, periods and rates: the sample *)
(* bounds of telemetry_samples select exactly the samples asked for, and   *)
(* the two roundings of the row grid agree.  And of the sets it counts:    *)
(* how a sum over a set unfolds, and what the ends of a set are.           *)
(***************************************************************************)
EXTENDS SampleBounds, RowGrid, FiniteSetTheorems, WellFoundedInduction, TLAPS

(* What integer division is, in the form the nonlinear steps need.         *)
LEMMA DivBounds ==
  ASSUME NEW a \in Nat, NEW b \in Nat \ {0}
  PROVE  /\ a \div b \in Nat
         /\ (a \div b) * b <= a
         /\ a < (a \div b) * b + b
  OBVIOUS

LEMMA CeilDivBounds ==
  ASSUME NEW a \in Nat \ {0}, NEW b \in Nat \ {0}
  PROVE  /\ CeilDiv(a, b) \in Nat \ {0}
         /\ a <= CeilDiv(a, b) * b
         /\ (CeilDiv(a, b) - 1) * b < a
<1> DEFINE n == a + b - 1
           q == n \div b
<1>1. n \in Nat /\ n >= b
  OBVIOUS
<1>2. q \in Nat /\ q * b <= n /\ n < q * b + b
  BY <1>1, DivBounds
<1> HIDE DEF q
<1>3. q # 0
  BY <1>1, <1>2
<1>4. (q - 1) * b = q * b - b
  BY <1>2
<1>5. q * b \in Nat
  BY <1>2
<1>6. a <= q * b /\ (q - 1) * b < a
  BY <1>2, <1>4, <1>5
<1>7. CeilDiv(a, b) = q
  BY DEF CeilDiv, q
<1>. QED  BY <1>2, <1>3, <1>6, <1>7

(* Products are monotone.                                                  *)
LEMMA TimesMonotone ==
  ASSUME NEW a \in Nat, NEW b \in Nat, NEW c \in Nat, a <= b
  PROVE  a * c <= b * c
  OBVIOUS

(* The bound of init is exact: a sample is before it just when its time is *)
(* before t.  So `first .. past_end - 1` are the samples from start_ns up  *)
(* to, and without, end_ns, wherever the bounds fall.                      *)
THEOREM LocalIsExact ==
  ASSUME NEW chunk, chunk.base \in Nat, chunk.period \in Nat \ {0},
         chunk.count \in Nat, NEW t \in Nat, NEW i \in 0 .. chunk.count - 1
  PROVE  i < Local(t, chunk) <=> SampleTime(chunk, i) < t
<1> DEFINE p == chunk.period
           d == t - chunk.base
           q == CeilDiv(d, p)
<1>1. chunk.base \in Nat /\ p \in Nat \ {0} /\ chunk.count \in Nat /\ i \in Nat
  OBVIOUS
<1>2. i * p \in Nat /\ SampleTime(chunk, i) = chunk.base + i * p
  BY <1>1 DEF SampleTime
<1>3. CASE t <= chunk.base
  <2>1. Local(t, chunk) = 0
    BY <1>1, <1>3 DEF Local
  <2>. QED  BY <1>1, <1>2, <1>3, <2>1
<1>4. CASE t > chunk.base
  <2>1. d \in Nat \ {0}
    BY <1>1, <1>4
  <2>2. q \in Nat \ {0} /\ d <= q * p /\ (q - 1) * p < d
    BY <1>1, <2>1, CeilDivBounds
  <2>3. i < Local(t, chunk) <=> i < q
    <3>1. Local(t, chunk) = IF q < chunk.count THEN q ELSE chunk.count
      BY <1>1, <1>4 DEF Local
    <3> HIDE DEF q
    <3>. QED  BY <1>1, <2>2, <3>1
  <2> HIDE DEF p, q
  <2>4. ASSUME i < q PROVE i * p < d
    <3>1. i * p <= (q - 1) * p
      BY <1>1, <2>2, <2>4, TimesMonotone
    <3>2. (q - 1) * p \in Nat
      BY <1>1, <2>2
    <3>. QED  BY <1>2, <2>1, <2>2, <3>1, <3>2
  <2>5. ASSUME q <= i PROVE d <= i * p
    <3>1. q * p <= i * p /\ q * p \in Nat
      BY <1>1, <2>2, <2>5, TimesMonotone
    <3>. QED  BY <1>2, <2>1, <2>2, <3>1
  <2>6. i < q <=> i * p < d
    BY <1>1, <1>2, <2>1, <2>2, <2>4, <2>5
  <2>. QED  BY <1>1, <1>2, <2>3, <2>6
<1>. QED  BY <1>1, <1>3, <1>4

(* Every row bind announced lies inside the interval: func never computes  *)
(* a time at or past the end it was not asked for.                         *)
THEOREM RowsInside ==
  ASSUME NEW start \in Nat, NEW end \in Nat, NEW rate \in Nat \ {0},
         NEW row \in Nat, row < RowCount(start, end, rate)
  PROVE  /\ start <= RowTime(start, row, rate)
         /\ RowTime(start, row, rate) < end
<1> DEFINE d == end - start
           t == (row * Second) \div rate
           rows == CeilDiv(d * rate, Second)
<1>1. end > start /\ RowCount(start, end, rate) = rows
  BY DEF RowCount
<1>2. d \in Nat \ {0} /\ Second \in Nat \ {0}
  BY <1>1, SecondAssumption
<1>3. d * rate \in Nat \ {0}
  BY <1>2
<1>4. rows \in Nat \ {0} /\ (rows - 1) * Second < d * rate
  BY <1>2, <1>3, CeilDivBounds
<1> HIDE DEF rows
<1>5. row <= rows - 1 /\ rows - 1 \in Nat
  BY <1>1, <1>4
<1>6. row * Second <= (rows - 1) * Second
  BY <1>2, <1>5, TimesMonotone
<1>7. row * Second \in Nat /\ row * Second < d * rate
  BY <1>2, <1>4, <1>5, <1>6
<1>8. t \in Nat /\ t * rate <= row * Second
  BY <1>7, DivBounds
<1> HIDE DEF t
<1>9. t < d
  <2>1. CASE d <= t
    <3>1. d * rate <= t * rate
      BY <1>2, <1>8, <2>1, TimesMonotone
    <3>. QED  BY <1>3, <1>7, <1>8, <3>1
  <2>. QED  BY <2>1, <1>2, <1>8
<1>10. RowTime(start, row, rate) = start + t
  BY DEF RowTime, t
<1>. QED  BY <1>2, <1>8, <1>9, <1>10

(* No row is missing at the end: the first instant of the grid that bind   *)
(* did not announce is not before the end.                                 *)
THEOREM GridIsComplete ==
  ASSUME NEW start \in Nat, NEW end \in Nat, NEW rate \in Nat \ {0}
  PROVE  end <= RowTime(start, RowCount(start, end, rate), rate)
<1> DEFINE d == end - start
           rows == RowCount(start, end, rate)
           t == (rows * Second) \div rate
<1>0. Second \in Nat \ {0}
  BY SecondAssumption
<1>1. CASE end <= start
  <2>1. rows = 0
    BY <1>1 DEF RowCount
  <2>2. t = 0
    BY <1>0, <2>1
  <2>. QED  BY <1>1, <2>2 DEF RowTime
<1>2. CASE end > start
  <2>1. d \in Nat \ {0} /\ d * rate \in Nat \ {0}
    BY <1>2
  <2>2. rows = CeilDiv(d * rate, Second)
    BY <1>2 DEF RowCount
  <2>3. rows \in Nat /\ d * rate <= rows * Second
    BY <1>0, <2>1, <2>2, CeilDivBounds
  <2>4. rows * Second \in Nat
    BY <1>0, <2>3
  <2>5. t \in Nat /\ rows * Second < t * rate + rate
    BY <2>4, DivBounds
  <2>6. RowTime(start, rows, rate) = start + t
    BY DEF RowTime
  <2> HIDE DEF t, rows
  <2>7. d <= t
    <3>1. CASE t + 1 <= d
      <4>1. (t + 1) * rate <= d * rate
        BY <2>1, <2>5, <3>1, TimesMonotone
      <4>2. (t + 1) * rate = t * rate + rate /\ t * rate \in Nat
        BY <2>5
      <4>. QED  BY <2>1, <2>3, <2>4, <2>5, <4>1, <4>2
    <3>. QED  BY <2>1, <2>5, <3>1
  <2>. QED  BY <1>2, <2>1, <2>5, <2>6, <2>7 DEF rows
<1>. QED  BY <1>1, <1>2

(* At the rates bind lets through, which are below one row per clock tick, *)
(* no two rows of a file carry the same time.                              *)
THEOREM RowTimesDistinct ==
  ASSUME NEW start \in Nat, NEW rate \in Nat \ {0}, rate <= Second,
         NEW row \in Nat
  PROVE  RowTime(start, row, rate) < RowTime(start, row + 1, rate)
<1> DEFINE t == (row * Second) \div rate
           u == ((row + 1) * Second) \div rate
<1>0. Second \in Nat \ {0}
  BY SecondAssumption
<1>1. /\ row * Second \in Nat /\ (row + 1) * Second \in Nat
      /\ (row + 1) * Second = row * Second + Second
  BY <1>0
<1>2. t \in Nat /\ t * rate <= row * Second
  BY <1>1, DivBounds
<1>3. u \in Nat /\ (row + 1) * Second < u * rate + rate
  BY <1>1, DivBounds
<1>4. RowTime(start, row, rate) = start + t /\ RowTime(start, row + 1, rate) = start + u
  BY DEF RowTime
<1> HIDE DEF t, u
<1>5. t < u
  <2>1. CASE u <= t
    <3>1. u * rate <= t * rate
      BY <1>2, <1>3, <2>1, TimesMonotone
    <3>2. u * rate \in Nat /\ t * rate \in Nat
      BY <1>2, <1>3
    <3>. QED  BY <1>0, <1>1, <1>2, <1>3, <3>1, <3>2
  <2>. QED  BY <2>1, <1>2, <1>3
<1>. QED  BY <1>2, <1>3, <1>4, <1>5

-----------------------------------------------------------------------------
(* Sums over a set.                                                        *)

(* The recursion of MapThenSumSet: what f[s] is, for a subset s of S.      *)
Recurs(f, S, v) ==
  f = [s \in SUBSET S |->
         IF s = {} THEN 0
           ELSE v[CHOOSE x \in s : TRUE] + f[s \ {CHOOSE x \in s : TRUE}]]

(* Two functions that follow the recursion agree on the whole set.         *)
LEMMA SumUnique ==
  ASSUME NEW S, IsFiniteSet(S), NEW v, NEW f, NEW g,
         Recurs(f, S, v), Recurs(g, S, v)
  PROVE  f[S] = g[S]
<1> SUFFICES ASSUME f[S] # g[S] PROVE FALSE
  OBVIOUS
<1> DEFINE Bad == {n \in Nat : \E s \in SUBSET S : Cardinality(s) = n /\ f[s] # g[s]}
<1>1. Cardinality(S) \in Bad
  BY FS_CardinalityType
<1>2. PICK n \in Bad : \A m \in Bad : ~ (<<m, n>> \in OpToRel(<, Nat))
  <2>1. Bad \subseteq Nat /\ Bad # {}
    BY <1>1
  <2> HIDE DEF Bad
  <2>. QED  BY <2>1, NatLessThanWellFounded, WFMin
<1>3. PICK s \in SUBSET S : Cardinality(s) = n /\ f[s] # g[s]
  BY <1>2
<1>4. s # {}
  BY <1>3 DEF Recurs
<1> DEFINE x == CHOOSE x \in s : TRUE
<1>5. x \in s
  BY <1>4
<1>6. IsFiniteSet(s) /\ IsFiniteSet(s \ {x}) /\ Cardinality(s \ {x}) = n - 1
  BY <1>3, <1>5, FS_Subset, FS_RemoveElement
<1>7. f[s \ {x}] # g[s \ {x}]
  <2>1. f[s] = v[x] + f[s \ {x}] /\ g[s] = v[x] + g[s \ {x}]
    BY <1>4 DEF Recurs
  <2>. QED  BY <1>3, <2>1
<1>8. n - 1 \in Bad
  BY <1>6, <1>7, FS_CardinalityType
<1>9. <<n - 1, n>> \in OpToRel(<, Nat)
  BY <1>2, <1>8 DEF OpToRel
<1>. QED  BY <1>2, <1>8, <1>9

(* The sizes of disjoint finite sets add up to the size of their union, by *)
(* the same recursion.                                                     *)
Sizes(S, P) == [s \in SUBSET S |-> Cardinality(UNION {P[x] : x \in s})]

LEMMA SizesFollowSum ==
  ASSUME NEW S, IsFiniteSet(S), NEW v, NEW P,
         \A x \in S : IsFiniteSet(P[x]) /\ v[x] = Cardinality(P[x]),
         \A x, y \in S : x # y => P[x] \cap P[y] = {}
  PROVE  Recurs(Sizes(S, P), S, v)
<1> DEFINE Size(s) == Cardinality(UNION {P[x] : x \in s})
           g == Sizes(S, P)
<1>1. \A s \in SUBSET S : IsFiniteSet(UNION {P[x] : x \in s})
  <2> SUFFICES ASSUME NEW s \in SUBSET S PROVE IsFiniteSet(UNION {P[x] : x \in s})
    OBVIOUS
  <2>1. IsFiniteSet(s)
    BY FS_Subset
  <2>2. IsFiniteSet({P[x] : x \in s})
    <3> DEFINE p == [x \in s |-> P[x]]
    <3>1. p \in Surjection(s, {P[x] : x \in s})
      BY DEF Surjection
    <3>. QED  BY <2>1, <3>1, FS_Surjection
  <2>. QED  BY <2>2, FS_UNION
<1>2. ASSUME NEW s \in SUBSET S, s # {}
      PROVE  LET x == CHOOSE x \in s : TRUE
             IN  Size(s) = v[x] + Size(s \ {x})
  <2> DEFINE x == CHOOSE x \in s : TRUE
             rest == UNION {P[y] : y \in s \ {x}}
  <2>1. x \in s
    BY <1>2
  <2> HIDE DEF x
  <2>2. UNION {P[y] : y \in s} = P[x] \cup rest
    BY <2>1
  <2>3. P[x] \cap rest = {}
    BY <2>1
  <2>4. IsFiniteSet(rest) /\ IsFiniteSet(P[x])
    BY <1>1, <2>1
  <2>5. Cardinality(P[x] \cup rest) = Cardinality(P[x]) + Cardinality(rest)
    <3> HIDE DEF rest
    <3>1. Cardinality(P[x] \cup rest)
            = Cardinality(P[x]) + Cardinality(rest) - Cardinality(P[x] \cap rest)
      BY <2>4, FS_Union
    <3>2. Cardinality(P[x] \cap rest) = 0
      BY <2>3, FS_EmptySet
    <3>3. Cardinality(P[x]) \in Nat /\ Cardinality(rest) \in Nat
      BY <2>4, FS_CardinalityType
    <3>. QED  BY <3>1, <3>2, <3>3
  <2>. QED  BY <2>1, <2>2, <2>5 DEF x
<1>3. Size({}) = 0
  BY FS_EmptySet
<1>4. ASSUME NEW s \in SUBSET S
      PROVE  g[s] = IF s = {} THEN 0
                      ELSE v[CHOOSE x \in s : TRUE]
                           + g[s \ {CHOOSE x \in s : TRUE}]
  <2>1. g[s] = Size(s) /\ g[s \ {CHOOSE x \in s : TRUE}]
                            = Size(s \ {CHOOSE x \in s : TRUE})
    BY DEF Sizes
  <2> HIDE DEF Size, g
  <2>. QED  BY <1>2, <1>3, <2>1
<1>5. g = [s \in SUBSET S |-> g[s]]
  BY DEF Sizes
<1> HIDE DEF g
<1>6. Recurs(g, S, v)
  <2> DEFINE body(s) == IF s = {} THEN 0
                          ELSE v[CHOOSE x \in s : TRUE]
                               + g[s \ {CHOOSE x \in s : TRUE}]
  <2>1. \A s \in SUBSET S : g[s] = body(s)
    BY <1>4
  <2> HIDE DEF body
  <2>2. g = [s \in SUBSET S |-> body(s)]
    BY <1>5, <2>1
  <2>. QED  BY <2>2 DEF Recurs, body
<1>. QED  BY <1>6 DEF g

(* A sum by that recursion is the size of the union.                       *)
LEMMA SumOfSizes ==
  ASSUME NEW S, IsFiniteSet(S), NEW v, NEW P,
         \A x \in S : IsFiniteSet(P[x]) /\ v[x] = Cardinality(P[x]),
         \A x, y \in S : x # y => P[x] \cap P[y] = {},
         NEW sum, \A f : Recurs(f, S, v) => Recurs(sum, S, v)
  PROVE  sum[S] = Cardinality(UNION {P[x] : x \in S})
<1>1. Recurs(Sizes(S, P), S, v)
  BY SizesFollowSum
<1>2. Recurs(sum, S, v)
  BY <1>1
<1>3. sum[S] = Sizes(S, P)[S]
  BY <1>1, <1>2, SumUnique
<1>. QED  BY <1>3 DEF Sizes

-----------------------------------------------------------------------------
(* The ends of a set.                                                      *)

(* A finite set of integers that is not empty has a least and a greatest   *)
(* element.                                                                *)
LEMMA LeastExists ==
  ASSUME NEW S \in SUBSET Int, IsFiniteSet(S), S # {}
  PROVE  \E m \in S : \A x \in S : m <= x
<1> DEFINE Lacking == {T \in SUBSET S : T # {} /\ ~ \E m \in T : \A x \in T : m <= x}
           Bad == {n \in Nat : \E T \in Lacking : Cardinality(T) = n}
<1> SUFFICES ASSUME S \in Lacking PROVE FALSE
  OBVIOUS
<1>1. Bad \subseteq Nat /\ Bad # {}
  BY FS_CardinalityType
<1>2. PICK n \in Bad : \A m \in Bad : ~ (<<m, n>> \in OpToRel(<, Nat))
  <2> HIDE DEF Bad
  <2>. QED  BY <1>1, NatLessThanWellFounded, WFMin
<1>3. PICK T \in Lacking : Cardinality(T) = n
  BY <1>2
<1>4. PICK x : x \in T
  BY <1>3
<1>5. /\ IsFiniteSet(T) /\ IsFiniteSet(T \ {x})
      /\ Cardinality(T \ {x}) = n - 1 /\ Cardinality(T \ {x}) \in Nat
  BY <1>3, <1>4, FS_Subset, FS_RemoveElement, FS_CardinalityType
<1>6. T \ {x} \in Lacking
  <2>1. T \ {x} # {}
    <3>1. CASE T \ {x} = {}
      <4>1. T = {x} /\ x \in Int
        BY <1>4, <3>1
      <4>2. \E m \in T : \A y \in T : m <= y
        BY <4>1
      <4>. QED  BY <1>3, <4>2
    <3>. QED  BY <3>1
  <2>2. ASSUME NEW m \in T \ {x}, \A y \in T \ {x} : m <= y PROVE FALSE
    <3>1. m \in Int /\ x \in Int /\ T \subseteq Int
      BY <1>4
    <3>2. CASE m <= x
      <4>1. \A y \in T : m <= y
        BY <2>2, <3>2
      <4>. QED  BY <1>3, <4>1
    <3>3. CASE x < m
      <4>1. \A y \in T : x <= y
        BY <2>2, <3>1, <3>3
      <4>. QED  BY <1>3, <1>4, <4>1
    <3>. QED  BY <3>1, <3>2, <3>3
  <2>. QED  BY <1>3, <2>1, <2>2
<1>7. n - 1 \in Bad
  BY <1>5, <1>6
<1>8. <<n - 1, n>> \in OpToRel(<, Nat)
  BY <1>2, <1>7 DEF OpToRel
<1>. QED  BY <1>2, <1>7, <1>8

LEMMA GreatestExists ==
  ASSUME NEW S \in SUBSET Int, IsFiniteSet(S), S # {}
  PROVE  \E m \in S : \A x \in S : x <= m
<1> DEFINE f == [x \in S |-> 0 - x]
           T == {0 - x : x \in S}
<1>1. f \in Surjection(S, T)
  BY DEF Surjection
<1>2. IsFiniteSet(T) /\ T \in SUBSET Int /\ T # {}
  <2>1. T \in SUBSET Int /\ T # {}
    <3>1. \A x \in S : 0 - x \in Int
      OBVIOUS
    <3>2. PICK x : x \in S
      OBVIOUS
    <3>3. 0 - x \in T
      BY <3>2
    <3>. QED  BY <3>1, <3>3
  <2>2. IsFiniteSet(T)
    <3> HIDE DEF T, f
    <3>. QED  BY <1>1, FS_Surjection
  <2>. QED  BY <2>1, <2>2
<1>3. PICK m \in T : \A x \in T : m <= x
  <2> HIDE DEF T
  <2>. QED  BY <1>2, LeastExists
<1>4. PICK y \in S : m = 0 - y
  OBVIOUS
<1>5. ASSUME NEW x \in S PROVE x <= y
  <2>1. 0 - x \in T /\ m <= 0 - x
    BY <1>3
  <2>. QED  BY <1>4, <2>1
<1>. QED  BY <1>5

=============================================================================
