----------------------------- MODULE SumsProofs -----------------------------
(* Facts about SumOver: what the operator is used for. *)
EXTENDS Sums, FiniteSetTheorems, TLAPS

\* There are n numbers from 1 to n.
LEMMA IntervalCardinality ==
    ASSUME NEW n \in Nat
    PROVE  IsFiniteSet(1..n) /\ Cardinality(1..n) = n
<1>1. 1 \in Int /\ n \in Int
  OBVIOUS
<1>2. IsFiniteSet(1..n) /\ Cardinality(1..n) = IF 1 > n THEN 0 ELSE n - 1 + 1
  BY <1>1, FS_Interval
<1> QED
  BY <1>2

\* An element has as many units as its value.
LEMMA OwnUnits ==
    ASSUME NEW x, NEW n \in Nat
    PROVE  IsFiniteSet({x} \X (1..n)) /\ Cardinality({x} \X (1..n)) = n
<1>1. IsFiniteSet(1..n) /\ Cardinality(1..n) = n
  BY IntervalCardinality
<1>2. IsFiniteSet({x}) /\ Cardinality({x}) = 1
  BY FS_Singleton
<1>3. /\ IsFiniteSet({x} \X (1..n))
      /\ Cardinality({x} \X (1..n)) = Cardinality({x}) * Cardinality(1..n)
  BY <1>1, <1>2, FS_Product, Zenon
<1>4. Cardinality({x} \X (1..n)) = 1 * n
  BY <1>1, <1>2, <1>3, Zenon
<1> QED
  BY <1>3, <1>4

\* A finite set has finitely many units.
LEMMA UnitsFinite ==
    ASSUME NEW S, IsFiniteSet(S), NEW f, \A x \in S : f[x] \in Nat
    PROVE  IsFiniteSet(Units(S, f))
<1> DEFINE unitsOf == [x \in S |-> {x} \X (1..f[x])]
           T == {{x} \X (1..f[x]) : x \in S}
<1>1. unitsOf \in Surjection(S, T)
  <2>1. unitsOf \in [S -> T]
    OBVIOUS
  <2>2. \A t \in T : \E x \in S : unitsOf[x] = t
    OBVIOUS
  <2> HIDE DEF unitsOf, T
  <2> QED
    BY <2>1, <2>2 DEF Surjection
<1>2. IsFiniteSet(T)
  BY <1>1, FS_Surjection
<1>3. ASSUME NEW t \in T PROVE IsFiniteSet(t)
  <2>1. PICK x \in S : t = {x} \X (1..f[x])
    BY <1>3
  <2>2. IsFiniteSet({x} \X (1..f[x]))
    BY OwnUnits
  <2> QED
    BY <2>1, <2>2
<1> HIDE DEF T
<1>4. IsFiniteSet(UNION T)
  BY <1>2, <1>3, FS_UNION
<1> QED
  BY <1>4 DEF T, Units

LEMMA SumType ==
    ASSUME NEW S, IsFiniteSet(S), NEW f, \A x \in S : f[x] \in Nat
    PROVE  SumOver(S, f) \in Nat
BY UnitsFinite, FS_CardinalityType DEF SumOver

LEMMA SumEmpty == \A f : SumOver({}, f) = 0
BY FS_EmptySet DEF SumOver, Units

\* The sum depends on the values in the set only.
LEMMA SumSame ==
    ASSUME NEW S, NEW f, NEW g, \A x \in S : f[x] = g[x]
    PROVE  SumOver(S, f) = SumOver(S, g)
<1>1. Units(S, f) = Units(S, g)
  BY DEF Units
<1> QED
  BY <1>1 DEF SumOver

\* One more element adds its value.
LEMMA SumAdd ==
    ASSUME NEW S, IsFiniteSet(S), NEW f, \A y \in S : f[y] \in Nat,
           NEW x, x \notin S, f[x] \in Nat
    PROVE  SumOver(S \cup {x}, f) = SumOver(S, f) + f[x]
<1> DEFINE others == Units(S, f)
           own == {x} \X (1..f[x])
<1>1. Units(S \cup {x}, f) = others \cup own
  BY DEF Units
<1>2. others \cap own = {}
  BY DEF Units
<1>3. IsFiniteSet(own) /\ Cardinality(own) = f[x]
  BY OwnUnits
<1>4. IsFiniteSet(others) /\ Cardinality(others) \in Nat
  BY UnitsFinite, FS_CardinalityType
<1> HIDE DEF others, own
<1>5. Cardinality(others \cup own) = Cardinality(others) + Cardinality(own) - Cardinality(others \cap own)
  BY <1>3, <1>4, FS_Union
<1>6. Cardinality(others \cap own) = 0
  BY <1>2, FS_EmptySet, Zenon
<1>7. Cardinality(others \cup own) = Cardinality(others) + f[x]
  BY <1>3, <1>4, <1>5, <1>6
<1> QED
  BY <1>1, <1>7 DEF others, SumOver

\* Changing the value of one element changes the sum by the difference.
LEMMA SumUpdate ==
    ASSUME NEW S, IsFiniteSet(S), NEW x \in S,
           NEW f, NEW g, \A y \in S : f[y] \in Nat /\ g[y] \in Nat,
           \A y \in S \ {x} : f[y] = g[y]
    PROVE  SumOver(S, g) = SumOver(S, f) - f[x] + g[x]
<1> DEFINE rest == S \ {x}
<1>1. IsFiniteSet(rest) /\ x \notin rest /\ rest \cup {x} = S
  BY FS_RemoveElement
<1>2. \A y \in rest : f[y] \in Nat /\ g[y] \in Nat /\ f[y] = g[y]
  OBVIOUS
<1> HIDE DEF rest
<1>3. SumOver(rest \cup {x}, f) = SumOver(rest, f) + f[x]
  BY <1>1, <1>2, SumAdd
<1>4. SumOver(rest \cup {x}, g) = SumOver(rest, g) + g[x]
  BY <1>1, <1>2, SumAdd
<1>5. SumOver(rest, f) = SumOver(rest, g) /\ SumOver(rest, f) \in Nat
  BY <1>1, <1>2, SumSame, SumType
<1>6. SumOver(S, f) = SumOver(rest, f) + f[x] /\ SumOver(S, g) = SumOver(rest, f) + g[x]
  BY <1>1, <1>3, <1>4, <1>5
<1>7. f[x] \in Nat /\ g[x] \in Nat
  OBVIOUS
<1> QED
  BY <1>5, <1>6, <1>7

\* A value is at most the sum.
LEMMA SumBounds ==
    ASSUME NEW S, IsFiniteSet(S), NEW f, \A y \in S : f[y] \in Nat, NEW x \in S
    PROVE  f[x] <= SumOver(S, f)
<1> DEFINE rest == S \ {x}
<1>1. IsFiniteSet(rest) /\ x \notin rest /\ rest \cup {x} = S
  BY FS_RemoveElement
<1>2. \A y \in rest : f[y] \in Nat
  OBVIOUS
<1> HIDE DEF rest
<1>3. SumOver(S, f) = SumOver(rest, f) + f[x]
  <2>1. SumOver(rest \cup {x}, f) = SumOver(rest, f) + f[x]
    BY <1>1, <1>2, SumAdd
  <2> QED
    BY <1>1, <2>1
<1>4. SumOver(rest, f) \in Nat /\ f[x] \in Nat
  BY <1>1, <1>2, SumType
<1> QED
  BY <1>3, <1>4

\* Values that an injection takes to places with at least as much add up to no more.
LEMMA SumInjects ==
    ASSUME NEW S, NEW T, IsFiniteSet(T), NEW f, NEW g, NEW h,
           \A x \in S : f[x] \in Nat /\ (f[x] > 0 => h[x] \in T /\ f[x] <= g[h[x]]),
           \A y \in T : g[y] \in Nat,
           \A x, y \in S : h[x] = h[y] => x = y
    PROVE  SumOver(S, f) <= SumOver(T, g)
<1> DEFINE place == [unit \in Units(S, f) |-> <<h[unit[1]], unit[2]>>]
<1>1. \A unit \in Units(S, f) : unit[1] \in S /\ unit[2] \in 1..f[unit[1]] /\ unit = <<unit[1], unit[2]>>
  BY DEF Units
<1>2. \A unit \in Units(S, f) : place[unit] \in Units(T, g)
  <2> TAKE unit \in Units(S, f)
  <2>1. unit[1] \in S /\ unit[2] \in 1..f[unit[1]] /\ f[unit[1]] \in Nat
    BY <1>1
  <2>2. h[unit[1]] \in T /\ f[unit[1]] <= g[h[unit[1]]] /\ g[h[unit[1]]] \in Nat
    BY <2>1
  <2>3. unit[2] \in 1..g[h[unit[1]]]
    BY <2>1, <2>2
  <2> QED
    BY <2>2, <2>3 DEF Units
<1>3. \A unit, other \in Units(S, f) : place[unit] = place[other] => unit = other
  <2> SUFFICES ASSUME NEW unit \in Units(S, f), NEW other \in Units(S, f), place[unit] = place[other]
               PROVE  unit = other
    OBVIOUS
  <2>1. h[unit[1]] = h[other[1]] /\ unit[2] = other[2]
    OBVIOUS
  <2> QED
    BY <1>1, <2>1
<1>4. place \in Injection(Units(S, f), Units(T, g))
  BY <1>2, <1>3 DEF Injection, IsInjective
<1>5. IsFiniteSet(Units(T, g))
  BY UnitsFinite
<1> QED
  BY <1>4, <1>5, FS_Injection DEF SumOver

\* What one element loses and another gains leaves the sum as it is.
LEMMA SumMoves ==
    ASSUME NEW S, IsFiniteSet(S), NEW f, NEW g, \A z \in S : f[z] \in Nat /\ g[z] \in Nat,
           NEW x \in S, NEW y \in S \ {x}, NEW n \in Nat,
           g[x] = f[x] - n, g[y] = f[y] + n,
           \A z \in S \ {x, y} : f[z] = g[z]
    PROVE  SumOver(S, g) = SumOver(S, f)
<1> DEFINE taken == [z \in S |-> IF z = y THEN f[y] ELSE g[z]]
<1>1. \A z \in S : taken[z] \in Nat
  OBVIOUS
<1>2. \A z \in S \ {x} : f[z] = taken[z]
  OBVIOUS
<1>3. \A z \in S \ {y} : taken[z] = g[z]
  OBVIOUS
<1>4. taken[x] = g[x] /\ taken[y] = f[y]
  OBVIOUS
<1> HIDE DEF taken
<1>5. SumOver(S, taken) = SumOver(S, f) - f[x] + taken[x]
  BY <1>1, <1>2, SumUpdate
<1>6. SumOver(S, g) = SumOver(S, taken) - taken[y] + g[y]
  BY <1>1, <1>3, SumUpdate
<1>7. SumOver(S, f) \in Nat /\ f[x] \in Nat /\ f[y] \in Nat
  BY SumType
<1> QED
  BY <1>4, <1>5, <1>6, <1>7

=============================================================================
