----------------------------- MODULE TotalsProofs -----------------------------
(***************************************************************************)
(* What a total is when its function is extended, raised or bounded.       *)
(***************************************************************************)
EXTENDS Totals, FiniteSetTheorems, TLAPS

LEMMA UnitsOf ==
    ASSUME NEW f, NEW x, NEW i
    PROVE  <<x, i>> \in Units(f) <=> x \in DOMAIN f /\ i \in 1 .. f[x]
  BY DEF Units

LEMMA PileOf ==
    ASSUME NEW x, NEW n \in Nat
    PROVE  IsFiniteSet({x} \X (1 .. n)) /\ Cardinality({x} \X (1 .. n)) = n
<1>1. PICK S : S = {x}
    OBVIOUS
<1>2. PICK T : T = 1 .. n
    OBVIOUS
<1>3. IsFiniteSet(S) /\ Cardinality(S) = 1
    BY <1>1, FS_Singleton
<1>4. IsFiniteSet(T) /\ Cardinality(T) = n
    BY <1>2, FS_Interval
<1>5. IsFiniteSet(S \X T) /\ Cardinality(S \X T) = 1 * n
    BY <1>3, <1>4, FS_Product
<1> QED BY <1>1, <1>2, <1>5

\* A finite sum is a natural number.
LEMMA TotalType ==
    ASSUME NEW f, IsFiniteSet(DOMAIN f), \A x \in DOMAIN f : f[x] \in Nat
    PROVE  IsFiniteSet(Units(f)) /\ Total(f) \in Nat
<1> DEFINE piles == {{x} \X (1 .. f[x]) : x \in DOMAIN f}
           pile == [x \in DOMAIN f |-> {x} \X (1 .. f[x])]
<1>1. pile \in Surjection(DOMAIN f, piles)
    BY DEF Surjection
<1>2. IsFiniteSet(piles)
    <2> HIDE DEF pile, piles
    <2> QED BY <1>1, FS_Surjection
<1>3. ASSUME NEW T \in piles PROVE IsFiniteSet(T)
    <2>1. PICK x \in DOMAIN f : T = {x} \X (1 .. f[x])
        BY <1>3
    <2> QED BY <2>1, PileOf
<1>4. IsFiniteSet(UNION piles)
    <2> HIDE DEF pile, piles
    <2> QED BY <1>2, <1>3, FS_UNION
<1> QED BY <1>4, FS_CardinalityType DEF Units, Total

\* The sum grows with the set of arguments and with the values.
LEMMA TotalGrows ==
    ASSUME NEW f, NEW g, IsFiniteSet(DOMAIN g), \A x \in DOMAIN g : g[x] \in Nat,
           DOMAIN f \subseteq DOMAIN g,
           \A x \in DOMAIN f : f[x] \in Nat /\ f[x] <= g[x]
    PROVE  Total(f) <= Total(g)
<1>1. Units(f) \subseteq Units(g)
    <2>1. ASSUME NEW x \in DOMAIN f PROVE {x} \X (1 .. f[x]) \subseteq {x} \X (1 .. g[x])
        BY <2>1
    <2> QED BY <2>1 DEF Units
<1> QED BY <1>1, TotalType, FS_Subset DEF Total

\* One argument more adds its value.
LEMMA TotalAdds ==
    ASSUME NEW f, NEW g, NEW x, IsFiniteSet(DOMAIN f), x \notin DOMAIN f,
           \A y \in DOMAIN f : f[y] \in Nat /\ g[y] = f[y],
           DOMAIN g = DOMAIN f \cup {x}, g[x] \in Nat
    PROVE  Total(g) = Total(f) + g[x]
<1> DEFINE pile == {x} \X (1 .. g[x])
<1>1. IsFiniteSet(Units(f)) /\ Total(f) \in Nat
    BY TotalType
<1>2. Units(g) = Units(f) \cup pile
    BY DEF Units
<1>3. Units(f) \cap pile = {}
    BY DEF Units
<1>6. IsFiniteSet(pile) /\ Cardinality(pile) = g[x]
    BY PileOf
<1>7. Cardinality(Units(f) \cap pile) = 0
    BY <1>3, FS_EmptySet
<1> HIDE DEF pile
<1>8. Cardinality(Units(g)) = Cardinality(Units(f)) + g[x] - 0
    BY <1>1, <1>2, <1>6, <1>7, FS_Union
<1> QED BY <1>1, <1>8 DEF Total

\* Values of at most `most` add up to at most that much each.
LEMMA TotalIsBounded ==
    ASSUME NEW f, IsFiniteSet(DOMAIN f), NEW most \in Nat,
           \A x \in DOMAIN f : f[x] \in Nat /\ f[x] <= most
    PROVE  Total(f) <= Cardinality(DOMAIN f) * most
<1>1. Units(f) \subseteq (DOMAIN f) \X (1 .. most)
    <2>1. ASSUME NEW x \in DOMAIN f
          PROVE  {x} \X (1 .. f[x]) \subseteq (DOMAIN f) \X (1 .. most)
        BY <2>1
    <2> QED BY <2>1 DEF Units
<1>2. IsFiniteSet(1 .. most) /\ Cardinality(1 .. most) = most
    BY FS_Interval
<1>3. /\ IsFiniteSet((DOMAIN f) \X (1 .. most))
      /\ Cardinality((DOMAIN f) \X (1 .. most)) = Cardinality(DOMAIN f) * most
    BY <1>2, FS_Product
<1> QED BY <1>1, <1>3, FS_Subset DEF Total

\* A sum is zero when every value is.
LEMMA TotalOfZeros ==
    ASSUME NEW f, \A x \in DOMAIN f : f[x] = 0
    PROVE  Total(f) = 0
<1>1. Units(f) = {}
    BY DEF Units
<1> QED BY <1>1, FS_EmptySet DEF Total

\* Where each value of a set of arguments rises, the sum rises by its size.
LEMMA TotalRises ==
    ASSUME NEW f, NEW g, IsFiniteSet(DOMAIN f), DOMAIN g = DOMAIN f,
           NEW S \in SUBSET DOMAIN f,
           \A x \in DOMAIN f : f[x] \in Nat /\ g[x] \in Nat /\ f[x] <= g[x],
           \A x \in S : f[x] + 1 <= g[x]
    PROVE  Total(f) + Cardinality(S) <= Total(g)
<1> DEFINE top == {<<x, g[x]>> : x \in S}
           unit == [x \in S |-> <<x, g[x]>>]
<1>1. unit \in Bijection(S, top)
    <2>1. unit \in Surjection(S, top)
        BY DEF Surjection
    <2>2. unit \in Injection(S, top)
        BY DEF Injection, IsInjective
    <2> QED BY <2>1, <2>2 DEF Bijection
<1>2. IsFiniteSet(S)
    BY FS_Subset
<1>3. IsFiniteSet(top) /\ Cardinality(top) = Cardinality(S)
    <2> HIDE DEF unit, top
    <2> QED BY <1>1, <1>2, FS_Bijection DEF ExistsBijection
<1>4. /\ IsFiniteSet(Units(f)) /\ Total(f) \in Nat
      /\ IsFiniteSet(Units(g)) /\ Total(g) \in Nat
    BY TotalType
<1>5. Units(f) \cup top \subseteq Units(g)
    <2>1. ASSUME NEW x \in DOMAIN f PROVE {x} \X (1 .. f[x]) \subseteq {x} \X (1 .. g[x])
        BY <2>1
    <2>2. ASSUME NEW x \in S PROVE <<x, g[x]>> \in {x} \X (1 .. g[x])
        BY <2>2
    <2> QED BY <2>1, <2>2 DEF Units
<1>6. Units(f) \cap top = {}
    <2>1. ASSUME NEW x \in S PROVE <<x, g[x]>> \notin Units(f)
        <3>1. g[x] \notin 1 .. f[x]
            BY <2>1
        <3> QED BY <3>1, UnitsOf
    <2> QED BY <2>1
<1> HIDE DEF top, unit
<1>7. Cardinality(Units(f) \cap top) = 0
    BY <1>6, FS_EmptySet
<1>8. Cardinality(Units(f) \cup top) = Total(f) + Cardinality(S)
    <2>1. Cardinality(S) \in Nat
        BY <1>2, FS_CardinalityType
    <2>2. Cardinality(Units(f) \cup top)
            = Cardinality(Units(f)) + Cardinality(S) - 0
        BY <1>3, <1>4, <1>7, FS_Union
    <2> QED BY <1>4, <2>1, <2>2 DEF Total
<1> QED BY <1>4, <1>5, <1>8, FS_Subset DEF Total
=============================================================================
