----------------------------- MODULE CoinProofs -----------------------------
(***************************************************************************)
(* What the proofs about coins have in common: rounding                    *)
(* (packages/covenant-utils/src/split.rs), amounts of the two denoms, the  *)
(* sum of what is under way in a bag of transfers, and the account of a    *)
(* pooler with an Astroport pool.                                          *)
(*                                                                         *)
(* Sums are folds.  Induction over finite sets is done through WFMin: a    *)
(* set of sets that is not empty has a smallest one, which the lemmas then *)
(* refute as a counterexample.                                             *)
(***************************************************************************)
EXTENDS AstroportPool, Bags, FiniteSetTheorems, WellFoundedInduction, TLAPS

(***************************************************************************)
(* A part r/n of x, rounded down, is at most x.                            *)
(***************************************************************************)
LEMMA PartBound ==
    ASSUME NEW x \in Nat, NEW n \in Nat \ {0}, NEW r \in 0 .. n
    PROVE  (x * r) \div n \in 0 .. x
<1> DEFINE e == (x * r) \div n
<1>1. x * r \in Nat /\ x * r <= x * n
    OBVIOUS
<1>2. e \in Nat /\ e * n <= x * r
    BY <1>1
<1>3. ASSUME e > x PROVE FALSE
    <2>1. e * n > x * n
        BY <1>2, <1>3
    <2> QED BY <2>1, <1>1, <1>2
<1> QED BY <1>2, <1>3

(***************************************************************************)
(* Two parts that add up to the whole, each rounded down, come to at most  *)
(* x together: a split never pays out more than there is.                  *)
(***************************************************************************)
LEMMA PartsBound ==
    ASSUME NEW x \in Nat, NEW n \in Nat \ {0}, NEW r \in 0 .. n, NEW t \in 0 .. n,
           r + t = n
    PROVE  (x * r) \div n + (x * t) \div n <= x
<1> DEFINE e == (x * r) \div n
           f == (x * t) \div n
<1>1. x * r \in Nat /\ x * t \in Nat /\ x * r + x * t = x * n
    <2>1. x * r + x * t = x * (r + t)
        OBVIOUS
    <2> QED BY <2>1
<1>2. e \in Nat /\ e * n <= x * r
    BY <1>1
<1>3. f \in Nat /\ f * n <= x * t
    BY <1>1
<1>4. (e + f) * n = e * n + f * n
    BY <1>2, <1>3
<1>5. (e + f) * n <= x * n
    BY <1>1, <1>2, <1>3, <1>4
<1>6. ASSUME e + f > x PROVE FALSE
    <2>1. (e + f) * n > x * n
        BY <1>2, <1>3, <1>6
    <2> QED BY <2>1, <1>5, <1>2, <1>3
<1> QED BY <1>2, <1>3, <1>6

\* Rounding down, by the remainder.
LEMMA EntitlementFacts ==
    ASSUME Unit \in Nat \ {0}, NEW x \in Nat, NEW s \in Nat
    PROVE  /\ Entitlement(x, s) \in Nat
           /\ Entitlement(x, s) * Unit <= x * s
           /\ x * s < Entitlement(x, s) * Unit + Unit
<1> DEFINE y == x * s
           e == y \div Unit
<1>1. Unit \in Nat \ {0} /\ y \in Nat
    OBVIOUS
<1> HIDE DEF y
<1>2. y = Unit * e + (y % Unit) /\ (y % Unit) \in 0 .. (Unit - 1) /\ e \in Nat
    BY <1>1
<1>3. e * Unit = Unit * e
    BY <1>1, <1>2
<1>4. Entitlement(x, s) = e
    BY DEF Entitlement, y
<1> HIDE DEF e
<1> QED BY <1>1, <1>2, <1>3, <1>4 DEF y

\* A split of x coins leaves one of them at most, and none unless both have a share.
LEMMA Remainder ==
    ASSUME Unit \in Nat \ {0}, NEW x \in Nat, NEW s \in Nat, NEW t \in Nat, s + t = Unit
    PROVE  LET rest == x - Entitlement(x, s) - Entitlement(x, t)
           IN  /\ rest \in {0, 1}
               /\ s = 0 \/ t = 0 => rest = 0
<1> DEFINE e == Entitlement(x, s)
           f == Entitlement(x, t)
<1>1. e \in Nat /\ e * Unit <= x * s /\ x * s < e * Unit + Unit
    BY EntitlementFacts
<1>2. f \in Nat /\ f * Unit <= x * t /\ x * t < f * Unit + Unit
    BY EntitlementFacts
<1>3. Unit \in Nat \ {0}
    OBVIOUS
<1> HIDE DEF e, f
<1>4. x * s + x * t = x * Unit /\ x * s \in Nat /\ x * t \in Nat
    <2>1. x * s + x * t = x * (s + t)
        OBVIOUS
    <2> QED BY <2>1
<1> DEFINE r == x - e - f
<1>5. r \in Int /\ r * Unit = x * Unit - e * Unit - f * Unit
    BY <1>1, <1>2, <1>3
<1>6. e * Unit \in Nat /\ f * Unit \in Nat /\ x * Unit \in Nat
    BY <1>1, <1>2, <1>3
<1> HIDE DEF r
<1>7. r * Unit >= 0 /\ r * Unit < 2 * Unit
    BY <1>1, <1>2, <1>3, <1>4, <1>5, <1>6
<1>8. r \in {0, 1}
    <2>1. ASSUME r < 0 PROVE FALSE
        <3>1. r * Unit < 0
            BY ONLY <1>3, <1>5, <2>1
        <3> QED BY <1>3, <1>5, <1>7, <3>1
    <2>2. ASSUME r >= 2 PROVE FALSE
        <3>1. r * Unit >= 2 * Unit
            BY ONLY <1>3, <1>5, <2>2
        <3> QED BY <1>3, <1>5, <1>7, <3>1
    <2> QED BY <1>5, <2>1, <2>2
<1>9. s = 0 \/ t = 0 => r = 0
    <2>1. ASSUME s = 0 \/ t = 0 PROVE r * Unit < Unit
        <3>1. x * 0 = 0 /\ 0 * Unit = 0
            BY <1>3
        <3> QED BY <1>1, <1>2, <1>3, <1>4, <1>5, <1>6, <2>1, <3>1
    <2>2. r = 1 => r * Unit = Unit
        BY <1>3
    <2> QED BY <1>3, <1>8, <2>1, <2>2
<1> QED BY <1>8, <1>9 DEF r, e, f

(***************************************************************************)
(* Amounts of the two denoms.                                              *)
(***************************************************************************)
LEMMA AmountFacts ==
    ASSUME NEW x \in Amounts, NEW y \in Amounts
    PROVE  /\ Nothing \in Amounts
           /\ Total(Nothing) = 0
           /\ Total(x) \in Nat
           /\ Plus(x, y) \in Amounts
           /\ Total(Plus(x, y)) = Total(x) + Total(y)
           /\ (\A d \in Denoms : y[d] <= x[d]) =>
                 /\ Minus(x, y) \in Amounts
                 /\ Total(Minus(x, y)) = Total(x) - Total(y)
BY DEF Amounts, Nothing, Plus, Minus, Total, Denoms, Parties
-----------------------------------------------------------------------------
\* g gives the sum of F over every subset of S.
Adds(g, F, S) ==
    /\ g \in [SUBSET S -> Nat]
    /\ g[{}] = 0
    /\ \A T \in SUBSET S : \A x \in T : g[T] = F[x] + g[T \ {x}]

\* A non-empty set of subsets of a finite set has a smallest member.
LEMMA SmallestSet ==
    ASSUME NEW S, IsFiniteSet(S), NEW P \in SUBSET (SUBSET S), P # {}
    PROVE  \E T \in P : \A U \in SUBSET T : U \in P => U = T
<1>1. FiniteSubsetsOf(S) = SUBSET S
    BY FS_FiniteSubsetsOfFinite
<1>2. IsWellFoundedOn(StrictSubsetOrdering(S), SUBSET S)
    BY <1>1, FS_StrictSubsetOrderingWellFounded
<1>3. \E T \in P : \A U \in P : ~(<<U, T>> \in StrictSubsetOrdering(S))
    BY <1>2, WFMin
<1> QED BY <1>3 DEF StrictSubsetOrdering

\* Every function on a finite set has such a sum.
LEMMA AddsExists ==
    ASSUME NEW S, IsFiniteSet(S), NEW F \in [S -> Nat]
    PROVE  \E g : Adds(g, F, S)
<1> DEFINE bad == {T \in SUBSET S : ~\E g : Adds(g, F, T)}
<1> SUFFICES ASSUME bad # {} PROVE FALSE
    OBVIOUS
<1>1. PICK T \in bad : \A U \in SUBSET T : U \in bad => U = T
    <2> HIDE DEF bad
    <2>1. bad \in SUBSET (SUBSET S)
        BY DEF bad
    <2> QED BY <2>1, SmallestSet
<1>2. CASE T = {}
    <2>1. Adds([U \in SUBSET {} |-> 0], F, {})
        BY DEF Adds
    <2> QED BY <2>1, <1>2
<1>3. CASE T # {}
    <2>1. PICK x \in T : TRUE
        BY <1>3
    <2>2. T \ {x} \in SUBSET T /\ T \ {x} # T /\ T \in SUBSET S
        BY <2>1
    <2>3. PICK g : Adds(g, F, T \ {x})
        BY <1>1, <2>2
    <2> DEFINE h == [U \in SUBSET T |-> IF x \in U THEN F[x] + g[U \ {x}] ELSE g[U]]
    <2>4. F[x] \in Nat /\ g \in [SUBSET (T \ {x}) -> Nat]
        BY <2>1, <2>2, <2>3 DEF Adds
    <2>5. h \in [SUBSET T -> Nat]
        <3>1. ASSUME NEW U \in SUBSET T PROVE (IF x \in U THEN F[x] + g[U \ {x}] ELSE g[U]) \in Nat
            <4>1. CASE x \in U
                <5>1. U \ {x} \in SUBSET (T \ {x})
                    OBVIOUS
                <5> QED BY <2>4, <4>1, <5>1
            <4>2. CASE x \notin U
                BY <2>4, <4>2
            <4> QED BY <4>1, <4>2
        <3> QED BY <3>1
    <2>6. h[{}] = 0
        BY <2>3 DEF Adds
    <2>7. ASSUME NEW U \in SUBSET T, NEW y \in U PROVE h[U] = F[y] + h[U \ {y}]
        <3>1. F[y] \in Nat
            BY <2>2
        <3>2. CASE y = x
            BY <3>2
        <3>3. CASE y # x /\ x \in U
            <4>1. U \ {x} \in SUBSET (T \ {x}) /\ y \in U \ {x}
                BY <3>3
            <4>2. g[U \ {x}] = F[y] + g[(U \ {x}) \ {y}]
                BY <4>1, <2>3 DEF Adds
            <4>3. (U \ {x}) \ {y} = (U \ {y}) \ {x} /\ (U \ {x}) \ {y} \in SUBSET (T \ {x})
                OBVIOUS
            <4>4. h[U] = F[x] + g[U \ {x}] /\ h[U \ {y}] = F[x] + g[(U \ {y}) \ {x}]
                BY <3>3
            <4>5. g[(U \ {x}) \ {y}] \in Nat
                BY <4>3, <2>4
            <4>6. g[(U \ {y}) \ {x}] = g[(U \ {x}) \ {y}]
                BY <4>3
            <4> QED BY ONLY <4>2, <4>4, <4>5, <4>6, <3>1, <2>4
        <3>4. CASE x \notin U
            <4>1. U \in SUBSET (T \ {x}) /\ x \notin U \ {y} /\ U \ {y} \in SUBSET T
                BY <3>4
            <4>2. g[U] = F[y] + g[U \ {y}]
                BY <4>1, <2>3 DEF Adds
            <4> QED BY <4>1, <4>2, <3>4
        <3> QED BY <3>2, <3>3, <3>4
    <2> HIDE DEF h
    <2>8. Adds(h, F, T)
        BY <2>5, <2>6, <2>7 DEF Adds
    <2> QED BY <2>8
<1> QED BY <1>2, <1>3

\* The library's fold computes it.
LEMMA SumIsAdditive ==
    ASSUME NEW S, IsFiniteSet(S), NEW F \in [S -> Nat], NEW g, Adds(g, F, S)
    PROVE  Sums!SumFunctionOnSet(F, S) = g[S]
<1> DEFINE Pick(s) == CHOOSE x \in s : TRUE
           eq(f) == f = [s \in SUBSET S |-> IF s = {} THEN 0
                                            ELSE F[Pick(s)] + f[s \ {Pick(s)}]]
           f == CHOOSE f : eq(f)
<1>1. Sums!SumFunctionOnSet(F, S) = f[S]
    BY DEF Sums!SumFunctionOnSet, Sums!FoldFunctionOnSet, Sums!MapThenFoldSet
<1>2. \A s : s # {} => Pick(s) \in s
    OBVIOUS
<1> HIDE DEF Pick
<1>3. eq(g)
    <2>1. ASSUME NEW s \in SUBSET S
          PROVE  g[s] = IF s = {} THEN 0 ELSE F[Pick(s)] + g[s \ {Pick(s)}]
        BY <1>2 DEF Adds
    <2>2. g = [s \in SUBSET S |-> g[s]]
        BY DEF Adds
    <2> QED BY <2>1, <2>2
<1>4. eq(f)
    <2> HIDE DEF eq
    <2> QED BY <1>3
<1> HIDE DEF f
<1> DEFINE bad == {T \in SUBSET S : f[T] # g[T]}
<1>5. CASE bad # {}
    <2>1. PICK T \in bad : \A U \in SUBSET T : U \in bad => U = T
        <3>1. bad \in SUBSET (SUBSET S)
            OBVIOUS
        <3> HIDE DEF bad
        <3> QED BY <3>1, <1>5, SmallestSet
    <2>2. T # {}
        BY <1>4 DEF Adds
    <2>3. Pick(T) \in T
        BY <1>2, <2>2
    <2>4. T \in SUBSET S /\ T \ {Pick(T)} \in SUBSET T /\ T \ {Pick(T)} # T
        BY <2>3
    <2>5. f[T \ {Pick(T)}] = g[T \ {Pick(T)}]
        BY <2>1, <2>4
    <2>6. f[T] = F[Pick(T)] + f[T \ {Pick(T)}]
        BY <1>4, <2>2, <2>4
    <2>7. g[T] = F[Pick(T)] + g[T \ {Pick(T)}]
        BY <2>3, <2>4 DEF Adds
    <2> QED BY <2>5, <2>6, <2>7
<1>6. CASE bad = {}
    BY <1>1, <1>6
<1> QED BY <1>5, <1>6

Within(g, T) == [U \in SUBSET T |-> g[U]]

\* Such a sum, on the subsets of a part of the set.
LEMMA AddsRestricted ==
    ASSUME NEW S, NEW F \in [S -> Nat], NEW g, Adds(g, F, S), NEW T \in SUBSET S, NEW G,
           \A x \in T : G[x] = F[x]
    PROVE  Adds(Within(g, T), G, T)
<1> DEFINE h == [U \in SUBSET T |-> g[U]]
<1>1. \A U \in SUBSET T : U \in SUBSET S
    OBVIOUS
<1>2. h \in [SUBSET T -> Nat] /\ h[{}] = 0
    BY <1>1 DEF Adds
<1>3. ASSUME NEW U \in SUBSET T, NEW x \in U PROVE h[U] = G[x] + h[U \ {x}]
    <2>1. g[U] = F[x] + g[U \ {x}]
        BY <1>1 DEF Adds
    <2>2. U \ {x} \in SUBSET T /\ G[x] = F[x]
        OBVIOUS
    <2> QED BY <2>1, <2>2
<1> QED BY <1>2, <1>3 DEF Adds, Within

\* The sum over a set is that over the set without x, and x's part.
LEMMA SumWithout ==
    ASSUME NEW S, IsFiniteSet(S), NEW F \in [S -> Nat], NEW x \in S, NEW G \in [S \ {x} -> Nat],
           \A y \in S \ {x} : G[y] = F[y]
    PROVE  Sums!SumFunctionOnSet(F, S) = F[x] + Sums!SumFunctionOnSet(G, S \ {x}) /\ Sums!SumFunctionOnSet(G, S \ {x}) \in Nat
<1>1. PICK g : Adds(g, F, S)
    BY AddsExists
<1>2. Sums!SumFunctionOnSet(F, S) = g[S]
    BY <1>1, SumIsAdditive
<1> DEFINE T == S \ {x}
           h == Within(g, T)
<1>3. T \in SUBSET S /\ IsFiniteSet(T)
    BY FS_Subset
<1>4. Adds(h, G, T)
    <2>1. \A y \in T : G[y] = F[y]
        OBVIOUS
    <2> HIDE DEF T
    <2> QED BY <1>1, <1>3, <2>1, AddsRestricted
<1>5. Sums!SumFunctionOnSet(G, T) = h[T] /\ h[T] \in Nat
    <2> HIDE DEF T, h
    <2>1. G \in [T -> Nat]
        BY DEF T
    <2> QED BY <2>1, <1>3, <1>4, SumIsAdditive DEF Adds
<1>6. g[S] = F[x] + g[T]
    BY <1>1 DEF Adds
<1>7. h[T] = g[T]
    BY DEF Within
<1> QED BY <1>2, <1>5, <1>6, <1>7

\* A sum of natural numbers is one.
LEMMA SumType ==
    ASSUME NEW S, IsFiniteSet(S), NEW F \in [S -> Nat]
    PROVE  Sums!SumFunctionOnSet(F, S) \in Nat
<1>1. PICK g : Adds(g, F, S)
    BY AddsExists
<1>2. Sums!SumFunctionOnSet(F, S) = g[S]
    BY <1>1, SumIsAdditive
<1>3. g[S] \in Nat
    BY <1>1 DEF Adds
<1> QED BY <1>2, <1>3

\* Nothing adds up to nothing.
LEMMA SumOfNothing ==
    ASSUME NEW F \in [{} -> Nat]
    PROVE  Sums!SumFunctionOnSet(F, {}) = 0
<1>1. IsFiniteSet({})
    BY FS_EmptySet
<1>2. PICK g : Adds(g, F, {})
    BY <1>1, AddsExists
<1> QED BY <1>1, <1>2, SumIsAdditive DEF Adds
-----------------------------------------------------------------------------
(***************************************************************************)
(* Bags of transfers: what is under way of a kind K.                       *)
(***************************************************************************)
IsTraffic(b) ==
    /\ IsABag(b)
    /\ IsFiniteSet(BagToSet(b))
    /\ \A t \in BagToSet(b) : t.amount \in Nat

CarriedOf(b, K) == Carried(b, BagToSet(b) \cap K)

\* What a bag carries, as a sum over its elements.
LEMMA CarriedIsSum ==
    ASSUME NEW b, IsTraffic(b), NEW S \in SUBSET BagToSet(b)
    PROVE  LET F == [t \in S |-> t.amount * b[t]]
           IN  /\ Carried(b, S) = Sums!SumFunctionOnSet(F, S)
               /\ F \in [S -> Nat]
               /\ IsFiniteSet(S)
<1> DEFINE F == [t \in S |-> t.amount * b[t]]
<1>1. ASSUME NEW t \in S PROVE t.amount * b[t] \in Nat
    BY DEF IsTraffic, IsABag, BagToSet
<1>2. F \in [S -> Nat] /\ DOMAIN F = S
    BY <1>1
<1>3. Carried(b, S) = Sums!SumFunctionOnSet(F, S)
    BY <1>2 DEF Carried, Sums!SumFunction
<1>4. IsFiniteSet(S)
    BY FS_Subset DEF IsTraffic
<1> QED BY <1>2, <1>3, <1>4

\* What a bag carries is a number.
LEMMA CarriedType ==
    ASSUME NEW b, IsTraffic(b), NEW K
    PROVE  CarriedOf(b, K) \in Nat
<1> DEFINE S == BagToSet(b) \cap K
           F == [t \in S |-> t.amount * b[t]]
<1>1. CarriedOf(b, K) = Sums!SumFunctionOnSet(F, S) /\ F \in [S -> Nat] /\ IsFiniteSet(S)
    BY CarriedIsSum DEF CarriedOf
<1> HIDE DEF S, F
<1> QED BY <1>1, SumType

\* Nothing is carried where nothing is under way.
LEMMA EmptyTraffic ==
    IsTraffic(EmptyBag) /\ \A K : CarriedOf(EmptyBag, K) = 0
<1>1. BagToSet(EmptyBag) = {} /\ IsABag(EmptyBag)
    BY DEF EmptyBag, SetToBag, BagToSet, IsABag
<1>2. IsTraffic(EmptyBag)
    BY <1>1, FS_EmptySet DEF IsTraffic
<1>3. ASSUME NEW K PROVE CarriedOf(EmptyBag, K) = 0
    <2>1. BagToSet(EmptyBag) \cap K = {}
        BY <1>1
    <2> QED BY <2>1, <1>1, <1>2, CarriedIsSum, SumOfNothing DEF CarriedOf
<1> QED BY <1>2, <1>3

(***************************************************************************)
(* The part of x in what is carried.                                       *)
(***************************************************************************)
PartOf(x, b, K) == IF x \in BagToSet(b) /\ x \in K THEN x.amount * b[x] ELSE 0

\* Bags that differ in x only carry the same but for x.
LEMMA CarriedElsewhere ==
    ASSUME NEW b, IsTraffic(b), NEW c, IsTraffic(c), NEW K, NEW x,
           (BagToSet(b) \cap K) \ {x} = (BagToSet(c) \cap K) \ {x},
           \A t \in (BagToSet(b) \cap K) \ {x} : b[t] = c[t]
    PROVE  CarriedOf(c, K) - PartOf(x, c, K) = CarriedOf(b, K) - PartOf(x, b, K)
<1> DEFINE T == (BagToSet(b) \cap K) \ {x}
           G == [t \in T |-> t.amount * b[t]]
           rest == Sums!SumFunctionOnSet(G, T)
<1>1. T \in SUBSET BagToSet(b) /\ IsFiniteSet(T)
    BY FS_Subset DEF IsTraffic
<1>2. G \in [T -> Nat]
    BY <1>1, CarriedIsSum
<1>3. rest \in Nat
    <2> HIDE DEF T, G
    <2> QED BY <1>1, <1>2, SumType
<1>4. ASSUME NEW e, IsTraffic(e), T = (BagToSet(e) \cap K) \ {x}, \A t \in T : e[t] = b[t]
      PROVE  CarriedOf(e, K) - PartOf(x, e, K) = rest
    <2> DEFINE S == BagToSet(e) \cap K
               F == [t \in S |-> t.amount * e[t]]
    <2>1. S \in SUBSET BagToSet(e)
        OBVIOUS
    <2>2. CarriedOf(e, K) = Sums!SumFunctionOnSet(F, S) /\ F \in [S -> Nat] /\ IsFiniteSet(S)
        BY <1>4, <2>1, CarriedIsSum DEF CarriedOf
    <2>3. T = S \ {x} /\ \A t \in T : G[t] = F[t]
        BY <1>4
    <2>4. x \in S => F[x] = PartOf(x, e, K) /\ F[x] \in Nat
        BY <2>2 DEF PartOf
    <2>5. x \notin S => PartOf(x, e, K) = 0
        BY DEF PartOf
    <2> HIDE DEF T, G, S, F
    <2>6. CASE x \in S
        <3>1. G \in [S \ {x} -> Nat] /\ \A t \in S \ {x} : G[t] = F[t]
            BY <1>2, <2>3
        <3>2. Sums!SumFunctionOnSet(F, S) = F[x] + Sums!SumFunctionOnSet(G, S \ {x})
            BY <2>2, <2>6, <3>1, SumWithout
        <3>3. Sums!SumFunctionOnSet(G, S \ {x}) = rest
            BY <2>3
        <3> QED BY <2>2, <2>4, <2>6, <3>2, <3>3, <1>3
    <2>7. CASE x \notin S
        <3>1. T = S
            BY <2>3, <2>7
        <3>2. F = G
            BY <2>2, <1>2, <2>3, <3>1
        <3> QED BY <2>2, <2>5, <2>7, <3>1, <3>2, <1>3
    <2> QED BY <2>6, <2>7
<1>5. CarriedOf(b, K) - PartOf(x, b, K) = rest
    BY <1>4
<1>6. CarriedOf(c, K) - PartOf(x, c, K) = rest
    BY <1>4
<1> QED BY <1>5, <1>6

(***************************************************************************)
(* Sending transfers, each any number of times, of which no more than one  *)
(* is of kind K.                                                           *)
(***************************************************************************)
LEMMA TrafficAdded ==
    ASSUME NEW b, IsTraffic(b), NEW n, IsTraffic(n)
    PROVE  /\ IsTraffic(b (+) n)
           /\ BagToSet(b (+) n) = BagToSet(b) \cup BagToSet(n)
           /\ \A K, x : BagToSet(n) \cap K \in SUBSET {x} =>
                 CarriedOf(b (+) n, K)
                   = CarriedOf(b, K) + (IF x \in BagToSet(n) \cap K THEN x.amount * n[x] ELSE 0)
<1> DEFINE c == b (+) n
           T == BagToSet(n)
<1>1. /\ BagToSet(c) = BagToSet(b) \cup T
      /\ \A t \in BagToSet(c) : c[t] = (IF t \in BagToSet(b) THEN b[t] ELSE 0)
                                       + (IF t \in T THEN n[t] ELSE 0)
      /\ c = [t \in BagToSet(c) |-> c[t]]
    BY DEF (+), BagToSet
<1>2. /\ \A t \in BagToSet(b) : b[t] \in Nat \ {0}
      /\ \A t \in T : n[t] \in Nat \ {0} /\ t.amount \in Nat
    BY DEF IsTraffic, IsABag, BagToSet
<1> HIDE DEF c, T
<1>3. IsABag(c)
    BY <1>1, <1>2 DEF IsABag, BagToSet
<1>4. IsTraffic(c)
    <2>1. IsFiniteSet(BagToSet(b) \cup T)
        BY FS_Union DEF IsTraffic, T
    <2> QED BY <2>1, <1>1, <1>2, <1>3 DEF IsTraffic
<1>5. ASSUME NEW K, NEW x, T \cap K \in SUBSET {x}
      PROVE  CarriedOf(c, K) = CarriedOf(b, K) + (IF x \in T \cap K THEN x.amount * n[x] ELSE 0)
    <2>1. (BagToSet(b) \cap K) \ {x} = (BagToSet(c) \cap K) \ {x}
        BY <1>1, <1>5
    <2>2. \A t \in (BagToSet(b) \cap K) \ {x} : b[t] = c[t]
        BY <1>1, <1>2, <1>5
    <2>3. CarriedOf(c, K) - PartOf(x, c, K) = CarriedOf(b, K) - PartOf(x, b, K)
        BY <1>4, <2>1, <2>2, CarriedElsewhere
    <2>4. CarriedOf(c, K) \in Nat /\ CarriedOf(b, K) \in Nat
        BY <1>4, CarriedType
    <2>5. CASE x \in T \cap K
        <3>1. x.amount \in Nat /\ n[x] \in Nat /\ x \in BagToSet(c) /\ x \in K
            BY <2>5, <1>1, <1>2
        <3>2. x.amount * n[x] \in Nat
            BY <3>1
        <3>3. CASE x \in BagToSet(b)
            <4>1. c[x] = b[x] + n[x] /\ b[x] \in Nat
                BY <2>5, <3>1, <3>3, <1>1, <1>2
            <4>2. PartOf(x, c, K) = x.amount * (b[x] + n[x]) /\ PartOf(x, b, K) = x.amount * b[x]
                BY <3>1, <3>3, <4>1 DEF PartOf
            <4>3. /\ x.amount * (b[x] + n[x]) = x.amount * b[x] + x.amount * n[x]
                  /\ x.amount * b[x] \in Nat
                BY <3>1, <4>1
            <4> QED BY <2>3, <2>4, <2>5, <3>2, <4>2, <4>3
        <3>4. CASE x \notin BagToSet(b)
            <4>1. c[x] = n[x]
                BY <2>5, <3>1, <3>4, <1>1
            <4>2. PartOf(x, c, K) = x.amount * n[x] /\ PartOf(x, b, K) = 0
                BY <3>1, <3>4, <4>1 DEF PartOf
            <4> QED BY <2>3, <2>4, <2>5, <3>2, <4>2
        <3> QED BY <3>3, <3>4
    <2>6. CASE x \notin T \cap K
        <3>1. PartOf(x, c, K) = PartOf(x, b, K)
            BY <2>6, <1>1, <1>2 DEF PartOf
        <3>2. PartOf(x, b, K) \in Nat
            BY <1>2 DEF PartOf, IsTraffic
        <3> QED BY <2>3, <2>4, <2>6, <3>1, <3>2
    <2> QED BY <2>5, <2>6
<1> QED BY <1>1, <1>4, <1>5 DEF c, T

\* Sending transfers, each of them once.
LEMMA TrafficSent ==
    ASSUME NEW b, IsTraffic(b), NEW T, IsFiniteSet(T), \A t \in T : t.amount \in Nat
    PROVE  /\ IsTraffic(b (+) SetToBag(T))
           /\ BagToSet(b (+) SetToBag(T)) = BagToSet(b) \cup T
           /\ \A K, x : T \cap K \in SUBSET {x} =>
                 CarriedOf(b (+) SetToBag(T), K)
                   = CarriedOf(b, K) + (IF x \in T \cap K THEN x.amount ELSE 0)
<1> DEFINE n == SetToBag(T)
<1>1. BagToSet(n) = T /\ IsABag(n) /\ \A t \in T : n[t] = 1
    BY DEF SetToBag, BagToSet, IsABag
<1> HIDE DEF n
<1>2. IsTraffic(n)
    BY <1>1 DEF IsTraffic
<1>3. /\ IsTraffic(b (+) n)
      /\ BagToSet(b (+) n) = BagToSet(b) \cup T
    BY <1>1, <1>2, TrafficAdded
<1>4. ASSUME NEW K, NEW x, T \cap K \in SUBSET {x}
      PROVE  CarriedOf(b (+) n, K) = CarriedOf(b, K) + (IF x \in T \cap K THEN x.amount ELSE 0)
    <2>1. CarriedOf(b (+) n, K)
            = CarriedOf(b, K) + (IF x \in T \cap K THEN x.amount * n[x] ELSE 0)
        BY <1>1, <1>2, <1>4, TrafficAdded
    <2>2. x \in T => x.amount * n[x] = x.amount
        BY <1>1
    <2> QED BY <2>1, <2>2
<1> QED BY <1>3, <1>4 DEF n

(***************************************************************************)
(* A transfer that arrives or bounces.                                     *)
(***************************************************************************)
LEMMA TrafficEnded ==
    ASSUME NEW b, IsTraffic(b), NEW x \in BagToSet(b)
    PROVE  /\ IsTraffic(b (-) SetToBag({x}))
           /\ BagToSet(b (-) SetToBag({x})) \subseteq BagToSet(b)
           /\ \A K : CarriedOf(b (-) SetToBag({x}), K)
                       = CarriedOf(b, K) - (IF x \in K THEN x.amount ELSE 0)
<1> DEFINE c == b (-) SetToBag({x})
           left(t) == IF t = x THEN b[t] - 1 ELSE b[t]
<1>1. \A t \in BagToSet(b) : b[t] \in Nat \ {0}
    BY DEF IsTraffic, IsABag, BagToSet
<1>2. c = [t \in {u \in BagToSet(b) : left(u) > 0} |-> left(t)]
    BY DEF (-), SetToBag, BagToSet
<1> HIDE DEF c
<1>3. /\ BagToSet(c) = {u \in BagToSet(b) : left(u) > 0}
      /\ \A t \in BagToSet(c) : c[t] = left(t)
    BY <1>2 DEF BagToSet
<1>4. IsABag(c)
    BY <1>1, <1>2, <1>3 DEF IsABag, BagToSet
<1>5. IsTraffic(c)
    <2>1. BagToSet(c) \in SUBSET BagToSet(b)
        BY <1>3
    <2>2. IsFiniteSet(BagToSet(c))
        BY <2>1, FS_Subset DEF IsTraffic
    <2> QED BY <2>1, <2>2, <1>4 DEF IsTraffic
<1>6. ASSUME NEW K
      PROVE  CarriedOf(c, K) = CarriedOf(b, K) - (IF x \in K THEN x.amount ELSE 0)
    <2>1. (BagToSet(b) \cap K) \ {x} = (BagToSet(c) \cap K) \ {x}
        BY <1>1, <1>3
    <2>2. \A t \in (BagToSet(b) \cap K) \ {x} : b[t] = c[t]
        BY <1>1, <1>3
    <2>3. CarriedOf(c, K) - PartOf(x, c, K) = CarriedOf(b, K) - PartOf(x, b, K)
        BY <1>5, <2>1, <2>2, CarriedElsewhere
    <2>4. CarriedOf(c, K) \in Nat /\ CarriedOf(b, K) \in Nat
        BY <1>5, CarriedType
    <2>5. x.amount \in Nat /\ b[x] \in Nat \ {0}
        BY <1>1 DEF IsTraffic
    <2>6. CASE x \in K
        <3>1. PartOf(x, b, K) = x.amount * b[x]
            BY <2>6 DEF PartOf
        <3>2. PartOf(x, c, K) = x.amount * (b[x] - 1)
            <4>1. CASE b[x] = 1
                BY <4>1, <1>3, <2>5 DEF PartOf
            <4>2. CASE b[x] # 1
                BY <4>2, <2>6, <1>3, <2>5 DEF PartOf
            <4> QED BY <4>1, <4>2
        <3>3. x.amount * (b[x] - 1) = x.amount * b[x] - x.amount /\ x.amount * b[x] \in Nat
            BY <2>5
        <3>4. PartOf(x, c, K) = PartOf(x, b, K) - x.amount /\ PartOf(x, b, K) \in Nat
            BY <3>1, <3>2, <3>3
        <3> QED BY <2>3, <2>4, <2>5, <2>6, <3>4
    <2>7. CASE x \notin K
        <3>1. PartOf(x, b, K) = 0 /\ PartOf(x, c, K) = 0
            BY <2>7 DEF PartOf
        <3> QED BY <2>3, <2>4, <2>7, <3>1
    <2> QED BY <2>6, <2>7
<1>7. BagToSet(c) \subseteq BagToSet(b)
    BY <1>3
<1> QED BY <1>5, <1>6, <1>7 DEF c
-----------------------------------------------------------------------------
(***************************************************************************)
(* The account of a pooler with an Astroport pool: for every amount and    *)
(* percentage, balances stay natural numbers and no coin is created or     *)
(* lost.                                                                   *)
(***************************************************************************)
\* All the coins on the pooler's account.
Value(pl) == Total(pl.raw) + Total(pl.pos)

\* Provision of both denoms moves coins from the balance to the position.
LEMMA ProvideFacts ==
    ASSUME NEW pl \in Poolers, NEW spent \in Amounts, NEW given \in Amounts,
           \A d \in Denoms : spent[d] <= pl.raw[d], Total(spent) = Total(given)
    PROVE  /\ Provide(pl, spent, given) \in Poolers
           /\ Value(Provide(pl, spent, given)) = Value(pl)
<1> DEFINE new == Provide(pl, spent, given)
<1>1. pl.raw \in Amounts /\ pl.pos \in Amounts /\ pl.provided \in Amounts /\ pl.lp \in Nat
    BY DEF Poolers
<1>2. given[A] \in Nat /\ given[B] \in Nat
    BY DEF Amounts, Denoms, Parties
<1>3. new = [raw |-> Minus(pl.raw, spent), lp |-> pl.lp + given[A] + given[B],
             pos |-> Plus(pl.pos, given), provided |-> Plus(pl.provided, given)]
    BY DEF Provide
<1> HIDE DEF new
<1>4. new \in Poolers
    BY <1>1, <1>2, <1>3, AmountFacts DEF Poolers
<1>5. \A x \in Amounts : Total(x) \in Int
    BY DEF Amounts, Total, Denoms, Parties
<1>6. Value(new) = Value(pl)
    <2>1. new.raw = Minus(pl.raw, spent) /\ new.pos = Plus(pl.pos, given)
        BY <1>3
    <2>2. Total(Minus(pl.raw, spent)) = Total(pl.raw) - Total(spent)
        BY <1>1, AmountFacts
    <2>3. Total(new.pos) = Total(pl.pos) + Total(given)
        BY <2>1, <1>1, AmountFacts
    <2> QED BY <2>1, <2>2, <2>3, <1>1, <1>5 DEF Value
<1> QED BY <1>4, <1>6 DEF new

\* Providing liquidity, from both denoms or from one, keeps the value.
LEMMA DoubleSideFacts ==
    ASSUME NEW pl \in Poolers
    PROVE  DoubleSide(pl) \in Poolers /\ Value(DoubleSide(pl)) = Value(pl)
<1> DEFINE x == Smaller(pl.raw[A], pl.raw[B])
           given == [d \in Denoms |-> x]
<1>1. pl.raw[A] \in Nat /\ pl.raw[B] \in Nat
    BY DEF Poolers, Amounts, Denoms, Parties
<1>2. x \in Nat /\ x <= pl.raw[A] /\ x <= pl.raw[B]
    BY <1>1 DEF Smaller
<1>3. DoubleSide(pl) = Provide(pl, given, given)
    BY DEF DoubleSide
<1> HIDE DEF x
<1>4. given \in Amounts /\ \A d \in Denoms : given[d] <= pl.raw[d]
    BY <1>2 DEF Amounts, Denoms, Parties
<1> HIDE DEF given
<1> QED BY <1>3, <1>4, ProvideFacts

\* So does provision of one denom.
LEMMA SingleSideFacts ==
    ASSUME A # B, NEW pl \in Poolers, NEW d \in Denoms
    PROVE  /\ SingleSideStable(pl, d) \in Poolers /\ Value(SingleSideStable(pl, d)) = Value(pl)
           /\ SingleSideXyk(pl, d) \in Poolers /\ Value(SingleSideXyk(pl, d)) = Value(pl)
<1> DEFINE half == pl.raw[d] \div 2
           both == [e \in Denoms |-> half]
           twice == [Nothing EXCEPT ![d] = 2 * half]
           all == [Nothing EXCEPT ![d] = pl.raw[d]]
<1>1. \A e \in Denoms : pl.raw[e] \in Nat
    BY DEF Poolers, Amounts
<1>2. half \in Nat /\ 2 * half <= pl.raw[d]
    BY <1>1
<1>3. /\ SingleSideXyk(pl, d) = Provide(pl, twice, both)
      /\ SingleSideStable(pl, d) = Provide(pl, all, all)
    BY DEF SingleSideXyk, SingleSideStable
<1> HIDE DEF half
<1>4. /\ twice \in Amounts /\ both \in Amounts /\ all \in Amounts
      /\ \A e \in Denoms : twice[e] <= pl.raw[e] /\ all[e] <= pl.raw[e]
    BY <1>1, <1>2 DEF Amounts, Nothing
<1>5. Total(twice) = Total(both)
    BY <1>2 DEF Total, Nothing, Denoms, Parties
<1> HIDE DEF twice, both, all
<1> QED BY <1>3, <1>4, <1>5, ProvideFacts

(***************************************************************************)
(* What a withdrawal hands out is what the pooler's account loses.         *)
(***************************************************************************)
LEMMA WithdrawFacts ==
    ASSUME Unit \in Nat \ {0}, NEW pl \in Poolers, NEW pct \in Int, WithdrawOk(pl, pct)
    PROVE  /\ Withdrawn(pl, pct) \in Amounts
           /\ AfterWithdraw(pl, pct) \in Poolers
           /\ Value(AfterWithdraw(pl, pct)) + Total(Withdrawn(pl, pct)) = Value(pl)
<1> DEFINE out == Withdrawn(pl, pct)
           r == Redeemed(pl, pct)
           new == AfterWithdraw(pl, pct)
<1>1. pl.raw \in Amounts /\ pl.pos \in Amounts /\ pl.provided \in Amounts /\ pl.lp \in Nat
    BY DEF Poolers
<1>2. Unit \in Nat \ {0} /\ pct \in 0 .. Unit
    BY DEF WithdrawOk
<1>3. \A x \in Amounts : Total(x) \in Int
    BY DEF Amounts, Total, Denoms, Parties
<1>4. CASE pl.lp = 0
    <2>1. out = pl.raw /\ new = [pl EXCEPT !.raw = Nothing]
        BY <1>4 DEF Withdrawn, AfterWithdraw
    <2>2. Nothing \in Amounts /\ Total(Nothing) = 0
        BY <1>1, AmountFacts
    <2> HIDE DEF out, new
    <2>3. new \in Poolers /\ new.raw = Nothing /\ new.pos = pl.pos
        BY <2>1, <2>2 DEF Poolers
    <2>4. Value(new) + Total(out) = Value(pl)
        BY <2>1, <2>2, <2>3, <1>1, <1>3 DEF Value
    <2> QED BY <2>1, <2>3, <2>4, <1>1 DEF out, new
<1>5. CASE pl.lp # 0
    <2>1. r \in 0 .. pl.lp
        BY <1>1, <1>2, PartBound DEF Redeemed
    <2>2. out = [d \in Denoms |-> (pl.pos[d] * r) \div pl.lp]
        BY <1>5 DEF Withdrawn
    <2>3. new = [pl EXCEPT !.lp = @ - r, !.pos = Minus(@, out)]
        BY <1>5 DEF AfterWithdraw
    <2> HIDE DEF r, out, new
    <2>4. \A d \in Denoms : (pl.pos[d] * r) \div pl.lp \in 0 .. pl.pos[d]
        BY <1>1, <1>5, <2>1, PartBound DEF Amounts
    <2>5. out \in Amounts /\ \A d \in Denoms : out[d] <= pl.pos[d]
        BY <1>1, <2>2, <2>4 DEF Amounts
    <2>6. Minus(pl.pos, out) \in Amounts
          /\ Total(Minus(pl.pos, out)) = Total(pl.pos) - Total(out)
        BY <1>1, <2>5, AmountFacts
    <2>7. new \in Poolers /\ new.raw = pl.raw /\ new.pos = Minus(pl.pos, out)
        <3> DEFINE left == Minus(pl.pos, out)
        <3>1. pl.lp - r \in Nat
            BY <1>1, <2>1
        <3>2. new = [pl EXCEPT !.lp = pl.lp - r, !.pos = left]
            BY <2>3
        <3>3. left \in Amounts
            BY <2>6
        <3> HIDE DEF left
        <3> QED BY <3>1, <3>2, <3>3 DEF Poolers, left
    <2>8. Value(new) + Total(out) = Value(pl)
        BY <2>5, <2>6, <2>7, <1>1, <1>3 DEF Value
    <2> QED BY <2>5, <2>7, <2>8 DEF out, new
<1> QED BY <1>4, <1>5
-----------------------------------------------------------------------------
\* The coins of denom d on the pooler's account.
OnAccount(pl, d) == pl.raw[d] + pl.pos[d]

\* Liquidity given as it is leaves every denom as it was.
LEMMA ProvideByDenom ==
    ASSUME NEW pl \in Poolers, NEW given \in Amounts, NEW d \in Denoms
    PROVE  OnAccount(Provide(pl, given, given), d) = OnAccount(pl, d)
BY DEF OnAccount, Provide, Poolers, Amounts, Minus, Plus

\* A tick keeps the coins of each denom, but for the swap of an xyk pool.
LEMMA StableByDenom ==
    ASSUME A # B, NEW pl \in Poolers, NEW e \in Denoms, NEW d \in Denoms
    PROVE  /\ OnAccount(DoubleSide(pl), d) = OnAccount(pl, d)
           /\ OnAccount(SingleSideStable(pl, e), d) = OnAccount(pl, d)
<1> DEFINE x == Smaller(pl.raw[A], pl.raw[B])
           both == [f \in Denoms |-> x]
           all == [Nothing EXCEPT ![e] = pl.raw[e]]
<1>1. pl.raw[A] \in Nat /\ pl.raw[B] \in Nat /\ pl.raw[e] \in Nat
    BY DEF Poolers, Amounts, Denoms, Parties
<1>2. x \in Nat
    BY <1>1 DEF Smaller
<1>3. DoubleSide(pl) = Provide(pl, both, both)
    BY DEF DoubleSide
<1>4. SingleSideStable(pl, e) = Provide(pl, all, all)
    BY DEF SingleSideStable
<1>5. both \in Amounts /\ all \in Amounts
    BY <1>1, <1>2 DEF Amounts, Nothing
<1> HIDE DEF both, all
<1> QED BY <1>3, <1>4, <1>5, ProvideByDenom

\* A withdrawal hands out, of each denom, what the account loses.
LEMMA WithdrawnByDenom ==
    ASSUME Unit \in Nat \ {0}, NEW pl \in Poolers, NEW pct \in Int, WithdrawOk(pl, pct),
           NEW d \in Denoms
    PROVE  OnAccount(AfterWithdraw(pl, pct), d) + Withdrawn(pl, pct)[d] = OnAccount(pl, d)
<1> DEFINE out == Withdrawn(pl, pct)
           new == AfterWithdraw(pl, pct)
<1>1. out \in Amounts
    BY WithdrawFacts
<1>2. pl.raw[d] \in Nat /\ pl.pos[d] \in Nat /\ out[d] \in Nat
    BY <1>1 DEF Poolers, Amounts
<1>3. CASE pl.lp = 0
    <2>1. out = pl.raw /\ new = [pl EXCEPT !.raw = Nothing]
        BY <1>3 DEF Withdrawn, AfterWithdraw
    <2> HIDE DEF out, new
    <2>2. new.raw[d] = 0 /\ new.pos = pl.pos
        BY <2>1 DEF Poolers, Nothing
    <2>3. OnAccount(new, d) + out[d] = OnAccount(pl, d)
        BY <1>2, <2>1, <2>2 DEF OnAccount
    <2> QED BY <2>3 DEF out, new
<1>4. CASE pl.lp # 0
    <2>1. new = [pl EXCEPT !.lp = pl.lp - Redeemed(pl, pct), !.pos = Minus(pl.pos, out)]
        BY <1>4 DEF AfterWithdraw
    <2> HIDE DEF out, new
    <2>2. new.raw = pl.raw /\ new.pos[d] = pl.pos[d] - out[d]
        BY <2>1 DEF Poolers, Minus
    <2>3. OnAccount(new, d) + out[d] = OnAccount(pl, d)
        BY <1>2, <2>2 DEF OnAccount
    <2> QED BY <2>3 DEF out, new
<1> QED BY <1>3, <1>4

(***************************************************************************)
(* A share pct/n of lp tokens, rounded down, redeems at most that share of *)
(* the coins x that all tokens stand for, rounded down again.              *)
(***************************************************************************)
LEMMA RedeemedPart ==
    ASSUME NEW n \in Nat \ {0}, NEW lp \in Nat \ {0}, NEW x \in Nat, NEW pct \in Nat
    PROVE  ((x * ((lp * pct) \div n)) \div lp) * n <= x * pct
<1> DEFINE y == lp * pct
           r == y \div n
           z == x * r
           o == z \div lp
<1>1. y \in Nat
    OBVIOUS
<1> HIDE DEF y
<1>2. r \in Nat /\ n * r <= y
    BY <1>1
<1> HIDE DEF r
<1>3. z \in Nat
    BY <1>2
<1> HIDE DEF z
<1>4. o \in Nat /\ lp * o <= z
    BY <1>3
<1> HIDE DEF o
<1>5. lp * o <= x * r /\ r * n <= lp * pct
    BY <1>2, <1>4 DEF z, y
<1>6. lp * (o * n) <= lp * (x * pct)
    <2>1. (lp * o) * n <= (x * r) * n
        BY ONLY <1>2, <1>4, <1>5, n \in Nat, lp \in Nat, x \in Nat, pct \in Nat
    <2>2. x * (r * n) <= x * (lp * pct)
        BY ONLY <1>2, <1>5, n \in Nat, lp \in Nat, x \in Nat, pct \in Nat
    <2>3. /\ lp * (o * n) = (lp * o) * n /\ (x * r) * n = x * (r * n)
          /\ x * (lp * pct) = lp * (x * pct)
          /\ lp * (o * n) \in Nat /\ x * (r * n) \in Nat /\ lp * (x * pct) \in Nat
        BY ONLY <1>2, <1>4, n \in Nat, lp \in Nat, x \in Nat, pct \in Nat
    <2> QED BY ONLY <2>1, <2>2, <2>3
<1>7. o * n <= x * pct
    <2>1. o * n \in Nat /\ x * pct \in Nat
        BY ONLY <1>4, n \in Nat, x \in Nat, pct \in Nat
    <2> DEFINE u == o * n
               v == x * pct
    <2> HIDE DEF u, v
    <2>2. lp * u <= lp * v /\ u \in Nat /\ v \in Nat /\ lp \in Nat \ {0}
        BY <1>6, <2>1 DEF u, v
    <2>3. ASSUME v + 1 <= u PROVE FALSE
        <3>1. lp * (v + 1) <= lp * u /\ lp * (v + 1) = lp * v + lp
            BY ONLY <2>2, <2>3
        <3> QED BY ONLY <2>2, <3>1
    <2>4. u <= v
        BY ONLY <2>2, <2>3
    <2> QED BY <2>4 DEF u, v
<1> QED BY <1>7 DEF o, z, r, y

(***************************************************************************)
(* A share of even tokens that is worth a coin of each denom redeems one.  *)
(***************************************************************************)
LEMMA RedeemedCoin ==
    ASSUME NEW n \in Nat \ {0}, NEW x \in Nat \ {0}, NEW pct \in Nat, pct * x >= n
    PROVE  (x * (((x + x) * pct) \div n)) \div (x + x) > 0
<1> DEFINE y == (x + x) * pct
           r == y \div n
           z == x * r
<1>1. y \in Nat /\ y >= n + n
    <2>1. y = pct * x + pct * x /\ pct * x \in Nat
        OBVIOUS
    <2> QED BY <2>1
<1> HIDE DEF y
<1>2. r \in Nat /\ r >= 2
    <2>1. r \in Nat /\ y < n * (r + 1)
        BY <1>1
    <2> HIDE DEF r
    <2>2. ASSUME r + 1 <= 2 PROVE FALSE
        <3>1. n * (r + 1) <= n * 2
            BY ONLY <2>1, <2>2, n \in Nat
        <3> QED BY ONLY <1>1, <2>1, <3>1, n \in Nat
    <2> QED BY <2>1, <2>2
<1> HIDE DEF r
<1>3. z \in Nat /\ z >= x + x
    <2>1. x * r >= x * 2 /\ x * r \in Nat
        BY ONLY <1>2, x \in Nat
    <2> QED BY <2>1
<1> HIDE DEF z
<1>4. z \div (x + x) >= 1
    BY <1>3
<1> QED BY <1>4 DEF z, r, y

(***************************************************************************)
(* A partial withdrawal from the pool yields at most its percentage of     *)
(* each denom of the position, although tokens and coins are both rounded. *)
(***************************************************************************)
LEMMA PartialWithdrawal ==
    ASSUME Unit \in Nat \ {0}, NEW pl \in Poolers, NEW pct \in Nat, pct < Unit, pl.lp # 0,
           NEW d \in Denoms
    PROVE  Withdrawn(pl, pct)[d] * Unit <= pl.pos[d] * pct
<1>1. pl.lp \in Nat \ {0} /\ pl.pos[d] \in Nat
    BY DEF Poolers, Amounts
<1>2. Withdrawn(pl, pct)[d] = (pl.pos[d] * ((pl.lp * pct) \div Unit)) \div pl.lp
    BY <1>1 DEF Withdrawn, Redeemed
<1> QED BY <1>1, <1>2, RedeemedPart
=============================================================================
