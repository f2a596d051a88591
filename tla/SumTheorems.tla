------------------------------ MODULE SumTheorems ------------------------------
(***************************************************************************)
(* Sums over finite sets, for proofs.  A sum of naturals is the number of  *)
(* its units, so that what is known of cardinalities can be said of sums.  *)
(* Induction is over sets of sets that are closed under adding an element: *)
(* it needs no operator parameter.                                         *)
(***************************************************************************)
EXTENDS Integers, FiniteSetsExt, FiniteSetTheorems, WellFoundedInduction, TLAPS

\* What holds of the empty set, and of a set if it holds of the set without any
\* one of its elements, holds of every finite set: a smallest exception has no
\* exception below it.
LEMMA FiniteSetDescent ==
  ASSUME NEW S, IsFiniteSet(S), NEW Good, {} \in Good,
         \A T \in SUBSET S : T # {} /\ (\A x \in T : T \ {x} \in Good) => T \in Good
  PROVE  S \in Good
<1> DEFINE Bad == {T \in SUBSET S : T \notin Good}
<1> SUFFICES ASSUME Bad # {} PROVE FALSE
  OBVIOUS
<1>1. Bad \subseteq FiniteSubsetsOf(S)
  BY FS_FiniteSubsetsOfFinite
<1>2. PICK T \in Bad : \A U \in Bad : ~ (<<U, T>> \in StrictSubsetOrdering(S))
  <2> HIDE DEF Bad
  <2> QED BY <1>1, FS_StrictSubsetOrderingWellFounded, WFMin
<1>3. PICK x \in T : T \ {x} \notin Good
  BY <1>2
<1>4. T \ {x} \in Bad
  BY <1>2, <1>3
<1>5. <<T \ {x}, T>> \in StrictSubsetOrdering(S)
  BY <1>2, <1>3 DEF StrictSubsetOrdering
<1> QED
  BY <1>2, <1>4, <1>5

LEMMA FiniteSetInduction ==
  ASSUME NEW S, IsFiniteSet(S), NEW Good, {} \in Good,
         \A T \in SUBSET S : \A x \in T : T \ {x} \in Good => T \in Good
  PROVE  S \in Good
  BY FiniteSetDescent

\* The same for the naturals.
LEMMA CountingUp ==
  ASSUME NEW Good, 0 \in Good, \A n \in Nat : n \in Good => n + 1 \in Good, NEW n \in Nat
  PROVE  n \in Good
<1> DEFINE Full == {T \in SUBSET (1..n) : Cardinality(T) \in Good}
<1>1. IsFiniteSet(1..n) /\ Cardinality(1..n) = n
  BY FS_Interval
<1>2. {} \in Full
  BY FS_EmptySet
<1>3. ASSUME NEW T \in SUBSET (1..n), NEW x \in T, T \ {x} \in Full PROVE T \in Full
  <2>1. IsFiniteSet(T) /\ Cardinality(T) \in Nat
    BY <1>1, FS_Subset, FS_CardinalityType
  <2>2. Cardinality(T \ {x}) = Cardinality(T) - 1 /\ Cardinality(T \ {x}) \in Nat
    BY <2>1, FS_RemoveElement, FS_CardinalityType
  <2> QED
    BY <1>3, <2>1, <2>2
<1>4. 1..n \in Full
  <2> HIDE DEF Full
  <2> QED BY <1>1, <1>2, <1>3, FiniteSetInduction
<1> QED
  BY <1>1, <1>4

\* Two sets apart.
LEMMA CountOfBoth ==
  ASSUME NEW S, NEW T, IsFiniteSet(S), IsFiniteSet(T), S \cap T = {}
  PROVE  Cardinality(S \cup T) = Cardinality(S) + Cardinality(T)
<1>1. Cardinality(S \cup T) = Cardinality(S) + Cardinality(T) - Cardinality(S \cap T)
  BY FS_Union
<1>2. Cardinality(S \cap T) = 0
  BY FS_EmptySet
<1>3. Cardinality(S) \in Nat /\ Cardinality(T) \in Nat
  BY FS_CardinalityType
<1> QED
  BY <1>1, <1>2, <1>3

-----------------------------------------------------------------------------
\* The units of the values that f has on S: f[x] of them for each x.
Units(f, S) == {u \in S \X (Nat \ {0}) : u[2] <= f[u[1]]}
Total(f, S) == Cardinality(Units(f, S))

\* The units of one element.
LEMMA UnitsOfOne ==
  ASSUME NEW f, NEW x, f[x] \in Nat
  PROVE  IsFiniteSet(Units(f, {x})) /\ Cardinality(Units(f, {x})) = f[x]
<1> DEFINE one == [n \in 1..f[x] |-> <<x, n>>]
<1>1. IsFiniteSet(1..f[x]) /\ Cardinality(1..f[x]) = f[x]
  BY FS_Interval
<1>2. one \in Bijection(1..f[x], Units(f, {x}))
  <2>1. one \in [1..f[x] -> Units(f, {x})] /\ \A m, n \in 1..f[x] : one[m] = one[n] => m = n
    BY DEF Units
  <2>2. \A u \in Units(f, {x}) : \E n \in 1..f[x] : one[n] = u
    BY DEF Units
  <2> HIDE DEF one
  <2> QED
    BY <2>1, <2>2 DEF Bijection, Injection, Surjection, IsInjective
<1> QED
  BY <1>1, <1>2, FS_Bijection DEF ExistsBijection

\* Two disjoint sets have no unit in common, and together no others.
LEMMA UnitsAdd ==
  ASSUME NEW f, NEW S, NEW T, S \cap T = {},
         IsFiniteSet(Units(f, S)), IsFiniteSet(Units(f, T))
  PROVE  IsFiniteSet(Units(f, S \cup T)) /\ Total(f, S \cup T) = Total(f, S) + Total(f, T)
<1>1. Units(f, S \cup T) = Units(f, S) \cup Units(f, T) /\ Units(f, S) \cap Units(f, T) = {}
  BY DEF Units
<1>2. Cardinality({}) = 0 /\ Total(f, S) \in Nat /\ Total(f, T) \in Nat
  BY FS_EmptySet, FS_CardinalityType DEF Total
<1>3. /\ IsFiniteSet(Units(f, S) \cup Units(f, T))
      /\ Cardinality(Units(f, S) \cup Units(f, T))
           = Total(f, S) + Total(f, T) - Cardinality(Units(f, S) \cap Units(f, T))
  BY FS_Union DEF Total
<1>4. Total(f, S \cup T) = Total(f, S) + Total(f, T) - 0
  BY <1>1, <1>2, <1>3 DEF Total
<1>5. IsFiniteSet(Units(f, S \cup T))
  BY <1>1, <1>3, Zenon
<1>6. Total(f, S \cup T) = Total(f, S) + Total(f, T)
  BY <1>2, <1>4
<1> QED
  BY <1>5, <1>6

LEMMA UnitsFinite ==
  ASSUME NEW S, IsFiniteSet(S), NEW f, \A x \in S : f[x] \in Nat
  PROVE  IsFiniteSet(Units(f, S)) /\ Total(f, S) \in Nat
<1> DEFINE Good == {T \in SUBSET S : IsFiniteSet(Units(f, T))}
<1>1. {} \in Good
  BY FS_EmptySet DEF Units
<1>2. ASSUME NEW T \in SUBSET S, NEW x \in T, T \ {x} \in Good PROVE T \in Good
  <2>1. IsFiniteSet(Units(f, {x}))
    BY UnitsOfOne
  <2>2. (T \ {x}) \cup {x} = T /\ (T \ {x}) \cap {x} = {}
    OBVIOUS
  <2>3. IsFiniteSet(Units(f, (T \ {x}) \cup {x}))
    BY <1>2, <2>1, <2>2, UnitsAdd
  <2> QED
    BY <2>2, <2>3
<1>3. S \in Good
  <2> HIDE DEF Good
  <2> QED BY <1>1, <1>2, FiniteSetInduction
<1> QED
  BY <1>3, FS_CardinalityType DEF Total

LEMMA TotalEmpty == ASSUME NEW f PROVE Total(f, {}) = 0
  BY FS_EmptySet DEF Total, Units

\* One element less, one value less.
LEMMA TotalWithout ==
  ASSUME NEW S, IsFiniteSet(S), NEW f, \A y \in S : f[y] \in Nat, NEW x \in S
  PROVE  Total(f, S) = f[x] + Total(f, S \ {x})
<1>1. IsFiniteSet(S \ {x}) /\ IsFiniteSet({x})
  BY FS_RemoveElement, FS_Singleton
<1>2. IsFiniteSet(Units(f, S \ {x})) /\ Total(f, S \ {x}) \in Nat
  BY <1>1, UnitsFinite
<1>3. IsFiniteSet(Units(f, {x})) /\ Total(f, {x}) = f[x]
  BY UnitsOfOne DEF Total
<1>4. S = {x} \cup (S \ {x}) /\ {x} \cap (S \ {x}) = {}
  OBVIOUS
<1>5. Total(f, {x} \cup (S \ {x})) = Total(f, {x}) + Total(f, S \ {x})
  BY <1>2, <1>3, <1>4, UnitsAdd
<1> QED
  BY <1>3, <1>4, <1>5

\* Totals depend on the values alone, and grow with them.
LEMMA TotalSame ==
  ASSUME NEW S, NEW f, NEW h, \A x \in S : f[x] = h[x]
  PROVE  Total(f, S) = Total(h, S)
<1>1. Units(f, S) = Units(h, S)
  BY DEF Units
<1> QED
  BY <1>1 DEF Total

LEMMA TotalGrows ==
  ASSUME NEW T, IsFiniteSet(T), NEW S \in SUBSET T, NEW f, NEW h,
         \A x \in S : f[x] \in Nat /\ f[x] <= h[x], \A x \in T : h[x] \in Nat
  PROVE  Total(f, S) <= Total(h, T)
<1>1. IsFiniteSet(Units(h, T))
  BY UnitsFinite
<1>2. Units(f, S) \subseteq Units(h, T)
  BY DEF Units
<1> QED
  BY <1>1, <1>2, FS_Subset DEF Total

LEMMA TotalGrowsAt ==
  ASSUME NEW T, IsFiniteSet(T), NEW S \in SUBSET T, NEW f, NEW h,
         \A x \in S : f[x] \in Nat /\ f[x] <= h[x], \A x \in T : h[x] \in Nat,
         NEW x \in T, h[x] > 0, x \in S => f[x] < h[x]
  PROVE  Total(f, S) + 1 <= Total(h, T)
<1> DEFINE u == <<x, h[x]>>
<1>1. IsFiniteSet(Units(h, T)) /\ IsFiniteSet(Units(f, S))
  BY FS_Subset, UnitsFinite
<1>2. Units(f, S) \subseteq Units(h, T)
  BY DEF Units
<1>3. u \in Units(h, T) /\ u \notin Units(f, S)
  BY DEF Units
<1> HIDE DEF u
<1>4. Cardinality(Units(f, S) \cup {u}) = Total(f, S) + 1
  BY <1>1, <1>3, FS_AddElement DEF Total
<1>5. Cardinality(Units(f, S) \cup {u}) <= Total(h, T)
  BY <1>1, <1>2, <1>3, FS_Subset DEF Total
<1> QED
  BY <1>4, <1>5

-----------------------------------------------------------------------------
\* Values may be negative: what is gained, less what is lost.
Gain(f, S) == [x \in S |-> IF f[x] > 0 THEN f[x] ELSE 0]
Loss(f, S) == [x \in S |-> IF f[x] < 0 THEN -f[x] ELSE 0]
Net(f, S)  == Total(Gain(f, S), S) - Total(Loss(f, S), S)

LEMMA NetParts ==
  ASSUME NEW S, IsFiniteSet(S), NEW f, \A x \in S : f[x] \in Int
  PROVE  /\ \A x \in S : Gain(f, S)[x] \in Nat /\ Loss(f, S)[x] \in Nat /\ Gain(f, S)[x] - Loss(f, S)[x] = f[x]
         /\ Total(Gain(f, S), S) \in Nat /\ Total(Loss(f, S), S) \in Nat
         /\ IsFiniteSet(Units(Gain(f, S), S)) /\ IsFiniteSet(Units(Loss(f, S), S))
         /\ Net(f, S) \in Int
<1>1. \A x \in S : Gain(f, S)[x] \in Nat /\ Loss(f, S)[x] \in Nat /\ Gain(f, S)[x] - Loss(f, S)[x] = f[x]
  BY DEF Gain, Loss
<1>2. /\ Total(Gain(f, S), S) \in Nat /\ IsFiniteSet(Units(Gain(f, S), S))
  BY <1>1, UnitsFinite
<1>3. /\ Total(Loss(f, S), S) \in Nat /\ IsFiniteSet(Units(Loss(f, S), S))
  BY <1>1, UnitsFinite
<1> QED
  BY <1>1, <1>2, <1>3 DEF Net

LEMMA NetEmpty == ASSUME NEW f PROVE Net(f, {}) = 0
  BY TotalEmpty DEF Net

LEMMA NetSame ==
  ASSUME NEW S, NEW f, NEW h, \A x \in S : f[x] = h[x]
  PROVE  Net(f, S) = Net(h, S)
<1>1. Gain(f, S) = Gain(h, S) /\ Loss(f, S) = Loss(h, S)
  BY DEF Gain, Loss
<1> QED
  BY <1>1 DEF Net

LEMMA NetAdds ==
  ASSUME NEW S, NEW T, IsFiniteSet(S), IsFiniteSet(T), S \cap T = {},
         NEW f, \A x \in S \cup T : f[x] \in Int
  PROVE  Net(f, S \cup T) = Net(f, S) + Net(f, T)
<1> DEFINE U == S \cup T
           g == Gain(f, U)
           l == Loss(f, U)
<1>1. IsFiniteSet(U)
  BY FS_Union
<1>2. \A x \in U : g[x] \in Nat /\ l[x] \in Nat
  BY <1>1, NetParts
<1>3. /\ Total(g, S) = Total(Gain(f, S), S) /\ Total(g, T) = Total(Gain(f, T), T)
      /\ Total(l, S) = Total(Loss(f, S), S) /\ Total(l, T) = Total(Loss(f, T), T)
  <2>1. /\ \A x \in S : g[x] = Gain(f, S)[x] /\ l[x] = Loss(f, S)[x]
        /\ \A x \in T : g[x] = Gain(f, T)[x] /\ l[x] = Loss(f, T)[x]
    BY DEF Gain, Loss
  <2> HIDE DEF g, l
  <2> QED
    BY <2>1, TotalSame
<1> HIDE DEF g, l
<1>4. Total(g, S \cup T) = Total(g, S) + Total(g, T)
  BY <1>2, UnitsFinite, UnitsAdd
<1>5. Total(l, S \cup T) = Total(l, S) + Total(l, T)
  BY <1>2, UnitsFinite, UnitsAdd
<1>6. Total(g, S) \in Nat /\ Total(g, T) \in Nat /\ Total(l, S) \in Nat /\ Total(l, T) \in Nat
  BY <1>2, UnitsFinite
<1>7. Net(f, U) = Total(g, U) - Total(l, U)
  BY DEF Net, g, l
<1>8. /\ Net(f, S) = Total(g, S) - Total(l, S) /\ Net(f, T) = Total(g, T) - Total(l, T)
  BY <1>3 DEF Net
<1> QED
  BY <1>4, <1>5, <1>6, <1>7, <1>8

LEMMA NetOfNaturals ==
  ASSUME NEW S, IsFiniteSet(S), NEW f, \A x \in S : f[x] \in Nat
  PROVE  Net(f, S) = Total(f, S)
<1>1. \A x \in S : Gain(f, S)[x] = f[x] /\ Loss(f, S)[x] = 0
  BY DEF Gain, Loss
<1>2. Total(Gain(f, S), S) = Total(f, S)
  BY <1>1, TotalSame
<1>3. Units(Loss(f, S), S) = {}
  BY <1>1 DEF Units
<1>4. Total(Loss(f, S), S) = 0
  BY <1>3, FS_EmptySet DEF Total
<1>5. Total(f, S) \in Nat
  BY UnitsFinite
<1> QED
  BY <1>2, <1>4, <1>5 DEF Net

LEMMA NetOfOne == ASSUME NEW f, NEW x, f[x] \in Int PROVE Net(f, {x}) = f[x]
<1> DEFINE g == Gain(f, {x})
           l == Loss(f, {x})
<1>1. g[x] \in Nat /\ l[x] \in Nat /\ g[x] - l[x] = f[x]
  BY DEF Gain, Loss
<1>2. Net(f, {x}) = Total(g, {x}) - Total(l, {x})
  BY DEF Net
<1> HIDE DEF g, l
<1>3. Total(g, {x}) = g[x] /\ Total(l, {x}) = l[x]
  BY <1>1, UnitsOfOne DEF Total
<1> QED
  BY <1>1, <1>2, <1>3

LEMMA NetWithout ==
  ASSUME NEW S, IsFiniteSet(S), NEW f, \A y \in S : f[y] \in Int, NEW x \in S
  PROVE  Net(f, S) = f[x] + Net(f, S \ {x})
<1>1. /\ IsFiniteSet(S \ {x}) /\ IsFiniteSet({x})
      /\ S = {x} \cup (S \ {x}) /\ {x} \cap (S \ {x}) = {}
  <2>1. IsFiniteSet(S \ {x}) /\ IsFiniteSet({x})
    BY FS_RemoveElement, FS_Singleton
  <2> QED
    BY <2>1
<1>2. Net(f, {x}) = f[x]
  BY NetOfOne
<1>3. Net(f, {x} \cup (S \ {x})) = Net(f, {x}) + Net(f, S \ {x})
  BY <1>1, NetAdds
<1> QED
  BY <1>1, <1>2, <1>3

\* The same value for every element.
LEMMA NetOfEqual ==
  ASSUME NEW S, IsFiniteSet(S), NEW c \in Int, NEW f, \A x \in S : f[x] = c
  PROVE  Net(f, S) = Cardinality(S) * c
<1> DEFINE Good == {T \in SUBSET S : Net(f, T) = Cardinality(T) * c}
<1>1. {} \in Good
  <2>1. 0 * c = 0
    OBVIOUS
  <2> QED
    BY <2>1, NetEmpty, FS_EmptySet
<1>2. ASSUME NEW T \in SUBSET S, NEW x \in T, T \ {x} \in Good PROVE T \in Good
  <2>1. IsFiniteSet(T) /\ Cardinality(T) \in Nat
    BY FS_Subset, FS_CardinalityType
  <2>2. Cardinality(T \ {x}) = Cardinality(T) - 1
    BY <2>1, FS_RemoveElement
  <2>3. Net(f, T) = c + (Cardinality(T) - 1) * c
    BY <1>2, <2>1, <2>2, NetWithout
  <2>4. \A n \in Nat : c + (n - 1) * c = n * c
    OBVIOUS
  <2> QED
    BY <2>1, <2>3, <2>4
<1>3. S \in Good
  <2> HIDE DEF Good
  <2> QED
    BY <1>1, <1>2, FiniteSetInduction
<1> QED
  BY <1>3

\* Adding up by groups: as many times the value of a group as it has members.
KeysOf(S, key)     == {key[s] : s \in S}
HavingKey(S, key, k) == {s \in S : key[s] = k}

LEMMA NetByGroups ==
  ASSUME NEW S, IsFiniteSet(S), NEW key,
         NEW v, \A k \in KeysOf(S, key) : v[k] \in Int,
         NEW f, \A k \in KeysOf(S, key) : f[k] = Cardinality(HavingKey(S, key, k)) * v[k],
         NEW g, \A s \in S : g[s] = v[key[s]]
  PROVE  IsFiniteSet(KeysOf(S, key)) /\ Net(f, KeysOf(S, key)) = Net(g, S)
<1> DEFINE K == KeysOf(S, key)
           Of(L) == {s \in S : key[s] \in L}
           Good == {L \in SUBSET K : Net(f, L) = Net(g, Of(L))}
<1>1. IsFiniteSet(K)
  <2>1. [s \in S |-> key[s]] \in Surjection(S, K)
    BY DEF Surjection, KeysOf
  <2> QED
    BY <2>1, FS_Surjection
<1>2. \A L : IsFiniteSet(Of(L)) /\ Of(L) \subseteq S
  BY FS_Subset
<1>3. /\ \A s \in S : g[s] \in Int
      /\ \A k \in K : f[k] \in Int
  <2>1. \A k \in K : HavingKey(S, key, k) \subseteq S
    BY DEF HavingKey
  <2>2. \A k \in K : Cardinality(HavingKey(S, key, k)) \in Nat
    BY <2>1, FS_Subset, FS_CardinalityType
  <2>3. \A n \in Nat : \A c \in Int : n * c \in Int
    OBVIOUS
  <2> QED
    BY <2>2, <2>3 DEF KeysOf
<1>4. {} \in Good
  <2>1. Of({}) = {}
    OBVIOUS
  <2> HIDE DEF Of
  <2> QED
    BY <2>1, NetEmpty
<1>5. ASSUME NEW L \in SUBSET K, NEW k \in L, L \ {k} \in Good PROVE L \in Good
  <2>1. IsFiniteSet(L)
    BY <1>1, FS_Subset
  <2>2. Net(f, L) = f[k] + Net(f, L \ {k})
    BY <1>3, <2>1, NetWithout
  <2>3. Of(L) = Of({k}) \cup Of(L \ {k}) /\ Of({k}) \cap Of(L \ {k}) = {}
    OBVIOUS
  <2>4. Net(g, Of(L)) = Net(g, Of({k})) + Net(g, Of(L \ {k}))
    <3>1. \A s \in Of({k}) \cup Of(L \ {k}) : g[s] \in Int
      BY <1>3
    <3> HIDE DEF Of
    <3>2. Net(g, Of({k}) \cup Of(L \ {k})) = Net(g, Of({k})) + Net(g, Of(L \ {k}))
      BY <1>2, <2>3, <3>1, NetAdds
    <3> QED
      BY <2>3, <3>2
  <2>5. Net(g, Of({k})) = f[k]
    <3>1. Of({k}) = HavingKey(S, key, k) /\ \A s \in Of({k}) : g[s] = v[k]
      BY DEF HavingKey
    <3>2. f[k] = Cardinality(Of({k})) * v[k] /\ v[k] \in Int
      BY <3>1
    <3> HIDE DEF Of
    <3> QED
      BY <1>2, <3>1, <3>2, NetOfEqual
  <2> QED
    BY <1>5, <2>2, <2>4, <2>5
<1>6. K \in Good
  <2> HIDE DEF Good, Of
  <2> QED
    BY <1>1, <1>4, <1>5, FiniteSetInduction
<1>7. Of(K) = S
  BY DEF KeysOf
<1> QED
  BY <1>1, <1>6, <1>7

\* A recursive sum, as the folds of the community modules compute it, is the
\* net of its values: its equation has one solution.
Summed(sum, f, S) ==
  sum = [T \in SUBSET S |-> IF T = {} THEN 0
                            ELSE f[CHOOSE x \in T : TRUE] + sum[T \ {CHOOSE x \in T : TRUE}]]

LEMMA NetSolves ==
  ASSUME NEW S, IsFiniteSet(S), NEW f, \A x \in S : f[x] \in Int
  PROVE  Summed([T \in SUBSET S |-> Net(f, T)], f, S)
<1> DEFINE sum == [T \in SUBSET S |-> Net(f, T)]
<1>1. sum[{}] = 0
  BY NetEmpty
<1>2. ASSUME NEW T \in SUBSET S, T # {}
      PROVE  sum[T] = f[CHOOSE x \in T : TRUE] + sum[T \ {CHOOSE x \in T : TRUE}]
  <2>1. PICK x : x = CHOOSE y \in T : TRUE
    OBVIOUS
  <2>2. x \in T /\ IsFiniteSet(T)
    BY <1>2, <2>1, FS_Subset
  <2>3. Net(f, T) = f[x] + Net(f, T \ {x})
    BY <2>2, NetWithout
  <2> QED
    BY <2>1, <2>2, <2>3
<1>3. sum = [T \in SUBSET S |-> IF T = {} THEN 0
                                ELSE f[CHOOSE x \in T : TRUE] + sum[T \ {CHOOSE x \in T : TRUE}]]
  BY <1>1, <1>2
<1> QED
  BY <1>3 DEF Summed

LEMMA SummedIsNet ==
  ASSUME NEW S, IsFiniteSet(S), NEW f, \A x \in S : f[x] \in Int,
         NEW sum, Summed(sum, f, S)
  PROVE  sum[S] = Net(f, S)
<1> DEFINE Good == {T \in SUBSET S : sum[T] = Net(f, T)}
<1>1. {} \in Good
  BY NetEmpty DEF Summed
<1>2. ASSUME NEW T \in SUBSET S, \A x \in T : T \ {x} \in Good, T # {} PROVE T \in Good
  <2>1. PICK x : x = CHOOSE y \in T : TRUE
    OBVIOUS
  <2>2. x \in T /\ IsFiniteSet(T)
    BY <1>2, <2>1, FS_Subset
  <2>3. Net(f, T) = f[x] + Net(f, T \ {x})
    BY <2>2, NetWithout
  <2>4. sum[T] = f[x] + sum[T \ {x}]
    BY <1>2, <2>1 DEF Summed
  <2> QED
    BY <1>2, <2>2, <2>3, <2>4
<1>3. S \in Good
  <2> HIDE DEF Good
  <2> QED BY <1>1, <1>2, FiniteSetDescent
<1> QED
  BY <1>3

\* What MapThenSumSet computes, for values given by a function.
LEMMA SumIsNet ==
  ASSUME NEW S, IsFiniteSet(S), NEW f, \A x \in S : f[x] \in Int
  PROVE  MapThenSumSet(LAMBDA x : f[x], S) = Net(f, S)
<1>1. \E sum : Summed(sum, f, S) /\ MapThenSumSet(LAMBDA x : f[x], S) = sum[S]
  <2>1. PICK g : Summed(g, f, S)
    BY NetSolves
  <2> QED
    BY <2>1 DEF Summed, MapThenSumSet, MapThenFoldSet
<1> QED
  BY <1>1, SummedIsNet
=============================================================================
