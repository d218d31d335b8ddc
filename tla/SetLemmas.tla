----------------------------- MODULE SetLemmas ------------------------------
(***************************************************************************)
(* What the proofs need of Min, Max and SumFunctionOnSet, which are        *)
(* defined by CHOOSE and by recursion over sets.  Facts about all finite   *)
(* sets rest on the numbers' well-foundedness, applied to the least number *)
(* or to a smallest set for which a claim would fail.                      *)
(***************************************************************************)
EXTENDS Integers, FiniteSetsExt, Functions, FiniteSetTheorems, WellFoundedInduction,
        TLAPS

-----------------------------------------------------------------------------
(* The least and the greatest of a set of numbers.                         *)
LEMMA LeastElement ==
    ASSUME NEW T, T \subseteq Nat, T # {}
    PROVE  Min(T) \in T /\ \A y \in T : Min(T) <= y
<1>1. IsWellFoundedOn({ss \in Nat \X Nat : ss[1] < ss[2]}, Nat)
  BY NatLessThanWellFounded, SMT DEF OpToRel
<1>2. PICK x \in T : \A y \in T : ~ (<<y, x>> \in {ss \in Nat \X Nat : ss[1] < ss[2]})
  BY <1>1, WFMin, Zenon
<1>3. ASSUME NEW y \in T PROVE x <= y
  <2>1. <<y, x>> \in Nat \X Nat /\ x \in Nat /\ y \in Nat
    OBVIOUS
  <2>2. ~(y < x)
    BY <1>2, <2>1
  <2>. QED  BY <2>1, <2>2
<1>. QED  BY <1>3 DEF Min

LEMMA GreatestElement ==
    ASSUME NEW bound \in Nat, NEW T, T \subseteq 0..bound, T # {}
    PROVE  Max(T) \in T /\ \A y \in T : Max(T) >= y
<1>. DEFINE U == {bound - x : x \in T}
<1>1. U \subseteq Nat /\ U # {}
  <2>1. \A x \in T : bound - x \in Nat
    OBVIOUS
  <2>. QED  BY <2>1
<1>. HIDE DEF U
<1>2. Min(U) \in U /\ \A y \in U : Min(U) <= y
  BY <1>1, LeastElement
<1>3. PICK x \in T : Min(U) = bound - x
  BY <1>2 DEF U
<1>4. \A y \in T : x >= y
  <2>1. \A y \in T : bound - x <= bound - y
    BY <1>2, <1>3 DEF U
  <2>. QED  BY <2>1
<1>. QED  BY <1>4 DEF Max

LEMMA OfTwo ==
    ASSUME NEW a \in Int, NEW b \in Int
    PROVE  /\ Max({a, b}) \in {a, b} /\ Max({a, b}) >= a /\ Max({a, b}) >= b
           /\ Min({a, b}) \in {a, b} /\ Min({a, b}) <= a /\ Min({a, b}) <= b
<1>1. \E x \in {a, b} : \A y \in {a, b} : x >= y
  BY \A y \in {a, b} : y \in Int
<1>2. \E x \in {a, b} : \A y \in {a, b} : x =< y
  BY \A y \in {a, b} : y \in Int
<1>3. Max({a, b}) \in {a, b} /\ \A y \in {a, b} : Max({a, b}) >= y
  BY <1>1, Zenon DEF Max
<1>4. Min({a, b}) \in {a, b} /\ \A y \in {a, b} : Min({a, b}) =< y
  BY <1>2, Zenon DEF Min
<1>. QED  BY <1>3, <1>4

-----------------------------------------------------------------------------
(* Sums.  The sum over a set is the value, at the set, of a function that  *)
(* takes one element out of each of its subsets.                           *)
Some(s) == CHOOSE x \in s : TRUE

Summing(f, S, g) ==
    g = [s \in SUBSET S |-> IF s = {} THEN 0 ELSE f[Some(s)] + g[s \ {Some(s)}]]

LEMMA SumIsValue ==
    ASSUME NEW f, NEW S
    PROVE  SumFunctionOnSet(f, S) = (CHOOSE g : Summing(f, S, g))[S]
BY DEF SumFunctionOnSet, FoldFunctionOnSet, MapThenFoldSet, Summing, Some

LEMMA OneTakenOut ==
    ASSUME NEW S, IsFiniteSet(S), NEW s \in SUBSET S, s # {}
    PROVE  /\ Some(s) \in S /\ s \ {Some(s)} \in SUBSET S
           /\ Cardinality(s) \in Nat /\ Cardinality(s \ {Some(s)}) \in Nat
           /\ Cardinality(s \ {Some(s)}) = Cardinality(s) - 1
<1>1. Some(s) \in s
  BY DEF Some
<1>2. IsFiniteSet(s) /\ Cardinality(s) \in Nat
  BY FS_Subset, FS_CardinalityType
<1>3. IsFiniteSet(s \ {Some(s)}) /\ Cardinality(s \ {Some(s)}) = Cardinality(s) - 1
  BY <1>1, <1>2, FS_RemoveElement
<1>4. Cardinality(s \ {Some(s)}) \in Nat
  BY <1>3, FS_CardinalityType
<1>. QED  BY <1>1, <1>2, <1>3, <1>4

LEMMA SumExists ==
    ASSUME NEW f, NEW S, IsFiniteSet(S)
    PROVE  \E g : Summing(f, S, g)
<1>. DEFINE D(n) == {s \in SUBSET S : Cardinality(s) <= n}
            Part(n, g) ==
                g = [s \in D(n) |-> IF s = {} THEN 0 ELSE f[Some(s)] + g[s \ {Some(s)}]]
            Bad == {n \in Nat : ~ \E g : Part(n, g)}
<1>1. Bad = {}
  <2>1. SUFFICES ASSUME Bad # {} PROVE FALSE
    OBVIOUS
  <2>2. PICK n \in Bad : \A m \in Bad : n <= m
    BY <2>1, LeastElement
  <2>3. n # 0
    <3>1. D(0) = {{}}
      <4>1. \A s \in SUBSET S : Cardinality(s) \in Nat /\ (Cardinality(s) = 0 <=> s = {})
        BY FS_Subset, FS_CardinalityType, FS_EmptySet
      <4>. QED  BY <4>1
    <3>2. Part(0, [s \in {{}} |-> 0])
      BY <3>1
    <3>. QED  BY <2>2, <3>2
  <2>4. PICK g : Part(n - 1, g)
    <3>1. n \in Nat /\ n - 1 \in Nat /\ ~(n <= n - 1)
      BY <2>2, <2>3
    <3>2. n - 1 \notin Bad
      BY <2>2, <3>1
    <3>. HIDE DEF Part
    <3>. QED  BY <3>1, <3>2
  <2>. DEFINE h == [s \in D(n) |-> IF s = {} THEN 0 ELSE f[Some(s)] + g[s \ {Some(s)}]]
  <2>5. ASSUME NEW s \in D(n), s # {}
        PROVE  s \ {Some(s)} \in D(n) /\ h[s \ {Some(s)}] = g[s \ {Some(s)}]
    <3>. DEFINE t == s \ {Some(s)}
    <3>1. t \in SUBSET S /\ Cardinality(t) <= n - 1 /\ Cardinality(t) <= n
      BY <2>2, <2>5, OneTakenOut
    <3>2. t \in D(n - 1) /\ t \in D(n)
      BY <3>1
    <3>. HIDE DEF t, D
    <3>3. g[t] = IF t = {} THEN 0 ELSE f[Some(t)] + g[t \ {Some(t)}]
      BY <2>4, <3>2
    <3>4. h[t] = IF t = {} THEN 0 ELSE f[Some(t)] + g[t \ {Some(t)}]
      BY <3>2
    <3>. QED  BY <3>2, <3>3, <3>4 DEF t
  <2>6. Part(n, h)
    <3>. HIDE DEF D
    <3>1. \A s \in D(n) : (IF s = {} THEN 0 ELSE f[Some(s)] + g[s \ {Some(s)}])
                          = (IF s = {} THEN 0 ELSE f[Some(s)] + h[s \ {Some(s)}])
      BY <2>5
    <3>. QED  BY <3>1
  <2>. QED  BY <2>2, <2>6
<1>2. Cardinality(S) \in Nat /\ \A s \in SUBSET S : Cardinality(s) <= Cardinality(S)
  BY FS_Subset, FS_CardinalityType
<1>3. D(Cardinality(S)) = SUBSET S
  BY <1>2
<1>4. PICK g : Part(Cardinality(S), g)
  <2>. HIDE DEF Part
  <2>. QED  BY <1>1, <1>2
<1>5. Summing(f, S, g)
  <2>. HIDE DEF D
  <2>. QED  BY <1>3, <1>4 DEF Summing
<1>. QED  BY <1>5

(* Of the sets for which a claim fails there is a smallest.                *)
LEMMA SmallestSet ==
    ASSUME NEW S, IsFiniteSet(S), NEW Bad, Bad \subseteq SUBSET S, Bad # {}
    PROVE  \E t \in Bad : \A u \in SUBSET S : Cardinality(u) < Cardinality(t) => u \notin Bad
<1>. DEFINE Counts == {Cardinality(t) : t \in Bad}
<1>1. \A t \in SUBSET S : Cardinality(t) \in Nat
  BY FS_Subset, FS_CardinalityType
<1>2. Counts \subseteq Nat /\ Counts # {}
  BY <1>1
<1>3. PICK n \in Counts : \A m \in Counts : n <= m
  <2>. HIDE DEF Counts
  <2>. QED  BY <1>2, LeastElement
<1>4. PICK t \in Bad : \A u \in Bad : Cardinality(t) <= Cardinality(u)
  BY <1>3
<1>. QED  BY <1>1, <1>4

(* Any element can be taken out, not only the chosen one.                  *)
LEMMA SummingOneOut ==
    ASSUME NEW S, IsFiniteSet(S), NEW f, \A x \in S : f[x] \in Nat,
           NEW g, Summing(f, S, g), NEW s \in SUBSET S
    PROVE  g[s] \in Nat /\ \A x \in s : g[s] = f[x] + g[s \ {x}]
<1>. DEFINE Fine(t) == g[t] \in Nat /\ \A x \in t : g[t] = f[x] + g[t \ {x}]
            Bad == {t \in SUBSET S : ~Fine(t)}
<1>. SUFFICES ASSUME Bad # {} PROVE FALSE
  OBVIOUS
<1>1. PICK t \in Bad : \A u \in SUBSET S : Cardinality(u) < Cardinality(t) => u \notin Bad
  <2>1. Bad \subseteq SUBSET S
    OBVIOUS
  <2>. HIDE DEF Bad
  <2>. QED  BY <2>1, SmallestSet
<1>2. t \in SUBSET S /\ ~Fine(t)
  OBVIOUS
<1>3. \A u \in SUBSET S : Cardinality(u) < Cardinality(t) => Fine(u)
  BY <1>1
<1>. HIDE DEF Bad, Fine
<1>4. g[t] = IF t = {} THEN 0 ELSE f[Some(t)] + g[t \ {Some(t)}]
  BY <1>2 DEF Summing
<1>5. t # {}
  BY <1>2, <1>4 DEF Fine
<1>6. ASSUME NEW x \in t
      PROVE  t \ {x} \in SUBSET S /\ Cardinality(t \ {x}) < Cardinality(t)
  <2>1. IsFiniteSet(t) /\ Cardinality(t) \in Nat
    BY <1>2, FS_Subset, FS_CardinalityType
  <2>2. IsFiniteSet(t \ {x}) /\ Cardinality(t \ {x}) = Cardinality(t) - 1
    BY <2>1, FS_RemoveElement
  <2>. QED  BY <1>2, <2>1, <2>2
<1>7. \A x \in t : Fine(t \ {x})
  BY <1>3, <1>6
<1>. DEFINE y == Some(t)
<1>8. y \in t /\ g[t] = f[y] + g[t \ {y}]
  BY <1>4, <1>5 DEF Some
<1>. HIDE DEF y
<1>9. f[y] \in Nat /\ g[t \ {y}] \in Nat
  BY <1>2, <1>7, <1>8 DEF Fine
<1>10. ASSUME NEW x \in t PROVE g[t] = f[x] + g[t \ {x}]
  <2>1. CASE x = y
    BY <1>8, <2>1
  <2>2. CASE x # y
    <3>1. g[t \ {y}] = f[x] + g[(t \ {y}) \ {x}]
      BY <1>7, <1>8, <2>2 DEF Fine
    <3>2. g[t \ {x}] = f[y] + g[(t \ {x}) \ {y}]
      BY <1>7, <1>8, <2>2 DEF Fine
    <3>. DEFINE z == (t \ {y}) \ {x}
    <3>3. (t \ {x}) \ {y} = z
      OBVIOUS
    <3>4. f[x] \in Nat /\ g[z] \in Nat
      <4>1. z \in SUBSET S /\ Cardinality(z) < Cardinality(t)
        <5>1. t \ {y} \in SUBSET S /\ IsFiniteSet(t) /\ Cardinality(t) \in Nat
          BY <1>2, FS_Subset, FS_CardinalityType
        <5>2. /\ IsFiniteSet(t \ {y}) /\ Cardinality(t \ {y}) = Cardinality(t) - 1
              /\ Cardinality(t \ {y}) \in Nat
          BY <1>8, <5>1, FS_RemoveElement, FS_CardinalityType
        <5>3. x \in t \ {y}
          BY <2>2
        <5>4. Cardinality(z) = Cardinality(t \ {y}) - 1
          BY <5>2, <5>3, FS_RemoveElement
        <5>. QED  BY <5>1, <5>2, <5>4
      <4>. HIDE DEF z
      <4>2. Fine(z)
        BY <1>3, <4>1
      <4>. QED  BY <1>2, <4>2 DEF Fine
    <3>. HIDE DEF z
    <3>5. g[t] = f[y] + (f[x] + g[z]) /\ g[t \ {x}] = f[y] + g[z]
      BY <1>8, <3>1, <3>2, <3>3 DEF z
    <3>. QED  BY <1>9, <3>4, <3>5
  <2>. QED  BY <2>1, <2>2
<1>11. g[t] \in Nat
  BY <1>8, <1>9
<1>. QED  BY <1>2, <1>10, <1>11 DEF Fine

(* What the sum over a set is, does not depend on the rest.                *)
LEMMA SummingUnique ==
    ASSUME NEW S, IsFiniteSet(S), NEW T, NEW f, NEW h, \A x \in S : f[x] = h[x],
           NEW g, Summing(f, S, g), NEW k, Summing(h, T, k), S \subseteq T,
           NEW s \in SUBSET S
    PROVE  g[s] = k[s]
<1>. DEFINE Bad == {t \in SUBSET S : g[t] # k[t]}
<1>. SUFFICES ASSUME Bad # {} PROVE FALSE
  OBVIOUS
<1>1. PICK t \in Bad : \A u \in SUBSET S : Cardinality(u) < Cardinality(t) => u \notin Bad
  <2>1. Bad \subseteq SUBSET S
    OBVIOUS
  <2>. HIDE DEF Bad
  <2>. QED  BY <2>1, SmallestSet
<1>2. /\ t \in SUBSET S /\ t \in SUBSET T
      /\ g[t] = IF t = {} THEN 0 ELSE f[Some(t)] + g[t \ {Some(t)}]
      /\ k[t] = IF t = {} THEN 0 ELSE h[Some(t)] + k[t \ {Some(t)}]
  BY DEF Summing
<1>3. t # {}
  BY <1>2
<1>. DEFINE u == t \ {Some(t)}
<1>4. /\ u \in SUBSET S /\ Some(t) \in S /\ Cardinality(u) = Cardinality(t) - 1
      /\ Cardinality(u) \in Nat /\ Cardinality(t) \in Nat
  BY <1>2, <1>3, OneTakenOut
<1>. HIDE DEF u
<1>5. g[u] = k[u]
  <2>1. Cardinality(u) < Cardinality(t)
    BY <1>4
  <2>. QED  BY <1>1, <1>4, <2>1
<1>6. g[t] = f[Some(t)] + g[u] /\ k[t] = h[Some(t)] + k[u]
  BY <1>2, <1>3 DEF u
<1>. QED  BY <1>4, <1>5, <1>6

LEMMA SumOf ==
    ASSUME NEW S, IsFiniteSet(S), NEW f
    PROVE  \E g : Summing(f, S, g) /\ SumFunctionOnSet(f, S) = g[S]
BY SumExists, SumIsValue

(* The sum over a set and over a smaller one, of functions that agree.     *)
LEMMA SumOneOut ==
    ASSUME NEW S, IsFiniteSet(S), NEW f, \A x \in S : f[x] \in Nat,
           NEW h, NEW x \in S, \A y \in S \ {x} : h[y] = f[y]
    PROVE  /\ SumFunctionOnSet(h, S \ {x}) \in Nat
           /\ SumFunctionOnSet(f, S) = f[x] + SumFunctionOnSet(h, S \ {x})
<1>. DEFINE T == S \ {x}
<1>1. IsFiniteSet(T) /\ T \in SUBSET S /\ S \in SUBSET S /\ \A y \in T : h[y] = f[y]
  BY FS_Subset
<1>2. PICK g : Summing(f, S, g) /\ SumFunctionOnSet(f, S) = g[S]
  BY SumOf
<1>3. g[T] \in Nat /\ g[S] = f[x] + g[T]
  BY <1>1, <1>2, SummingOneOut
<1>. HIDE DEF T
<1>4. PICK k : Summing(h, T, k) /\ SumFunctionOnSet(h, T) = k[T]
  BY <1>1, SumOf
<1>5. k[T] = g[T]
  <2>1. T \in SUBSET T /\ T \subseteq S
    BY <1>1
  <2>. QED  BY <1>1, <1>2, <1>4, <2>1, SummingUnique
<1>. QED  BY <1>2, <1>3, <1>4, <1>5 DEF T

LEMMA SumEmpty == ASSUME NEW f PROVE SumFunctionOnSet(f, {}) = 0
<1>1. PICK g : Summing(f, {}, g) /\ SumFunctionOnSet(f, {}) = g[{}]
  BY SumOf, FS_EmptySet
<1>. QED  BY <1>1 DEF Summing

(* Sums of natural numbers are natural, ...                                *)
LEMMA SumNat ==
    ASSUME NEW S, IsFiniteSet(S), NEW f, \A x \in S : f[x] \in Nat
    PROVE  SumFunctionOnSet(f, S) \in Nat
<1>1. PICK g : Summing(f, S, g) /\ SumFunctionOnSet(f, S) = g[S]
  BY SumOf
<1>2. S \in SUBSET S
  OBVIOUS
<1>. QED  BY <1>1, <1>2, SummingOneOut

(* ... and more than 0 over a set of positive numbers that is not empty.   *)
LEMMA SumPositive ==
    ASSUME NEW S, IsFiniteSet(S), NEW f, \A x \in S : f[x] \in Nat \ {0}
    PROVE  SumFunctionOnSet(f, S) \in Nat /\ (S # {} => SumFunctionOnSet(f, S) > 0)
<1>1. SumFunctionOnSet(f, S) \in Nat
  BY SumNat
<1>2. ASSUME NEW x \in S PROVE SumFunctionOnSet(f, S) > 0
  <2>1. \A y \in S \ {x} : f[y] = f[y]
    OBVIOUS
  <2>2. \A y \in S : f[y] \in Nat
    OBVIOUS
  <2>3. /\ SumFunctionOnSet(f, S \ {x}) \in Nat
        /\ SumFunctionOnSet(f, S) = f[x] + SumFunctionOnSet(f, S \ {x})
    BY <2>1, <2>2, SumOneOut
  <2>. QED  BY <2>3
<1>. QED  BY <1>1, <1>2

LEMMA SumSame ==
    ASSUME NEW S, IsFiniteSet(S), NEW f, NEW h, \A x \in S : f[x] = h[x]
    PROVE  SumFunctionOnSet(f, S) = SumFunctionOnSet(h, S)
<1>1. PICK g : Summing(f, S, g) /\ SumFunctionOnSet(f, S) = g[S]
  BY SumOf
<1>2. PICK k : Summing(h, S, k) /\ SumFunctionOnSet(h, S) = k[S]
  BY SumOf
<1>3. S \in SUBSET S /\ S \subseteq S
  OBVIOUS
<1>. QED  BY <1>1, <1>2, <1>3, SummingUnique

(* Two functions that differ at one place.                                 *)
LEMMA SumChanged ==
    ASSUME NEW S, IsFiniteSet(S), NEW f, \A x \in S : f[x] \in Nat,
           NEW h, \A x \in S : h[x] \in Nat,
           NEW x \in S, \A y \in S \ {x} : h[y] = f[y]
    PROVE  \E rest \in Nat : /\ SumFunctionOnSet(f, S) = f[x] + rest
                            /\ SumFunctionOnSet(h, S) = h[x] + rest
<1>1. \A y \in S \ {x} : h[y] = h[y]
  OBVIOUS
<1>2. /\ SumFunctionOnSet(h, S \ {x}) \in Nat
      /\ SumFunctionOnSet(f, S) = f[x] + SumFunctionOnSet(h, S \ {x})
  BY SumOneOut
<1>3. SumFunctionOnSet(h, S) = h[x] + SumFunctionOnSet(h, S \ {x})
  BY <1>1, SumOneOut
<1>. QED  BY <1>2, <1>3

(* The sum over two sets that share nothing.                               *)
LEMMA SumUnion ==
    ASSUME NEW A, NEW B, IsFiniteSet(A), IsFiniteSet(B), A \cap B = {},
           NEW f, \A x \in A \cup B : f[x] \in Nat
    PROVE  SumFunctionOnSet(f, A \cup B) = SumFunctionOnSet(f, A) + SumFunctionOnSet(f, B)
<1>. DEFINE Fine(b) ==
              SumFunctionOnSet(f, A \cup b) = SumFunctionOnSet(f, A) + SumFunctionOnSet(f, b)
            Bad == {b \in SUBSET B : ~Fine(b)}
<1>. SUFFICES ASSUME Bad # {} PROVE FALSE
  OBVIOUS
<1>1. PICK t \in Bad : \A u \in SUBSET B : Cardinality(u) < Cardinality(t) => u \notin Bad
  <2>1. Bad \subseteq SUBSET B
    OBVIOUS
  <2>. HIDE DEF Bad
  <2>. QED  BY <2>1, SmallestSet
<1>2. t \in SUBSET B /\ ~Fine(t)
  OBVIOUS
<1>3. \A u \in SUBSET B : Cardinality(u) < Cardinality(t) => Fine(u)
  BY <1>1
<1>4. SumFunctionOnSet(f, A) \in Nat
  BY SumNat
<1>5. IsFiniteSet(t) /\ Cardinality(t) \in Nat
  BY <1>2, FS_Subset, FS_CardinalityType
<1>6. t # {}
  <2>1. A \cup {} = A /\ SumFunctionOnSet(f, {}) = 0
    BY SumEmpty
  <2>2. Fine({})
    BY <1>4, <2>1
  <2>. HIDE DEF Fine
  <2>. QED  BY <1>2, <2>2
<1>7. PICK x \in t : TRUE
  BY <1>6
<1>. DEFINE u == t \ {x}
            W == A \cup t
            V == A \cup u
<1>8. Cardinality(u) < Cardinality(t) /\ u \in SUBSET B
  <2>1. Cardinality(u) = Cardinality(t) - 1
    BY <1>5, <1>7, FS_RemoveElement
  <2>. QED  BY <1>2, <1>5, <2>1
<1>9. Fine(u)
  <2>. HIDE DEF u, Fine
  <2>. QED  BY <1>3, <1>8
<1>10. W \ {x} = V /\ x \in W /\ IsFiniteSet(W)
  <2>1. x \notin A
    BY <1>2, <1>7
  <2>. QED  BY <1>5, <2>1, FS_Union
<1>11. /\ \A y \in W : f[y] \in Nat
       /\ \A y \in t : f[y] \in Nat
       /\ \A y \in W \ {x} : f[y] = f[y]
       /\ \A y \in t \ {x} : f[y] = f[y]
  BY <1>2
<1>12. /\ SumFunctionOnSet(f, u) \in Nat
       /\ SumFunctionOnSet(f, t) = f[x] + SumFunctionOnSet(f, u)
  BY <1>5, <1>7, <1>11, SumOneOut
<1>13. SumFunctionOnSet(f, W) = f[x] + SumFunctionOnSet(f, V)
  <2>. HIDE DEF W, V, u
  <2>. QED  BY <1>10, <1>11, SumOneOut
<1>14. SumFunctionOnSet(f, V) = SumFunctionOnSet(f, A) + SumFunctionOnSet(f, u)
  BY <1>9
<1>15. f[x] \in Nat
  BY <1>7, <1>11
<1>16. Fine(t)
  <2>. HIDE DEF u, V
  <2>. QED  BY <1>4, <1>12, <1>13, <1>14, <1>15
<1>. HIDE DEF Fine
<1>. QED  BY <1>2, <1>16
=============================================================================
