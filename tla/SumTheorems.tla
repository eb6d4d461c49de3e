----------------------------- MODULE SumTheorems -----------------------------
(***************************************************************************)
(* What a sum over a finite set of rows is, for every set and every        *)
(* function of integers: the facts that the proofs about ledgers need.     *)
(*                                                                         *)
(* SumFunctionOnSet is a recursive function on the subsets of a set.  That *)
(* it exists, and what it computes, is shown with minimal counterexamples: *)
(* the strict subset relation is well-founded on the subsets of a finite   *)
(* set, so a claim that fails for one of them fails for a least one.       *)
(***************************************************************************)
EXTENDS Integers, Functions, FiniteSetTheorems, WellFoundedInduction, TLAPS

\* The element that the sum over s adds last, and what is left.
Last(s) == CHOOSE x \in s : TRUE
Rest(s) == s \ {Last(s)}

\* F is the recursive function on the subsets of D that adds up f.
Adds(F, f, D) ==
    /\ F \in [SUBSET D -> Int]
    /\ \A s \in SUBSET D : F[s] = IF s = {} THEN 0 ELSE f[Last(s)] + F[Rest(s)]

\* A set of finite sets that is not empty has one without a smaller one in it.
LEMMA Minimal ==
    ASSUME NEW D, IsFiniteSet(D), NEW Bad \in SUBSET SUBSET D, Bad # {}
    PROVE  \E s \in Bad : \A t \in SUBSET s : t # s => t \notin Bad
<1>1. IsWellFoundedOn(StrictSubsetOrdering(D), SUBSET D)
  BY FS_StrictSubsetOrderingWellFounded, FS_FiniteSubsetsOfFinite
<1>2. PICK s \in Bad : \A t \in Bad : ~(<<t, s>> \in StrictSubsetOrdering(D))
  BY <1>1, WFMin
<1>3. ASSUME NEW t \in SUBSET s, t # s, t \in Bad PROVE FALSE
  <2>1. <<t, s>> \in StrictSubsetOrdering(D)
    BY <1>3 DEF StrictSubsetOrdering
  <2>. QED
    BY <1>2, <1>3, <2>1
<1>. QED
  BY <1>2, <1>3

LEMMA LastIs == ASSUME NEW s, s # {} PROVE Last(s) \in s /\ Rest(s) \subseteq s /\ Rest(s) # s
BY DEF Last, Rest

\* Two such functions agree wherever both are defined.
LEMMA AddsOnce ==
    ASSUME NEW D, IsFiniteSet(D), NEW E, NEW f, NEW F, NEW G,
           Adds(F, f, D), Adds(G, f, E), NEW s \in SUBSET D, s \in SUBSET E
    PROVE  F[s] = G[s]
<1>. DEFINE Bad == {t \in SUBSET D : t \in SUBSET E /\ F[t] # G[t]}
<1>. SUFFICES ASSUME Bad # {} PROVE FALSE
  OBVIOUS
<1>0. Bad \in SUBSET SUBSET D
  OBVIOUS
<1>. HIDE DEF Bad
<1>1. PICK t \in Bad : \A u \in SUBSET t : u # t => u \notin Bad
  BY <1>0, Minimal
<1>. USE DEF Bad
<1>2. t # {}
  BY <1>1 DEF Adds
<1>3. F[Rest(t)] = G[Rest(t)]
  <2>1. Rest(t) \in SUBSET t /\ Rest(t) # t
    BY <1>2, LastIs
  <2>. QED
    BY <1>1, <2>1
<1>4. F[t] = f[Last(t)] + F[Rest(t)] /\ G[t] = f[Last(t)] + G[Rest(t)]
  BY <1>1, <1>2 DEF Adds
<1>. QED
  BY <1>1, <1>3, <1>4

\* There is such a function.
LEMMA AddsExists ==
    ASSUME NEW D, IsFiniteSet(D), NEW f, \A x \in D : f[x] \in Int
    PROVE  \E F : Adds(F, f, D)
<1>. DEFINE Bad == {t \in SUBSET D : ~\E F : Adds(F, f, t)}
<1>. SUFFICES ASSUME Bad # {} PROVE FALSE
  OBVIOUS
<1>0. Bad \in SUBSET SUBSET D
  OBVIOUS
<1>. HIDE DEF Bad
<1>1. PICK d \in Bad : \A u \in SUBSET d : u # d => u \notin Bad
  BY <1>0, Minimal
<1>. USE DEF Bad
<1>2. IsFiniteSet(d) /\ d \subseteq D
  BY <1>1, FS_Subset
<1>. DEFINE Of(s) == CHOOSE F : Adds(F, f, s)
            Value(s) == IF s = {} THEN 0 ELSE f[Last(s)] + Of(Rest(s))[Rest(s)]
            H == [s \in SUBSET d |-> Value(s)]
<1>3. ASSUME NEW s \in SUBSET d, s # d PROVE Adds(Of(s), f, s)
  <2>1. \E F : Adds(F, f, s)
    BY <1>1, <1>2, <1>3
  <2>. QED
    BY <2>1
<1>4. ASSUME NEW s \in SUBSET d, s # {}
      PROVE  /\ Rest(s) \in SUBSET d /\ Rest(s) # d /\ Rest(s) \subseteq s
             /\ Last(s) \in s /\ f[Last(s)] \in Int
             /\ Of(Rest(s))[Rest(s)] \in Int
  <2>1. Last(s) \in s /\ Rest(s) \subseteq s /\ Rest(s) # s
    BY <1>4, LastIs
  <2>2. Rest(s) \in SUBSET d /\ Rest(s) # d
    BY <2>1
  <2>3. Adds(Of(Rest(s)), f, Rest(s))
    BY <1>3, <2>2
  <2>4. Of(Rest(s))[Rest(s)] \in Int
    BY <2>3 DEF Adds
  <2>. QED
    BY <1>2, <2>1, <2>2, <2>4
<1>5. H \in [SUBSET d -> Int]
  <2>1. \A s \in SUBSET d : Value(s) \in Int
    BY <1>4
  <2>. QED
    BY <2>1
<1>6. ASSUME NEW s \in SUBSET d, s # d PROVE H[s] = Of(s)[s]
  <2>1. Adds(Of(s), f, s)
    BY <1>3, <1>6
  <2>2. CASE s = {}
    BY <2>1, <2>2 DEF Adds
  <2>3. CASE s # {}
    <3>1. Adds(Of(Rest(s)), f, Rest(s)) /\ Rest(s) \in SUBSET s
      BY <1>3, <1>4, <2>3
    <3>2. IsFiniteSet(s)
      BY <1>2, FS_Subset
    <3>3. Of(s)[Rest(s)] = Of(Rest(s))[Rest(s)]
      BY <2>1, <3>1, <3>2, AddsOnce
    <3>4. Of(s)[s] = f[Last(s)] + Of(s)[Rest(s)]
      BY <2>1, <2>3 DEF Adds
    <3>. QED
      BY <2>3, <3>3, <3>4
  <2>. QED
    BY <2>2, <2>3
<1>7. ASSUME NEW s \in SUBSET d PROVE H[s] = IF s = {} THEN 0 ELSE f[Last(s)] + H[Rest(s)]
  <2>1. CASE s # {}
    <3>1. H[Rest(s)] = Of(Rest(s))[Rest(s)]
      BY <1>4, <1>6, <2>1
    <3>. QED
      BY <2>1, <3>1
  <2>. QED
    BY <2>1
<1>8. Adds(H, f, d)
  BY <1>5, <1>7 DEF Adds
<1>. QED
  BY <1>1, <1>8

\* The sum is the value of such a function.
LEMMA SumAdds ==
    ASSUME NEW S, IsFiniteSet(S), NEW f, \A x \in S : f[x] \in Int
    PROVE  \E F : Adds(F, f, S) /\ SumFunctionOnSet(f, S) = F[S]
<1>. DEFINE Step(F, s) == IF s = {} THEN 0 ELSE f[Last(s)] + F[Rest(s)]
            It == CHOOSE F : F = [s \in SUBSET S |-> Step(F, s)]
<1>1. PICK F : Adds(F, f, S)
  BY AddsExists
<1>2. F = [s \in SUBSET S |-> Step(F, s)]
  BY <1>1 DEF Adds
<1>3. It = [s \in SUBSET S |-> Step(It, s)]
  BY <1>2
<1>4. SumFunctionOnSet(f, S) = It[S]
  BY DEF SumFunctionOnSet, FoldFunctionOnSet, MapThenFoldSet, Last, Rest
<1>5. It[S] = F[S]
  <2>. DEFINE Bad == {t \in SUBSET S : It[t] # F[t]}
  <2>. SUFFICES ASSUME Bad # {} PROVE FALSE
    OBVIOUS
  <2>0. Bad \in SUBSET SUBSET S
    OBVIOUS
  <2>. HIDE DEF Bad
  <2>1. PICK t \in Bad : \A u \in SUBSET t : u # t => u \notin Bad
    BY <2>0, Minimal
  <2>. USE DEF Bad
  <2>2. CASE t = {}
    BY <1>2, <1>3, <2>1, <2>2
  <2>3. CASE t # {}
    <3>1. Rest(t) \in SUBSET t /\ Rest(t) # t
      BY <2>3, LastIs
    <3>2. It[Rest(t)] = F[Rest(t)]
      BY <2>1, <3>1
    <3>3. It[t] = f[Last(t)] + It[Rest(t)] /\ F[t] = f[Last(t)] + F[Rest(t)]
      BY <1>2, <1>3, <2>1, <2>3
    <3>. QED
      BY <2>1, <3>2, <3>3
  <2>. QED
    BY <2>2, <2>3
<1>. QED
  BY <1>1, <1>4, <1>5

-----------------------------------------------------------------------------
(* What the proofs about ledgers cite. *)

\* A sum of integers is an integer; the sum of no row is zero; a row can be
\* taken out of a sum.
LEMMA SumType ==
    ASSUME NEW S, IsFiniteSet(S), NEW f, \A x \in S : f[x] \in Int
    PROVE  SumFunctionOnSet(f, S) \in Int
<1>1. PICK F : Adds(F, f, S) /\ SumFunctionOnSet(f, S) = F[S]
  BY SumAdds
<1>. QED
  BY <1>1 DEF Adds

LEMMA SumEmpty ==
    ASSUME NEW f PROVE SumFunctionOnSet(f, {}) = 0
<1>1. IsFiniteSet({}) /\ \A x \in {} : f[x] \in Int
  BY FS_EmptySet
<1>2. PICK F : Adds(F, f, {}) /\ SumFunctionOnSet(f, {}) = F[{}]
  BY <1>1, SumAdds
<1>. QED
  BY <1>2 DEF Adds

LEMMA SumElement ==
    ASSUME NEW S, IsFiniteSet(S), NEW f, \A x \in S : f[x] \in Int, NEW e \in S
    PROVE  SumFunctionOnSet(f, S) = f[e] + SumFunctionOnSet(f, S \ {e})
<1>1. PICK F : Adds(F, f, S) /\ SumFunctionOnSet(f, S) = F[S]
  BY SumAdds
<1>2. \A s \in SUBSET S : \A x \in s : F[s] = f[x] + F[s \ {x}]
  <2>. DEFINE Bad == {s \in SUBSET S : \E x \in s : F[s] # f[x] + F[s \ {x}]}
  <2>. SUFFICES ASSUME Bad # {} PROVE FALSE
    OBVIOUS
  <2>0. Bad \in SUBSET SUBSET S
    OBVIOUS
  <2>. HIDE DEF Bad
  <2>1. PICK s \in Bad : \A u \in SUBSET s : u # s => u \notin Bad
    BY <2>0, Minimal
  <2>. USE DEF Bad
  <2>2. PICK x \in s : F[s] # f[x] + F[s \ {x}]
    BY <2>1
  <2>. DEFINE y == Last(s)
  <2>3. y \in s /\ F[s] = f[y] + F[s \ {y}]
    BY <1>1, <2>1, <2>2, LastIs DEF Adds, Rest
  <2>4. x # y
    BY <2>2, <2>3
  <2>. HIDE DEF y
  <2>5. F[s \ {y}] = f[x] + F[(s \ {y}) \ {x}]
    BY <2>1, <2>3, <2>4
  <2>6. F[s \ {x}] = f[y] + F[(s \ {x}) \ {y}]
    BY <2>1, <2>3, <2>4
  <2>7. (s \ {y}) \ {x} = (s \ {x}) \ {y}
    OBVIOUS
  <2>8. f[x] \in Int /\ f[y] \in Int /\ F[(s \ {y}) \ {x}] \in Int
    BY <1>1, <2>1, <2>3 DEF Adds
  <2>9. F[s] = f[y] + (f[x] + F[(s \ {y}) \ {x}])
    BY <2>3, <2>5
  <2>10. f[x] + F[s \ {x}] = f[x] + (f[y] + F[(s \ {y}) \ {x}])
    BY <2>6, <2>7
  <2>11. \A i, j, k \in Int : i + (j + k) = j + (i + k)
    OBVIOUS
  <2>. QED
    BY <2>2, <2>8, <2>9, <2>10, <2>11
<1>3. PICK G : Adds(G, f, S \ {e}) /\ SumFunctionOnSet(f, S \ {e}) = G[S \ {e}]
  BY SumAdds, FS_Subset
<1>4. G[S \ {e}] = F[S \ {e}]
  BY <1>1, <1>3, AddsOnce, FS_Subset
<1>. QED
  BY <1>1, <1>2, <1>3, <1>4

\* Equal rows have equal sums, and smaller rows a smaller one.
LEMMA SumMonotone ==
    ASSUME NEW S, IsFiniteSet(S), NEW f, NEW g,
           \A x \in S : f[x] \in Int /\ g[x] \in Int /\ f[x] <= g[x]
    PROVE  SumFunctionOnSet(f, S) <= SumFunctionOnSet(g, S)
<1>. DEFINE A(s) == SumFunctionOnSet(f, s)
            B(s) == SumFunctionOnSet(g, s)
            Bad == {s \in SUBSET S : ~(A(s) <= B(s))}
<1>. SUFFICES ASSUME Bad # {} PROVE FALSE
  OBVIOUS
<1>0. Bad \in SUBSET SUBSET S
  OBVIOUS
<1>. HIDE DEF Bad
<1>1. PICK s \in Bad : \A u \in SUBSET s : u # s => u \notin Bad
  BY <1>0, Minimal
<1>. USE DEF Bad
<1>2. s # {}
  <2>1. A({}) = 0 /\ B({}) = 0
    BY SumEmpty
  <2>2. ~(A(s) <= B(s))
    BY <1>1
  <2>. HIDE DEF A, B
  <2>. QED
    BY <2>1, <2>2
<1>3. PICK x \in s : TRUE
  BY <1>2
<1>4. IsFiniteSet(s) /\ IsFiniteSet(s \ {x}) /\ s \in SUBSET S
  BY <1>1, FS_Subset
<1>5. A(s) = f[x] + A(s \ {x}) /\ B(s) = g[x] + B(s \ {x})
  BY <1>1, <1>4, SumElement
<1>6. A(s \ {x}) \in Int /\ B(s \ {x}) \in Int /\ f[x] \in Int /\ g[x] \in Int /\ f[x] <= g[x]
  BY <1>4, SumType
<1>7. A(s \ {x}) <= B(s \ {x})
  BY <1>1, <1>3
<1>8. ~(A(s) <= B(s))
  BY <1>1
<1>. HIDE DEF A, B
<1>. QED
  BY <1>5, <1>6, <1>7, <1>8

LEMMA SumSame ==
    ASSUME NEW S, IsFiniteSet(S), NEW f, NEW g,
           \A x \in S : f[x] \in Int /\ g[x] = f[x]
    PROVE  SumFunctionOnSet(f, S) = SumFunctionOnSet(g, S)
<1>1. \A x \in S : f[x] \in Int /\ g[x] \in Int /\ f[x] <= g[x] /\ g[x] <= f[x]
  OBVIOUS
<1>2. SumFunctionOnSet(f, S) <= SumFunctionOnSet(g, S)
  BY <1>1, SumMonotone
<1>3. SumFunctionOnSet(g, S) <= SumFunctionOnSet(f, S)
  BY <1>1, SumMonotone
<1>4. SumFunctionOnSet(f, S) \in Int /\ SumFunctionOnSet(g, S) \in Int
  BY <1>1, SumType
<1>. QED
  BY <1>2, <1>3, <1>4

\* A sum of sums, row by row.
LEMMA SumPlus ==
    ASSUME NEW S, IsFiniteSet(S), NEW f, NEW g, NEW h,
           \A x \in S : f[x] \in Int /\ g[x] \in Int /\ h[x] = f[x] + g[x]
    PROVE  SumFunctionOnSet(h, S) = SumFunctionOnSet(f, S) + SumFunctionOnSet(g, S)
<1>. DEFINE A(s) == SumFunctionOnSet(f, s)
            B(s) == SumFunctionOnSet(g, s)
            C(s) == SumFunctionOnSet(h, s)
            Bad == {s \in SUBSET S : C(s) # A(s) + B(s)}
<1>. SUFFICES ASSUME Bad # {} PROVE FALSE
  OBVIOUS
<1>0. Bad \in SUBSET SUBSET S
  OBVIOUS
<1>. HIDE DEF Bad
<1>1. PICK s \in Bad : \A u \in SUBSET s : u # s => u \notin Bad
  BY <1>0, Minimal
<1>. USE DEF Bad
<1>2. s # {}
  <2>1. A({}) = 0 /\ B({}) = 0 /\ C({}) = 0
    BY SumEmpty
  <2>2. C(s) # A(s) + B(s)
    BY <1>1
  <2>3. C({}) = A({}) + B({})
    BY <2>1
  <2>. HIDE DEF A, B, C
  <2>. QED
    BY <2>2, <2>3
<1>3. PICK x \in s : TRUE
  BY <1>2
<1>4. IsFiniteSet(s) /\ IsFiniteSet(s \ {x}) /\ s \in SUBSET S
  BY <1>1, FS_Subset
<1>5. \A y \in s : h[y] \in Int
  BY <1>4
<1>6. A(s) = f[x] + A(s \ {x}) /\ B(s) = g[x] + B(s \ {x}) /\ C(s) = h[x] + C(s \ {x})
  BY <1>4, <1>5, SumElement
<1>7. A(s \ {x}) \in Int /\ B(s \ {x}) \in Int /\ f[x] \in Int /\ g[x] \in Int /\ h[x] = f[x] + g[x]
  BY <1>4, SumType
<1>8. C(s \ {x}) = A(s \ {x}) + B(s \ {x})
  BY <1>1, <1>3
<1>9. C(s) # A(s) + B(s)
  BY <1>1
<1>. HIDE DEF A, B, C
<1>. QED
  BY <1>6, <1>7, <1>8, <1>9

\* Rows of zero add up to zero.
LEMMA SumZero ==
    ASSUME NEW S, IsFiniteSet(S), NEW f, \A x \in S : f[x] = 0
    PROVE  SumFunctionOnSet(f, S) = 0
<1>1. SumFunctionOnSet(f, S) = SumFunctionOnSet(f, S) + SumFunctionOnSet(f, S)
  BY SumPlus
<1>2. PICK n \in Int : n = SumFunctionOnSet(f, S)
  BY SumType
<1>3. n = n + n
  BY <1>1, <1>2
<1>4. \A k \in Int : k = k + k => k = 0
  OBVIOUS
<1>5. n = 0
  BY <1>3, <1>4
<1>. QED
  BY <1>2, <1>5

\* Only the row e differs.
LEMMA SumOne ==
    ASSUME NEW S, IsFiniteSet(S), NEW f, NEW g, NEW e \in S,
           \A x \in S : f[x] \in Int /\ g[x] \in Int /\ (x # e => g[x] = f[x])
    PROVE  SumFunctionOnSet(g, S) = SumFunctionOnSet(f, S) + g[e] - f[e]
<1>1. IsFiniteSet(S \ {e})
  BY FS_Subset
<1>2. SumFunctionOnSet(f, S) = f[e] + SumFunctionOnSet(f, S \ {e})
  BY SumElement
<1>3. SumFunctionOnSet(g, S) = g[e] + SumFunctionOnSet(g, S \ {e})
  BY SumElement
<1>4. SumFunctionOnSet(f, S \ {e}) = SumFunctionOnSet(g, S \ {e})
  BY <1>1, SumSame
<1>5. SumFunctionOnSet(f, S \ {e}) \in Int /\ f[e] \in Int /\ g[e] \in Int
  BY <1>1, SumType
<1>. QED
  BY <1>2, <1>3, <1>4, <1>5

\* A set of rows, and its rows out of a larger set with zero for the others.
LEMMA SumWithin ==
    ASSUME NEW S, IsFiniteSet(S), NEW T \in SUBSET S, NEW f, NEW g,
           \A x \in S : (x \in T => f[x] \in Int /\ g[x] = f[x]) /\ (x \notin T => g[x] = 0)
    PROVE  SumFunctionOnSet(f, T) = SumFunctionOnSet(g, S)
<1>. DEFINE A(s) == SumFunctionOnSet(g, T \cup s)
            Bad == {s \in SUBSET (S \ T) : A(s) # A({})}
<1>1. IsFiniteSet(T) /\ IsFiniteSet(S \ T) /\ \A x \in S : g[x] \in Int
  BY FS_Subset
<1>2. Bad = {}
  <2>. SUFFICES ASSUME Bad # {} PROVE FALSE
    OBVIOUS
  <2>0. Bad \in SUBSET SUBSET (S \ T)
    OBVIOUS
  <2>. HIDE DEF Bad
  <2>1. PICK s \in Bad : \A u \in SUBSET s : u # s => u \notin Bad
    BY <1>1, <2>0, Minimal
  <2>. USE DEF Bad
  <2>2. PICK x \in s : TRUE
    BY <2>1
  <2>3. IsFiniteSet(T \cup s) /\ T \cup s \in SUBSET S
    <3>1. T \cup s \in SUBSET S
      BY <2>1
    <3>. QED
      BY <3>1, FS_Subset
  <2>4. A(s) = g[x] + SumFunctionOnSet(g, (T \cup s) \ {x})
    BY <1>1, <2>2, <2>3, SumElement
  <2>5. (T \cup s) \ {x} = T \cup (s \ {x}) /\ g[x] = 0
    BY <2>1, <2>2
  <2>6. A(s \ {x}) = A({})
    BY <2>1, <2>2
  <2>7. A({}) \in Int
    <3>1. T \cup {} = T
      OBVIOUS
    <3>. QED
      BY <1>1, <3>1, SumType
  <2>8. A(s) = 0 + A(s \ {x}) /\ A(s) # A({})
    BY <2>1, <2>4, <2>5
  <2>. HIDE DEF A
  <2>. QED
    BY <2>6, <2>7, <2>8
<1>3. T \cup (S \ T) = S /\ T \cup {} = T
  OBVIOUS
<1>4. A(S \ T) = A({})
  BY <1>2
<1>5. SumFunctionOnSet(f, T) = SumFunctionOnSet(g, T)
  BY <1>1, SumSame
<1>. QED
  BY <1>3, <1>4, <1>5

\* The differences along 0..n add up to the difference of the ends.
LEMMA SumTelescopes ==
    ASSUME NEW n \in Nat, NEW a, \A i \in 0..n : a[i] \in Int,
           NEW f, \A i \in 1..n : f[i] = a[i - 1] - a[i]
    PROVE  SumFunctionOnSet(f, 1..n) = a[0] - a[n]
<1>. DEFINE A(s) == SumFunctionOnSet(f, s)
            Bad == {s \in SUBSET (1..n) : \E k \in 0..n : s = 1..k /\ A(s) # a[0] - a[k]}
<1>. SUFFICES ASSUME Bad # {} PROVE FALSE
  OBVIOUS
<1>0. Bad \in SUBSET SUBSET (1..n) /\ IsFiniteSet(1..n) /\ \A i \in 1..n : f[i] \in Int
  <2>1. IsFiniteSet(1..n)
    BY FS_Interval
  <2>2. \A i \in 1..n : i \in 0..n /\ i - 1 \in 0..n
    OBVIOUS
  <2>3. ASSUME NEW i \in 1..n PROVE f[i] \in Int
    <3>1. a[i - 1] \in Int /\ a[i] \in Int
      BY <2>2
    <3>. QED
      BY <3>1
  <2>4. Bad \in SUBSET SUBSET (1..n)
    OBVIOUS
  <2>. QED
    BY <2>1, <2>3, <2>4
<1>. HIDE DEF Bad
<1>1. PICK s \in Bad : \A u \in SUBSET s : u # s => u \notin Bad
  BY <1>0, Minimal
<1>. USE DEF Bad
<1>2. PICK k \in 0..n : s = 1..k /\ A(s) # a[0] - a[k]
  BY <1>1
<1>3. k # 0
  <2>1. SUFFICES ASSUME k = 0 PROVE FALSE
    OBVIOUS
  <2>2. s = {}
    BY <1>2, <2>1
  <2>. QED
    BY <1>2, <2>1, <2>2, SumEmpty
<1>4. k \in s /\ s \ {k} = 1..(k - 1) /\ k - 1 \in 0..n /\ s \in SUBSET (1..n)
  BY <1>2, <1>3
<1>5. A(s) = f[k] + A(s \ {k})
  <2>1. IsFiniteSet(s)
    BY <1>0, <1>4, FS_Subset
  <2>2. \A i \in s : f[i] \in Int
    BY <1>0, <1>4
  <2>. QED
    BY <1>4, <2>1, <2>2, SumElement
<1>6. A(s \ {k}) = a[0] - a[k - 1]
  BY <1>1, <1>4
<1>7. f[k] = a[k - 1] - a[k] /\ a[0] \in Int /\ a[k] \in Int /\ a[k - 1] \in Int
  BY <1>3, <1>4
<1>. QED
  BY <1>2, <1>5, <1>6, <1>7

\* A sum of terms of at most m each is at most m times their number.
LEMMA SumBounded ==
    ASSUME NEW S, IsFiniteSet(S), NEW m \in Nat, NEW f,
           \A x \in S : f[x] \in Int /\ f[x] <= m
    PROVE  SumFunctionOnSet(f, S) <= m * Cardinality(S)
<1>. DEFINE A(s) == SumFunctionOnSet(f, s)
            Bad == {s \in SUBSET S : ~(A(s) <= m * Cardinality(s))}
<1>. SUFFICES ASSUME Bad # {} PROVE FALSE
  OBVIOUS
<1>0. Bad \in SUBSET SUBSET S
  OBVIOUS
<1>. HIDE DEF A
<1>1. PICK s \in Bad : \A t \in SUBSET s : t # s => t \notin Bad
  <2>. HIDE DEF Bad
  <2>. QED
    BY <1>0, Minimal
<1>2. s \in SUBSET S /\ IsFiniteSet(s)
  BY <1>1, FS_Subset
<1>3. CASE s = {}
  <2>1. A(s) = 0 /\ Cardinality(s) = 0
    BY <1>3, SumEmpty, FS_EmptySet DEF A
  <2>2. m * 0 = 0
    OBVIOUS
  <2>. QED
    BY <1>1, <2>1, <2>2
<1>4. CASE s # {}
  <2>1. PICK e \in s : TRUE
    BY <1>4
  <2>2. s \ {e} \in SUBSET S /\ s \ {e} \in SUBSET s /\ s \ {e} # s /\ IsFiniteSet(s \ {e})
    BY <1>2, <2>1, FS_Subset
  <2>3. A(s \ {e}) <= m * Cardinality(s \ {e})
    BY <1>1, <2>2
  <2>4. A(s) = f[e] + A(s \ {e}) /\ A(s \ {e}) \in Int
    BY <1>2, <2>1, <2>2, SumElement, SumType DEF A
  <2>5. PICK k \in Nat : k = Cardinality(s \ {e})
    BY <2>2, FS_CardinalityType
  <2>6. Cardinality(s) = k + 1
    <3>1. Cardinality(s \ {e}) = Cardinality(s) - 1 /\ Cardinality(s) \in Nat
      BY <1>2, <2>1, FS_RemoveElement, FS_CardinalityType
    <3>. QED
      BY <2>5, <3>1
  <2>7. m * (k + 1) = m * k + m /\ m * k \in Int
    OBVIOUS
  <2>8. f[e] \in Int /\ f[e] <= m
    BY <1>2, <2>1
  <2>9. A(s) <= m * Cardinality(s)
    BY <2>3, <2>4, <2>5, <2>6, <2>7, <2>8
  <2>. QED
    BY <1>1, <2>9
<1>. QED
  BY <1>3, <1>4

=============================================================================
