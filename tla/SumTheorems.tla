---------------------------- MODULE SumTheorems ----------------------------
(* Finite sums: what SumFunctionOnSet of the community modules returns when   *)
(* an element joins the set, leaves it, or changes its value.  The operator   *)
(* is a recursive function over the subsets of its index set; the lemmas      *)
(* below show that it exists, that it does not depend on the set it was built *)
(* for, and that the order in which elements are chosen does not matter.      *)
(* Induction over finite sets is done on a minimal counterexample.            *)
EXTENDS Integers, FiniteSets, Functions, FiniteSetTheorems,
        WellFoundedInduction, TLAPS

Pick(s) == CHOOSE x \in s : TRUE

\* g is the recursive function that SumFunctionOnSet(f, S) evaluates at S.
SumsUp(g, f, S) ==
  g = [s \in SUBSET S |->
         IF s = {} THEN 0 ELSE f[Pick(s)] + g[s \ {Pick(s)}]]

(* A family of subsets of a finite set has a minimal member.                  *)
LEMMA MinimalSubset ==
  ASSUME NEW S, IsFiniteSet(S), NEW B, B \subseteq SUBSET S, B # {}
  PROVE  \E s \in B : \A t \in B : t \subseteq s => t = s
<1>1. IsWellFoundedOn(StrictSubsetOrdering(S), SUBSET S)
  BY FS_StrictSubsetOrderingWellFounded, FS_FiniteSubsetsOfFinite
<1>2. PICK s \in B : \A t \in B : ~ (<<t, s>> \in StrictSubsetOrdering(S))
  BY <1>1, WFMin
<1>3. ASSUME NEW t \in B, t \subseteq s, t # s PROVE FALSE
  <2>1. <<t, s>> \in (SUBSET S) \X (SUBSET S)
    OBVIOUS
  <2>. QED
    BY <1>2, <1>3, <2>1 DEF StrictSubsetOrdering
<1>. QED
  BY <1>3

(* One step of the recursion.                                                 *)
LEMMA SumsUpStep ==
  ASSUME NEW f, NEW S, NEW g, SumsUp(g, f, S), NEW s \in SUBSET S
  PROVE  /\ s = {} => g[s] = 0
         /\ s # {} => /\ Pick(s) \in s
                      /\ g[s] = f[Pick(s)] + g[s \ {Pick(s)}]
<1>1. g[s] = IF s = {} THEN 0 ELSE f[Pick(s)] + g[s \ {Pick(s)}]
  BY DEF SumsUp
<1>2. s # {} => Pick(s) \in s
  BY DEF Pick
<1>. QED
  BY <1>1, <1>2

(* Two such functions agree where both are defined.                           *)
LEMMA SumsUpAgree ==
  ASSUME NEW f, NEW S, IsFiniteSet(S), NEW T \in SUBSET S,
         NEW g, SumsUp(g, f, S), NEW h, SumsUp(h, f, T)
  PROVE  \A s \in SUBSET T : g[s] = h[s]
<1> DEFINE Bad == {s \in SUBSET T : g[s] # h[s]}
<1> SUFFICES ASSUME Bad # {} PROVE FALSE
  OBVIOUS
<1>1. IsFiniteSet(T)
  BY FS_Subset
<1>2. PICK s \in Bad : \A t \in Bad : t \subseteq s => t = s
  <2> HIDE DEF Bad
  <2>1. Bad \subseteq SUBSET T
    BY DEF Bad
  <2>. QED
    BY <1>1, <2>1, MinimalSubset
<1>3. s # {}
  BY SumsUpStep
<1>4. /\ Pick(s) \in s
      /\ g[s] = f[Pick(s)] + g[s \ {Pick(s)}]
      /\ h[s] = f[Pick(s)] + h[s \ {Pick(s)}]
  BY <1>3, SumsUpStep
<1>5. s \ {Pick(s)} \notin Bad
  BY <1>2, <1>4
<1>. QED
  BY <1>4, <1>5

(* Over a finite set the recursion has a solution: a smallest set without one *)
(* would get it from the solutions of its proper subsets.                     *)
LEMMA SumsUpExists ==
  ASSUME NEW f, NEW S, IsFiniteSet(S)
  PROVE  \E g : SumsUp(g, f, S)
<1> DEFINE Bad == {s \in SUBSET S : ~ \E g : SumsUp(g, f, s)}
<1> SUFFICES ASSUME Bad # {} PROVE FALSE
  OBVIOUS
<1>1. PICK s \in Bad : \A t \in Bad : t \subseteq s => t = s
  <2> HIDE DEF Bad
  <2>1. Bad \subseteq SUBSET S
    BY DEF Bad
  <2>. QED
    BY <2>1, MinimalSubset
<1> DEFINE Sol(t) == CHOOSE g : SumsUp(g, f, t)
<1>2. ASSUME NEW t \in SUBSET s, t # s PROVE SumsUp(Sol(t), f, t)
  <2>1. \E g : SumsUp(g, f, t)
    BY <1>1, <1>2
  <2>. QED
    BY <2>1, Zenon
<1> DEFINE g == [t \in SUBSET s |->
                   IF t = {} THEN 0
                   ELSE f[Pick(t)] + Sol(t \ {Pick(t)})[t \ {Pick(t)}]]
<1>3. ASSUME NEW t \in SUBSET s, t # {}
      PROVE  g[t \ {Pick(t)}] = Sol(t \ {Pick(t)})[t \ {Pick(t)}]
  <2> DEFINE u == t \ {Pick(t)}
  <2>1. Pick(t) \in t
    BY <1>3 DEF Pick
  <2>2. u \in SUBSET s /\ u # s
    BY <2>1
  <2>3. SumsUp(Sol(u), f, u)
    BY <1>2, <2>2
  <2>4. CASE u = {}
    <3>1. Sol(u)[u] = 0
      <4> HIDE DEF u, Sol
      <4>. QED
        BY <2>3, <2>4, SumsUpStep
    <3>2. g[u] = 0
      BY <2>4
    <3>. QED
      BY <3>1, <3>2
  <2>5. CASE u # {}
    <3> DEFINE v == u \ {Pick(u)}
    <3>1. Pick(u) \in u
      BY <2>5 DEF Pick
    <3>2. v \in SUBSET s /\ v # s /\ v \in SUBSET u
      BY <2>2, <3>1
    <3>3. SumsUp(Sol(v), f, v)
      BY <1>2, <3>2
    <3>4. IsFiniteSet(u)
      BY <2>2, FS_Subset
    <3>5. Sol(u)[u] = f[Pick(u)] + Sol(u)[v]
      <4> HIDE DEF u, Sol
      <4>. QED
        BY <2>3, <2>5, SumsUpStep
    <3>6. Sol(u)[v] = Sol(v)[v]
      <4> HIDE DEF u, v, Sol
      <4>. QED
        BY <2>3, <3>2, <3>3, <3>4, SumsUpAgree
    <3>7. g[u] = f[Pick(u)] + Sol(v)[v]
      <4> HIDE DEF Sol
      <4>. QED
        BY <2>2, <2>5
    <3>. QED
      BY <3>5, <3>6, <3>7
  <2>. QED
    BY <2>4, <2>5
<1>4. SumsUp(g, f, s)
  <2>1. ASSUME NEW t \in SUBSET s
        PROVE  g[t] = IF t = {} THEN 0 ELSE f[Pick(t)] + g[t \ {Pick(t)}]
    <3>1. g[t] = IF t = {} THEN 0
                 ELSE f[Pick(t)] + Sol(t \ {Pick(t)})[t \ {Pick(t)}]
      <4> HIDE DEF Sol
      <4>. QED
        OBVIOUS
    <3>2. t # {} => g[t \ {Pick(t)}] = Sol(t \ {Pick(t)})[t \ {Pick(t)}]
      BY <1>3
    <3> HIDE DEF g, Sol
    <3>. QED
      BY <3>1, <3>2
  <2>2. g = [t \in SUBSET s |-> g[t]]
    <3> HIDE DEF Sol
    <3>. QED
      OBVIOUS
  <2> HIDE DEF g
  <2>. QED
    BY <2>1, <2>2 DEF SumsUp
<1>. QED
  BY <1>1, <1>4

(* SumFunctionOnSet is such a solution, and one solution serves every subset. *)
LEMMA SumIsSolution ==
  ASSUME NEW f, NEW S, IsFiniteSet(S)
  PROVE  \E g : /\ SumsUp(g, f, S)
                /\ \A T \in SUBSET S : SumFunctionOnSet(f, T) = g[T]
<1>1. PICK g : SumsUp(g, f, S)
  BY SumsUpExists
<1>2. ASSUME NEW T \in SUBSET S PROVE SumFunctionOnSet(f, T) = g[T]
  <2> DEFINE h == CHOOSE e : SumsUp(e, f, T)
  <2>1. SumFunctionOnSet(f, T) = h[T]
    BY DEF SumFunctionOnSet, FoldFunctionOnSet, MapThenFoldSet, SumsUp, Pick
  <2>2. IsFiniteSet(T)
    BY FS_Subset
  <2>3. SumsUp(h, f, T)
    BY <2>2, SumsUpExists, Zenon
  <2>. QED
    <3> HIDE DEF h
    <3>. QED
      BY <1>1, <2>1, <2>3, SumsUpAgree
<1>. QED
  BY <1>1, <1>2

-----------------------------------------------------------------------------
(* The sum over no element, and over the elements without the chosen one.     *)
LEMMA SumEmpty ==
  ASSUME NEW f
  PROVE  SumFunctionOnSet(f, {}) = 0
<1>1. IsFiniteSet({})
  BY FS_EmptySet
<1>2. PICK g : /\ SumsUp(g, f, {})
               /\ \A T \in SUBSET {} : SumFunctionOnSet(f, T) = g[T]
  BY <1>1, SumIsSolution
<1>3. g[{}] = 0
  BY <1>2 DEF SumsUp
<1>. QED
  BY <1>2, <1>3

(* A sum is one of its values and the sum of the others: the definition's choice. *)
LEMMA SumPick ==
  ASSUME NEW f, NEW S, IsFiniteSet(S), S # {}
  PROVE  /\ Pick(S) \in S
         /\ SumFunctionOnSet(f, S)
              = f[Pick(S)] + SumFunctionOnSet(f, S \ {Pick(S)})
<1>1. PICK g : /\ SumsUp(g, f, S)
               /\ \A T \in SUBSET S : SumFunctionOnSet(f, T) = g[T]
  BY SumIsSolution
<1>2. /\ Pick(S) \in S
      /\ g[S] = f[Pick(S)] + g[S \ {Pick(S)}]
  BY <1>1, SumsUpStep
<1>. QED
  BY <1>1, <1>2

(* Sums of integers are integers.                                             *)
LEMMA SumType ==
  ASSUME NEW f, NEW S, IsFiniteSet(S), \A x \in S : f[x] \in Int
  PROVE  SumFunctionOnSet(f, S) \in Int
<1> DEFINE Bad == {T \in SUBSET S : SumFunctionOnSet(f, T) \notin Int}
<1> SUFFICES ASSUME Bad # {} PROVE FALSE
  OBVIOUS
<1>1. PICK T \in Bad : \A t \in Bad : t \subseteq T => t = T
  <2> HIDE DEF Bad
  <2>1. Bad \subseteq SUBSET S
    BY DEF Bad
  <2>. QED
    BY <2>1, MinimalSubset
<1>2. IsFiniteSet(T) /\ T # {}
  <2>1. SumFunctionOnSet(f, {}) = 0
    BY SumEmpty
  <2>2. IsFiniteSet(T)
    BY FS_Subset
  <2>. QED
    BY <2>1, <2>2
<1>3. Pick(T) \in T /\ SumFunctionOnSet(f, T) = f[Pick(T)] + SumFunctionOnSet(f, T \ {Pick(T)})
  BY <1>2, SumPick
<1>4. T \ {Pick(T)} \notin Bad
  BY <1>1, <1>3
<1>. QED
  BY <1>3, <1>4

(* Any element may be taken out first.                                        *)
THEOREM SumRemove ==
  ASSUME NEW f, NEW S, IsFiniteSet(S), \A x \in S : f[x] \in Int, NEW x \in S
  PROVE  SumFunctionOnSet(f, S) = f[x] + SumFunctionOnSet(f, S \ {x})
<1> DEFINE Sum(T) == SumFunctionOnSet(f, T)
           Bad == {T \in SUBSET S : \E y \in T : Sum(T) # f[y] + Sum(T \ {y})}
<1> SUFFICES ASSUME Bad # {} PROVE FALSE
  OBVIOUS
<1>1. PICK T \in Bad : \A t \in Bad : t \subseteq T => t = T
  <2> HIDE DEF Bad
  <2>1. Bad \subseteq SUBSET S
    BY DEF Bad
  <2>. QED
    BY <2>1, MinimalSubset
<1>2. PICK y \in T : Sum(T) # f[y] + Sum(T \ {y})
  OBVIOUS
<1>3. \A U \in SUBSET S : IsFiniteSet(U) /\ Sum(U) \in Int
  BY FS_Subset, SumType
<1>4. /\ Pick(T) \in T
      /\ Sum(T) = f[Pick(T)] + Sum(T \ {Pick(T)})
  BY <1>2, <1>3, SumPick
<1>5. Pick(T) # y
  BY <1>2, <1>4
<1>6. \A U \in SUBSET T : U # T => \A z \in U : Sum(U) = f[z] + Sum(U \ {z})
  BY <1>1
<1>7. Sum(T \ {Pick(T)}) = f[y] + Sum((T \ {Pick(T)}) \ {y})
  BY <1>4, <1>5, <1>6
<1>8. Sum(T \ {y}) = f[Pick(T)] + Sum((T \ {y}) \ {Pick(T)})
  BY <1>4, <1>5, <1>6
<1>9. (T \ {y}) \ {Pick(T)} = (T \ {Pick(T)}) \ {y}
  OBVIOUS
<1>10. T \in SUBSET S /\ f[y] \in Int /\ f[Pick(T)] \in Int /\ Sum((T \ {Pick(T)}) \ {y}) \in Int
  BY <1>1, <1>3, <1>4
<1> DEFINE rest == Sum((T \ {Pick(T)}) \ {y})
<1>11. Sum(T) = f[Pick(T)] + (f[y] + rest) /\ Sum(T \ {y}) = f[Pick(T)] + rest
  <2> HIDE DEF Sum
  <2>. QED
    BY <1>4, <1>7, <1>8, <1>9
<1>12. rest \in Int
  BY <1>10
<1> HIDE DEF rest, Sum
<1>. QED
  BY <1>2, <1>10, <1>11, <1>12

(* A new element adds its value.                                              *)
THEOREM SumAdd ==
  ASSUME NEW f, NEW S, IsFiniteSet(S), NEW x, x \notin S,
         \A y \in S \cup {x} : f[y] \in Int
  PROVE  SumFunctionOnSet(f, S \cup {x}) = SumFunctionOnSet(f, S) + f[x]
<1>1. IsFiniteSet(S \cup {x}) /\ (S \cup {x}) \ {x} = S
  BY FS_AddElement
<1>2. SumFunctionOnSet(f, S \cup {x}) = f[x] + SumFunctionOnSet(f, (S \cup {x}) \ {x})
  BY <1>1, SumRemove
<1>3. SumFunctionOnSet(f, S) \in Int
  BY SumType
<1>4. SumFunctionOnSet(f, (S \cup {x}) \ {x}) = SumFunctionOnSet(f, S)
  BY <1>1, Zenon
<1>. QED
  BY <1>2, <1>3, <1>4

(* Only the values on the set count, and larger values make larger sums.      *)
THEOREM SumMonotone ==
  ASSUME NEW f, NEW g, NEW S, IsFiniteSet(S),
         \A x \in S : f[x] \in Int /\ g[x] \in Int /\ f[x] <= g[x]
  PROVE  SumFunctionOnSet(f, S) <= SumFunctionOnSet(g, S)
<1> DEFINE F(T) == SumFunctionOnSet(f, T)
           G(T) == SumFunctionOnSet(g, T)
           Bad == {T \in SUBSET S : ~(F(T) <= G(T))}
<1> SUFFICES ASSUME Bad # {} PROVE FALSE
  OBVIOUS
<1>1. PICK T \in Bad : \A t \in Bad : t \subseteq T => t = T
  <2> HIDE DEF Bad
  <2>1. Bad \subseteq SUBSET S
    BY DEF Bad
  <2>. QED
    BY <2>1, MinimalSubset
<1>2. \A U \in SUBSET S : IsFiniteSet(U) /\ F(U) \in Int /\ G(U) \in Int
  BY FS_Subset, SumType
<1>3. T # {}
  BY SumEmpty
<1>4. /\ Pick(T) \in T
      /\ F(T) = f[Pick(T)] + F(T \ {Pick(T)})
      /\ G(T) = g[Pick(T)] + G(T \ {Pick(T)})
  BY <1>2, <1>3, SumPick
<1>5. F(T \ {Pick(T)}) <= G(T \ {Pick(T)})
  BY <1>1, <1>4
<1>6. T \in SUBSET S /\ ~(F(T) <= G(T))
  BY <1>1
<1> HIDE DEF F, G, Bad
<1>. QED
  BY <1>2, <1>4, <1>5, <1>6

(* Functions that agree on the set have the same sum over it.                 *)
THEOREM SumEqual ==
  ASSUME NEW f, NEW g, NEW S, IsFiniteSet(S),
         \A x \in S : f[x] \in Int /\ f[x] = g[x]
  PROVE  SumFunctionOnSet(f, S) = SumFunctionOnSet(g, S)
<1>1. /\ SumFunctionOnSet(f, S) <= SumFunctionOnSet(g, S)
      /\ SumFunctionOnSet(g, S) <= SumFunctionOnSet(f, S)
  BY SumMonotone
<1>2. SumFunctionOnSet(f, S) \in Int /\ SumFunctionOnSet(g, S) \in Int
  BY SumType
<1>. QED
  BY <1>1, <1>2

(* A changed value changes the sum by the difference.                         *)
THEOREM SumChange ==
  ASSUME NEW f, NEW g, NEW S, IsFiniteSet(S), NEW x \in S,
         \A y \in S : f[y] \in Int /\ g[y] \in Int,
         \A y \in S \ {x} : g[y] = f[y]
  PROVE  SumFunctionOnSet(g, S) = SumFunctionOnSet(f, S) - f[x] + g[x]
<1>1. IsFiniteSet(S \ {x})
  BY FS_Subset
<1>2. SumFunctionOnSet(g, S \ {x}) = SumFunctionOnSet(f, S \ {x})
  BY <1>1, SumEqual
<1>3. /\ SumFunctionOnSet(g, S) = g[x] + SumFunctionOnSet(g, S \ {x})
      /\ SumFunctionOnSet(f, S) = f[x] + SumFunctionOnSet(f, S \ {x})
  BY SumRemove
<1>4. SumFunctionOnSet(f, S \ {x}) \in Int
  BY <1>1, SumType
<1>. QED
  BY <1>2, <1>3, <1>4

(* Two sums over disjoint sets.                                               *)
THEOREM SumUnion ==
  ASSUME NEW f, NEW S, IsFiniteSet(S), NEW T, IsFiniteSet(T), S \cap T = {},
         \A x \in S \cup T : f[x] \in Int
  PROVE  SumFunctionOnSet(f, S \cup T) = SumFunctionOnSet(f, S) + SumFunctionOnSet(f, T)
<1> DEFINE Sum(U) == SumFunctionOnSet(f, U)
           Bad == {U \in SUBSET T : Sum(S \cup U) # Sum(S) + Sum(U)}
<1> SUFFICES ASSUME Bad # {} PROVE FALSE
  OBVIOUS
<1>1. PICK U \in Bad : \A t \in Bad : t \subseteq U => t = U
  <2> HIDE DEF Bad
  <2>1. Bad \subseteq SUBSET T
    BY DEF Bad
  <2>. QED
    BY <2>1, MinimalSubset
<1>2. \A V \in SUBSET T : /\ IsFiniteSet(V) /\ IsFiniteSet(S \cup V)
                           /\ Sum(V) \in Int /\ Sum(S \cup V) \in Int
  BY FS_Subset, FS_Union, SumType
<1>3. Sum(S) \in Int /\ Sum({}) = 0
  BY SumType, SumEmpty
<1>4. U # {}
  <2>1. S \cup {} = S
    OBVIOUS
  <2>2. Sum(S \cup {}) = Sum(S)
    BY <2>1, Zenon
  <2>3. Sum(S \cup U) # Sum(S) + Sum(U)
    BY <1>1
  <2> HIDE DEF Sum, Bad
  <2>4. Sum(S \cup {}) = Sum(S) + Sum({})
    BY <1>3, <2>2
  <2>. QED
    BY <2>3, <2>4, Zenon
<1>5. PICK x \in U : TRUE
  BY <1>4
<1>6. Sum(S \cup (U \ {x})) = Sum(S) + Sum(U \ {x})
  BY <1>1, <1>5
<1>7. Sum(U) = f[x] + Sum(U \ {x})
  BY <1>2, <1>5, SumRemove
<1>8. Sum(S \cup U) = f[x] + Sum((S \cup U) \ {x})
  <2>1. IsFiniteSet(S \cup U) /\ x \in S \cup U /\ \A z \in S \cup U : f[z] \in Int
    BY <1>2, <1>5
  <2>. QED
    BY <2>1, SumRemove
<1>9. (S \cup U) \ {x} = S \cup (U \ {x})
  BY <1>1, <1>5
<1>10. /\ U \in SUBSET T /\ Sum(S \cup U) # Sum(S) + Sum(U)
       /\ f[x] \in Int /\ U \ {x} \in SUBSET T
  BY <1>1, <1>5
<1> HIDE DEF Sum, Bad
<1>. QED
  BY <1>2, <1>3, <1>6, <1>7, <1>8, <1>9, <1>10

(* A table that grows by one row: sums over old rows stay, and sums over the  *)
(* new one as well take its value.                                            *)
THEOREM SumGrow ==
  ASSUME NEW f, NEW g, NEW D, IsFiniteSet(D), NEW n, n \notin D,
         \A x \in D : f[x] \in Int /\ g[x] = f[x], g[n] \in Int
  PROVE  \A S \in SUBSET D :
           /\ SumFunctionOnSet(f, S) \in Int
           /\ SumFunctionOnSet(g, S) = SumFunctionOnSet(f, S)
           /\ SumFunctionOnSet(g, S \cup {n}) = SumFunctionOnSet(f, S) + g[n]
<1> TAKE S \in SUBSET D
<1>1. IsFiniteSet(S) /\ n \notin S
  BY FS_Subset
<1>2. SumFunctionOnSet(f, S) \in Int
  BY <1>1, SumType
<1>3. SumFunctionOnSet(g, S) = SumFunctionOnSet(f, S)
  BY <1>1, SumEqual
<1>4. SumFunctionOnSet(g, S \cup {n}) = SumFunctionOnSet(g, S) + g[n]
  <2>1. \A y \in S \cup {n} : g[y] \in Int
    OBVIOUS
  <2>. QED
    BY <1>1, <2>1, SumAdd
<1>. QED
  BY <1>2, <1>3, <1>4

(* The least element of a set of naturals.                                    *)
LEMMA LeastNatural ==
  ASSUME NEW S, S \subseteq Nat, S # {}
  PROVE  \E n \in S : \A m \in S : n <= m
<1>1. \E R : /\ IsWellFoundedOn(R, Nat)
             /\ \A a, b \in Nat : a < b => <<a, b>> \in R
  <2>1. \A a, b \in Nat : a < b => <<a, b>> \in OpToRel(<, Nat)
    BY DEF OpToRel
  <2>. QED
    BY <2>1, NatLessThanWellFounded, Zenon
<1>2. PICK R : /\ IsWellFoundedOn(R, Nat)
               /\ \A a, b \in Nat : a < b => <<a, b>> \in R
  BY <1>1
<1>3. PICK n \in S : \A m \in S : ~ (<<m, n>> \in R)
  <2>1. IsWellFoundedOn(R, Nat)
    BY <1>2
  <2>. QED
    BY <2>1, WFMin
<1>4. \A m \in S : ~(m < n)
  BY <1>2, <1>3
<1>. QED
  BY <1>4

(* Induction over a finite set, told of the subsets that fail: when the empty *)
(* one does not, and each that does contains a smaller one that does, none    *)
(* fails.                                                                     *)
LEMMA NoMinimalFailure ==
  ASSUME NEW S, IsFiniteSet(S), NEW Bad, Bad \subseteq SUBSET S, {} \notin Bad,
         \A T \in Bad : \E x \in T : T \ {x} \in Bad
  PROVE  Bad = {}
<1> SUFFICES ASSUME Bad # {} PROVE FALSE
  OBVIOUS
<1>1. PICK T \in Bad : \A t \in Bad : t \subseteq T => t = T
  BY MinimalSubset
<1>. QED
  BY <1>1

(* Naturals add up to a natural.                                              *)
THEOREM SumNatural ==
  ASSUME NEW f, NEW S, IsFiniteSet(S), \A x \in S : f[x] \in Nat
  PROVE  SumFunctionOnSet(f, S) \in Nat
<1> DEFINE Bad == {T \in SUBSET S : SumFunctionOnSet(f, T) \notin Nat}
<1>1. {} \notin Bad
  BY SumEmpty
<1>2. ASSUME NEW T \in Bad PROVE \E x \in T : T \ {x} \in Bad
  <2>1. T \in SUBSET S /\ SumFunctionOnSet(f, T) \notin Nat
    OBVIOUS
  <2>2. IsFiniteSet(T) /\ T # {}
    BY <1>1, <2>1, FS_Subset
  <2>3. PICK x \in T : TRUE
    BY <2>2
  <2>4. \A y \in T : f[y] \in Int
    BY <2>1
  <2>5. SumFunctionOnSet(f, T) = f[x] + SumFunctionOnSet(f, T \ {x})
    BY <2>2, <2>3, <2>4, SumRemove
  <2>6. SumFunctionOnSet(f, T \ {x}) \notin Nat
    BY <2>1, <2>3, <2>5
  <2>. QED
    BY <2>1, <2>3, <2>6
<1>3. Bad \subseteq SUBSET S
  OBVIOUS
<1>4. Bad = {}
  <2> HIDE DEF Bad
  <2>. QED
    BY <1>1, <1>2, <1>3, NoMinimalFailure
<1>. QED
  BY <1>4

(* Zeros add up to zero.                                                      *)
THEOREM SumZero ==
  ASSUME NEW f, NEW S, IsFiniteSet(S), \A x \in S : f[x] = 0
  PROVE  SumFunctionOnSet(f, S) = 0
<1> DEFINE Bad == {T \in SUBSET S : SumFunctionOnSet(f, T) # 0}
<1>1. {} \notin Bad
  BY SumEmpty
<1>2. ASSUME NEW T \in Bad PROVE \E x \in T : T \ {x} \in Bad
  <2>1. T \in SUBSET S /\ SumFunctionOnSet(f, T) # 0
    OBVIOUS
  <2>2. IsFiniteSet(T) /\ T # {}
    BY <1>1, <2>1, FS_Subset
  <2>3. PICK x \in T : f[x] = 0
    BY <2>1, <2>2
  <2>4. \A y \in T : f[y] \in Int
    BY <2>1
  <2>5. SumFunctionOnSet(f, T) = f[x] + SumFunctionOnSet(f, T \ {x})
    BY <2>2, <2>3, <2>4, SumRemove
  <2>6. SumFunctionOnSet(f, T \ {x}) # 0
    BY <2>1, <2>3, <2>5
  <2>. QED
    BY <2>1, <2>3, <2>6
<1>3. Bad \subseteq SUBSET S
  OBVIOUS
<1>4. Bad = {}
  <2> HIDE DEF Bad
  <2>. QED
    BY <1>1, <1>2, <1>3, NoMinimalFailure
<1>. QED
  BY <1>4

(* Of naturals, a part adds up to no more than the whole.                     *)
THEOREM SumPart ==
  ASSUME NEW f, NEW S, IsFiniteSet(S), NEW T \in SUBSET S, \A x \in S : f[x] \in Nat
  PROVE  SumFunctionOnSet(f, T) <= SumFunctionOnSet(f, S)
<1>1. IsFiniteSet(T) /\ IsFiniteSet(S \ T)
  BY FS_Subset
<1>2. SumFunctionOnSet(f, T) \in Nat /\ SumFunctionOnSet(f, S \ T) \in Nat
  BY <1>1, SumNatural
<1>3. T \cap (S \ T) = {} /\ T \cup (S \ T) = S
  OBVIOUS
<1>4. \A x \in T \cup (S \ T) : f[x] \in Int
  OBVIOUS
<1>5. SumFunctionOnSet(f, T \cup (S \ T))
        = SumFunctionOnSet(f, T) + SumFunctionOnSet(f, S \ T)
  BY <1>1, <1>3, <1>4, SumUnion
<1>6. SumFunctionOnSet(f, T \cup (S \ T)) = SumFunctionOnSet(f, S)
  BY <1>3, Zenon
<1>. QED
  BY <1>2, <1>5, <1>6

(* Values that move up by one place keep their sum.                           *)
THEOREM SumShift ==
  ASSUME NEW f, NEW g, NEW S, IsFiniteSet(S), S \subseteq Int,
         \A x \in S : f[x] \in Int /\ g[x + 1] = f[x]
  PROVE  /\ IsFiniteSet({x + 1 : x \in S})
         /\ SumFunctionOnSet(g, {x + 1 : x \in S}) = SumFunctionOnSet(f, S)
<1> DEFINE Up(T) == {x + 1 : x \in T}
           Bad == {T \in SUBSET S : ~ /\ IsFiniteSet(Up(T))
                                      /\ SumFunctionOnSet(g, Up(T)) = SumFunctionOnSet(f, T)}
<1>1. {} \notin Bad
  <2>1. Up({}) = {}
    OBVIOUS
  <2>2. IsFiniteSet({})
    BY FS_EmptySet
  <2>3. IsFiniteSet(Up({}))
    BY <2>1, <2>2, Zenon
  <2>4. SumFunctionOnSet(g, Up({})) = SumFunctionOnSet(g, {})
    BY <2>1, Zenon
  <2>5. SumFunctionOnSet(g, {}) = 0 /\ SumFunctionOnSet(f, {}) = 0
    BY SumEmpty
  <2> HIDE DEF Up
  <2>. QED
    BY <2>3, <2>4, <2>5
<1>2. ASSUME NEW T \in Bad PROVE \E x \in T : T \ {x} \in Bad
  <2>1. /\ T \in SUBSET S
        /\ ~(IsFiniteSet(Up(T)) /\ SumFunctionOnSet(g, Up(T)) = SumFunctionOnSet(f, T))
    OBVIOUS
  <2>2. IsFiniteSet(T) /\ T # {}
    <3> HIDE DEF Bad
    <3>. QED
      BY <1>1, <1>2, <2>1, FS_Subset
  <2>3. PICK x \in T : TRUE
    BY <2>2
  <2>4. T \ {x} \in SUBSET S
    BY <2>1
  <2> SUFFICES ASSUME T \ {x} \notin Bad PROVE FALSE
    OBVIOUS
  <2>5. /\ IsFiniteSet(Up(T \ {x}))
        /\ SumFunctionOnSet(g, Up(T \ {x})) = SumFunctionOnSet(f, T \ {x})
    BY <2>4
  <2>6. Up(T) = Up(T \ {x}) \cup {x + 1}
    BY <2>3
  <2>7. x + 1 \notin Up(T \ {x})
    BY <2>1, <2>3
  <2>8. \A y \in Up(T \ {x}) \cup {x + 1} : g[y] \in Int
    BY <2>1, <2>3
  <2> HIDE DEF Up, Bad
  <2>9. SumFunctionOnSet(g, Up(T \ {x}) \cup {x + 1})
          = SumFunctionOnSet(g, Up(T \ {x})) + g[x + 1]
    BY <2>5, <2>7, <2>8, SumAdd
  <2>10. SumFunctionOnSet(g, Up(T)) = SumFunctionOnSet(g, Up(T \ {x}) \cup {x + 1})
    BY <2>6, Zenon
  <2>11. IsFiniteSet(Up(T \ {x}) \cup {x + 1})
    BY <2>5, FS_AddElement
  <2>12. IsFiniteSet(Up(T))
    BY <2>6, <2>11, Zenon
  <2>13. \A y \in T : f[y] \in Int
    BY <2>1
  <2>14. SumFunctionOnSet(f, T) = f[x] + SumFunctionOnSet(f, T \ {x})
    BY <2>2, <2>3, <2>13, SumRemove
  <2>15. IsFiniteSet(T \ {x})
    BY <2>2, FS_Subset
  <2>16. SumFunctionOnSet(f, T \ {x}) \in Int
    BY <2>13, <2>15, SumType
  <2>17. g[x + 1] = f[x] /\ f[x] \in Int
    BY <2>1, <2>3
  <2>. QED
    BY <2>1, <2>5, <2>9, <2>10, <2>12, <2>14, <2>16, <2>17
<1>3. Bad \subseteq SUBSET S
  OBVIOUS
<1>4. Bad = {}
  <2> HIDE DEF Bad
  <2>. QED
    BY <1>1, <1>2, <1>3, NoMinimalFailure
<1>. QED
  BY <1>4
=============================================================================
