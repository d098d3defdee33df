----------------------------- MODULE FiniteSums -----------------------------
(***************************************************************************)
(* Sums over finite sets: what SumFunctionOnSet of the community modules   *)
(* computes, as facts that proofs about counters and budgets can cite.     *)
(*                                                                         *)
(* The sum is defined by recursion over subsets.  Each fact about it is    *)
(* proved by looking at a smallest subset for which it would fail.         *)
(***************************************************************************)
EXTENDS Integers, FiniteSetsExt, FiniteSetTheorems, WellFoundedInduction, TLAPS

LEMMA Smallest ==
    ASSUME NEW S, IsFiniteSet(S), NEW T \in SUBSET SUBSET S, T # {}
    PROVE  \E t \in T : \A u \in T : u \subseteq t => u = t
<1>1. IsWellFoundedOn(StrictSubsetOrdering(S), FiniteSubsetsOf(S))
    BY FS_StrictSubsetOrderingWellFounded
<1>2. T \subseteq FiniteSubsetsOf(S)
    BY FS_Subset DEF FiniteSubsetsOf
<1>3. \E x \in T : \A y \in T : ~ (<<y, x>> \in StrictSubsetOrdering(S))
    BY <1>1, <1>2, WFMin
<1> QED BY <1>3, <1>2 DEF StrictSubsetOrdering, FiniteSubsetsOf

-----------------------------------------------------------------------------
(* The recursion.                                                          *)

One(s) == CHOOSE x \in s : TRUE

Solves(g, f, S) ==
    g = [s \in SUBSET S |-> IF s = {} THEN 0 ELSE f[One(s)] + g[s \ {One(s)}]]

LEMMA OneIsMember == ASSUME NEW s, s # {} PROVE One(s) \in s
    BY DEF One

LEMMA SumIs ==
    ASSUME NEW f, NEW S
    PROVE  SumFunctionOnSet(f, S) = (CHOOSE g : Solves(g, f, S))[S]
    BY DEF SumFunctionOnSet, FoldFunctionOnSet, MapThenFoldSet, Solves, One

LEMMA SolvesAt ==
    ASSUME NEW f, NEW S, NEW g, Solves(g, f, S), NEW s \in SUBSET S
    PROVE  g[s] = IF s = {} THEN 0 ELSE f[One(s)] + g[s \ {One(s)}]
    BY DEF Solves

(* Two solutions agree wherever both are defined.                          *)
LEMMA SolutionsAgree ==
    ASSUME NEW f, NEW S, NEW T, NEW g, NEW h, Solves(g, f, S), Solves(h, f, T),
           NEW v \in (SUBSET S) \cap (SUBSET T), IsFiniteSet(v)
    PROVE  g[v] = h[v]
<1> DEFINE Bad == {w \in SUBSET v : g[w] # h[w]}
<1>1. SUFFICES ASSUME Bad # {} PROVE FALSE
    OBVIOUS
<1>2. PICK t \in Bad : \A u \in Bad : u \subseteq t => u = t
  <2>1. Bad \in SUBSET SUBSET v
      OBVIOUS
  <2> HIDE DEF Bad
  <2> QED BY <1>1, <2>1, Smallest
<1>3. t \in SUBSET S /\ t \in SUBSET T /\ t \in SUBSET v
    OBVIOUS
<1>4. /\ g[t] = IF t = {} THEN 0 ELSE f[One(t)] + g[t \ {One(t)}]
      /\ h[t] = IF t = {} THEN 0 ELSE f[One(t)] + h[t \ {One(t)}]
    BY <1>3, SolvesAt
<1>5. t # {}
    BY <1>4
<1>6. t \ {One(t)} \in SUBSET v /\ t \ {One(t)} # t
    BY <1>3, <1>5, OneIsMember
<1>7. g[t \ {One(t)}] = h[t \ {One(t)}]
    BY <1>2, <1>6
<1> QED BY <1>4, <1>5, <1>7

LEMMA SolutionExists ==
    ASSUME NEW f, NEW S, IsFiniteSet(S)
    PROVE  \E g : Solves(g, f, S)
<1> DEFINE Bad == {T \in SUBSET S : ~ \E g : Solves(g, f, T)}
<1>1. SUFFICES ASSUME Bad # {} PROVE FALSE
  <2>1. S \in SUBSET S
      OBVIOUS
  <2> QED BY <2>1
<1>2. PICK t \in Bad : \A u \in Bad : u \subseteq t => u = t
  <2>1. Bad \in SUBSET SUBSET S
      OBVIOUS
  <2> HIDE DEF Bad
  <2> QED BY <1>1, <2>1, Smallest
<1> DEFINE G(u) == CHOOSE g : Solves(g, f, u)
           g == [s \in SUBSET t |-> IF s = {} THEN 0
                                    ELSE f[One(s)] + G(s \ {One(s)})[s \ {One(s)}]]
<1>3. ASSUME NEW u \in SUBSET t, u # t PROVE Solves(G(u), f, u)
  <2>1. \E h : Solves(h, f, u)
      BY <1>2, <1>3
  <2> QED BY <2>1
<1>4. ASSUME NEW u \in SUBSET t, u # t PROVE g[u] = G(u)[u]
  <2>1. CASE u = {}
    <3>1. G(u)[u] = 0
        BY <1>3, <1>4, <2>1, SolvesAt
    <3> QED BY <2>1, <3>1
  <2>2. CASE u # {}
    <3> DEFINE v == u \ {One(u)}
    <3>1. v \in SUBSET t /\ v # t /\ v \in SUBSET u /\ IsFiniteSet(v)
      <4>1. v \in SUBSET S /\ v \in SUBSET u
          OBVIOUS
      <4>2. IsFiniteSet(v)
          BY <4>1, FS_Subset
      <4> QED BY <1>4, <4>1, <4>2
    <3>2. G(u)[u] = f[One(u)] + G(u)[v]
        BY <1>3, <1>4, <2>2, SolvesAt
    <3>3. G(u)[v] = G(v)[v]
      <4>1. Solves(G(u), f, u) /\ Solves(G(v), f, v) /\ v \in (SUBSET u) \cap (SUBSET v)
          BY <1>3, <1>4, <3>1
      <4> HIDE DEF G, v
      <4> QED BY <3>1, <4>1, SolutionsAgree
    <3> QED BY <2>2, <3>2, <3>3
  <2> QED BY <2>1, <2>2
<1>5. ASSUME NEW s \in SUBSET t, s # {}
      PROVE  g[s \ {One(s)}] = G(s \ {One(s)})[s \ {One(s)}]
  <2>1. s \ {One(s)} \in SUBSET t /\ s \ {One(s)} # t
      BY <1>5, OneIsMember
  <2> HIDE DEF G, g
  <2> QED BY <1>4, <2>1
<1>6. Solves(g, f, t)
  <2>1. \A s \in SUBSET t :
           g[s] = IF s = {} THEN 0 ELSE f[One(s)] + g[s \ {One(s)}]
    <3>1. \A s \in SUBSET t :
             g[s] = IF s = {} THEN 0 ELSE f[One(s)] + G(s \ {One(s)})[s \ {One(s)}]
        OBVIOUS
    <3> HIDE DEF G, g
    <3> QED BY <1>5, <3>1
  <2>2. g = [s \in SUBSET t |-> g[s]]
      OBVIOUS
  <2> HIDE DEF g
  <2> QED BY <2>1, <2>2 DEF Solves
<1> QED BY <1>6

(* The sum of an empty set, and of any other as the recursion takes it.    *)
LEMMA SumUnfolds ==
    ASSUME NEW f, NEW S, IsFiniteSet(S)
    PROVE  SumFunctionOnSet(f, S) =
              IF S = {} THEN 0 ELSE f[One(S)] + SumFunctionOnSet(f, S \ {One(S)})
<1> DEFINE G(u) == CHOOSE g : Solves(g, f, u)
           v == S \ {One(S)}
<1>1. IsFiniteSet(v) /\ v \in SUBSET S
    BY FS_Subset
<1>2. Solves(G(S), f, S) /\ Solves(G(v), f, v)
    BY <1>1, SolutionExists
<1>3. G(S)[S] = IF S = {} THEN 0 ELSE f[One(S)] + G(S)[v]
    BY <1>2, SolvesAt
<1>4. G(S)[v] = G(v)[v]
  <2> HIDE DEF G, v
  <2> QED BY <1>1, <1>2, SolutionsAgree
<1>5. SumFunctionOnSet(f, S) = G(S)[S] /\ SumFunctionOnSet(f, v) = G(v)[v]
    BY SumIs
<1> QED BY <1>3, <1>4, <1>5
-----------------------------------------------------------------------------
(* Facts about sums.                                                       *)

LEMMA SumEmpty == ASSUME NEW f PROVE SumFunctionOnSet(f, {}) = 0
    BY SumUnfolds, FS_EmptySet

LEMMA SumSame ==
    ASSUME NEW f, NEW g, NEW S, IsFiniteSet(S), \A x \in S : f[x] = g[x]
    PROVE  SumFunctionOnSet(f, S) = SumFunctionOnSet(g, S)
<1> DEFINE Bad == {T \in SUBSET S : SumFunctionOnSet(f, T) # SumFunctionOnSet(g, T)}
<1>1. SUFFICES ASSUME Bad # {} PROVE FALSE
  <2>1. S \in SUBSET S
      OBVIOUS
  <2> QED BY <2>1
<1>2. PICK t \in Bad : \A u \in Bad : u \subseteq t => u = t
  <2>1. Bad \in SUBSET SUBSET S
      OBVIOUS
  <2> HIDE DEF Bad
  <2> QED BY <1>1, <2>1, Smallest
<1>3. IsFiniteSet(t)
    BY FS_Subset
<1>4. t # {}
    BY SumEmpty
<1>5. /\ SumFunctionOnSet(f, t) = f[One(t)] + SumFunctionOnSet(f, t \ {One(t)})
      /\ SumFunctionOnSet(g, t) = g[One(t)] + SumFunctionOnSet(g, t \ {One(t)})
    BY <1>3, <1>4, SumUnfolds
<1>6. One(t) \in t
    BY <1>4, OneIsMember
<1>7. SumFunctionOnSet(f, t \ {One(t)}) = SumFunctionOnSet(g, t \ {One(t)})
    BY <1>2, <1>6
<1> QED BY <1>5, <1>6, <1>7

LEMMA SumIsInt ==
    ASSUME NEW f, NEW S, IsFiniteSet(S), \A x \in S : f[x] \in Int
    PROVE  SumFunctionOnSet(f, S) \in Int
<1> DEFINE Bad == {T \in SUBSET S : SumFunctionOnSet(f, T) \notin Int}
<1>1. SUFFICES ASSUME Bad # {} PROVE FALSE
  <2>1. S \in SUBSET S
      OBVIOUS
  <2> QED BY <2>1
<1>2. PICK t \in Bad : \A u \in Bad : u \subseteq t => u = t
  <2>1. Bad \in SUBSET SUBSET S
      OBVIOUS
  <2> HIDE DEF Bad
  <2> QED BY <1>1, <2>1, Smallest
<1>3. IsFiniteSet(t)
    BY FS_Subset
<1>4. t # {}
    BY SumEmpty
<1>5. SumFunctionOnSet(f, t) = f[One(t)] + SumFunctionOnSet(f, t \ {One(t)})
    BY <1>3, <1>4, SumUnfolds
<1>6. One(t) \in t
    BY <1>4, OneIsMember
<1>7. SumFunctionOnSet(f, t \ {One(t)}) \in Int
    BY <1>2, <1>6
<1> QED BY <1>5, <1>6, <1>7

(* Any member may be taken first.                                          *)
LEMMA SumRemove ==
    ASSUME NEW f, NEW S, IsFiniteSet(S), \A x \in S : f[x] \in Int, NEW x \in S
    PROVE  SumFunctionOnSet(f, S) = f[x] + SumFunctionOnSet(f, S \ {x})
<1> DEFINE Bad == {T \in SUBSET S :
                      \E y \in T : SumFunctionOnSet(f, T)
                                       # f[y] + SumFunctionOnSet(f, T \ {y})}
<1>1. SUFFICES ASSUME Bad # {} PROVE FALSE
  <2>1. S \in SUBSET S
      OBVIOUS
  <2> QED BY <2>1
<1>2. PICK t \in Bad : \A u \in Bad : u \subseteq t => u = t
  <2>1. Bad \in SUBSET SUBSET S
      OBVIOUS
  <2> HIDE DEF Bad
  <2> QED BY <1>1, <2>1, Smallest
<1>3. PICK y \in t : SumFunctionOnSet(f, t) # f[y] + SumFunctionOnSet(f, t \ {y})
    OBVIOUS
<1> DEFINE z == One(t)
           Sum(u) == SumFunctionOnSet(f, u)
<1>4. z \in t /\ IsFiniteSet(t) /\ t \subseteq S
    BY FS_Subset, OneIsMember
<1>5. Sum(t) = f[z] + Sum(t \ {z})
    BY <1>4, SumUnfolds
<1>6. y # z
    BY <1>3, <1>5
<1>7. /\ t \ {z} \subseteq t /\ t \ {z} # t /\ y \in t \ {z}
      /\ t \ {y} \subseteq t /\ t \ {y} # t /\ z \in t \ {y}
    BY <1>4, <1>6
<1>8. Sum(t \ {z}) = f[y] + Sum((t \ {z}) \ {y})
    BY <1>2, <1>4, <1>7
<1>9. Sum(t \ {y}) = f[z] + Sum((t \ {y}) \ {z})
    BY <1>2, <1>4, <1>7
<1>10. (t \ {z}) \ {y} = (t \ {y}) \ {z}
    OBVIOUS
<1>11. f[y] \in Int /\ f[z] \in Int /\ Sum((t \ {y}) \ {z}) \in Int
  <2>1. IsFiniteSet((t \ {y}) \ {z})
      BY <1>4, FS_Subset
  <2>2. f[y] \in Int /\ f[z] \in Int /\ \A w \in (t \ {y}) \ {z} : f[w] \in Int
      BY <1>4
  <2> QED BY <2>1, <2>2, SumIsInt
<1>12. Sum(t) = f[y] + Sum(t \ {y})
  <2> DEFINE n == Sum((t \ {y}) \ {z})
  <2>1. Sum(t) = f[z] + (f[y] + n) /\ Sum(t \ {y}) = f[z] + n
      BY <1>5, <1>8, <1>9, <1>10
  <2>2. n \in Int
      BY <1>11
  <2> HIDE DEF n, Sum, z
  <2> QED BY <2>1, <2>2, <1>11
<1> QED BY <1>3, <1>12

LEMMA SumAdd ==
    ASSUME NEW f, NEW S, IsFiniteSet(S), NEW x, x \notin S,
           \A y \in S \cup {x} : f[y] \in Int
    PROVE  SumFunctionOnSet(f, S \cup {x}) = SumFunctionOnSet(f, S) + f[x]
<1>1. IsFiniteSet(S \cup {x}) /\ (S \cup {x}) \ {x} = S
    BY FS_AddElement
<1>2. SumFunctionOnSet(f, S \cup {x}) = f[x] + SumFunctionOnSet(f, S)
    BY <1>1, SumRemove
<1>3. SumFunctionOnSet(f, S) \in Int /\ f[x] \in Int
    BY SumIsInt
<1> QED BY <1>2, <1>3

LEMMA SumIsNat ==
    ASSUME NEW f, NEW S, IsFiniteSet(S), \A x \in S : f[x] \in Nat
    PROVE  SumFunctionOnSet(f, S) \in Nat
<1> DEFINE Bad == {T \in SUBSET S : SumFunctionOnSet(f, T) \notin Nat}
<1>1. SUFFICES ASSUME Bad # {} PROVE FALSE
  <2>1. S \in SUBSET S
      OBVIOUS
  <2> QED BY <2>1
<1>2. PICK t \in Bad : \A u \in Bad : u \subseteq t => u = t
  <2>1. Bad \in SUBSET SUBSET S
      OBVIOUS
  <2> HIDE DEF Bad
  <2> QED BY <1>1, <2>1, Smallest
<1>3. IsFiniteSet(t)
    BY FS_Subset
<1>4. t # {}
    BY SumEmpty
<1>5. SumFunctionOnSet(f, t) = f[One(t)] + SumFunctionOnSet(f, t \ {One(t)})
    BY <1>3, <1>4, SumUnfolds
<1>6. One(t) \in t
    BY <1>4, OneIsMember
<1>7. SumFunctionOnSet(f, t \ {One(t)}) \in Nat
    BY <1>2, <1>6
<1> QED BY <1>5, <1>6, <1>7

LEMMA SumOfZeros ==
    ASSUME NEW f, NEW S, IsFiniteSet(S), \A x \in S : f[x] = 0
    PROVE  SumFunctionOnSet(f, S) = 0
<1> DEFINE Bad == {T \in SUBSET S : SumFunctionOnSet(f, T) # 0}
<1>1. SUFFICES ASSUME Bad # {} PROVE FALSE
  <2>1. S \in SUBSET S
      OBVIOUS
  <2> QED BY <2>1
<1>2. PICK t \in Bad : \A u \in Bad : u \subseteq t => u = t
  <2>1. Bad \in SUBSET SUBSET S
      OBVIOUS
  <2> HIDE DEF Bad
  <2> QED BY <1>1, <2>1, Smallest
<1>3. IsFiniteSet(t)
    BY FS_Subset
<1>4. t # {}
    BY SumEmpty
<1>5. SumFunctionOnSet(f, t) = f[One(t)] + SumFunctionOnSet(f, t \ {One(t)})
    BY <1>3, <1>4, SumUnfolds
<1>6. One(t) \in t
    BY <1>4, OneIsMember
<1>7. SumFunctionOnSet(f, t \ {One(t)}) = 0
    BY <1>2, <1>6
<1> QED BY <1>5, <1>6, <1>7

LEMMA SumPlus ==
    ASSUME NEW f, NEW g, NEW h, NEW S, IsFiniteSet(S),
           \A x \in S : f[x] \in Int /\ g[x] \in Int /\ h[x] = f[x] + g[x]
    PROVE  SumFunctionOnSet(h, S) = SumFunctionOnSet(f, S) + SumFunctionOnSet(g, S)
<1> DEFINE Bad == {T \in SUBSET S :
                      SumFunctionOnSet(h, T)
                         # SumFunctionOnSet(f, T) + SumFunctionOnSet(g, T)}
<1>1. SUFFICES ASSUME Bad # {} PROVE FALSE
  <2>1. S \in SUBSET S
      OBVIOUS
  <2> QED BY <2>1
<1>2. PICK t \in Bad : \A u \in Bad : u \subseteq t => u = t
  <2>1. Bad \in SUBSET SUBSET S
      OBVIOUS
  <2> HIDE DEF Bad
  <2> QED BY <1>1, <2>1, Smallest
<1>3. IsFiniteSet(t)
    BY FS_Subset
<1>4. t # {}
  <2>1. /\ SumFunctionOnSet(f, {}) = 0 /\ SumFunctionOnSet(g, {}) = 0
        /\ SumFunctionOnSet(h, {}) = 0
      BY SumEmpty
  <2>2. CASE t = {}
    <3>1. /\ SumFunctionOnSet(f, t) = 0 /\ SumFunctionOnSet(g, t) = 0
          /\ SumFunctionOnSet(h, t) = 0
        BY <2>1, <2>2
    <3>2. SumFunctionOnSet(h, t) = SumFunctionOnSet(f, t) + SumFunctionOnSet(g, t)
        BY <3>1
    <3> QED BY <3>2
  <2> QED BY <2>2
<1> DEFINE x == One(t)
           v == t \ {x}
<1>5. x \in t /\ v \subseteq t /\ v # t /\ IsFiniteSet(v)
    BY <1>3, <1>4, OneIsMember, FS_Subset
<1>6. /\ SumFunctionOnSet(f, t) = f[x] + SumFunctionOnSet(f, v)
      /\ SumFunctionOnSet(g, t) = g[x] + SumFunctionOnSet(g, v)
      /\ SumFunctionOnSet(h, t) = h[x] + SumFunctionOnSet(h, v)
    BY <1>3, <1>4, SumUnfolds
<1>7. SumFunctionOnSet(h, v) = SumFunctionOnSet(f, v) + SumFunctionOnSet(g, v)
    BY <1>2, <1>5
<1>8. SumFunctionOnSet(f, v) \in Int /\ SumFunctionOnSet(g, v) \in Int
  <2>1. \A y \in v : f[y] \in Int /\ g[y] \in Int
      BY <1>5
  <2> QED BY <1>5, <2>1, SumIsInt
<1>9. f[x] \in Int /\ g[x] \in Int /\ h[x] = f[x] + g[x]
    BY <1>5
<1>10. SumFunctionOnSet(h, t) = SumFunctionOnSet(f, t) + SumFunctionOnSet(g, t)
  <2> HIDE DEF v, x
  <2> QED BY <1>6, <1>7, <1>8, <1>9
<1> QED BY <1>10

(* A sum that some one-to-one map carries into another is no larger.       *)
LEMMA SumInjection ==
    ASSUME NEW f, NEW A, IsFiniteSet(A), NEW g, NEW B, IsFiniteSet(B), NEW w,
           \A a \in A : f[a] \in Nat, \A b \in B : g[b] \in Nat,
           \A a \in A : w[a] \in B /\ f[a] <= g[w[a]],
           \A a, b \in A : w[a] = w[b] => a = b
    PROVE  SumFunctionOnSet(f, A) <= SumFunctionOnSet(g, B)
<1> DEFINE Bad == {T \in SUBSET A : \E C \in SUBSET B :
                      /\ \A a \in T : w[a] \in C
                      /\ ~ (SumFunctionOnSet(f, T) <= SumFunctionOnSet(g, C))}
<1>1. SUFFICES ASSUME Bad # {} PROVE FALSE
  <2>1. A \in SUBSET A /\ B \in SUBSET B
      OBVIOUS
  <2> QED BY <2>1
<1>2. PICK t \in Bad : \A u \in Bad : u \subseteq t => u = t
  <2>1. Bad \in SUBSET SUBSET A
      OBVIOUS
  <2> HIDE DEF Bad
  <2> QED BY <1>1, <2>1, Smallest
<1>3. PICK C \in SUBSET B :
          /\ \A a \in t : w[a] \in C
          /\ ~ (SumFunctionOnSet(f, t) <= SumFunctionOnSet(g, C))
    OBVIOUS
<1>4. IsFiniteSet(t) /\ IsFiniteSet(C) /\ t \subseteq A
    BY FS_Subset
<1>5. SumFunctionOnSet(g, C) \in Nat
    BY <1>4, SumIsNat
<1>6. t # {}
    BY <1>3, <1>5, SumEmpty
<1> DEFINE x == One(t)
           v == t \ {x}
           D == C \ {w[x]}
<1>7. /\ x \in t /\ v \subseteq t /\ v # t /\ IsFiniteSet(v)
      /\ w[x] \in C /\ D \in SUBSET B /\ IsFiniteSet(D)
    BY <1>3, <1>4, <1>6, OneIsMember, FS_Subset
<1>8. SumFunctionOnSet(f, t) = f[x] + SumFunctionOnSet(f, v)
    BY <1>4, <1>6, SumUnfolds
<1>9. SumFunctionOnSet(g, C) = g[w[x]] + SumFunctionOnSet(g, D)
  <2>1. \A b \in C : g[b] \in Int
      OBVIOUS
  <2> QED BY <1>4, <1>7, <2>1, SumRemove
<1>10. SumFunctionOnSet(f, v) <= SumFunctionOnSet(g, D)
  <2>1. \A a \in v : w[a] \in D
      BY <1>3, <1>4, <1>7
  <2> QED BY <1>2, <1>7, <2>1
<1>11. SumFunctionOnSet(f, v) \in Nat /\ SumFunctionOnSet(g, D) \in Nat
  <2>1. (\A a \in v : f[a] \in Nat) /\ (\A b \in D : g[b] \in Nat)
      BY <1>4, <1>7
  <2> QED BY <1>7, <2>1, SumIsNat
<1>12. f[x] \in Nat /\ g[w[x]] \in Nat /\ f[x] <= g[w[x]]
    BY <1>4, <1>7
<1>13. SumFunctionOnSet(f, t) <= SumFunctionOnSet(g, C)
  <2> HIDE DEF x, v, D
  <2> QED BY <1>8, <1>9, <1>10, <1>11, <1>12
<1> QED BY <1>3, <1>13

LEMMA SumMonotone ==
    ASSUME NEW f, NEW g, NEW S, NEW T \in SUBSET S, IsFiniteSet(S),
           \A x \in T : f[x] \in Nat /\ f[x] <= g[x],
           \A x \in S : g[x] \in Nat
    PROVE  SumFunctionOnSet(f, T) <= SumFunctionOnSet(g, S)
<1> DEFINE w == [x \in T |-> x]
<1>1. IsFiniteSet(T)
    BY FS_Subset
<1>2. /\ \A a \in T : w[a] \in S /\ f[a] <= g[w[a]]
      /\ \A a, b \in T : w[a] = w[b] => a = b
    OBVIOUS
<1> HIDE DEF w
<1> QED BY <1>1, <1>2, SumInjection

(* A sum in which one term has changed.                                    *)
LEMMA SumUpdate ==
    ASSUME NEW f, NEW g, NEW S, IsFiniteSet(S), NEW x \in S,
           \A y \in S : f[y] \in Int /\ g[y] \in Int,
           \A y \in S \ {x} : g[y] = f[y]
    PROVE  SumFunctionOnSet(g, S) = SumFunctionOnSet(f, S) - f[x] + g[x]
<1> DEFINE v == S \ {x}
<1>1. IsFiniteSet(v)
    BY FS_Subset
<1>2. /\ SumFunctionOnSet(f, S) = f[x] + SumFunctionOnSet(f, v)
      /\ SumFunctionOnSet(g, S) = g[x] + SumFunctionOnSet(g, v)
    BY SumRemove
<1>3. SumFunctionOnSet(g, v) = SumFunctionOnSet(f, v)
    BY <1>1, SumSame
<1>4. SumFunctionOnSet(f, v) \in Int /\ f[x] \in Int /\ g[x] \in Int
    BY <1>1, SumIsInt
<1> QED BY <1>2, <1>3, <1>4

(* What is counted of a finite set, one member more or less.               *)
LEMMA CountUpdate ==
    ASSUME NEW S, IsFiniteSet(S), NEW A \in SUBSET S, NEW B \in SUBSET S,
           NEW x \in S, \A y \in S \ {x} : y \in A <=> y \in B
    PROVE  /\ Cardinality(A) \in Nat /\ Cardinality(B) \in Nat
           /\ Cardinality(B) = Cardinality(A) + (IF x \in B THEN 1 ELSE 0)
                                                - (IF x \in A THEN 1 ELSE 0)
           /\ x \in A => Cardinality(A) > 0
<1> DEFINE C == A \ {x}
<1>1. IsFiniteSet(A) /\ IsFiniteSet(B) /\ IsFiniteSet(C)
    BY FS_Subset
<1>2. Cardinality(A) \in Nat /\ Cardinality(B) \in Nat /\ Cardinality(C) \in Nat
    BY <1>1, FS_CardinalityType
<1>3. A = (IF x \in A THEN C \cup {x} ELSE C) /\ B = (IF x \in B THEN C \cup {x} ELSE C)
    OBVIOUS
<1>4. Cardinality(C \cup {x}) = Cardinality(C) + 1
    BY <1>1, FS_AddElement
<1>5. ~ (x \in C)
    OBVIOUS
<1> HIDE DEF C
<1>6. CASE x \in A
    BY <1>2, <1>3, <1>4, <1>6
<1>7. CASE x \notin A
    BY <1>2, <1>3, <1>4, <1>7
<1> QED BY <1>6, <1>7

(* A finite set of numbers that is not empty has a largest member.         *)
LEMMA MaxOfNats ==
    ASSUME NEW S, S \subseteq Nat, IsFiniteSet(S), S # {}
    PROVE  Max(S) \in S /\ \A x \in S : x <= Max(S)
<1> DEFINE Bad == {T \in SUBSET S : T # {} /\ ~ \E m \in T : \A x \in T : x <= m}
<1>1. SUFFICES ASSUME Bad # {} PROVE FALSE
  <2>1. \E y \in S : \A x \in S : y >= x
    <3>1. PICK m \in S : \A x \in S : x <= m
        OBVIOUS
    <3> QED BY <3>1
  <2>2. Max(S) \in S /\ \A x \in S : Max(S) >= x
      BY <2>1 DEF Max
  <2> QED BY <2>2
<1>2. PICK t \in Bad : \A u \in Bad : u \subseteq t => u = t
  <2>1. Bad \in SUBSET SUBSET S
      OBVIOUS
  <2> HIDE DEF Bad
  <2> QED BY ONLY <1>1, <2>1, Smallest, IsFiniteSet(S)
<1>3. IsFiniteSet(t)
    BY FS_Subset
<1> DEFINE z == One(t)
           v == t \ {z}
<1>4. z \in t /\ v \subseteq t /\ v # t /\ t \subseteq Nat
    BY OneIsMember
<1>5. CASE v = {}
  <2>1. z \in t /\ \A x \in t : x <= z
      BY <1>4, <1>5
  <2> QED BY <2>1
<1>6. CASE v # {}
  <2>1. PICK m \in v : \A x \in v : x <= m
      BY <1>2, <1>4, <1>6
  <2>2. m \in Nat /\ z \in Nat /\ \A x \in v : x \in Nat
      BY <1>4
  <2>3. \A x \in t : x = z \/ x \in v
      OBVIOUS
  <2>4. CASE z <= m
      BY <1>4, <2>1, <2>3, <2>4
  <2>5. CASE m <= z
    <3>1. \A x \in t : x <= z
        BY <2>1, <2>2, <2>3, <2>5
    <3> QED BY <1>4, <3>1
  <2> QED BY <2>2, <2>4, <2>5
<1> QED BY <1>5, <1>6
=============================================================================
