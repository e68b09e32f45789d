----------------------------- MODULE SumProofs -----------------------------
(* Sums over a finite set, as the community modules define them.  The       *)
(* provers cannot use an induction theorem: each fact is shown by looking    *)
(* at a least subset for which it would fail.                               *)
EXTENDS Integers, FiniteSets, Functions, FiniteSetTheorems,
        WellFoundedInduction, TLAPS

(* The element a sum takes next, and the sums of f over the subsets of S.   *)
First(s) == CHOOSE x \in s : TRUE

SumTable(F, f, S) ==
    F = [s \in SUBSET S |-> IF s = {} THEN 0 ELSE f[First(s)] + F[s \ {First(s)}]]

(* A sum is what the table of sums holds at the whole set.                  *)
LEMMA SumUnfolds ==
    ASSUME NEW f, NEW S
    PROVE  SumFunctionOnSet(f, S) = (CHOOSE F : SumTable(F, f, S))[S]
BY DEF SumFunctionOnSet, FoldFunctionOnSet, MapThenFoldSet, SumTable, First

(* A set of subsets of a finite set has a least one: the way to a least      *)
(* counterexample.                                                          *)
LEMMA LeastSubset ==
    ASSUME NEW S, IsFiniteSet(S), NEW T \in SUBSET (SUBSET S), T # {}
    PROVE  \E s \in T : \A t \in T : ~(t \subseteq s /\ t # s)
<1>1. IsWellFoundedOn(StrictSubsetOrdering(S), SUBSET S)
  BY FS_StrictSubsetOrderingWellFounded, FS_FiniteSubsetsOfFinite
<1>2. \E s \in T : \A t \in T : ~(<<t, s>> \in StrictSubsetOrdering(S))
  BY <1>1, WFMin
<1> QED BY <1>2 DEF StrictSubsetOrdering

(* A set that is not empty has a next element.                              *)
LEMMA FirstIn == ASSUME NEW s, s # {} PROVE First(s) \in s
BY DEF First

(* Two tables agree where both are defined.                                 *)
LEMMA SumTablesAgree ==
    ASSUME NEW f, NEW S, NEW U, NEW F, NEW G, SumTable(F, f, S), SumTable(G, f, U),
           NEW w, w \subseteq S, w \subseteq U, IsFiniteSet(w)
    PROVE  F[w] = G[w]
<1> DEFINE Bad == {s \in SUBSET w : F[s] # G[s]}
<1> SUFFICES ASSUME Bad # {} PROVE FALSE
  OBVIOUS
<1>1. PICK s \in Bad : \A t \in Bad : ~(t \subseteq s /\ t # s)
  <2>1. Bad \in SUBSET (SUBSET w)
    OBVIOUS
  <2> HIDE DEF Bad
  <2> QED BY <2>1, LeastSubset
<1>2. s \in SUBSET S /\ s \in SUBSET U
  OBVIOUS
<1>3. F[s] = IF s = {} THEN 0 ELSE f[First(s)] + F[s \ {First(s)}]
  BY <1>2 DEF SumTable
<1>4. G[s] = IF s = {} THEN 0 ELSE f[First(s)] + G[s \ {First(s)}]
  BY <1>2 DEF SumTable
<1>5. s # {}
  BY <1>3, <1>4
<1>6. F[s \ {First(s)}] = G[s \ {First(s)}]
  BY <1>1, <1>5, FirstIn
<1> QED BY <1>3, <1>4, <1>6

(* The recursive definition of a sum does define one.                       *)
LEMMA SumTableExists ==
    ASSUME NEW S, IsFiniteSet(S), NEW f, \A x \in S : f[x] \in Nat
    PROVE  \E F \in [SUBSET S -> Nat] : SumTable(F, f, S)
<1> DEFINE Bad == {s \in SUBSET S : ~\E F \in [SUBSET s -> Nat] : SumTable(F, f, s)}
<1> SUFFICES ASSUME Bad # {} PROVE FALSE
  OBVIOUS
<1>1. PICK s \in Bad : \A t \in Bad : ~(t \subseteq s /\ t # s)
  <2>1. Bad \in SUBSET (SUBSET S)
    OBVIOUS
  <2> HIDE DEF Bad
  <2> QED BY <2>1, LeastSubset
<1> DEFINE Table(t) == CHOOSE F \in [SUBSET t -> Nat] : SumTable(F, f, t)
           Rest(t) == t \ {First(t)}
           F == [t \in SUBSET s |->
                   IF t = {} THEN 0 ELSE f[First(t)] + Table(Rest(t))[Rest(t)]]
<1>2. ASSUME NEW t, t \subseteq s, t # s
      PROVE  Table(t) \in [SUBSET t -> Nat] /\ SumTable(Table(t), f, t)
  <2>1. \E G \in [SUBSET t -> Nat] : SumTable(G, f, t)
    BY <1>1, <1>2
  <2> QED BY <2>1
<1>3. ASSUME NEW t \in SUBSET s, t # {}
      PROVE  Rest(t) \subseteq s /\ Rest(t) # s /\ First(t) \in S
  BY <1>3, FirstIn
<1> HIDE DEF Table
<1>4. F \in [SUBSET s -> Nat]
  <2>1. ASSUME NEW t \in SUBSET s, t # {}
        PROVE  f[First(t)] + Table(Rest(t))[Rest(t)] \in Nat
    <3>1. f[First(t)] \in Nat
      BY <1>3, <2>1
    <3>2. Table(Rest(t))[Rest(t)] \in Nat
      <4> DEFINE u == Rest(t)
      <4>1. u \subseteq s /\ u # s
        BY <1>3, <2>1
      <4> HIDE DEF u
      <4>2. Table(u) \in [SUBSET u -> Nat] /\ u \in SUBSET u
        BY <1>2, <4>1
      <4>3. Table(u)[u] \in Nat
        BY <4>2
      <4> QED BY <4>3 DEF u
    <3> QED BY <3>1, <3>2
  <2> QED BY <2>1
<1>5. ASSUME NEW t \in SUBSET s, t # {}
      PROVE  F[Rest(t)] = Table(Rest(t))[Rest(t)]
  <2> DEFINE u == Rest(t)
             v == Rest(u)
  <2>1. u \in SUBSET s /\ u # s
    BY <1>3, <1>5
  <2>2. SumTable(Table(u), f, u)
    BY <1>2, <2>1
  <2>3. F[u] = IF u = {} THEN 0 ELSE f[First(u)] + Table(v)[v]
    BY <2>1
  <2>4. Table(u)[u] = IF u = {} THEN 0 ELSE f[First(u)] + Table(u)[v]
    BY <2>2 DEF SumTable
  <2>5. CASE u = {}
    BY <2>3, <2>4, <2>5
  <2>6. CASE u # {}
    <3>1. v \subseteq s /\ v # s /\ v \subseteq u
      BY <1>3, <2>1, <2>6
    <3>2. SumTable(Table(v), f, v)
      BY <1>2, <3>1
    <3>3. IsFiniteSet(v)
      BY <3>1, FS_Subset
    <3> HIDE DEF u, v
    <3>4. Table(u)[v] = Table(v)[v]
      BY <2>2, <3>1, <3>2, <3>3, SumTablesAgree
    <3>5. F[u] = Table(u)[u]
      BY <2>3, <2>4, <3>4
    <3> QED BY <3>5 DEF u
  <2> QED BY <2>5, <2>6
<1>6. SumTable(F, f, s)
  <2>1. F = [t \in SUBSET s |-> IF t = {} THEN 0 ELSE f[First(t)] + F[Rest(t)]]
    BY <1>5
  <2> QED BY <2>1 DEF SumTable
<1> QED BY <1>1, <1>4, <1>6

(* A sum of numbers is a number, an entry of a table of sums.               *)
LEMMA SumIsTable ==
    ASSUME NEW S, IsFiniteSet(S), NEW f, \A x \in S : f[x] \in Nat
    PROVE  \E F \in [SUBSET S -> Nat] :
              SumTable(F, f, S) /\ SumFunctionOnSet(f, S) = F[S]
<1>1. PICK F \in [SUBSET S -> Nat] : SumTable(F, f, S)
  BY SumTableExists
<1> DEFINE G == CHOOSE H : SumTable(H, f, S)
<1>2. SumTable(G, f, S)
  BY <1>1
<1> HIDE DEF G
<1>3. F[S] = G[S]
  BY <1>1, <1>2, SumTablesAgree
<1> QED BY <1>1, <1>3, SumUnfolds DEF G

(* Numbers that differ at x only.                                           *)
DifferAt(f, g, S, x) ==
    \A y \in S : f[y] \in Nat /\ g[y] \in Nat /\ (y # x => g[y] = f[y])

(* Then their sums differ by as much.                                       *)
LEMMA SumChanges ==
    ASSUME NEW S, IsFiniteSet(S), NEW f, NEW g, NEW x \in S, DifferAt(f, g, S, x)
    PROVE  /\ SumFunctionOnSet(f, S) \in Nat /\ SumFunctionOnSet(g, S) \in Nat
           /\ SumFunctionOnSet(g, S) = SumFunctionOnSet(f, S) + (g[x] - f[x])
<1>1. PICK F \in [SUBSET S -> Nat] : SumTable(F, f, S) /\ SumFunctionOnSet(f, S) = F[S]
  BY SumIsTable DEF DifferAt
<1>2. PICK G \in [SUBSET S -> Nat] : SumTable(G, g, S) /\ SumFunctionOnSet(g, S) = G[S]
  BY SumIsTable DEF DifferAt
<1> DEFINE Change(s) == IF x \in s THEN g[x] - f[x] ELSE 0
           Bad == {s \in SUBSET S : G[s] # F[s] + Change(s)}
<1>3. ASSUME Bad # {} PROVE FALSE
  <2>1. PICK s \in Bad : \A t \in Bad : ~(t \subseteq s /\ t # s)
    <3>1. Bad \in SUBSET (SUBSET S)
      OBVIOUS
    <3> HIDE DEF Bad
    <3> QED BY <1>3, <3>1, LeastSubset
  <2> DEFINE y == First(s)
             t == s \ {y}
  <2>2. F[s] = IF s = {} THEN 0 ELSE f[y] + F[t]
    BY <1>1 DEF SumTable
  <2>3. G[s] = IF s = {} THEN 0 ELSE g[y] + G[t]
    BY <1>2 DEF SumTable
  <2>4. s # {}
    BY <2>2, <2>3
  <2>5. y \in s /\ y \in S /\ t \in SUBSET S /\ t # s
    BY <2>4, FirstIn
  <2>6. G[t] = F[t] + Change(t)
    BY <2>1, <2>5
  <2>7. /\ f[y] \in Nat /\ g[y] \in Nat /\ f[x] \in Nat /\ g[x] \in Nat
        /\ F[t] \in Nat /\ G[t] \in Nat /\ (y # x => g[y] = f[y])
    BY <1>1, <1>2, <2>5 DEF DifferAt
  <2>8. /\ y = x => Change(s) = g[x] - f[x] /\ Change(t) = 0
        /\ y # x => Change(s) = Change(t)
    BY <2>5
  <2>9. Change(s) \in Int /\ Change(t) \in Int
    BY <2>7
  <2>10. G[s] # F[s] + Change(s)
    OBVIOUS
  <2> HIDE DEF y, t, Change
  <2>11. G[s] = F[s] + Change(s)
    BY <2>2, <2>3, <2>4, <2>6, <2>7, <2>8, <2>9
  <2> QED BY <2>10, <2>11
<1>4. G[S] = F[S] + Change(S)
  BY <1>3
<1> QED BY <1>1, <1>2, <1>4 DEF DifferAt

(* A sum of zeros.                                                          *)
LEMMA SumOfZeros ==
    ASSUME NEW S, IsFiniteSet(S), NEW f, \A x \in S : f[x] = 0
    PROVE  SumFunctionOnSet(f, S) = 0
<1>0. \A x \in S : f[x] \in Nat
  OBVIOUS
<1>1. PICK F \in [SUBSET S -> Nat] : SumTable(F, f, S) /\ SumFunctionOnSet(f, S) = F[S]
  BY <1>0, SumIsTable
<1> DEFINE Bad == {s \in SUBSET S : F[s] # 0}
<1>2. ASSUME Bad # {} PROVE FALSE
  <2>1. PICK s \in Bad : \A t \in Bad : ~(t \subseteq s /\ t # s)
    <3>1. Bad \in SUBSET (SUBSET S)
      OBVIOUS
    <3> HIDE DEF Bad
    <3> QED BY <1>2, <3>1, LeastSubset
  <2>2. F[s] = IF s = {} THEN 0 ELSE f[First(s)] + F[s \ {First(s)}]
    BY <1>1 DEF SumTable
  <2>3. s # {}
    BY <2>2
  <2>4. First(s) \in s /\ First(s) \in S
    BY <2>3, FirstIn
  <2>5. F[s \ {First(s)}] = 0
    BY <2>1, <2>4
  <2> QED BY <2>2, <2>3, <2>4, <2>5
<1> QED BY <1>1, <1>2

(* All the sums over subsets are entries of one table.                      *)
HoldsSums(F, f, S) ==
    SumTable(F, f, S) /\ \A T \in SUBSET S : SumFunctionOnSet(f, T) = F[T]

(* A finite set has a table of the sums over its subsets.                   *)
LEMMA SumsInTable ==
    ASSUME NEW S, IsFiniteSet(S), NEW f, \A x \in S : f[x] \in Nat
    PROVE  \E F \in [SUBSET S -> Nat] : HoldsSums(F, f, S)
<1>1. PICK F \in [SUBSET S -> Nat] : SumTable(F, f, S)
  BY SumTableExists
<1>2. ASSUME NEW T \in SUBSET S PROVE SumFunctionOnSet(f, T) = F[T]
  <2>1. IsFiniteSet(T) /\ \A x \in T : f[x] \in Nat
    BY FS_Subset
  <2>2. PICK G \in [SUBSET T -> Nat] : SumTable(G, f, T) /\ SumFunctionOnSet(f, T) = G[T]
    BY <2>1, SumIsTable
  <2>3. G[T] = F[T]
    BY <1>1, <2>1, <2>2, SumTablesAgree
  <2> QED BY <2>2, <2>3
<1> QED BY <1>1, <1>2 DEF HoldsSums

(* A sum of numbers is a number, and 0 if there are none.                   *)
LEMMA SumType ==
    ASSUME NEW S, IsFiniteSet(S), NEW f, \A x \in S : f[x] \in Nat
    PROVE  SumFunctionOnSet(f, S) \in Nat /\ (S = {} => SumFunctionOnSet(f, S) = 0)
<1>1. PICK F \in [SUBSET S -> Nat] : SumTable(F, f, S) /\ SumFunctionOnSet(f, S) = F[S]
  BY SumIsTable
<1>2. S \in SUBSET S /\ (S = {} => F[S] = 0)
  BY <1>1 DEF SumTable
<1> QED BY <1>1, <1>2

(* Any summand can be taken first.                                          *)
LEMMA SumRemoves ==
    ASSUME NEW S, IsFiniteSet(S), NEW f, \A y \in S : f[y] \in Nat, NEW x \in S
    PROVE  SumFunctionOnSet(f, S) = f[x] + SumFunctionOnSet(f, S \ {x})
<1>0. PICK F \in [SUBSET S -> Nat] : HoldsSums(F, f, S)
  BY SumsInTable
<1>1. SumTable(F, f, S) /\ \A T \in SUBSET S : SumFunctionOnSet(f, T) = F[T]
  BY <1>0 DEF HoldsSums
<1> DEFINE Bad == {s \in SUBSET S : \E y \in s : F[s] # f[y] + F[s \ {y}]}
<1>2. ASSUME Bad # {} PROVE FALSE
  <2>1. PICK s \in Bad : \A t \in Bad : ~(t \subseteq s /\ t # s)
    <3>1. Bad \in SUBSET (SUBSET S)
      OBVIOUS
    <3> HIDE DEF Bad
    <3> QED BY <1>2, <3>1, LeastSubset
  <2>2. PICK y \in s : F[s] # f[y] + F[s \ {y}]
    OBVIOUS
  <2> DEFINE z == First(s)
             a == s \ {y}
             b == s \ {z}
             c == s \ {y, z}
  <2>3. z \in s /\ F[s] = f[z] + F[b]
    BY <1>1, FirstIn DEF SumTable
  <2>4. y # z
    BY <2>2, <2>3
  <2>5. /\ a \in SUBSET S /\ b \in SUBSET S /\ c \in SUBSET S
        /\ z \in a /\ y \in b /\ a # s /\ b # s
        /\ c = a \ {z} /\ c = b \ {y}
    BY <2>3, <2>4
  <2>6. a \notin Bad /\ b \notin Bad
    BY <2>1, <2>5
  <2>7. F[a] = f[z] + F[c] /\ F[b] = f[y] + F[c]
    BY <2>5, <2>6
  <2>8. /\ f[y] \in Nat /\ f[z] \in Nat
        /\ F[a] \in Nat /\ F[b] \in Nat /\ F[c] \in Nat
    BY <2>3, <2>5
  <2>9. F[s] # f[y] + F[a]
    BY <2>2
  <2> HIDE DEF a, b, c, z
  <2> QED BY <2>3, <2>7, <2>8, <2>9
<1>3. F[S] = f[x] + F[S \ {x}]
  BY <1>2
<1>4. S \in SUBSET S /\ S \ {x} \in SUBSET S
  OBVIOUS
<1> QED BY <1>1, <1>3, <1>4

(* Sums of the same numbers.                                                *)
LEMMA SumSame ==
    ASSUME NEW S, IsFiniteSet(S), NEW f, NEW g,
           \A x \in S : f[x] \in Nat /\ g[x] = f[x]
    PROVE  SumFunctionOnSet(g, S) = SumFunctionOnSet(f, S)
<1>1. CASE S = {}
  <2>1. SumFunctionOnSet(f, S) = 0 /\ SumFunctionOnSet(g, S) = 0
    BY <1>1, SumType
  <2> QED BY <2>1
<1>2. CASE S # {}
  <2>1. PICK x \in S : TRUE
    BY <1>2
  <2>2. DifferAt(f, g, S, x) /\ f[x] \in Nat /\ g[x] = f[x]
    BY DEF DifferAt
  <2>3. /\ SumFunctionOnSet(f, S) \in Nat
        /\ SumFunctionOnSet(g, S) = SumFunctionOnSet(f, S) + (g[x] - f[x])
    BY <2>2, SumChanges
  <2> QED BY <2>2, <2>3
<1> QED BY <1>1, <1>2

(* One summand more.                                                        *)
LEMMA SumAdds ==
    ASSUME NEW T, IsFiniteSet(T), NEW x, x \notin T,
           NEW f, \A y \in T \union {x} : f[y] \in Nat
    PROVE  /\ SumFunction([y \in T |-> f[y]]) \in Nat
           /\ SumFunction([y \in T \union {x} |-> f[y]])
                = SumFunction([y \in T |-> f[y]]) + f[x]
<1> DEFINE U == T \union {x}
           g == [y \in U |-> f[y]]
           h == [y \in T |-> f[y]]
<1>1. IsFiniteSet(U) /\ U \ {x} = T /\ x \in U
  BY FS_AddElement
<1>2. /\ \A y \in U : g[y] \in Nat
      /\ \A y \in T : h[y] \in Nat /\ g[y] = h[y]
      /\ g[x] = f[x] /\ DOMAIN g = U /\ DOMAIN h = T
  OBVIOUS
<1> HIDE DEF U, g, h
<1>3. SumFunctionOnSet(g, U) = g[x] + SumFunctionOnSet(g, T)
  <2>1. SumFunctionOnSet(g, U) = g[x] + SumFunctionOnSet(g, U \ {x})
    BY <1>1, <1>2, SumRemoves
  <2> QED BY <1>1, <2>1, Zenon
<1>4. SumFunctionOnSet(g, T) = SumFunctionOnSet(h, T)
  BY <1>2, SumSame
<1>5. SumFunctionOnSet(h, T) \in Nat
  BY <1>2, SumType
<1>6. SumFunction(g) = SumFunctionOnSet(g, U) /\ SumFunction(h) = SumFunctionOnSet(h, T)
  BY <1>2 DEF SumFunction
<1>7. g[x] \in Nat /\ f[x] = g[x]
  BY <1>1, <1>2
<1>8. SumFunction(g) = SumFunction(h) + f[x] /\ SumFunction(h) \in Nat
  BY <1>3, <1>4, <1>5, <1>6, <1>7
<1> QED BY <1>8 DEF U, g, h

(* No summands.                                                             *)
LEMMA SumOfNone == ASSUME NEW f, DOMAIN f = {} PROVE SumFunction(f) = 0
<1>1. IsFiniteSet({}) /\ \A x \in {} : f[x] \in Nat
  BY FS_EmptySet
<1>2. SumFunctionOnSet(f, {}) = 0
  BY <1>1, SumType
<1> QED BY <1>2 DEF SumFunction

(* A sum taken part by part: the parts are the elements of equal key.       *)
LEMMA SumByKey ==
    ASSUME NEW S, IsFiniteSet(S), NEW f, \A x \in S : f[x] \in Nat,
           NEW K, IsFiniteSet(K), NEW key \in [S -> K]
    PROVE  LET part == [k \in K |-> SumFunctionOnSet(f, {x \in S : key[x] = k})]
           IN  SumFunctionOnSet(part, K) = SumFunctionOnSet(f, S)
<1> DEFINE Part(s) == [k \in K |-> SumFunctionOnSet(f, {x \in s : key[x] = k})]
           Sum(s) == SumFunctionOnSet(f, s)
           Bad == {s \in SUBSET S : SumFunctionOnSet(Part(s), K) # Sum(s)}
<1>1. ASSUME NEW s \in SUBSET S
      PROVE  /\ IsFiniteSet(s) /\ Sum(s) \in Nat
             /\ \A k \in K : Part(s)[k] \in Nat
  <2>1. IsFiniteSet(s) /\ \A x \in s : f[x] \in Nat
    BY FS_Subset
  <2>2. ASSUME NEW k \in K PROVE SumFunctionOnSet(f, {x \in s : key[x] = k}) \in Nat
    <3> DEFINE t == {x \in s : key[x] = k}
    <3>1. IsFiniteSet(t) /\ \A x \in t : f[x] \in Nat
      BY <2>1, FS_Subset
    <3> HIDE DEF t
    <3>2. SumFunctionOnSet(f, t) \in Nat
      BY <3>1, SumType
    <3> QED BY <3>2 DEF t
  <2>3. Sum(s) \in Nat
    BY <2>1, SumType
  <2> QED BY <2>1, <2>2, <2>3
<1>2. ASSUME Bad # {} PROVE FALSE
  <2>1. PICK s \in Bad : \A t \in Bad : ~(t \subseteq s /\ t # s)
    <3>1. Bad \in SUBSET (SUBSET S)
      OBVIOUS
    <3> HIDE DEF Bad
    <3> QED BY <1>2, <3>1, LeastSubset
  <2>2. s \in SUBSET S /\ SumFunctionOnSet(Part(s), K) # Sum(s)
    OBVIOUS
  <2>3. CASE s = {}
    <3>1. \A k \in K : Part(s)[k] = 0
      <4> SUFFICES ASSUME NEW k \in K PROVE SumFunctionOnSet(f, {x \in s : key[x] = k}) = 0
        OBVIOUS
      <4>1. {x \in s : key[x] = k} = {}
        BY <2>3
      <4>2. SumFunctionOnSet(f, {}) = 0
        BY FS_EmptySet, SumType
      <4> QED BY <4>1, <4>2
    <3>2. Sum(s) = 0
      BY <1>1, <2>2, <2>3, SumType
    <3> HIDE DEF Part, Sum
    <3>3. SumFunctionOnSet(Part(s), K) = 0
      BY <3>1, SumOfZeros
    <3> QED BY <2>2, <3>2, <3>3
  <2>4. CASE s # {}
    <3>1. PICK y \in s : TRUE
      BY <2>4
    <3> DEFINE r == s \ {y}
               m == key[y]
               A == {x \in s : key[x] = m}
               B == {x \in r : key[x] = m}
    <3>2. /\ y \in S /\ m \in K /\ r \in SUBSET S /\ r # s
          /\ f[y] \in Nat /\ y \in A /\ B = A \ {y} /\ A \in SUBSET S
      BY <2>2
    <3>3. IsFiniteSet(A) /\ \A x \in A : f[x] \in Nat
      BY <3>2, FS_Subset
    <3>4. Sum(s) = f[y] + Sum(r)
      BY <1>1, <2>2, SumRemoves
    <3>5. Part(s)[m] = f[y] + Part(r)[m]
      <4>1. Part(s)[m] = SumFunctionOnSet(f, A) /\ Part(r)[m] = SumFunctionOnSet(f, B)
        BY <3>2
      <4> HIDE DEF A, B, Part
      <4>2. SumFunctionOnSet(f, A) = f[y] + SumFunctionOnSet(f, A \ {y})
        BY <3>2, <3>3, SumRemoves
      <4> QED BY <3>2, <4>1, <4>2
    <3>6. ASSUME NEW k \in K, k # m PROVE Part(s)[k] = Part(r)[k]
      <4>1. {x \in s : key[x] = k} = {x \in r : key[x] = k}
        BY <3>6
      <4> QED BY <4>1
    <3>7. (\A k \in K : Part(s)[k] \in Nat) /\ (\A k \in K : Part(r)[k] \in Nat)
      BY <1>1, <2>2, <3>2
    <3>8. SumFunctionOnSet(Part(r), K) = Sum(r)
      BY <2>1, <3>2
    <3>9. Sum(r) \in Nat
      BY <1>1, <3>2
    <3> HIDE DEF Part, Sum, r, m
    <3>10. DifferAt(Part(r), Part(s), K, m)
      BY <3>6, <3>7 DEF DifferAt
    <3>11. /\ SumFunctionOnSet(Part(r), K) \in Nat
           /\ SumFunctionOnSet(Part(s), K) = SumFunctionOnSet(Part(r), K)
                                               + (Part(s)[m] - Part(r)[m])
      BY <3>2, <3>10, SumChanges
    <3>12. Part(r)[m] \in Nat
      BY <3>2, <3>7
    <3> QED BY <2>2, <3>2, <3>4, <3>5, <3>8, <3>9, <3>11, <3>12
  <2> QED BY <2>3, <2>4
<1>3. S \in SUBSET S /\ S \notin Bad
  BY <1>2
<1> QED BY <1>3
=============================================================================
