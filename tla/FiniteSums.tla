------------------------------ MODULE FiniteSums ------------------------------
(***************************************************************************)
(* Sums over finite sets.  MapThenSumSet of the community modules takes    *)
(* one element after another, in the order of CHOOSE; Total is that sum    *)
(* with the weights given as a function.  What is proved of it is proved   *)
(* at a smallest set where it fails, for the induction theorems of the     *)
(* library take an operator as a parameter.                                *)
(***************************************************************************)
EXTENDS Integers, FiniteSets, FiniteSetTheorems, TLAPS

Pick(s) == CHOOSE x \in s : TRUE

IsSum(g, w, T) ==
  g = [s \in SUBSET T |-> IF s = {} THEN 0 ELSE w[Pick(s)] + g[s \ {Pick(s)}]]

SumsOf(w, T) == CHOOSE g : IsSum(g, w, T)
Total(w, T)  == SumsOf(w, T)[T]

\* A set of finite subsets has one that no other is part of.
LEMMA SmallestSet ==
  ASSUME NEW S, IsFiniteSet(S), NEW D, D \subseteq SUBSET S, D # {}
  PROVE  \E T \in D : IsFiniteSet(T) /\ \A U \in D : U \subseteq T => U = T
<1> DEFINE Less == StrictSubsetOrdering(S)
<1>1. IsWellFoundedOn(Less, FiniteSubsetsOf(S))
  BY FS_StrictSubsetOrderingWellFounded
<1>2. \A T \in D : T \in FiniteSubsetsOf(S) /\ IsFiniteSet(T)
  BY FS_Subset DEF FiniteSubsetsOf
<1>3. PICK T \in D : \A U \in D : <<U, T>> \notin Less
  <2>  HIDE DEF Less
  <2>1. QED
    BY <1>1, <1>2, WFMin
<1>4. ASSUME NEW U \in D, U \subseteq T, U # T
      PROVE  FALSE
  <2>1. <<U, T>> \in Less
    BY <1>4 DEF StrictSubsetOrdering
  <2>2. QED
    BY <1>3, <2>1
<1>5. QED
  BY <1>2, <1>3, <1>4

LEMMA Picked == \A s : s # {} => Pick(s) \in s
BY DEF Pick

LEMMA SumStep ==
  ASSUME NEW g, NEW w, NEW T, IsSum(g, w, T)
  PROVE  \A s \in SUBSET T :
           g[s] = IF s = {} THEN 0 ELSE w[Pick(s)] + g[s \ {Pick(s)}]
BY DEF IsSum

\* Two sums agree where they are both defined.
LEMMA SumsAgree ==
  ASSUME NEW g, NEW h, NEW w, NEW T, NEW U, IsSum(g, w, T), IsSum(h, w, U),
         NEW S, IsFiniteSet(S), S \subseteq T, S \subseteq U
  PROVE  g[S] = h[S]
<1> DEFINE D == {s \in SUBSET S : g[s] # h[s]}
<1>  SUFFICES ASSUME D # {}
              PROVE  FALSE
  OBVIOUS
<1>1. PICK s \in D : \A u \in D : u \subseteq s => u = s
  <2>1. D \subseteq SUBSET S
    OBVIOUS
  <2>  HIDE DEF D
  <2>2. QED
    BY <2>1, SmallestSet
<1>2. s \subseteq S /\ s \in SUBSET T /\ s \in SUBSET U /\ g[s] # h[s]
  OBVIOUS
<1>3. CASE s = {}
  BY <1>2, <1>3, SumStep
<1>4. CASE s # {}
  <2> DEFINE u == s \ {Pick(s)}
  <2>1. u \subseteq s /\ u # s
    BY <1>4, Picked
  <2>2. g[u] = h[u]
    BY <1>1, <1>2, <2>1
  <2>3. g[s] = w[Pick(s)] + g[u] /\ h[s] = w[Pick(s)] + h[u]
    BY <1>2, <1>4, SumStep
  <2>4. QED
    BY <1>2, <2>2, <2>3
<1>5. QED
  BY <1>3, <1>4

\* Every finite set has its sums.
LEMMA SumsExist ==
  ASSUME NEW w, NEW S, IsFiniteSet(S)
  PROVE  IsSum(SumsOf(w, S), w, S)
<1> DEFINE D == {T \in SUBSET S : ~ \E g : IsSum(g, w, T)}
<1>1. ASSUME D # {}
      PROVE  FALSE
  <2>1. PICK T \in D : IsFiniteSet(T) /\ \A U \in D : U \subseteq T => U = T
    <3>1. D \subseteq SUBSET S
      OBVIOUS
    <3>  HIDE DEF D
    <3>2. QED
      BY <1>1, <3>1, SmallestSet
  <2>2. \A U : U \subseteq T /\ U # T => IsSum(SumsOf(w, U), w, U)
    BY <2>1 DEF SumsOf
  <2> DEFINE v(s) == Total(w, s \ {Pick(s)})
             h == [s \in SUBSET T |-> IF s = {} THEN 0 ELSE w[Pick(s)] + v(s)]
  <2>3. ASSUME NEW s \in SUBSET T, s # {}
        PROVE  v(s) = h[s \ {Pick(s)}]
    <3> DEFINE u == s \ {Pick(s)}
    <3>1. u \subseteq T /\ u # T /\ u \in SUBSET T
      BY <2>3, Picked
    <3>2. IsSum(SumsOf(w, u), w, u)
      BY <2>2, <3>1
    <3>  HIDE DEF u
    <3>3. Total(w, u) = IF u = {} THEN 0 ELSE w[Pick(u)] + SumsOf(w, u)[u \ {Pick(u)}]
      BY <3>2, SumStep DEF Total
    <3>4. ASSUME u # {}
          PROVE  SumsOf(w, u)[u \ {Pick(u)}] = v(u)
      <4> DEFINE x == u \ {Pick(u)}
      <4>1. x \subseteq u /\ x \subseteq T /\ x # T /\ IsFiniteSet(x)
        BY <2>1, <3>1, <3>4, Picked, FS_Subset
      <4>2. IsSum(SumsOf(w, x), w, x)
        BY <2>2, <4>1
      <4>3. QED
        BY <3>2, <4>1, <4>2, SumsAgree DEF Total
    <3>  HIDE DEF v
    <3>5. h[u] = IF u = {} THEN 0 ELSE w[Pick(u)] + v(u)
      BY <3>1
    <3>6. Total(w, u) = h[u]
      BY <3>3, <3>4, <3>5
    <3>7. QED
      BY <3>6 DEF u, v
  <2>4. h = [s \in SUBSET T |-> IF s = {} THEN 0 ELSE w[Pick(s)] + h[s \ {Pick(s)}]]
    <3>  HIDE DEF v
    <3>1. QED
      BY <2>3
  <2>5. IsSum(h, w, T)
    <3>  HIDE DEF h
    <3>1. QED
      BY <2>4 DEF IsSum
  <2>6. QED
    BY <2>1, <2>5
<1>2. \E g : IsSum(g, w, S)
  BY <1>1
<1>3. QED
  BY <1>2 DEF SumsOf

\* The sum of nothing, of integers, and of a set with one more element.
LEMMA TotalOfNothing ==
  ASSUME NEW w
  PROVE  Total(w, {}) = 0
BY FS_EmptySet, SumsExist, SumStep DEF Total

LEMMA TotalPick ==
  ASSUME NEW w, NEW S, IsFiniteSet(S), S # {}
  PROVE  Total(w, S) = w[Pick(S)] + Total(w, S \ {Pick(S)})
<1> DEFINE T == S \ {Pick(S)}
<1>1. IsFiniteSet(T) /\ T \subseteq S
  BY FS_Subset
<1>2. IsSum(SumsOf(w, S), w, S) /\ IsSum(SumsOf(w, T), w, T)
  BY <1>1, SumsExist
<1>3. SumsOf(w, S)[S] = w[Pick(S)] + SumsOf(w, S)[T]
  BY <1>2, SumStep
<1>4. SumsOf(w, S)[T] = SumsOf(w, T)[T]
  BY <1>1, <1>2, SumsAgree
<1>5. QED
  BY <1>3, <1>4 DEF Total

LEMMA TotalType ==
  ASSUME NEW w, NEW S, IsFiniteSet(S), \A x \in S : w[x] \in Int
  PROVE  Total(w, S) \in Int
<1> DEFINE D == {T \in SUBSET S : Total(w, T) \notin Int}
<1>  SUFFICES ASSUME D # {}
              PROVE  FALSE
  OBVIOUS
<1>1. PICK T \in D : IsFiniteSet(T) /\ \A U \in D : U \subseteq T => U = T
  <2>1. D \subseteq SUBSET S
    OBVIOUS
  <2>  HIDE DEF D
  <2>2. QED
    BY <2>1, SmallestSet
<1>2. CASE T = {}
  BY <1>1, <1>2, TotalOfNothing
<1>3. CASE T # {}
  <2>1. Pick(T) \in T /\ w[Pick(T)] \in Int
    BY <1>3, Picked
  <2>2. Total(w, T \ {Pick(T)}) \in Int
    BY <1>1, <2>1
  <2>3. QED
    BY <1>1, <1>3, <2>1, <2>2, TotalPick
<1>4. QED
  BY <1>2, <1>3

LEMMA TotalRemove ==
  ASSUME NEW w, NEW S, IsFiniteSet(S), \A x \in S : w[x] \in Int, NEW x \in S
  PROVE  Total(w, S) = w[x] + Total(w, S \ {x})
<1> DEFINE D == {T \in SUBSET S : \E y \in T : Total(w, T) # w[y] + Total(w, T \ {y})}
<1>  SUFFICES ASSUME D # {}
              PROVE  FALSE
  OBVIOUS
<1>1. PICK T \in D : IsFiniteSet(T) /\ \A U \in D : U \subseteq T => U = T
  <2>1. D \subseteq SUBSET S
    OBVIOUS
  <2>  HIDE DEF D
  <2>2. QED
    BY <2>1, SmallestSet
<1>2. PICK y \in T : Total(w, T) # w[y] + Total(w, T \ {y})
  BY <1>1
<1> DEFINE z == Pick(T)
           V == T \ {y, z}
<1>3. z \in T
  BY <1>2, Picked
<1>4. Total(w, T) = w[z] + Total(w, T \ {z})
  BY <1>1, <1>2, TotalPick
<1>5. y # z
  BY <1>2, <1>4
<1>  HIDE DEF z
<1>6. Total(w, T \ {z}) = w[y] + Total(w, V)
  <2>1. T \ {z} \notin D /\ T \ {z} \in SUBSET S /\ y \in T \ {z}
    BY <1>1, <1>2, <1>3, <1>5
  <2>2. (T \ {z}) \ {y} = V
    OBVIOUS
  <2>3. QED
    BY <2>1, <2>2
<1>7. Total(w, T \ {y}) = w[z] + Total(w, V)
  <2>1. T \ {y} \notin D /\ T \ {y} \in SUBSET S /\ z \in T \ {y}
    BY <1>1, <1>2, <1>3, <1>5
  <2>2. (T \ {y}) \ {z} = V
    OBVIOUS
  <2>3. QED
    BY <2>1, <2>2
<1>8. w[y] \in Int /\ w[z] \in Int /\ Total(w, V) \in Int
  <2>1. IsFiniteSet(V) /\ \A x1 \in V : w[x1] \in Int
    BY <1>1, FS_Subset
  <2>2. QED
    BY <1>2, <1>3, <2>1, TotalType
<1>9. QED
  BY <1>2, <1>4, <1>6, <1>7, <1>8

\* The sum reads the weights of the set alone.
LEMMA TotalReads ==
  ASSUME NEW w, NEW v, NEW S, IsFiniteSet(S), \A x \in S : w[x] = v[x]
  PROVE  Total(w, S) = Total(v, S)
<1> DEFINE D == {T \in SUBSET S : Total(w, T) # Total(v, T)}
<1>  SUFFICES ASSUME D # {}
              PROVE  FALSE
  OBVIOUS
<1>1. PICK T \in D : IsFiniteSet(T) /\ \A U \in D : U \subseteq T => U = T
  <2>1. D \subseteq SUBSET S
    OBVIOUS
  <2>  HIDE DEF D
  <2>2. QED
    BY <2>1, SmallestSet
<1>2. CASE T = {}
  BY <1>1, <1>2, TotalOfNothing
<1>3. CASE T # {}
  <2>1. Pick(T) \in T /\ w[Pick(T)] = v[Pick(T)]
    BY <1>3, Picked
  <2>2. Total(w, T \ {Pick(T)}) = Total(v, T \ {Pick(T)})
    BY <1>1, <2>1
  <2>3. QED
    BY <1>1, <1>3, <2>1, <2>2, TotalPick
<1>4. QED
  BY <1>2, <1>3

\* A sum in two parts.
LEMMA TotalUnion ==
  ASSUME NEW w, NEW S, NEW T, IsFiniteSet(S), IsFiniteSet(T), S \cap T = {},
         \A x \in S \cup T : w[x] \in Int
  PROVE  Total(w, S \cup T) = Total(w, S) + Total(w, T)
<1> DEFINE D == {U \in SUBSET S : Total(w, U \cup T) # Total(w, U) + Total(w, T)}
<1>  SUFFICES ASSUME D # {}
              PROVE  FALSE
  OBVIOUS
<1>1. PICK U \in D : IsFiniteSet(U) /\ \A V \in D : V \subseteq U => V = U
  <2>1. D \subseteq SUBSET S
    OBVIOUS
  <2>  HIDE DEF D
  <2>2. QED
    BY <2>1, SmallestSet
<1>2. Total(w, T) \in Int
  BY TotalType
<1>3. CASE U = {}
  <2>1. U \cup T = T
    BY <1>3
  <2>2. QED
    BY <1>1, <1>2, <1>3, <2>1, TotalOfNothing
<1>4. CASE U # {}
  <2>1. PICK x \in U : TRUE
    BY <1>4
  <2> DEFINE V == U \ {x}
  <2>2. IsFiniteSet(V) /\ IsFiniteSet(V \cup T) /\ IsFiniteSet(U \cup T)
    BY <1>1, FS_Subset, FS_Union
  <2>3. Total(w, V \cup T) = Total(w, V) + Total(w, T)
    <3>1. V \in SUBSET S /\ V \subseteq U /\ V # U
      BY <2>1
    <3>2. QED
      BY <1>1, <3>1
  <2>4. (U \cup T) \ {x} = V \cup T /\ x \in U \cup T
    BY <2>1
  <2>5. Total(w, U) = w[x] + Total(w, V)
    BY <1>1, <2>1, TotalRemove
  <2>6. Total(w, U \cup T) = w[x] + Total(w, V \cup T)
    BY <2>2, <2>4, TotalRemove
  <2>7. w[x] \in Int /\ Total(w, V) \in Int
    BY <2>1, <2>2, TotalType
  <2>8. QED
    BY <1>1, <1>2, <2>3, <2>5, <2>6, <2>7
<1>5. QED
  BY <1>3, <1>4

LEMMA TotalOfOne ==
  ASSUME NEW w, NEW x, w[x] \in Int
  PROVE  Total(w, {x}) = w[x]
<1>1. Total(w, {x}) = w[x] + Total(w, {x} \ {x})
  BY FS_Singleton, TotalRemove
<1>2. {x} \ {x} = {}
  OBVIOUS
<1>3. QED
  BY <1>1, <1>2, TotalOfNothing

\* A sum of equal weights counts the set.
LEMMA TotalOfEqual ==
  ASSUME NEW w, NEW S, IsFiniteSet(S), NEW c \in Int, \A x \in S : w[x] = c
  PROVE  Total(w, S) = c * Cardinality(S)
<1> DEFINE D == {U \in SUBSET S : Total(w, U) # c * Cardinality(U)}
<1>  SUFFICES ASSUME D # {}
              PROVE  FALSE
  OBVIOUS
<1>1. PICK U \in D : IsFiniteSet(U) /\ \A V \in D : V \subseteq U => V = U
  <2>1. D \subseteq SUBSET S
    OBVIOUS
  <2>  HIDE DEF D
  <2>2. QED
    BY <2>1, SmallestSet
<1>2. CASE U = {}
  BY <1>1, <1>2, TotalOfNothing, FS_EmptySet
<1>3. CASE U # {}
  <2>1. PICK x \in U : TRUE
    BY <1>3
  <2> DEFINE V == U \ {x}
             n == Cardinality(V)
  <2>2. IsFiniteSet(V) /\ n \in Nat /\ Cardinality(U) = n + 1
    <3>1. IsFiniteSet(V) /\ n = Cardinality(U) - 1
      BY <1>1, <2>1, FS_RemoveElement
    <3>2. Cardinality(U) \in Nat /\ n \in Nat
      BY <1>1, <3>1, FS_CardinalityType
    <3>3. QED
      BY <3>1, <3>2
  <2>3. Total(w, V) = c * n
    <3>1. V \in SUBSET S /\ V \subseteq U /\ V # U
      BY <2>1
    <3>2. QED
      BY <1>1, <3>1
  <2>4. Total(w, U) = c + Total(w, V)
    BY <1>1, <2>1, TotalRemove
  <2>5. c * (n + 1) = c + c * n
    BY <2>2
  <2>6. QED
    BY <1>1, <2>2, <2>3, <2>4, <2>5
<1>4. QED
  BY <1>2, <1>3

\* A sum can be taken part by part: f says to which part an element belongs.
PartOf(S, f, k) == {x \in S : f[x] = k}

LEMMA TotalOfParts ==
  ASSUME NEW w, NEW S, IsFiniteSet(S), \A x \in S : w[x] \in Int,
         NEW f, NEW K, IsFiniteSet(K), \A x \in S : f[x] \in K, NEW g,
         \A k \in K : g[k] = Total(w, PartOf(S, f, k))
  PROVE  Total(g, K) = Total(w, S)
<1> DEFINE Part(U) == {x \in S : f[x] \in U}
           D == {U \in SUBSET K : Total(g, U) # Total(w, Part(U))}
<1>0. Part(K) = S
  OBVIOUS
<1>  SUFFICES ASSUME D # {}
              PROVE  FALSE
  BY <1>0
<1>1. PICK U \in D : IsFiniteSet(U) /\ \A V \in D : V \subseteq U => V = U
  <2>1. D \subseteq SUBSET K
    OBVIOUS
  <2>  HIDE DEF D
  <2>2. QED
    BY <2>1, SmallestSet
<1>2. CASE U = {}
  <2>1. Part(U) = {}
    BY <1>2
  <2>2. QED
    BY <1>1, <1>2, <2>1, TotalOfNothing
<1>3. CASE U # {}
  <2>1. PICK k \in U : TRUE
    BY <1>3
  <2> DEFINE V == U \ {k}
             One == {x \in S : f[x] = k}
  <2>2. V \in SUBSET K /\ V \subseteq U /\ V # U
    BY <2>1
  <2>3. Total(g, V) = Total(w, Part(V))
    BY <1>1, <2>2
  <2>4. /\ IsFiniteSet(One) /\ IsFiniteSet(Part(V)) /\ One \cap Part(V) = {}
        /\ Part(U) = One \cup Part(V) /\ \A x \in One \cup Part(V) : w[x] \in Int
    BY <2>1, FS_Subset
  <2>5. \A u \in U : g[u] \in Int
    <3>1. ASSUME NEW u \in U
          PROVE  g[u] \in Int
      <4> DEFINE P == {x \in S : f[x] = u}
      <4>1. IsFiniteSet(P) /\ \A x \in P : w[x] \in Int
        BY FS_Subset
      <4>  HIDE DEF P
      <4>2. Total(w, P) \in Int
        BY <4>1, TotalType
      <4>3. QED
        BY <4>2 DEF P, PartOf
    <3>2. QED
      BY <3>1
  <2>6. Total(g, U) = g[k] + Total(g, V)
    BY <1>1, <2>1, <2>5, TotalRemove
  <2>7. g[k] = Total(w, One)
    BY <2>1 DEF PartOf
  <2> DEFINE Rest == Part(V)
  <2>  HIDE DEF One, Rest
  <2>8. Total(w, One \cup Rest) = Total(w, One) + Total(w, Rest)
    <3>1. /\ IsFiniteSet(One) /\ IsFiniteSet(Rest) /\ One \cap Rest = {}
          /\ \A x \in One \cup Rest : w[x] \in Int
      BY <2>4 DEF Rest
    <3>2. QED
      BY <3>1, TotalUnion
  <2>9. QED
    BY <1>1, <2>3, <2>4, <2>6, <2>7, <2>8 DEF Rest
<1>4. QED
  BY <1>2, <1>3

==============================================================================
