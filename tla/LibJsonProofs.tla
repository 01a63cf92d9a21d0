---------------------------- MODULE LibJsonProofs ---------------------------
(***************************************************************************)
(* The trees of LibJson, for documents of any size and depth: below the    *)
(* nodes that object, caller, parser and duplication hold is all that is   *)
(* allocated, and no two of these trees share a node.                      *)
(*                                                                         *)
(* Below is known by what it is, the least closed set, and no longer by    *)
(* how it is computed; that the two agree needs as many rounds as there    *)
(* are nodes.                                                              *)
(*                                                                         *)
(* No node is linked twice.  So cJSON_Duplicate meets each node once, and  *)
(* F, which takes what it has met to the copies, makes of each link one of *)
(* the copy, but for the links that the calls have still to make.          *)
(*                                                                         *)
(* The children of a node are a list, and there is one such list; so what  *)
(* is read of it is known from any list that next leads through.           *)
(***************************************************************************)
EXTENDS LibJson, WellFoundedInduction, FiniteSetTheorems, SequenceTheorems, TLAPS

-----------------------------------------------------------------------------
(* Numbers                                                                 *)

\* A set of numbers that has any has a least one.
LEMMA LeastNatural ==
  ASSUME NEW T \in SUBSET Nat, T # {}
  PROVE  \E n \in T : \A m \in T : ~(m < n)
<1> DEFINE R == OpToRel(<, Nat)
<1>1. IsWellFoundedOn(R, Nat)
  BY NatLessThanWellFounded
<1>2. \A m, n \in Nat : m < n => <<m, n>> \in R
  BY DEF OpToRel
<1> HIDE DEF R
<1>3. PICK n \in T : \A m \in T : ~(<<m, n>> \in R)
  BY <1>1, WFMin
<1> QED BY <1>2, <1>3

\* What holds of 0, and of the number after each of which it holds, holds of all.
LEMMA Induction ==
  ASSUME NEW T, 0 \in T, \A n \in Nat : n \in T => n + 1 \in T
  PROVE  Nat \subseteq T
<1> DEFINE U == Nat \ T
<1> SUFFICES ASSUME U # {} PROVE FALSE
  OBVIOUS
<1>1. PICK n \in U : \A m \in U : ~(m < n)
  <2>1. U \in SUBSET Nat
    OBVIOUS
  <2> HIDE DEF U
  <2> QED BY <2>1, LeastNatural
<1>2. n # 0
  OBVIOUS
<1>3. n - 1 \in Nat /\ ~(n - 1 \in U)
  BY <1>1, <1>2
<1>4. n - 1 + 1 = n
  OBVIOUS
<1> QED BY <1>3, <1>4

\* Repeating a step: the functions that do it for so many times agree, and make one.
LEMMA Iterate ==
  ASSUME NEW X, NEW x \in X, NEW G \in [Nat -> [X -> X]]
  PROVE  \E f \in [Nat -> X] : f[0] = x /\ \A k \in Nat \ {0} : f[k] = G[k][f[k - 1]]
<1> DEFINE Does(f, n) == /\ f \in [0 .. n -> X]
                         /\ f[0] = x
                         /\ \A k \in 1 .. n : f[k] = G[k][f[k - 1]]
           T == {n \in Nat : \E f \in [0 .. n -> X] : Does(f, n)}
<1>1. 0 \in T
  <2> DEFINE f == [k \in 0 .. 0 |-> x]
  <2>1. Does(f, 0) /\ f \in [0 .. 0 -> X]
    OBVIOUS
  <2> HIDE DEF f
  <2> QED BY <2>1
<1>2. ASSUME NEW n \in Nat, n \in T PROVE n + 1 \in T
  <2>1. PICK f \in [0 .. n -> X] : Does(f, n)
    BY <1>2
  <2> DEFINE g == [k \in 0 .. n + 1 |-> IF k = n + 1 THEN G[k][f[n]] ELSE f[k]]
  <2>2. g \in [0 .. n + 1 -> X]
    OBVIOUS
  <2>3. \A k \in 0 .. n : g[k] = f[k]
    OBVIOUS
  <2>4. g[n + 1] = G[n + 1][f[n]]
    OBVIOUS
  <2> HIDE DEF g
  <2>5. \A k \in 1 .. n + 1 : k \in 1 .. n \/ k = n + 1
    OBVIOUS
  <2>6. \A k \in 1 .. n + 1 : g[k] = G[k][g[k - 1]]
    BY <2>1, <2>3, <2>4, <2>5
  <2>7. Does(g, n + 1)
    BY <2>1, <2>2, <2>3, <2>6
  <2> QED BY <2>2, <2>7
<1>3. Nat \subseteq T
  <2> HIDE DEF T
  <2> QED BY <1>1, <1>2, Induction
<1>4. ASSUME NEW m \in Nat, NEW n \in Nat, m <= n, NEW f, NEW g, Does(f, m), Does(g, n)
      PROVE  f[m] = g[m]
  <2> DEFINE S == {k \in Nat : k <= m => f[k] = g[k]}
  <2>1. 0 \in S
    BY <1>4
  <2>2. ASSUME NEW k \in Nat, k \in S PROVE k + 1 \in S
    <3> SUFFICES ASSUME k + 1 <= m PROVE f[k + 1] = g[k + 1]
      OBVIOUS
    <3>1. k + 1 \in 1 .. m /\ k + 1 \in 1 .. n /\ (k + 1) - 1 = k /\ f[k] = g[k]
      BY <1>4, <2>2
    <3> QED BY <1>4, <3>1
  <2>3. Nat \subseteq S
    <3> HIDE DEF S
    <3> QED BY <2>1, <2>2, Induction
  <2> QED BY <2>3
<1> DEFINE F == [n \in Nat |-> CHOOSE f \in [0 .. n -> X] : Does(f, n)]
           h == [n \in Nat |-> F[n][n]]
<1>5. \A n \in Nat : Does(F[n], n)
  <2> SUFFICES ASSUME NEW n \in Nat PROVE Does(F[n], n)
    OBVIOUS
  <2>1. \E f \in [0 .. n -> X] : Does(f, n)
    BY <1>3
  <2>2. F[n] = CHOOSE f \in [0 .. n -> X] : Does(f, n)
    OBVIOUS
  <2> HIDE DEF Does, F
  <2> QED BY <2>1, <2>2
<1>6. h \in [Nat -> X] /\ \A n \in Nat : h[n] = F[n][n]
  <2>1. ASSUME NEW n \in Nat PROVE F[n][n] \in X
    <3> HIDE DEF F, h, T
    <3>1. Does(F[n], n)
      BY <1>5
    <3>2. F[n] \in [0 .. n -> X] /\ n \in 0 .. n
      BY <3>1
    <3> HIDE DEF Does
    <3> QED BY <3>2
  <2> HIDE DEF F
  <2> QED BY <2>1
<1> HIDE DEF h, F, T
<1>7. ASSUME NEW n \in Nat PROVE h[n] = IF n = 0 THEN x ELSE G[n][h[n - 1]]
  <2>1. CASE n = 0
    BY <1>5, <1>6, <2>1
  <2>2. CASE n # 0
    <3>1. n - 1 \in Nat /\ n - 1 <= n /\ n \in 1 .. n
      BY <2>2
    <3>2. F[n][n] = G[n][F[n][n - 1]]
      BY <1>5, <3>1
    <3>3. F[n - 1][n - 1] = F[n][n - 1]
      <4>1. Does(F[n - 1], n - 1) /\ Does(F[n], n)
        BY <1>5, <3>1
      <4> HIDE DEF Does
      <4> QED BY <1>4, <3>1, <4>1
    <3> QED BY <1>6, <2>2, <3>1, <3>2, <3>3
  <2> QED BY <2>1, <2>2
<1>8. h[0] = x /\ \A k \in Nat \ {0} : h[k] = G[k][h[k - 1]]
  BY <1>7
<1> QED BY <1>6, <1>8

-----------------------------------------------------------------------------
(* The heap                                                                *)

\* The pointers of a heap stay in it.
Joined(h) == \A n \in Nodes : h[n].child \in Pointers /\ h[n].next \in Pointers

\* S is closed in a heap: no pointer leads out of it.
Closed(h, S) == \A n \in S : {h[n].child, h[n].next} \subseteq S \cup {NULL}

\* S is what can be reached from n, the least set with n that is closed.
Reached(h, n, S) ==
  /\ S \subseteq Nodes /\ {n} \ {NULL} \subseteq S /\ Closed(h, S)
  /\ \A T : {n} \ {NULL} \subseteq T /\ Closed(h, T) => S \subseteq T

\* The nodes are finite in number, and NULL is none.
LEMMA NodesAre ==
  /\ NULL \notin Nodes /\ IsFiniteSet(Nodes)
  /\ Cardinality(Nodes) = 2 * DocSize /\ 2 * DocSize \in Nat
<1>1. DocSize \in Nat \ {0} /\ NULL \notin Nodes
  BY JsonAssumption
<1> DEFINE n == 2 * DocSize
<1>2. n \in Int /\ n > 0
  BY <1>1
<1>3. Nodes = 1 .. n
  BY DEF Nodes
<1> HIDE DEF n
<1>4. IsFiniteSet(Nodes) /\ Cardinality(Nodes) = n
  BY <1>2, <1>3, FS_Interval
<1> QED BY <1>1, <1>2, <1>4 DEF n

\* Below(n) is what has been found in as many rounds as there are nodes.
LEMMA BelowIs ==
  ASSUME Joined(node), NEW n \in Pointers
  PROVE  \E f \in [Nat -> SUBSET Nodes] :
           /\ f[0] = {n} \ {NULL}
           /\ \A k \in Nat : f[k + 1] = f[k] \cup (Linked(f[k]) \ {NULL})
           /\ Below(n) = f[2 * DocSize]
<1> DEFINE X == SUBSET Nodes
           x == {n} \ {NULL}
           Grown(S) == S \cup (Linked(S) \ {NULL})
           G == [k \in Nat |-> [S \in X |-> Grown(S)]]
           N == CHOOSE f : f = [k \in Nat |-> IF k = 0 THEN {n} \ {NULL}
                                              ELSE f[k - 1] \cup (Linked(f[k - 1]) \ {NULL})]
<1>1. x \in X /\ \A S \in X : Grown(S) \in X
  BY DEF Linked, Joined, Pointers
<1>2. Below(n) = N[2 * DocSize]
  BY DEF Below
<1> HIDE DEF x, X
<1>3. PICK f \in [Nat -> X] : f[0] = x /\ \A k \in Nat \ {0} : f[k] = Grown(f[k - 1])
  <2>1. G \in [Nat -> [X -> X]] /\ \A k \in Nat, S \in X : G[k][S] = Grown(S)
    BY <1>1
  <2> HIDE DEF G, Grown, N
  <2>2. PICK f \in [Nat -> X] : f[0] = x /\ \A k \in Nat \ {0} : f[k] = G[k][f[k - 1]]
    BY <1>1, <2>1, Iterate
  <2> QED BY <2>1, <2>2
<1>4. f = [k \in Nat |-> IF k = 0 THEN {n} \ {NULL}
                         ELSE f[k - 1] \cup (Linked(f[k - 1]) \ {NULL})]
  BY <1>3 DEF x
<1>5. N = [k \in Nat |-> IF k = 0 THEN {n} \ {NULL}
                         ELSE N[k - 1] \cup (Linked(N[k - 1]) \ {NULL})]
  BY <1>4
<1> HIDE DEF N
<1>6. N[0] = x /\ \A k \in Nat : N[k + 1] = Grown(N[k])
  <2>1. \A k \in Nat : N[k] = IF k = 0 THEN {n} \ {NULL}
                               ELSE N[k - 1] \cup (Linked(N[k - 1]) \ {NULL})
    BY <1>5
  <2>2. \A k \in Nat : k + 1 \in Nat /\ k + 1 # 0 /\ (k + 1) - 1 = k
    OBVIOUS
  <2> QED BY <2>1, <2>2 DEF x
<1> DEFINE T == {k \in Nat : N[k] \in X}
<1>7. Nat \subseteq T
  <2>1. 0 \in T /\ \A k \in Nat : k \in T => k + 1 \in T
    BY <1>1, <1>6
  <2> HIDE DEF T
  <2> QED BY <2>1, Induction
<1>8. N \in [Nat -> X]
  BY <1>5, <1>7
<1> QED BY <1>2, <1>6, <1>8 DEF x, X

\* That is enough: each round finds a node, or there is nothing left to find.
LEMMA BelowReached ==
  ASSUME Joined(node), NEW n \in Pointers
  PROVE  Reached(node, n, Below(n))
<1>1. PICK f \in [Nat -> SUBSET Nodes] :
           /\ f[0] = {n} \ {NULL}
           /\ \A k \in Nat : f[k + 1] = f[k] \cup (Linked(f[k]) \ {NULL})
           /\ Below(n) = f[2 * DocSize]
  BY BelowIs
<1>2. \A S \in SUBSET Nodes :
        IsFiniteSet(S) /\ Cardinality(S) \in Nat /\ Cardinality(S) <= 2 * DocSize
  BY NodesAre, FS_Subset, FS_CardinalityType
<1> DEFINE Done(k) == Closed(node, f[k]) \/ Cardinality(f[k]) >= k + 1
           T == {k \in Nat : Done(k)}
<1>3. 0 \in T
  <2>1. CASE n = NULL
    <3>1. f[0] = {}
      BY <1>1, <2>1
    <3> QED BY <3>1 DEF Closed
  <2>2. CASE n # NULL
    <3>1. f[0] = {n}
      BY <1>1, <2>2
    <3> QED BY <3>1, FS_Singleton
  <2> QED BY <2>1, <2>2
<1>4. ASSUME NEW k \in Nat, k \in T PROVE k + 1 \in T
  <2>1. /\ f[k + 1] = f[k] \cup (Linked(f[k]) \ {NULL})
        /\ f[k] \in SUBSET Nodes /\ f[k + 1] \in SUBSET Nodes
    BY <1>1
  <2>2. CASE Closed(node, f[k])
    <3>1. f[k + 1] = f[k]
      BY <2>1, <2>2 DEF Linked, Closed
    <3> QED BY <2>2, <3>1
  <2>3. CASE ~Closed(node, f[k])
    <3>1. PICK m \in Linked(f[k]) : m # NULL /\ m \notin f[k]
      BY <2>3 DEF Linked, Closed
    <3>2. Cardinality(f[k]) >= k + 1
      BY <1>4, <2>3
    <3>3. Cardinality(f[k] \cup {m}) = Cardinality(f[k]) + 1
      BY <1>2, <2>1, <3>1, FS_AddElement
    <3>4. Cardinality(f[k] \cup {m}) <= Cardinality(f[k + 1])
      <4>1. f[k] \cup {m} \in SUBSET f[k + 1] /\ IsFiniteSet(f[k + 1])
        BY <1>2, <2>1, <3>1
      <4> QED BY <4>1, FS_Subset
    <3> DEFINE a == Cardinality(f[k])
               b == Cardinality(f[k + 1])
    <3>5. a \in Nat /\ b \in Nat /\ a >= k + 1 /\ a + 1 <= b
      BY <1>2, <2>1, <3>2, <3>3, <3>4
    <3> HIDE DEF a, b
    <3>6. b >= (k + 1) + 1
      BY <3>5
    <3> QED BY <3>6 DEF b
  <2> QED BY <2>2, <2>3
<1>5. Nat \subseteq T
  <2> HIDE DEF T
  <2> QED BY <1>3, <1>4, Induction
<1>6. Closed(node, Below(n))
  <2>1. Done(2 * DocSize)
    BY <1>5, NodesAre
  <2>2. 2 * DocSize \in Nat /\ f[2 * DocSize] \in SUBSET Nodes
    BY NodesAre
  <2>3. Cardinality(f[2 * DocSize]) <= 2 * DocSize /\ Cardinality(f[2 * DocSize]) \in Nat
    BY <1>2, <2>2
  <2> DEFINE m == 2 * DocSize
             c == Cardinality(f[m])
  <2>4. m \in Nat /\ c <= m /\ c \in Nat
    BY <2>2, <2>3
  <2> HIDE DEF c, m
  <2>5. ~(c >= m + 1)
    BY <2>4
  <2> QED BY <1>1, <2>1, <2>5 DEF c, m
<1> DEFINE U == {k \in Nat : f[0] \subseteq f[k]}
<1>7. Nat \subseteq U
  <2>1. 0 \in U /\ \A k \in Nat : k \in U => k + 1 \in U
    BY <1>1
  <2> HIDE DEF U
  <2> QED BY <2>1, Induction
<1>8. {n} \ {NULL} \subseteq Below(n)
  BY <1>1, <1>7, NodesAre
<1>9. ASSUME NEW S, {n} \ {NULL} \subseteq S, Closed(node, S) PROVE Below(n) \subseteq S
  <2> DEFINE V == {k \in Nat : f[k] \subseteq S}
  <2>1. 0 \in V /\ \A k \in Nat : k \in V => k + 1 \in V
    BY <1>1, <1>9 DEF Closed, Linked
  <2>2. Nat \subseteq V
    <3> HIDE DEF V
    <3> QED BY <2>1, Induction
  <2> QED BY <1>1, <2>2, NodesAre
<1>10. Below(n) \in SUBSET Nodes
  BY <1>1, NodesAre
<1> QED BY <1>6, <1>8, <1>9, <1>10 DEF Reached

SamePointers(h, g, S) == \A m \in S : g[m].child = h[m].child /\ g[m].next = h[m].next

\* What can be reached is one set.
LEMMA ReachedOnce ==
  ASSUME NEW h, NEW n, NEW S, NEW T, Reached(h, n, S), Reached(h, n, T)
  PROVE  S = T
  BY DEF Reached

\* A change elsewhere does not matter to it.
LEMMA ReachedStill ==
  ASSUME NEW h, NEW g, NEW n, NEW S, Reached(h, n, S), SamePointers(h, g, S)
  PROVE  Reached(g, n, S)
<1>1. Closed(g, S)
  BY DEF Reached, Closed, SamePointers
<1>2. ASSUME NEW T, {n} \ {NULL} \subseteq T, Closed(g, T) PROVE S \subseteq T
  <2>1. Closed(h, S \cap T)
    BY <1>2 DEF Reached, Closed, SamePointers
  <2>2. {n} \ {NULL} \subseteq S \cap T
    BY <1>2 DEF Reached
  <2>3. S \subseteq S \cap T
    BY <2>1, <2>2 DEF Reached
  <2> QED BY <2>3
<1> QED BY <1>1, <1>2 DEF Reached

\* When a pointer to q is set in a node of it, all that q reaches is added.
LEMMA ReachedMore ==
  ASSUME NEW h, NEW g, NEW n, NEW S, Reached(h, n, S),
         NEW q, NEW Q, q # NULL, Reached(g, q, Q),
         NEW a \in S, SamePointers(h, g, S \ {a}),
         q \in {g[a].child, g[a].next},
         {g[a].child, g[a].next} \subseteq {h[a].child, h[a].next, q},
         {h[a].child, h[a].next} \subseteq {g[a].child, g[a].next, NULL}
  PROVE  Reached(g, n, S \cup Q)
<1>1. Closed(h, S) /\ Closed(g, Q) /\ q \in Q
  BY DEF Reached
<1>2. Closed(g, S \cup Q)
  <2> SUFFICES ASSUME NEW m \in S \cup Q
               PROVE  {g[m].child, g[m].next} \subseteq S \cup Q \cup {NULL}
    BY DEF Closed
  <2>1. CASE m \in Q
    BY <1>1, <2>1 DEF Closed
  <2>2. CASE m = a
    <3>1. {h[a].child, h[a].next} \subseteq S \cup {NULL}
      BY <1>1 DEF Closed
    <3> QED BY <1>1, <2>2, <3>1
  <2>3. CASE m \in S \ {a}
    BY <1>1, <2>3 DEF Closed, SamePointers
  <2> QED BY <2>1, <2>2, <2>3
<1>3. ASSUME NEW T, {n} \ {NULL} \subseteq T, Closed(g, T) PROVE S \cup Q \subseteq T
  <2>1. Closed(h, S \cap T)
    <3> SUFFICES ASSUME NEW m \in S \cap T
                 PROVE  {h[m].child, h[m].next} \subseteq (S \cap T) \cup {NULL}
      BY DEF Closed
    <3>1. {h[m].child, h[m].next} \subseteq S \cup {NULL}
      BY <1>1 DEF Closed
    <3>2. {g[m].child, g[m].next} \subseteq T \cup {NULL}
      BY <1>3 DEF Closed
    <3>3. CASE m = a
      BY <3>1, <3>2, <3>3
    <3>4. CASE m # a
      BY <3>1, <3>2, <3>4 DEF SamePointers
    <3> QED BY <3>3, <3>4
  <2>2. {n} \ {NULL} \subseteq S \cap T
    BY <1>3 DEF Reached
  <2>3. S \subseteq T
    BY <2>1, <2>2 DEF Reached
  <2>4. q \in T
    <3>1. {g[a].child, g[a].next} \subseteq T \cup {NULL}
      BY <1>3, <2>3 DEF Closed
    <3> QED BY <3>1
  <2>5. Q \subseteq T
    BY <1>3, <2>4 DEF Reached
  <2> QED BY <2>3, <2>5
<1> QED BY <1>1, <1>2, <1>3 DEF Reached

\* From a node without pointers nothing else is reached.
LEMMA ReachedNew ==
  ASSUME NEW g, NEW q \in Nodes, g[q].child = NULL, g[q].next = NULL
  PROVE  Reached(g, q, {q})
<1>1. q # NULL
  BY NodesAre
<1> QED BY <1>1 DEF Reached, Closed

\* Nothing is below NULL.
LEMMA BelowNull ==
  ASSUME Joined(node)
  PROVE  Below(NULL) = {}
<1>1. Reached(node, NULL, Below(NULL))
  BY BelowReached DEF Pointers
<1>2. Closed(node, {})
  BY DEF Closed
<1> QED BY <1>1, <1>2 DEF Reached

\* What is below a node below n is below n.
LEMMA BelowBelow ==
  ASSUME Joined(node), NEW n \in Pointers, NEW m \in Below(n)
  PROVE  /\ m \in Nodes /\ Below(m) \subseteq Below(n)
         /\ node[m].child \in Below(n) \cup {NULL} /\ node[m].next \in Below(n) \cup {NULL}
<1>1. Reached(node, n, Below(n))
  BY BelowReached
<1>2. m \in Nodes
  BY <1>1 DEF Reached
<1>3. Reached(node, m, Below(m))
  BY <1>2, BelowReached DEF Pointers
<1> QED BY <1>1, <1>2, <1>3 DEF Reached, Closed

\* BelowReached, of the heap after a step.
LEMMA BelowReachedNext ==
  Joined(node)' => \A n \in Pointers : Reached(node', n, Below(n)')
<1>1. Joined(node) => \A n \in Pointers : Reached(node, n, Below(n))
  BY BelowReached
<1>2. (Joined(node) => \A n \in Pointers : Reached(node, n, Below(n)))'
  BY <1>1, PTL
<1> QED BY <1>2

\* A step that changes nothing below a node leaves the same below it.
LEMMA BelowStill ==
  ASSUME Joined(node), Joined(node)', NEW n \in Pointers, SamePointers(node, node', Below(n))
  PROVE  Below(n)' = Below(n)
  BY BelowReached, BelowReachedNext, ReachedStill, ReachedOnce

-----------------------------------------------------------------------------
(* The trees                                                               *)

Trees ==
  /\ live = UNION {Below(n) : n \in Held}
  /\ \A r, s \in Held : r # s => Below(r) \cap Below(s) = {}

\* Trees consist of nodes, hold their roots, and nothing points out of them.
LEMMA InTrees ==
  ASSUME Joined(node), Trees, Held \subseteq Nodes
  PROVE  /\ live \subseteq Nodes
         /\ \A n \in Held : n \in Below(n) /\ Below(n) \subseteq live
         /\ \A n \in live : {node[n].child, node[n].next} \subseteq live \cup {NULL}
<1>1. ASSUME NEW n \in Held
      PROVE  n \in Below(n) /\ Below(n) \subseteq live /\ Below(n) \subseteq Nodes
  <2>1. Reached(node, n, Below(n)) /\ n # NULL
    BY BelowReached, NodesAre DEF Pointers
  <2> QED BY <2>1 DEF Reached, Trees
<1>2. live \subseteq Nodes
  BY <1>1 DEF Trees
<1>3. ASSUME NEW n \in live PROVE {node[n].child, node[n].next} \subseteq live \cup {NULL}
  <2>1. PICK r \in Held : n \in Below(r)
    BY DEF Trees
  <2>2. node[n].child \in Below(r) \cup {NULL} /\ node[n].next \in Below(r) \cup {NULL}
    BY <2>1, BelowBelow DEF Pointers
  <2> QED BY <1>1, <2>2
<1> QED BY <1>1, <1>2, <1>3

\* What the trees are after a step, given what is reached then.
LEMMA TreesAre ==
  ASSUME Joined(node)', Held' \subseteq Nodes, NEW B,
         \A n \in Held' : Reached(node', n, B[n]),
         \A r, s \in Held' : r # s => B[r] \cap B[s] = {},
         live' = UNION {B[n] : n \in Held'}
  PROVE  Trees' /\ \A n \in Held' : Below(n)' = B[n]
<1>1. ASSUME NEW n \in Held' PROVE Below(n)' = B[n]
  <2>1. Reached(node', n, Below(n)')
    BY BelowReachedNext DEF Pointers
  <2> QED BY <2>1, ReachedOnce
<1> QED BY <1>1 DEF Trees

\* A step that allocates nothing, and changes no pointer, changes no tree.
LEMMA TreesStill ==
  ASSUME Joined(node), Joined(node)', Trees, Held \subseteq Nodes,
         UNCHANGED live, Held' = Held, SamePointers(node, node', live)
  PROVE  Trees' /\ \A n \in Held \cup {NULL} : Below(n)' = Below(n)
<1>1. ASSUME NEW n \in Held \cup {NULL} PROVE Below(n)' = Below(n)
  <2>1. n \in Pointers /\ Below(n) \subseteq live
    BY InTrees, BelowNull DEF Pointers
  <2>2. SamePointers(node, node', Below(n))
    BY <2>1 DEF SamePointers
  <2> QED BY <2>1, <2>2, BelowStill
<1> QED BY <1>1 DEF Trees

\* A new node is a tree of its own.
LEMMA TreePlanted ==
  ASSUME Joined(node), Joined(node)', Trees, Held \subseteq Nodes,
         NEW q \in Nodes \ live, live' = live \cup {q}, Held' = Held \cup {q},
         SamePointers(node, node', live), node'[q].child = NULL, node'[q].next = NULL
  PROVE  Trees' /\ Below(q)' = {q} /\ q \notin Held
         /\ \A n \in Held \cup {NULL} : Below(n)' = Below(n)
<1>1. ASSUME NEW n \in Held \cup {NULL} PROVE Below(n)' = Below(n)
  <2>1. n \in Pointers /\ Below(n) \subseteq live
    BY InTrees, BelowNull DEF Pointers
  <2>2. SamePointers(node, node', Below(n))
    BY <2>1 DEF SamePointers
  <2> QED BY <2>1, <2>2, BelowStill
<1>2. Below(q)' = {q}
  <2>1. Reached(node', q, {q}) /\ Reached(node', q, Below(q)')
    BY ReachedNew, BelowReachedNext DEF Pointers
  <2> QED BY <2>1, ReachedOnce
<1>3. q \notin Held /\ \A n \in Held : q \notin Below(n)
  BY InTrees
<1>4. Trees'
  BY <1>1, <1>2, <1>3 DEF Trees
<1> QED BY <1>1, <1>2, <1>3, <1>4

\* When a tree is hung into another it becomes a part of that, and the others stay.
LEMMA TreeGrafted ==
  ASSUME Joined(node), Joined(node)', Trees, Held \subseteq Nodes,
         NEW r \in Held, NEW a \in Below(r), NEW q \in Nodes, NEW Q, Reached(node', q, Q),
         q # r, live' = live \cup Q, Held' = Held \ {q},
         q \in Held => Q = Below(q),
         q \notin Held => Q \cap live = {},
         SamePointers(node, node', live \ {a}),
         q \in {node'[a].child, node'[a].next},
         {node'[a].child, node'[a].next} \subseteq {node[a].child, node[a].next, q},
         {node[a].child, node[a].next} \subseteq {node'[a].child, node'[a].next, NULL}
  PROVE  Trees' /\ Below(r)' = Below(r) \cup Q
         /\ \A n \in (Held \ {q, r}) \cup {NULL} : Below(n)' = Below(n)
<1>1. \A n \in Held : Below(n) \subseteq live /\ n \in Pointers
  BY InTrees DEF Pointers
<1>2. a \in live /\ \A n \in Held \ {r} : a \notin Below(n)
  BY <1>1 DEF Trees
<1>3. Below(r)' = Below(r) \cup Q
  <2>1. SamePointers(node, node', Below(r) \ {a})
    BY <1>1 DEF SamePointers
  <2>2. Reached(node, r, Below(r)) /\ Reached(node', r, Below(r)') /\ q # NULL
    BY <1>1, BelowReached, BelowReachedNext, NodesAre
  <2>3. Reached(node', r, Below(r) \cup Q)
    BY <2>1, <2>2, ReachedMore
  <2> QED BY <2>2, <2>3, ReachedOnce
<1>4. ASSUME NEW n \in (Held \ {q, r}) \cup {NULL} PROVE Below(n)' = Below(n)
  <2>1. n \in Pointers /\ Below(n) \subseteq live \ {a}
    BY <1>1, <1>2, BelowNull DEF Pointers
  <2>2. SamePointers(node, node', Below(n))
    BY <2>1 DEF SamePointers
  <2> QED BY <2>1, <2>2, BelowStill
<1>5. \A n \in Held \ {q} : Q \cap Below(n) = {}
  <2>1. CASE q \in Held
    BY <2>1 DEF Trees
  <2>2. CASE q \notin Held
    BY <1>1, <2>2
  <2> QED BY <2>1, <2>2
<1>6. live' = UNION {Below(n)' : n \in Held'}
  <2>1. \A m : m \in live <=> \E n \in Held : m \in Below(n)
    BY DEF Trees
  <2>2. ASSUME NEW m \in live' PROVE \E n \in Held' : m \in Below(n)'
    <3>1. CASE m \in Q
      BY <1>3, <3>1
    <3>2. CASE m \notin Q
      <4>1. PICK n \in Held : m \in Below(n)
        BY <2>1, <3>2
      <4>2. n # q
        BY <3>2, <4>1
      <4> QED BY <1>3, <1>4, <4>1, <4>2
    <3> QED BY <3>1, <3>2
  <2>3. ASSUME NEW n \in Held' PROVE Below(n)' \subseteq live'
    BY <1>1, <1>3, <1>4
  <2> QED BY <2>2, <2>3
<1>7. ASSUME NEW n \in Held', NEW m \in Held', n # m PROVE Below(n)' \cap Below(m)' = {}
  <2>1. n \in Held \ {q} /\ m \in Held \ {q} /\ Below(n) \cap Below(m) = {}
    BY <1>7 DEF Trees
  <2>2. CASE n = r
    BY <1>3, <1>4, <1>5, <1>7, <2>1, <2>2
  <2>3. CASE m = r
    BY <1>3, <1>4, <1>5, <1>7, <2>1, <2>3
  <2>4. CASE n # r /\ m # r
    BY <1>4, <2>1, <2>4
  <2> QED BY <2>2, <2>3, <2>4
<1>8. Trees'
  BY <1>6, <1>7 DEF Trees
<1> QED BY <1>3, <1>4, <1>8

\* cJSON_Delete takes whole trees, and nothing of the others.
LEMMA TreesFelled ==
  ASSUME Joined(node), Trees, Held \subseteq Nodes,
         NEW heads \in SUBSET Held, Deletes(heads), Held' = Held \ heads
  PROVE  Joined(node)' /\ Trees' /\ \A n \in (Held \ heads) \cup {NULL} :
           Below(n)' = Below(n) /\ \A m \in Below(n) : node'[m] = node[m]
<1> DEFINE gone == UNION {Below(n) : n \in heads}
<1>1. /\ live' = live \ gone
      /\ node' = [n \in Nodes |-> IF n \in gone THEN Junk ELSE node[n]]
  BY DEF Deletes
<1>2. Joined(node)'
  BY <1>1 DEF Joined, Junk, Pointers
<1>3. ASSUME NEW n \in (Held \ heads) \cup {NULL}
      PROVE  /\ Below(n)' = Below(n) /\ Below(n) \cap gone = {}
             /\ \A m \in Below(n) : node'[m] = node[m]
  <2>1. n \in Pointers /\ Below(n) \subseteq Nodes
    BY InTrees, BelowNull DEF Pointers
  <2>2. Below(n) \cap gone = {}
    BY BelowNull DEF Trees
  <2>3. \A m \in Below(n) : node'[m] = node[m]
    BY <1>1, <2>1, <2>2
  <2>4. SamePointers(node, node', Below(n))
    BY <2>3 DEF SamePointers
  <2> QED BY <1>2, <2>1, <2>2, <2>3, <2>4, BelowStill
<1>4. live \ gone = UNION {Below(n) : n \in Held \ heads}
  <2>1. \A m : m \in live <=> \E n \in Held : m \in Below(n)
    BY DEF Trees
  <2>2. \A m : m \in gone <=> \E n \in heads : m \in Below(n)
    OBVIOUS
  <2> HIDE DEF gone
  <2>3. \A n \in Held \ heads : Below(n) \cap gone = {}
    BY <1>3
  <2> QED BY <2>1, <2>2, <2>3
<1>5. Trees'
  BY <1>1, <1>3, <1>4 DEF Trees
<1> QED BY <1>2, <1>3, <1>5

-----------------------------------------------------------------------------
(* The invariant of the trees                                              *)

Cells == [type : Types \cup {"false", "junk"}, string : Names \cup {NULL},
          valuestring : Texts \cup {NULL}, child : Pointers, next : Pointers]
Opened == [item : Nodes, child : Pointers]
Called == [item : Nodes, newitem : Nodes, cptr : Pointers, nptr : Pointers]

TreeTypes ==
  /\ live \subseteq Nodes /\ node \in [Nodes -> Cells]
  /\ {root, child, array, owned, top} \subseteq Pointers
  /\ open \in Seq(Opened) /\ copies \in Seq(Called)

Phases ==
  \/ /\ stage \in {"idle", "print"}
     /\ top = NULL /\ open = <<>> /\ copies = <<>> /\ target = NULL
     /\ alive <=> root # NULL
  \/ /\ stage \in {"value", "open", "name", "more"}
     /\ top # NULL /\ copies = <<>> /\ target = NULL
     /\ alive /\ root = NULL /\ owned = NULL
  \/ /\ stage = "copy"
     /\ top = NULL /\ open = <<>> /\ copies # <<>>
     /\ alive
     /\ \/ target = "owned" /\ owned = NULL /\ root # NULL
        \/ target = "root" /\ owned # NULL /\ root = NULL

Apart ==
  /\ root # NULL => root # owned
  /\ \A i \in 1 .. Len(copies) : copies[i].newitem \notin {root, owned}
  /\ \A i, j \in 1 .. Len(copies) : i # j => copies[i].newitem # copies[j].newitem
Cursors == {child, array} \subseteq Below(root) \cup {NULL}

Place(i) == IF i = 0 THEN top ELSE open[i].child
Path ==
  top # NULL =>
    /\ \A i \in 1 .. Len(open) : open[i].item = Place(i - 1)
    /\ \A i \in 0 .. Len(open) :
         \/ /\ Place(i) \in live /\ node[Place(i)].next = NULL
            /\ \A j \in 0 .. i - 1 : Place(j) # Place(i)
         \/ i = Len(open) /\ i # 0 /\ Place(i) = NULL /\ node[open[i].item].child = NULL
    /\ stage \in {"value", "name"} => Place(Len(open)) # NULL /\ node[Place(Len(open))].child = NULL
    /\ stage = "open" => open # <<>> /\ Place(Len(open)) = NULL
    /\ stage = "more" => Place(Len(open)) # NULL

Copying ==
  \A i \in 1 .. Len(copies) :
    /\ node[copies[i].newitem].next = NULL
    /\ i # Len(copies) => copies[i].cptr # NULL
    /\ IF copies[i].nptr = NULL THEN node[copies[i].newitem].child = NULL
       ELSE /\ copies[i].nptr \in Below(copies[i].newitem) \ {copies[i].newitem}
            /\ node[copies[i].nptr].next = NULL

TreeInv == TreeTypes /\ Phases /\ Trees /\ Apart /\ Cursors /\ Path /\ Copying

\* The last of a sequence, and what is before it.
LEMMA FrontIs ==
  ASSUME NEW S, NEW s \in Seq(S), s # <<>>
  PROVE  /\ Len(s) \in Nat \ {0} /\ Last(s) = s[Len(s)] /\ Last(s) \in S
         /\ Front(s) \in Seq(S) /\ Len(Front(s)) = Len(s) - 1
         /\ \A i \in 1 .. Len(s) - 1 : Front(s)[i] = s[i]
<1> DEFINE n == Len(s)
<1>1. n \in Nat \ {0}
  BY EmptySeq
<1>2. \A i \in 1 .. n : s[i] \in S
  BY ElementOfSeq
<1> DEFINE f == SubSeq(s, 1, n - 1)
<1>3. /\ f \in Seq(S) /\ Len(f) = IF 1 <= n - 1 THEN (n - 1) - 1 + 1 ELSE 0
      /\ \A i \in 1 .. (n - 1) - 1 + 1 : f[i] = s[1 + i - 1]
  <2>1. 1 \in Int /\ n - 1 \in Int
    BY <1>1
  <2> HIDE DEF n
  <2> QED BY <1>1, <1>2, <2>1, SubSeqProperties
<1> HIDE DEF n, f
<1>4. Len(f) = n - 1 /\ \A i \in 1 .. n - 1 : f[i] = s[i]
  BY <1>1, <1>3
<1> QED BY <1>1, <1>2, <1>3, <1>4 DEF f, n, Front, Last

\* Pointers of cells are pointers.
LEMMA TypesJoined ==
  TreeTypes => Joined(node)
  BY DEF TreeTypes, Cells, Joined

\* The same after a step.
LEMMA TypesJoinedNext ==
  TreeTypes' => Joined(node)'
  BY TypesJoined, PTL

\* What is held are nodes.
LEMMA HeldAreNodes ==
  TreeTypes => Held \subseteq Nodes
<1> SUFFICES ASSUME TreeTypes PROVE Held \subseteq Nodes
  OBVIOUS
<1>1. ASSUME NEW i \in DOMAIN copies PROVE copies[i].newitem \in Nodes
  <2>1. copies \in Seq(Called)
    BY DEF TreeTypes
  <2>2. i \in 1 .. Len(copies)
    BY <2>1, LenProperties
  <2>3. copies[i] \in Called
    BY <2>1, <2>2, ElementOfSeq
  <2> QED BY <2>3 DEF Called
<1> QED BY <1>1 DEF Held, TreeTypes, Pointers

\* The same after a step.
LEMMA HeldAreNodesNext ==
  TreeTypes' => Held' \subseteq Nodes
<1>1. (TreeTypes => Held \subseteq Nodes)'
  BY HeldAreNodes, PTL
<1> QED BY <1>1

\* The item that the parser is at is the end of its path.
LEMMA CurrentIs ==
  ASSUME TreeTypes
  PROVE  Current = Place(Len(open)) /\ Len(open) \in Nat
         /\ (open # <<>> => Len(open) # 0 /\ Within = open[Len(open)] /\ Within \in Opened)
<1>1. Len(open) \in Nat
  BY LenProperties DEF TreeTypes
<1>2. CASE open = <<>>
  BY <1>1, <1>2, EmptySeq DEF Current, Place
<1>3. CASE open # <<>>
  BY <1>3, FrontIs DEF Current, Place, Within, TreeTypes
<1> QED BY <1>1, <1>2, <1>3

\* While a document is parsed there is no other.
LEMMA WhileParsing ==
  ASSUME TreeInv, top # NULL
  PROVE  /\ root = NULL /\ owned = NULL /\ child = NULL /\ array = NULL /\ copies = <<>>
         /\ target = NULL /\ alive /\ stage \in {"value", "open", "name", "more"}
         /\ top \in Nodes /\ Held = {top}
<1>1. /\ root = NULL /\ owned = NULL /\ copies = <<>> /\ target = NULL /\ alive
      /\ stage \in {"value", "open", "name", "more"} /\ top \in Nodes
  BY DEF TreeInv, Phases, TreeTypes, Pointers
<1>2. child = NULL /\ array = NULL
  <2>1. Below(NULL) = {}
    BY BelowNull, TypesJoined DEF TreeInv
  <2> QED BY <1>1, <2>1 DEF TreeInv, Cursors
<1>3. DOMAIN copies = {}
  BY <1>1
<1> QED BY <1>1, <1>2, <1>3 DEF Held

\* What is left to show of a step after which a document is parsed.
LEMMA ParsingInv ==
  ASSUME TreeTypes', Trees', Path', copies' = <<>>, target' = NULL, root' = NULL, owned' = NULL,
         child' = NULL, array' = NULL, top' # NULL, alive',
         stage' \in {"value", "open", "name", "more"}
  PROVE  TreeInv'
<1>1. Len(copies') = 0 /\ 1 .. Len(copies') = {}
  BY EmptySeq
<1>2. Phases'
  BY DEF Phases
<1>3. Apart' /\ Copying'
  BY <1>1 DEF Apart, Copying
<1>4. Cursors'
  BY DEF Cursors
<1> QED BY <1>2, <1>3, <1>4 DEF TreeInv

\* Of which the first node is all that is held.
LEMMA HeldParsing ==
  ASSUME copies' = <<>>, root' = NULL, owned' = NULL, top' # NULL
  PROVE  Held' = {top'}
  BY DEF Held

-----------------------------------------------------------------------------
(* Parsing                                                                 *)

\* A cell put into the heap.
LEMMA NewCell ==
  ASSUME TreeTypes, NEW q \in Nodes, NEW c \in Cells
  PROVE  [node EXCEPT ![q] = c] \in [Nodes -> Cells]
  BY DEF TreeTypes

\* A new item has no pointers.
LEMMA BlankIs ==
  /\ Blank \in Cells /\ Blank.child = NULL /\ Blank.next = NULL
  BY DEF Blank, Junk, Cells, Pointers

\* The parser begins with a new node.
LEMMA ParseBeginsTree == ASSUME TreeInv, ParseBegins PROVE TreeInv'
<1>1. PICK q \in Nodes : Allocates(q) /\ top' = q /\ node' = Cleared(q)
  BY DEF ParseBegins
<1>2. /\ stage = "idle" /\ ~alive /\ owned = NULL
      /\ alive' = TRUE /\ stage' = "value"
      /\ UNCHANGED <<root, child, array, owned, open, copies, target>>
  BY DEF ParseBegins, cursors, copier
<1>3. /\ top = NULL /\ open = <<>> /\ copies = <<>> /\ target = NULL /\ root = NULL
  BY <1>2, Zenon DEF TreeInv, Phases
<1>4. q \in Nodes \ live /\ live' = live \cup {q} /\ q # NULL
  BY <1>1, NodesAre DEF Allocates
<1>5. node' = [node EXCEPT ![q] = Blank]
  BY <1>1 DEF Cleared
<1>6. TreeTypes'
  <2>1. node' \in [Nodes -> Cells]
    BY <1>5, NewCell, BlankIs DEF TreeInv
  <2> QED BY <1>1, <1>2, <1>4, <2>1 DEF TreeInv, TreeTypes, Pointers
<1>7. Held = {} /\ Held' = {q}
  <2>1. DOMAIN copies = {}
    BY <1>3
  <2> QED BY <1>1, <1>2, <1>3, <1>4, <2>1 DEF Held
<1>8. child = NULL /\ array = NULL
  <2>1. Below(NULL) = {}
    BY BelowNull, TypesJoined DEF TreeInv
  <2> QED BY <1>3, <2>1 DEF TreeInv, Cursors
<1>9. node'[q] = Blank /\ \A n \in Nodes \ {q} : node'[n] = node[n]
  BY <1>5 DEF TreeInv, TreeTypes
<1>10. Trees'
  <2>1. SamePointers(node, node', live)
    BY <1>4, <1>9 DEF SamePointers, TreeInv, TreeTypes
  <2> QED BY <1>4, <1>6, <1>7, <1>9, <2>1, TreePlanted, TypesJoined, TypesJoinedNext, BlankIs
          DEF TreeInv
<1>11. Path'
  <2>1. Len(open') = 0
    BY <1>2, <1>3, EmptySeq
  <2> QED BY <1>1, <1>2, <1>4, <1>9, <2>1, BlankIs DEF Path, Place
<1> QED BY <1>1, <1>2, <1>3, <1>4, <1>6, <1>8, <1>10, <1>11, ParsingInv

\* What a step of the parser does that changes no pointer.
LEMMA ParserStill ==
  ASSUME TreeInv, top # NULL, TreeTypes',
         UNCHANGED <<live, root, child, array, owned, top, copies, target, alive>>,
         SamePointers(node, node', Nodes), Path', stage' \in {"value", "open", "name", "more"}
  PROVE  TreeInv'
<1>1. /\ root = NULL /\ owned = NULL /\ child = NULL /\ array = NULL /\ copies = <<>>
      /\ target = NULL /\ alive /\ top \in Nodes /\ Held = {top}
  BY WhileParsing
<1>2. Held' = {top'}
  BY <1>1, HeldParsing
<1>3. SamePointers(node, node', live)
  BY DEF SamePointers, TreeInv, TreeTypes
<1>4. Trees'
  BY <1>1, <1>2, <1>3, TreesStill, TypesJoined, TypesJoinedNext DEF TreeInv
<1> QED BY <1>1, <1>4, ParsingInv

\* A value changes no pointer.
LEMMA ParseValueTree == ASSUME TreeInv, ParseValue PROVE TreeInv'
<1>1. PICK type \in Words \cup {"string"}, t \in Texts \cup {NULL} :
        node' = [node EXCEPT ![Current].type = type, ![Current].valuestring = t]
  BY DEF ParseValue
<1>2. /\ stage = "value" /\ stage' = "more"
      /\ UNCHANGED <<live, alive, root, child, array, owned, top, open, copies, target>>
  BY DEF ParseValue, object, cursors, parser, copier
<1>3. top # NULL
  BY <1>2 DEF TreeInv, Phases
<1>4. Current = Place(Len(open)) /\ Place(Len(open)) # NULL
  BY <1>2, <1>3, CurrentIs DEF TreeInv, Path
<1> DEFINE c == Current
<1>5. node' = [node EXCEPT ![c].type = type, ![c].valuestring = t]
  BY <1>1
<1> HIDE DEF c
<1>6. node' \in [Nodes -> Cells] /\ SamePointers(node, node', Nodes)
  BY <1>5 DEF TreeInv, TreeTypes, Cells, Types, SamePointers
<1>7. TreeTypes'
  BY <1>2, <1>6 DEF TreeInv, TreeTypes
<1>8. Path'
  BY <1>2, <1>3, <1>4, <1>6 DEF TreeInv, TreeTypes, Path, Place, SamePointers
<1> QED BY <1>2, <1>3, <1>6, <1>7, <1>8, ParserStill

\* Nor does a name.
LEMMA ParseNameTree == ASSUME TreeInv, ParseName PROVE TreeInv'
<1>1. PICK name \in Names :
        node' = [node EXCEPT ![Current].type = "string", ![Current].string = name]
  BY DEF ParseName
<1>2. /\ stage = "name" /\ stage' = "value"
      /\ UNCHANGED <<live, alive, root, child, array, owned, top, open, copies, target>>
  BY DEF ParseName, object, cursors, parser, copier
<1>3. top # NULL
  BY <1>2 DEF TreeInv, Phases
<1> DEFINE c == Current
<1>5. node' = [node EXCEPT ![c].type = "string", ![c].string = name]
  BY <1>1
<1>4. c = Place(Len(open)) /\ c \in live /\ node[c].child = NULL
  BY <1>2, <1>3, CurrentIs DEF TreeInv, Path
<1> HIDE DEF c
<1>6. node' \in [Nodes -> Cells] /\ SamePointers(node, node', Nodes)
  BY <1>5 DEF TreeInv, TreeTypes, Cells, Types, SamePointers
<1>7. TreeTypes'
  BY <1>2, <1>6 DEF TreeInv, TreeTypes
<1>8. Path'
  BY <1>2, <1>3, <1>4, <1>6 DEF TreeInv, TreeTypes, Path, Place, SamePointers
<1> QED BY <1>2, <1>3, <1>6, <1>7, <1>8, ParserStill

\* A bracket: the path grows.
LEMMA ParseOpensTree == ASSUME TreeInv, ParseOpens PROVE TreeInv'
<1>1. PICK type \in {"array", "object"} : node' = [node EXCEPT ![Current].type = type]
  BY DEF ParseOpens
<1>2. /\ stage = "value" /\ stage' = "open"
      /\ open' = Append(open, [item |-> Current, child |-> NULL])
      /\ UNCHANGED <<live, alive, root, child, array, owned, top, copies, target>>
  BY DEF ParseOpens, object, cursors, copier
<1>3. top # NULL
  BY <1>2 DEF TreeInv, Phases
<1> DEFINE c == Current
           new == [item |-> c, child |-> NULL]
<1>0. PICK L \in Nat : L = Len(open)
  BY CurrentIs DEF TreeInv
<1>4. c = Place(L) /\ c \in live /\ node[c].child = NULL
  BY <1>0, <1>2, <1>3, CurrentIs DEF TreeInv, Path
<1>5. node' = [node EXCEPT ![c].type = type] /\ open' = Append(open, new)
  BY <1>1, <1>2
<1>6. new \in Opened /\ new.item = c /\ new.child = NULL
  BY <1>4 DEF Opened, Pointers, TreeInv, TreeTypes
<1> HIDE DEF c, new
<1>7. node' \in [Nodes -> Cells] /\ SamePointers(node, node', Nodes)
  BY <1>5 DEF TreeInv, TreeTypes, Cells, Types, SamePointers
<1>8. /\ open' \in Seq(Opened) /\ Len(open') = L + 1 /\ open' # <<>>
      /\ open'[L + 1] = new /\ \A i \in 1 .. L : open'[i] = open[i]
  <2>1. open \in Seq(Opened)
    BY DEF TreeInv, TreeTypes
  <2>2. Len(open') = L + 1
    BY <1>0, <1>5, <1>6, <2>1, AppendProperties
  <2> QED BY <1>0, <1>5, <1>6, <2>1, <2>2, AppendProperties, EmptySeq
<1>9. TreeTypes'
  BY <1>2, <1>7, <1>8 DEF TreeInv, TreeTypes
<1>10. Path'
  <2>1. \A i \in 1 .. L : open[i].item = Place(i - 1)
    BY <1>0, <1>3 DEF TreeInv, Path
  <2>2. /\ \A i \in 0 .. L : Place(i)' = Place(i)
        /\ Place(L + 1)' = NULL
    BY <1>2, <1>4, <1>6, <1>8 DEF Place
  <2>3. ASSUME NEW i \in 0 .. L
        PROVE  /\ Place(i) \in live /\ node[Place(i)].next = NULL
               /\ \A j \in 0 .. i - 1 : Place(j) # Place(i)
    <3>1. Place(i) # NULL
      <4>1. CASE i = L
        BY <1>4, <4>1, NodesAre DEF TreeInv, TreeTypes
      <4>2. CASE i # L
        <5>1. Place(i) \in live
          BY <1>0, <1>3, <4>2 DEF TreeInv, Path
        <5> QED BY <5>1, NodesAre DEF TreeInv, TreeTypes
      <4> QED BY <4>1, <4>2
    <3> QED BY <1>0, <1>3, <3>1 DEF TreeInv, Path
  <2>4. \A i \in 1 .. L + 1 : open'[i].item = Place(i - 1)'
    BY <1>4, <1>6, <1>8, <2>1, <2>2
  <2>5. \A i \in 0 .. L : /\ Place(i)' \in live' /\ node'[Place(i)'].next = NULL
                          /\ \A j \in 0 .. i - 1 : Place(j)' # Place(i)'
    <3>1. \A n \in live : node'[n].next = node[n].next
      BY <1>7 DEF SamePointers, TreeInv, TreeTypes
    <3>2. \A i \in 0 .. L : \A j \in 0 .. i - 1 : j \in 0 .. L
      OBVIOUS
    <3> QED BY <1>2, <2>2, <2>3, <3>1, <3>2
  <2>6. node'[open'[L + 1].item].child = NULL
    BY <1>4, <1>6, <1>7, <1>8 DEF SamePointers, TreeInv, TreeTypes
  <2> QED BY <1>2, <1>4, <1>8, <2>2, <2>4, <2>5, <2>6 DEF Path
<1> QED BY <1>2, <1>3, <1>7, <1>9, <1>10, ParserStill

\* A bracket: the path ends one item earlier.
LEMMA ParseClosesTree == ASSUME TreeInv, ParseCloses PROVE TreeInv'
<1>1. /\ open # <<>> /\ open' = Front(open) /\ stage \in {"open", "more"} /\ stage' = "more"
      /\ UNCHANGED <<node, live, alive, root, child, array, owned, top, copies, target>>
  BY DEF ParseCloses, heap, object, cursors, copier
<1>2. top # NULL
  BY <1>1 DEF TreeInv, Phases
<1>0. PICK L \in Nat : L = Len(open)
  BY CurrentIs DEF TreeInv
<1>3. /\ L \in Nat \ {0} /\ open' \in Seq(Opened) /\ Len(open') = L - 1
      /\ \A i \in 1 .. L - 1 : open'[i] = open[i]
  BY <1>0, <1>1, FrontIs DEF TreeInv, TreeTypes
<1>4. TreeTypes'
  BY <1>1, <1>3 DEF TreeInv, TreeTypes
<1>5. Path'
  <2>1. \A i \in 1 .. L : open[i].item = Place(i - 1)
    BY <1>0, <1>2 DEF TreeInv, Path
  <2>2. \A i \in 0 .. L - 1 : Place(i)' = Place(i)
    BY <1>1, <1>3 DEF Place
  <2>3. ASSUME NEW i \in 0 .. L - 1
        PROVE  /\ Place(i) \in live /\ node[Place(i)].next = NULL
               /\ \A j \in 0 .. i - 1 : Place(j) # Place(i)
    BY <1>0, <1>2, <1>3 DEF TreeInv, Path
  <2>4. Place(L - 1) # NULL
    BY <1>3, <2>3, NodesAre DEF TreeInv, TreeTypes
  <2>5. \A i \in 1 .. L - 1 : open'[i].item = Place(i - 1)'
    BY <1>3, <2>1, <2>2
  <2>6. \A i \in 0 .. L - 1 : /\ Place(i)' \in live' /\ node'[Place(i)'].next = NULL
                              /\ \A j \in 0 .. i - 1 : Place(j)' # Place(i)'
    BY <1>1, <1>3, <2>2, <2>3
  <2> QED BY <1>1, <1>3, <2>2, <2>4, <2>5, <2>6 DEF Path
<1>6. SamePointers(node, node', Nodes)
  BY <1>1 DEF SamePointers
<1> QED BY <1>1, <1>2, <1>4, <1>5, <1>6, ParserStill

\* A new node q is hung at the end of the path: on the item, or on its last child.
LinksNew(q, L, w, a) ==
  /\ live' = live \cup {q} /\ L = Len(open) /\ w = open[L]
  /\ a = IF w.child = NULL THEN w.item ELSE w.child
  /\ w.item = Place(L - 1) /\ w.child = Place(L)
  /\ open' \in Seq(Opened) /\ Len(open') = L
  /\ open'[L].item = w.item /\ open'[L].child = q
  /\ \A i \in 1 .. L - 1 : open'[i] = open[i]
  /\ node' \in [Nodes -> Cells] /\ node'[q] = Blank
  /\ \A n \in Nodes \ {q, a} : node'[n] = node[n]
  /\ IF w.child = NULL
     THEN /\ node[a].child = NULL
          /\ node'[a] = [node[a] EXCEPT !.child = q]
     ELSE /\ node[a].next = NULL
          /\ node'[a] = [node[a] EXCEPT !.next = q]
LEMMA ParseNextIs ==
  ASSUME TreeInv, ParseNext
  PROVE  \E q \in Nodes \ live, L \in Nat \ {0}, w \in Opened, a \in live : LinksNew(q, L, w, a)
<1>1. PICK q \in Nodes : Allocates(q) /\ node' = Links(q) /\ Descends(q)
  BY DEF ParseNext
<1>2. /\ stage \in {"open", "more"} /\ open # <<>>
      /\ stage' \in {"value", "name"}
      /\ UNCHANGED <<alive, root, child, array, owned, top, copies, target>>
  <2>1. /\ stage = "open" \/ (stage = "more" /\ open # <<>>)
        /\ stage' \in {"value", "name"}
        /\ UNCHANGED <<alive, root, child, array, owned, top, copies, target>>
    BY DEF ParseNext, object, cursors, copier
  <2>2. top # NULL
    BY <2>1 DEF TreeInv, Phases
  <2>3. stage = "open" => open # <<>>
    BY <2>2 DEF TreeInv, Path
  <2> QED BY <2>1, <2>3
<1>3. top # NULL
  BY <1>2 DEF TreeInv, Phases
<1>4. /\ root = NULL /\ owned = NULL /\ child = NULL /\ array = NULL /\ copies = <<>>
      /\ target = NULL /\ alive /\ top \in Nodes /\ Held = {top} /\ Held' = {top}
  BY <1>2, <1>3, WhileParsing, HeldParsing
<1>5. q \in Nodes \ live /\ live' = live \cup {q} /\ q # NULL
  BY <1>1, NodesAre DEF Allocates
<1>0. PICK L \in Nat : L = Len(open)
  BY CurrentIs DEF TreeInv
<1>a. PICK w \in Opened : w = open[L] /\ Within = w
  BY <1>0, <1>2, CurrentIs DEF TreeInv
<1>6. L \in Nat \ {0} /\ Within = w /\ w = open[L] /\ w.child = Place(L)
  BY <1>0, <1>a, <1>2, CurrentIs DEF TreeInv, Place
<1>7. open' = [open EXCEPT ![L] = [w EXCEPT !.child = q]]
  BY <1>0, <1>1, <1>a DEF Descends
<1>b. PICK a : a = IF w.child = NULL THEN w.item ELSE w.child
  OBVIOUS
<1>8. /\ open' \in Seq(Opened) /\ Len(open') = L /\ open'[L].item = w.item /\ open'[L].child = q
      /\ \A i \in 1 .. L - 1 : open'[i] = open[i]
  <2> DEFINE e == [w EXCEPT !.child = q]
  <2>1. open \in Seq(Opened) /\ L \in 1 .. Len(open)
    BY <1>0, <1>6 DEF TreeInv, TreeTypes
  <2>2. e \in Opened /\ e.item = w.item /\ e.child = q
    BY <1>5, <1>6 DEF Opened, Pointers
  <2>3. open' = [open EXCEPT ![L] = e]
    BY <1>7
  <2> HIDE DEF e
  <2>5. \A i \in 1 .. L - 1 : i \in 1 .. L /\ i # L
    OBVIOUS
  <2>4. [open EXCEPT ![L] = e] \in Seq(Opened) /\ Len([open EXCEPT ![L] = e]) = Len(open)
        /\ \A j \in 1 .. Len(open) : [open EXCEPT ![L] = e][j] = IF j = L THEN e ELSE open[j]
    BY <2>1, <2>2, ExceptSeq
  <2> QED BY <1>0, <1>6, <2>1, <2>2, <2>3, <2>4, <2>5
<1>9. w.item = Place(L - 1)
  BY <1>0, <1>3, <1>6 DEF TreeInv, Path
<1>10. ASSUME NEW i \in 0 .. L - 1
       PROVE  /\ Place(i) \in live /\ node[Place(i)].next = NULL
              /\ \A j \in 0 .. i - 1 : Place(j) # Place(i)
  BY <1>0, <1>3, <1>6 DEF TreeInv, Path
<1>11. \/ /\ w.child \in live /\ node[w.child].next = NULL
          /\ \A j \in 0 .. L - 1 : Place(j) # w.child
       \/ w.child = NULL /\ node[w.item].child = NULL
  BY <1>0, <1>3, <1>6 DEF TreeInv, Path
<1>12. w.item \in live /\ w.item # q /\ w.item \in Nodes
  BY <1>5, <1>6, <1>9, <1>10 DEF TreeInv, TreeTypes
<1>13. a \in live /\ a \in Nodes /\ a # q
  BY <1>b, <1>5, <1>11, <1>12 DEF TreeInv, TreeTypes
<1>14. /\ node' \in [Nodes -> Cells] /\ node'[q] = Blank
       /\ \A n \in Nodes \ {q, a} : node'[n] = node[n]
       /\ IF w.child = NULL
          THEN node[a].child = NULL /\ node'[a] = [node[a] EXCEPT !.child = q]
          ELSE node[a].next = NULL /\ node'[a] = [node[a] EXCEPT !.next = q]
  <2>1. node' = IF w.child = NULL
                THEN [[node EXCEPT ![q] = Blank] EXCEPT ![w.item].child = q]
                ELSE [[node EXCEPT ![q] = Blank] EXCEPT ![w.child].next = q]
    BY <1>1, <1>6 DEF Links, Cleared
  <2> DEFINE clear == [node EXCEPT ![q] = Blank]
  <2>2. clear \in [Nodes -> Cells] /\ clear[q] = Blank /\ \A n \in Nodes \ {q} : clear[n] = node[n]
    BY <1>5, NewCell, BlankIs DEF TreeInv, TreeTypes
  <2>3. node' = IF w.child = NULL THEN [clear EXCEPT ![a].child = q]
                ELSE [clear EXCEPT ![a].next = q]
    BY <1>b, <2>1
  <2> HIDE DEF clear
  <2>4. a = IF w.child = NULL THEN w.item ELSE w.child
    BY <1>b
  <2>5. CASE w.child = NULL
    <3>1. node' = [clear EXCEPT ![a].child = q] /\ node[a].child = NULL
      BY <1>11, <2>3, <2>4, <2>5, NodesAre DEF TreeInv, TreeTypes
    <3> QED BY <1>5, <1>13, <2>2, <2>5, <3>1 DEF Cells, Pointers
  <2>6. CASE w.child # NULL
    <3>1. node' = [clear EXCEPT ![a].next = q] /\ node[a].next = NULL
      BY <1>11, <2>3, <2>4, <2>6
    <3> QED BY <1>5, <1>13, <2>2, <2>6, <3>1 DEF Cells, Pointers
  <2> QED BY <2>5, <2>6
<1>15. LinksNew(q, L, w, a)
  BY <1>0, <1>a, <1>b, <1>5, <1>6, <1>8, <1>9, <1>13, <1>14 DEF LinksNew
<1> QED BY <1>5, <1>6, <1>13, <1>15

\* Path and tree have grown by it.
LEMMA ParseNextTree == ASSUME TreeInv, ParseNext PROVE TreeInv'
<1>2. /\ stage \in {"open", "more"} /\ stage' \in {"value", "name"}
      /\ UNCHANGED <<alive, root, child, array, owned, top, copies, target>>
  BY DEF ParseNext, object, cursors, copier
<1>3. top # NULL
  BY <1>2 DEF TreeInv, Phases
<1>4. /\ root = NULL /\ owned = NULL /\ child = NULL /\ array = NULL /\ copies = <<>>
      /\ target = NULL /\ alive /\ top \in Nodes /\ Held = {top} /\ Held' = {top}
  BY <1>2, <1>3, WhileParsing, HeldParsing
<1>a. PICK q \in Nodes \ live, L \in Nat \ {0}, w \in Opened, a \in live : LinksNew(q, L, w, a)
  BY ParseNextIs
<1>0. L = Len(open) /\ q # NULL
  BY <1>a, NodesAre DEF LinksNew
<1>b. a = IF w.child = NULL THEN w.item ELSE w.child
  BY <1>a DEF LinksNew
<1>5. q \in Nodes \ live /\ live' = live \cup {q} /\ q # NULL
  BY <1>a, <1>0 DEF LinksNew
<1>6. L \in Nat \ {0} /\ w = open[L] /\ w.child = Place(L)
  BY <1>a DEF LinksNew
<1>8. /\ open' \in Seq(Opened) /\ Len(open') = L /\ open'[L].item = w.item /\ open'[L].child = q
      /\ \A i \in 1 .. L - 1 : open'[i] = open[i]
  BY <1>a DEF LinksNew
<1>9. w.item = Place(L - 1)
  BY <1>a DEF LinksNew
<1>10. ASSUME NEW i \in 0 .. L - 1
       PROVE  /\ Place(i) \in live /\ node[Place(i)].next = NULL
              /\ \A j \in 0 .. i - 1 : Place(j) # Place(i)
  BY <1>0, <1>3, <1>6 DEF TreeInv, Path
<1>11. \/ /\ w.child \in live /\ node[w.child].next = NULL
          /\ \A j \in 0 .. L - 1 : Place(j) # w.child
       \/ w.child = NULL /\ node[w.item].child = NULL
  BY <1>0, <1>3, <1>6 DEF TreeInv, Path
<1>13. a \in live /\ a \in Nodes /\ a # q
  BY <1>a DEF LinksNew, TreeInv, TreeTypes
<1>14. /\ node' \in [Nodes -> Cells] /\ node'[q] = Blank
       /\ \A n \in Nodes \ {q, a} : node'[n] = node[n]
       /\ IF w.child = NULL
          THEN node'[a].child = q /\ node'[a].next = node[a].next /\ node[a].child = NULL
          ELSE node'[a].next = q /\ node'[a].child = node[a].child /\ node[a].next = NULL
  BY <1>a, <1>13 DEF LinksNew, TreeInv, TreeTypes, Cells
<1>15. TreeTypes'
  BY <1>2, <1>5, <1>8, <1>14 DEF TreeInv, TreeTypes
<1>16. Trees'
  <2>1. top \in Held /\ a \in Below(top)
    BY <1>4, <1>13 DEF TreeInv, Trees
  <2>2. Reached(node', q, {q})
    BY <1>5, <1>14, BlankIs, ReachedNew
  <2>3. q # top /\ q \notin Held /\ {q} \cap live = {} /\ Held' = Held \ {q}
    BY <1>4, <1>5, InTrees, TypesJoined, HeldAreNodes DEF TreeInv
  <2>4. SamePointers(node, node', live \ {a})
    BY <1>5, <1>14 DEF SamePointers, TreeInv, TreeTypes
  <2>5. /\ q \in {node'[a].child, node'[a].next}
        /\ {node'[a].child, node'[a].next} \subseteq {node[a].child, node[a].next, q}
        /\ {node[a].child, node[a].next} \subseteq {node'[a].child, node'[a].next, NULL}
    BY <1>14
  <2>6. Joined(node) /\ Joined(node)' /\ Held \subseteq Nodes /\ Trees
    BY <1>15, TypesJoined, TypesJoinedNext, HeldAreNodes DEF TreeInv
  <2> QED BY <1>5, <2>1, <2>2, <2>3, <2>4, <2>5, <2>6, TreeGrafted
<1>17. Path'
  <2>1. /\ \A i \in 0 .. L - 1 : Place(i)' = Place(i)
        /\ Place(L)' = q
    BY <1>2, <1>6, <1>8 DEF Place
  <2>2. \A i \in 1 .. L : open'[i].item = Place(i - 1)'
    <3>1. \A i \in 1 .. L : open[i].item = Place(i - 1)
      BY <1>0, <1>3 DEF TreeInv, Path
    <3> QED BY <1>6, <1>8, <1>9, <2>1, <3>1
  <2>3. ASSUME NEW i \in 0 .. L - 1
        PROVE  /\ Place(i)' \in live' /\ node'[Place(i)'].next = NULL
               /\ \A j \in 0 .. i - 1 : Place(j)' # Place(i)'
    <3>1. /\ Place(i) \in live /\ node[Place(i)].next = NULL
          /\ \A j \in 0 .. i - 1 : Place(j) # Place(i)
      BY <1>10
    <3>2. node'[Place(i)].next = NULL
      <4>1. CASE Place(i) = a
        <5>1. w.child = NULL
          BY <1>b, <1>11, <4>1
        <5> QED BY <1>14, <3>1, <4>1, <5>1
      <4>2. CASE Place(i) # a
        BY <1>5, <1>14, <3>1, <4>2 DEF TreeInv, TreeTypes
      <4> QED BY <4>1, <4>2
    <3>3. \A j \in 0 .. i - 1 : j \in 0 .. L - 1
      OBVIOUS
    <3> QED BY <1>5, <2>1, <3>1, <3>2, <3>3
  <2>4. /\ Place(L)' \in live' /\ node'[Place(L)'].next = NULL /\ node'[Place(L)'].child = NULL
        /\ \A j \in 0 .. L - 1 : Place(j)' # Place(L)'
    BY <1>5, <1>10, <1>14, <2>1, BlankIs
  <2> QED BY <1>2, <1>5, <1>6, <1>8, <2>1, <2>2, <2>3, <2>4 DEF Path
<1> QED BY <1>2, <1>3, <1>4, <1>15, <1>16, <1>17, ParsingInv

-----------------------------------------------------------------------------
(* Looking up                                                              *)

\* What follows a node: f[k] is reached from it in k steps along next.
Follows(f, n) ==
  /\ f \in [Nat -> Pointers] /\ f[0] = n
  /\ \A k \in Nat : f[k + 1] = IF f[k] = NULL THEN NULL ELSE node[f[k]].next

\* Chain goes along next, as far as there is anything.
LEMMA ChainIs ==
  ASSUME Joined(node), NEW n \in Pointers
  PROVE  \E f : /\ Follows(f, n)
                /\ Chain(n) =
                   [k \in 1 .. Cardinality({i \in 1 .. 2 * DocSize : f[i - 1] # NULL}) |-> f[k - 1]]
<1> DEFINE Step(m) == IF m = NULL THEN NULL ELSE node[m].next
           G == [k \in Nat |-> [m \in Pointers |-> Step(m)]]
           N == CHOOSE f : f = [k \in Nat |->
                  IF k = 0 THEN n
                  ELSE IF f[k - 1] = NULL THEN NULL ELSE node[f[k - 1]].next]
<1>1. n \in Pointers /\ \A m \in Pointers : Step(m) \in Pointers
  BY DEF Joined, Pointers
<1>2. Chain(n) = [k \in 1 .. Cardinality({i \in 1 .. 2 * DocSize : N[i - 1] # NULL}) |-> N[k - 1]]
  BY DEF Chain
<1>3. PICK f \in [Nat -> Pointers] : f[0] = n /\ \A k \in Nat \ {0} : f[k] = Step(f[k - 1])
  <2>1. G \in [Nat -> [Pointers -> Pointers]] /\ \A k \in Nat, m \in Pointers : G[k][m] = Step(m)
    BY <1>1
  <2> HIDE DEF G, Step, N
  <2>2. PICK f \in [Nat -> Pointers] : f[0] = n /\ \A k \in Nat \ {0} : f[k] = G[k][f[k - 1]]
    BY <1>1, <2>1, Iterate
  <2> QED BY <2>1, <2>2
<1>4. f = [k \in Nat |-> IF k = 0 THEN n
                         ELSE IF f[k - 1] = NULL THEN NULL ELSE node[f[k - 1]].next]
  BY <1>3
<1>5. N = [k \in Nat |-> IF k = 0 THEN n
                         ELSE IF N[k - 1] = NULL THEN NULL ELSE node[N[k - 1]].next]
  BY <1>4
<1> HIDE DEF N
<1>6. N[0] = n /\ \A k \in Nat : N[k + 1] = Step(N[k])
  <2>1. \A k \in Nat : N[k] = IF k = 0 THEN n
                         ELSE IF N[k - 1] = NULL THEN NULL ELSE node[N[k - 1]].next
    BY <1>5
  <2>2. \A k \in Nat : k + 1 \in Nat /\ k + 1 # 0 /\ (k + 1) - 1 = k
    OBVIOUS
  <2> QED BY <2>1, <2>2
<1> DEFINE T == {k \in Nat : N[k] \in Pointers}
<1>7. Nat \subseteq T
  <2>1. 0 \in T /\ \A k \in Nat : k \in T => k + 1 \in T
    <3> HIDE DEF Step
    <3> QED BY <1>1, <1>6
  <2> HIDE DEF T
  <2> QED BY <2>1, Induction
<1>8. N \in [Nat -> Pointers]
  BY <1>5, <1>7
<1>9. Follows(N, n)
  BY <1>6, <1>8 DEF Follows
<1> QED BY <1>2, <1>9

\* All of it is below where it begins.
LEMMA ChainBelow ==
  ASSUME Joined(node), NEW n \in Pointers
  PROVE  Chain(n) \in Seq(Below(n))
<1>1. PICK f : /\ Follows(f, n)
               /\ Chain(n) = [k \in 1 .. Cardinality({i \in 1 .. 2 * DocSize : f[i - 1] # NULL}) |->
                                 f[k - 1]]
  BY ChainIs
<1>2. Reached(node, n, Below(n))
  BY BelowReached
<1> DEFINE T == {k \in Nat : f[k] \in Below(n) \cup {NULL}}
<1>3. Nat \subseteq T
  <2>1. 0 \in T
    BY <1>1, <1>2 DEF Follows, Reached
  <2>2. ASSUME NEW k \in Nat, k \in T PROVE k + 1 \in T
    BY <1>1, <1>2, <2>2 DEF Follows, Reached, Closed
  <2> HIDE DEF T
  <2> QED BY <2>1, <2>2, Induction
<1> DEFINE S == {i \in 1 .. 2 * DocSize : f[i - 1] # NULL}
           c == Cardinality(S)
<1>4. IsFiniteSet(S) /\ c \in Nat
  <2>1. IsFiniteSet(1 .. 2 * DocSize)
    BY NodesAre DEF Nodes
  <2>2. S \in SUBSET (1 .. 2 * DocSize)
    OBVIOUS
  <2> HIDE DEF S
  <2> QED BY <2>1, <2>2, FS_Subset, FS_CardinalityType
<1>5. ASSUME NEW k \in 1 .. c PROVE f[k - 1] # NULL
  <2> SUFFICES ASSUME f[k - 1] = NULL PROVE FALSE
    OBVIOUS
  <2> DEFINE U == {i \in Nat : i >= k - 1 => f[i] = NULL}
  <2>1. k \in Nat \ {0}
    BY <1>4
  <2>2. Nat \subseteq U
    <3>1. 0 \in U
      BY <2>1
    <3>2. ASSUME NEW i \in Nat, i \in U PROVE i + 1 \in U
      <4>1. CASE i >= k - 1
        BY <1>1, <3>2, <4>1 DEF Follows
      <4>2. CASE ~(i >= k - 1)
        BY <2>1, <4>2
      <4> QED BY <4>1, <4>2
    <3> HIDE DEF U
    <3> QED BY <3>1, <3>2, Induction
  <2>3. S \subseteq 1 .. k - 1
    <3> SUFFICES ASSUME NEW i \in S PROVE i \in 1 .. k - 1
      OBVIOUS
    <3>1. i \in Nat \ {0} /\ f[i - 1] # NULL
      BY NodesAre
    <3>2. i - 1 \in Nat
      BY <3>1
    <3>3. ~(i - 1 >= k - 1)
      BY <2>2, <3>1, <3>2
    <3> QED BY <2>1, <3>1, <3>3
  <2>4. IsFiniteSet(1 .. k - 1) /\ Cardinality(1 .. k - 1) = k - 1
    <3>1. k - 1 \in Nat
      BY <2>1
    <3> DEFINE m == k - 1
    <3>2. Cardinality(1 .. m) = m /\ IsFiniteSet(1 .. m)
      <4>1. m \in Nat
        BY <3>1
      <4> HIDE DEF m
      <4>2. 1 \in Int /\ m \in Int
        BY <4>1
      <4>3. IsFiniteSet(1 .. m) /\ Cardinality(1 .. m) = IF 1 > m THEN 0 ELSE m - 1 + 1
        BY <4>2, FS_Interval
      <4> QED BY <4>1, <4>3
    <3> QED BY <3>2
  <2>5. c <= k - 1
    <3> HIDE DEF S
    <3> QED BY <2>3, <2>4, FS_Subset
  <2> QED BY <1>4, <2>1, <2>5
<1>6. \A k \in 1 .. c : f[k - 1] \in Below(n)
  <2> SUFFICES ASSUME NEW k \in 1 .. c PROVE f[k - 1] \in Below(n)
    OBVIOUS
  <2>1. k - 1 \in Nat
    BY <1>4
  <2> QED BY <1>3, <1>5, <2>1
<1> HIDE DEF c
<1>7. [k \in 1 .. c |-> f[k - 1]] \in [1 .. c -> Below(n)]
  BY <1>6
<1>8. [k \in 1 .. c |-> f[k - 1]] \in Seq(Below(n))
  BY <1>4, <1>7, SeqDef
<1> QED BY <1>1, <1>8 DEF c

\* The first place in a sequence of those that there are.
LEMMA FirstIn ==
  ASSUME NEW S, NEW s \in Seq(S), NEW T \in SUBSET (1 .. Len(s)), T # {}
  PROVE  Min(T) \in T /\ \A i \in T : Min(T) <= i
<1>1. Len(s) \in Nat
  BY LenProperties
<1>2. T \in SUBSET Nat
  BY <1>1
<1>3. PICK n \in T : \A m \in T : ~(m < n)
  BY <1>2, LeastNatural
<1>4. \A m \in T : n <= m
  BY <1>2, <1>3
<1> QED BY <1>4 DEF Min

\* A member that is found is below the first member.
LEMMA GetObjectItemBelow ==
  ASSUME Joined(node), NEW p \in Nodes, NEW name
  PROVE  GetObjectItem(p, name) \in Below(node[p].child) \cup {NULL}
<1> DEFINE s == Children(p)
           T == {i \in 1 .. Len(s) : Same(node[s[i]].string, name)}
<1>1. s \in Seq(Below(node[p].child))
  BY ChainBelow DEF Children, Joined
<1>2. GetObjectItem(p, name) = LET i == IF T # {} THEN Min(T) ELSE 0
                               IN IF i = 0 THEN NULL ELSE s[i]
  BY DEF GetObjectItem, SelectInSeq
<1>3. T \in SUBSET (1 .. Len(s))
  OBVIOUS
<1> HIDE DEF s, T
<1>4. CASE T = {}
  BY <1>2, <1>4
<1>5. CASE T # {}
  <2>1. Min(T) \in 1 .. Len(s)
    BY <1>1, <1>3, <1>5, FirstIn
  <2>2. s[Min(T)] \in Below(node[p].child)
    BY <1>1, <2>1, ElementOfSeq
  <2> QED BY <1>2, <1>5, <2>2
<1> QED BY <1>4, <1>5

\* What is found of an item below n is below n.
LEMMA GetItemBelow ==
  ASSUME Joined(node), NEW n \in Pointers, NEW p \in Below(n), NEW name, NEW type
  PROVE  /\ GetItem(p, name, type) \in Below(n) \cup {NULL}
         /\ \A i \in DOMAIN Children(p) : Children(p)[i] \in Below(n)
<1>1. p \in Nodes /\ node[p].child \in Below(n) \cup {NULL} /\ Below(n) \subseteq Nodes
  BY BelowBelow
<1>2. Below(node[p].child) \subseteq Below(n)
  <2>1. CASE node[p].child = NULL
    BY <2>1, BelowNull
  <2>2. CASE node[p].child # NULL
    BY <1>1, <2>2, BelowBelow
  <2> QED BY <2>1, <2>2
<1>3. GetItem(p, name, type) \in Below(n) \cup {NULL}
  <2>1. GetObjectItem(p, name) \in Below(n) \cup {NULL}
    BY <1>1, <1>2, GetObjectItemBelow
  <2> QED BY <2>1 DEF GetItem
<1>4. Children(p) \in Seq(Below(node[p].child))
  BY <1>1, ChainBelow DEF Children, Joined
<1>5. \A i \in DOMAIN Children(p) : Children(p)[i] \in Below(node[p].child)
  BY <1>4, LenProperties, ElementOfSeq
<1> QED BY <1>2, <1>3, <1>5

-----------------------------------------------------------------------------
(* The object                                                              *)

\* What is left to show of a step after which neither parser nor duplication runs.
LEMMA IdleInv ==
  ASSUME TreeTypes', Trees', Cursors', top' = NULL, open' = <<>>, copies' = <<>>, target' = NULL,
         stage' \in {"idle", "print"}, alive' <=> root' # NULL, root' # NULL => root' # owned'
  PROVE  TreeInv'
<1>1. Len(copies') = 0 /\ 1 .. Len(copies') = {}
  BY EmptySeq
<1>2. Phases'
  BY Zenon DEF Phases
<1>3. Apart' /\ Copying'
  BY <1>1 DEF Apart, Copying
<1>4. Path'
  BY DEF Path
<1> QED BY <1>2, <1>3, <1>4 DEF TreeInv

\* Then object and caller hold all there is.
LEMMA WhileIdle ==
  ASSUME TreeInv, stage \in {"idle", "print"}
  PROVE  /\ top = NULL /\ open = <<>> /\ copies = <<>> /\ target = NULL
         /\ (alive <=> root # NULL) /\ (root # NULL => root # owned)
         /\ Held = {root, owned} \ {NULL}
         /\ Joined(node) /\ Held \subseteq Nodes
<1>1. top = NULL /\ open = <<>> /\ copies = <<>> /\ target = NULL
  BY DEF TreeInv, Phases
<1>2. alive <=> root # NULL
  BY Zenon DEF TreeInv, Phases
<1>3. root # NULL => root # owned
  BY DEF TreeInv, Apart
<1>4. DOMAIN copies = {}
  BY <1>1
<1>5. Held = {root, owned} \ {NULL}
  BY <1>1, <1>4 DEF Held
<1>6. Joined(node) /\ Held \subseteq Nodes
  BY TypesJoined, HeldAreNodes DEF TreeInv
<1> QED BY <1>1, <1>2, <1>3, <1>5, <1>6

\* The same after a step.
LEMMA HeldIdle ==
  ASSUME top' = NULL, copies' = <<>>
  PROVE  Held' = {root', owned'} \ {NULL}
  BY DEF Held

\* cJSON_Delete leaves a heap.
LEMMA DeletesTypes ==
  ASSUME TreeTypes, NEW heads, Deletes(heads)
  PROVE  live' \subseteq Nodes /\ node' \in [Nodes -> Cells]
<1>1. Junk \in Cells
  BY DEF Junk, Cells, Pointers
<1>2. node' = [n \in Nodes |-> IF n \in UNION {Below(m) : m \in heads} THEN Junk ELSE node[n]]
  BY DEF Deletes
<1>3. live' \subseteq live
  BY DEF Deletes
<1> QED BY <1>1, <1>2, <1>3 DEF TreeTypes

\* The document becomes that of the object.
LEMMA ParseEndsTree == ASSUME TreeInv, ParseEnds PROVE TreeInv'
<1>1. /\ stage = "more" /\ open = <<>> /\ root' = top /\ top' = NULL /\ stage' = "idle"
      /\ UNCHANGED <<node, live, alive, child, array, owned, open, copies, target>>
  BY DEF ParseEnds, heap, cursors, copier
<1>2. top # NULL
  BY <1>1 DEF TreeInv, Phases
<1>3. /\ root = NULL /\ owned = NULL /\ child = NULL /\ array = NULL /\ copies = <<>>
      /\ target = NULL /\ alive /\ top \in Nodes /\ Held = {top}
  BY <1>2, WhileParsing
<1>4. TreeTypes'
  BY <1>1, <1>3 DEF TreeInv, TreeTypes, Pointers
<1>5. Trees'
  <2>1. Held' = Held
    BY <1>1, <1>2, <1>3, HeldIdle
  <2>2. SamePointers(node, node', live)
    BY <1>1 DEF SamePointers
  <2>3. Held \subseteq Nodes /\ Joined(node) /\ Joined(node)' /\ Trees
    BY <1>3, <1>4, TypesJoined, TypesJoinedNext DEF TreeInv
  <2> QED BY <1>1, <2>1, <2>2, <2>3, TreesStill
<1>6. Cursors'
  BY <1>1, <1>3 DEF Cursors
<1> QED BY <1>1, <1>2, <1>3, <1>4, <1>5, <1>6, IdleInv

\* What has been parsed is deleted.
LEMMA ParseFailsTree == ASSUME TreeInv, ParseFails PROVE TreeInv'
<1>1. /\ Deletes({top}) /\ top' = NULL /\ open' = <<>> /\ alive' = FALSE /\ stage' = "idle"
      /\ UNCHANGED <<root, child, array, owned, copies, target>>
      /\ stage \in {"value", "open", "name", "more"}
  BY DEF ParseFails, cursors, copier
<1>2. top # NULL
  BY <1>1 DEF TreeInv, Phases
<1>3. /\ root = NULL /\ owned = NULL /\ child = NULL /\ array = NULL /\ copies = <<>>
      /\ target = NULL /\ alive /\ top \in Nodes /\ Held = {top}
  BY <1>2, WhileParsing
<1>4. Held' = Held \ {top}
  BY <1>1, <1>3, HeldIdle
<1>5. Joined(node)' /\ Trees'
  <2>1. Joined(node) /\ Trees /\ Held \subseteq Nodes /\ {top} \in SUBSET Held
    BY <1>3, TypesJoined DEF TreeInv
  <2> QED BY <1>1, <1>4, <2>1, TreesFelled
<1>6. TreeTypes'
  BY <1>1, <1>3, DeletesTypes DEF TreeInv, TreeTypes, Pointers
<1>7. Cursors'
  BY <1>1, <1>3 DEF Cursors
<1> QED BY <1>1, <1>3, <1>5, <1>6, <1>7, IdleInv

\* What a step does that only moves a cursor, or a text.
LEMMA IdleStill ==
  ASSUME TreeInv, stage \in {"idle", "print"}, TreeTypes',
         UNCHANGED <<live, alive, root, owned, top, open, copies, target>>,
         stage' \in {"idle", "print"}, SamePointers(node, node', Nodes),
         {child', array'} \subseteq Below(root) \cup {NULL}
  PROVE  TreeInv'
<1>1. /\ top = NULL /\ open = <<>> /\ copies = <<>> /\ target = NULL
      /\ (alive <=> root # NULL) /\ (root # NULL => root # owned)
      /\ Held = {root, owned} \ {NULL} /\ Joined(node) /\ Held \subseteq Nodes
  BY WhileIdle
<1>2. Held' = Held
  BY <1>1, HeldIdle
<1>3. Trees' /\ \A n \in Held \cup {NULL} : Below(n)' = Below(n)
  <2>1. SamePointers(node, node', live)
    BY DEF SamePointers, TreeInv, TreeTypes
  <2>2. Joined(node)'
    BY TypesJoinedNext
  <2> QED BY <1>1, <1>2, <2>1, <2>2, TreesStill DEF TreeInv
<1>4. Cursors'
  <2>1. root \in Held \cup {NULL}
    BY <1>1
  <2>2. PICK r : r = root
    OBVIOUS
  <2>3. Below(r)' = Below(r) /\ Below(root)' = Below(r)' /\ Below(root) = Below(r)
    BY <1>3, <2>1, <2>2
  <2> QED BY <2>3 DEF Cursors
<1> QED BY <1>1, <1>3, <1>4, IdleInv

\* What the caller holds is as it was.
OwnKept ==
  owned # NULL /\ owned' = owned => \A n \in Below(owned) : node'[n] = node[n]

\* A cursor, and the root, are below the root.
LEMMA ReadyIs ==
  ASSUME TreeInv, Ready
  PROVE  /\ root # NULL /\ root \in Nodes /\ root \in Below(root) /\ Below(root) \subseteq Nodes
         /\ \A fromChild \in BOOLEAN : /\ From(child, fromChild) \in Below(root)
                                       /\ From(array, fromChild) \in Below(root)
<1>1. root # NULL /\ root \in Held /\ Joined(node) /\ Held \subseteq Nodes
  BY WhileIdle DEF Ready
<1>2. root \in Below(root) /\ Below(root) \subseteq Nodes
  BY <1>1, InTrees DEF TreeInv
<1> QED BY <1>1, <1>2 DEF TreeInv, Cursors, From

\* What a step does that only moves a cursor.
LEMMA CursorMoves ==
  ASSUME TreeInv, Ready, {child', array'} \subseteq Below(root) \cup {NULL},
         UNCHANGED <<node, live, alive, root, owned, stage, top, open, copies, target>>
  PROVE  TreeInv' /\ OwnKept
<1>1. TreeTypes'
  BY ReadyIs DEF TreeInv, TreeTypes, Pointers
<1>2. SamePointers(node, node', Nodes)
  BY DEF SamePointers
<1>3. TreeInv'
  BY <1>1, <1>2, IdleStill DEF Ready
<1> QED BY <1>3 DEF OwnKept

\* The four that do.
LEMMA UseMovesCursor ==
  ASSUME TreeInv,
         LoadChildObject \/ LoadChildArray \/ LoadChildObjectFromChildArrayByIndex \/ ReleaseChild
  PROVE  TreeInv' /\ OwnKept
<1>1. Ready /\ UNCHANGED <<node, live, alive, root, owned, stage, top, open, copies, target>>
  BY DEF LoadChildObject, LoadChildArray, LoadChildObjectFromChildArrayByIndex, ReleaseChild,
         heap, parser, copier
<1>2. Joined(node) /\ root \in Pointers /\ {child, array} \subseteq Below(root) \cup {NULL}
  BY TypesJoined DEF TreeInv, TreeTypes, Cursors
<1>3. {child', array'} \subseteq Below(root) \cup {NULL}
  <2>1. CASE LoadChildObject
    <3>1. PICK name \in Names, fromChild \in BOOLEAN :
            child' = GetItem(From(child, fromChild), name, "object") /\ array' = array
      BY <2>1 DEF LoadChildObject
    <3>2. From(child, fromChild) \in Below(root)
      BY <1>1, ReadyIs
    <3>3. GetItem(From(child, fromChild), name, "object") \in Below(root) \cup {NULL}
      BY <1>2, <3>2, GetItemBelow
    <3> QED BY <1>2, <3>1, <3>3
  <2>2. CASE LoadChildArray
    <3>1. PICK name \in Names, fromChild \in BOOLEAN :
            array' = GetItem(From(child, fromChild), name, "array") /\ child' = child
      BY <2>2 DEF LoadChildArray
    <3>2. From(child, fromChild) \in Below(root)
      BY <1>1, ReadyIs
    <3>3. GetItem(From(child, fromChild), name, "array") \in Below(root) \cup {NULL}
      BY <1>2, <3>2, GetItemBelow
    <3> QED BY <1>2, <3>1, <3>3
  <2>3. CASE LoadChildObjectFromChildArrayByIndex
    <3>1. PICK fromChild \in BOOLEAN :
            /\ \E i \in DOMAIN Children(From(array, fromChild)) :
                  child' = Children(From(array, fromChild))[i]
            /\ array' = array
      BY <2>3 DEF LoadChildObjectFromChildArrayByIndex
    <3>2. From(array, fromChild) \in Below(root)
      BY <1>1, ReadyIs
    <3> DEFINE p == From(array, fromChild)
    <3>3. p \in Below(root) /\ \E i \in DOMAIN Children(p) : child' = Children(p)[i]
      BY <3>1, <3>2
    <3> HIDE DEF p
    <3>4. \A i \in DOMAIN Children(p) : Children(p)[i] \in Below(root)
      BY <1>2, <3>3, GetItemBelow
    <3> QED BY <1>2, <3>1, <3>3, <3>4
  <2>4. CASE ReleaseChild
    BY <2>4 DEF ReleaseChild
  <2> QED BY <2>1, <2>2, <2>3, <2>4
<1> QED BY <1>1, <1>3, CursorMoves

\* A text changes no tree, and is in another than what the caller holds.
LEMMA PutValueStringTree == ASSUME TreeInv, PutValueString PROVE TreeInv' /\ OwnKept
<1>1. /\ Ready
      /\ UNCHANGED <<live, alive, root, child, array, owned, stage, top, open, copies, target>>
  BY DEF PutValueString, object, cursors, parser, copier
<1>2. PICK name \in Names, fromChild \in BOOLEAN, t \in Texts \cup {NULL} :
        LET m == GetItem(From(child, fromChild), name, "string")
        IN m # NULL /\ node' = [node EXCEPT ![m].valuestring = t]
  BY DEF PutValueString
<1>3. PICK m \in Below(root) : node' = [node EXCEPT ![m].valuestring = t]
  <2>1. From(child, fromChild) \in Below(root)
    BY <1>1, ReadyIs
  <2>2. GetItem(From(child, fromChild), name, "string") \in Below(root) \cup {NULL}
    BY <2>1, TypesJoined, GetItemBelow DEF TreeInv, TreeTypes
  <2> QED BY <1>2, <2>2
<1>4. m \in Nodes /\ root # NULL
  BY <1>1, ReadyIs
<1>5. /\ node' \in [Nodes -> Cells] /\ SamePointers(node, node', Nodes)
      /\ \A n \in Nodes \ {m} : node'[n] = node[n]
  BY <1>3, <1>4 DEF TreeInv, TreeTypes, Cells, SamePointers
<1>6. TreeTypes'
  BY <1>1, <1>5 DEF TreeInv, TreeTypes
<1>7. TreeInv'
  <2>1. {child', array'} \subseteq Below(root) \cup {NULL}
    BY <1>1 DEF TreeInv, Cursors
  <2> QED BY <1>1, <1>5, <1>6, <2>1, IdleStill DEF Ready
<1>8. OwnKept
  <2> SUFFICES ASSUME owned # NULL PROVE \A n \in Below(owned) : node'[n] = node[n]
    BY DEF OwnKept
  <2>1. root \in Held /\ owned \in Held /\ root # owned /\ Joined(node) /\ Held \subseteq Nodes
    BY <1>1, <1>4, WhileIdle DEF Ready
  <2>2. Below(root) \cap Below(owned) = {} /\ Below(owned) \subseteq Nodes
    BY <2>1, InTrees DEF TreeInv, Trees
  <2> QED BY <1>5, <2>2
<1> QED BY <1>7, <1>8

\* delete takes the document, and nothing of what the caller holds.
LEMMA DeletesObjectTree == ASSUME TreeInv, DeletesObject PROVE TreeInv' /\ OwnKept
<1>1. /\ Ready /\ child' = NULL /\ array' = NULL
      /\ Deletes({root}) /\ root' = NULL /\ alive' = FALSE
      /\ UNCHANGED <<owned, stage, top, open, copies, target>>
  BY DEF DeletesObject, parser, copier
<1>2. /\ top = NULL /\ open = <<>> /\ copies = <<>> /\ target = NULL
      /\ root # NULL /\ root # owned /\ Held = {root, owned} \ {NULL}
      /\ Joined(node) /\ Held \subseteq Nodes
  BY <1>1, ReadyIs, WhileIdle DEF Ready
<1>3. Held' = Held \ {root}
  BY <1>1, <1>2, HeldIdle
<1>4. /\ Joined(node)' /\ Trees'
      /\ \A n \in (Held \ {root}) \cup {NULL} : \A m \in Below(n) : node'[m] = node[m]
  <2>1. {root} \in SUBSET Held
    BY <1>2
  <2> QED BY <1>1, <1>2, <1>3, <2>1, TreesFelled DEF TreeInv
<1>5. TreeTypes'
  BY <1>1, DeletesTypes DEF TreeInv, TreeTypes, Pointers
<1>6. Cursors'
  BY <1>1 DEF Cursors
<1>7. OwnKept
  BY <1>2, <1>4 DEF OwnKept
<1>8. TreeInv'
  BY <1>1, <1>2, <1>4, <1>5, <1>6, IdleInv DEF Ready
<1> QED BY <1>7, <1>8

\* The caller gives up what it held.
LEMMA FreeAllTree == ASSUME TreeInv, FreeAll PROVE TreeInv' /\ OwnKept
<1>1. /\ stage = "idle" /\ owned # NULL /\ Deletes({owned}) /\ owned' = NULL
      /\ UNCHANGED <<alive, root, child, array, stage, top, open, copies, target>>
  BY DEF FreeAll, object, cursors, parser, copier
<1>2. /\ top = NULL /\ open = <<>> /\ copies = <<>> /\ target = NULL
      /\ (root # NULL => root # owned) /\ Held = {root, owned} \ {NULL}
      /\ Joined(node) /\ Held \subseteq Nodes /\ (alive <=> root # NULL)
  BY <1>1, WhileIdle
<1>3. Held' = Held \ {owned}
  BY <1>1, <1>2, HeldIdle
<1>4. Joined(node)' /\ Trees' /\ \A n \in (Held \ {owned}) \cup {NULL} : Below(n)' = Below(n)
  <2>1. {owned} \in SUBSET Held
    BY <1>1, <1>2
  <2> QED BY <1>1, <1>2, <1>3, <2>1, TreesFelled DEF TreeInv
<1>5. TreeTypes'
  BY <1>1, DeletesTypes DEF TreeInv, TreeTypes, Pointers
<1>6. Cursors'
  <2>1. root \in (Held \ {owned}) \cup {NULL}
    BY <1>2
  <2>2. PICK r : r = root
    OBVIOUS
  <2>3. Below(r)' = Below(r) /\ Below(root)' = Below(r)' /\ Below(root) = Below(r)
    BY <1>1, <1>4, <2>1, <2>2
  <2> QED BY <1>1, <2>3 DEF Cursors, TreeInv
<1>7. OwnKept
  BY <1>1 DEF OwnKept
<1>8. TreeInv'
  BY <1>1, <1>2, <1>4, <1>5, <1>6, IdleInv
<1> QED BY <1>7, <1>8

\* Printing changes no tree.
LEMMA PrinterTree ==
  ASSUME TreeInv, stage \in {"idle", "print"}, stage' \in {"idle", "print"},
         UNCHANGED <<heap, object, owned, parser, copier>>
  PROVE  TreeInv' /\ OwnKept
<1>1. UNCHANGED <<node, live, alive, root, child, array, owned, top, open, copies, target>>
  BY DEF heap, object, cursors, parser, copier
<1>2. TreeTypes'
  BY <1>1 DEF TreeInv, TreeTypes
<1>3. SamePointers(node, node', Nodes)
  BY <1>1 DEF SamePointers
<1>4. {child', array'} \subseteq Below(root) \cup {NULL}
  BY <1>1 DEF TreeInv, Cursors
<1>5. TreeInv'
  BY <1>1, <1>2, <1>3, <1>4, IdleStill
<1> QED BY <1>1, <1>5 DEF OwnKept

-----------------------------------------------------------------------------
(* Copying                                                                 *)

\* While a document is copied, object or caller hold the one, and the calls the parts of
\* the other.
LEMMA WhileCopying ==
  ASSUME TreeInv, stage = "copy"
  PROVE  /\ top = NULL /\ open = <<>> /\ copies # <<>> /\ alive
         /\ \/ target = "owned" /\ owned = NULL /\ root # NULL
            \/ target = "root" /\ owned # NULL /\ root = NULL
         /\ Len(copies) \in Nat \ {0} /\ DOMAIN copies = 1 .. Len(copies)
         /\ Calling = copies[Len(copies)]
         /\ \A i \in 1 .. Len(copies) : /\ copies[i] \in Called
                                        /\ copies[i].newitem \in Held /\ copies[i].newitem \in Nodes
         /\ Held = ({root, owned} \ {NULL}) \cup {copies[i].newitem : i \in 1 .. Len(copies)}
         /\ root # NULL => root \in Held
         /\ owned # NULL => owned \in Held
         /\ Joined(node) /\ Held \subseteq Nodes
<1>1. /\ top = NULL /\ open = <<>> /\ copies # <<>> /\ alive
      /\ \/ target = "owned" /\ owned = NULL /\ root # NULL
         \/ target = "root" /\ owned # NULL /\ root = NULL
  BY DEF TreeInv, Phases
<1>2. copies \in Seq(Called)
  BY DEF TreeInv, TreeTypes
<1>3. Len(copies) \in Nat \ {0} /\ Calling = copies[Len(copies)]
  BY <1>1, <1>2, FrontIs DEF Calling
<1>4. DOMAIN copies = 1 .. Len(copies)
  BY <1>2, LenProperties
<1>5. \A i \in 1 .. Len(copies) : copies[i] \in Called /\ copies[i].newitem \in Nodes
  <2> SUFFICES ASSUME NEW i \in 1 .. Len(copies)
               PROVE  copies[i] \in Called /\ copies[i].newitem \in Nodes
    OBVIOUS
  <2>1. copies[i] \in Called
    BY <1>2, ElementOfSeq
  <2> QED BY <2>1 DEF Called
<1>6. Held = ({root, owned} \ {NULL}) \cup {copies[i].newitem : i \in 1 .. Len(copies)}
  BY <1>1, <1>4, <1>5, NodesAre DEF Held
<1>7. Joined(node) /\ Held \subseteq Nodes
  BY TypesJoined, HeldAreNodes DEF TreeInv
<1> QED BY <1>1, <1>3, <1>4, <1>5, <1>6, <1>7

\* What is left to show of a step after which a document is copied.
LEMMA CopyingInv ==
  ASSUME TreeTypes', Trees', Apart', Cursors', Copying', top' = NULL, open' = <<>>, copies' # <<>>,
         alive', stage' = "copy",
         \/ target' = "owned" /\ owned' = NULL /\ root' # NULL
         \/ target' = "root" /\ owned' # NULL /\ root' = NULL
  PROVE  TreeInv'
<1>1. Phases'
  BY DEF Phases
<1>2. Path'
  BY DEF Path
<1> QED BY <1>1, <1>2 DEF TreeInv

\* A node allocated for the copy of another.
LEMMA CopiedIs ==
  ASSUME TreeTypes, NEW item \in Nodes, NEW q \in Nodes, node' = Copied(item, q)
  PROVE  /\ node' \in [Nodes -> Cells] /\ node'[q].child = NULL /\ node'[q].next = NULL
         /\ \A n \in Nodes \ {q} : node'[n] = node[n]
         /\ Call(item, q) \in Called /\ Call(item, q).newitem = q /\ Call(item, q).nptr = NULL
<1> DEFINE c == [Blank EXCEPT !.type = node[item].type, !.string = node[item].string,
                              !.valuestring = node[item].valuestring]
<1>1. node' = [node EXCEPT ![q] = c]
  BY DEF Copied
<1>2. c \in Cells /\ c.child = NULL /\ c.next = NULL
  BY BlankIs DEF TreeTypes, Cells
<1>3. Call(item, q) \in Called /\ Call(item, q).newitem = q /\ Call(item, q).nptr = NULL
  BY DEF Call, Called, TreeTypes, Cells, Pointers
<1> HIDE DEF c
<1> QED BY <1>1, <1>2, <1>3 DEF TreeTypes

\* A copy begins with a new node.
LEMMA CopyBeginsTree == ASSUME TreeInv, CopyBegins PROVE TreeInv' /\ OwnKept
<1>1. /\ stage = "idle" /\ stage' = "copy"
      /\ UNCHANGED <<root, child, array, owned, top, open>>
      /\ \/ alive /\ owned = NULL /\ target' = "owned" /\ UNCHANGED alive
         \/ ~alive /\ owned # NULL /\ target' = "root" /\ alive' = TRUE
  BY DEF CopyBegins, cursors, parser
<1>2. PICK item \in Nodes, q \in Nodes :
        Allocates(q) /\ node' = Copied(item, q) /\ copies' = <<Call(item, q)>>
  <2>1. owned # NULL => owned \in Nodes
    BY DEF TreeInv, TreeTypes, Pointers
  <2> QED BY <1>1, <2>1 DEF CopyBegins
<1>3. /\ top = NULL /\ open = <<>> /\ copies = <<>> /\ target = NULL
      /\ (alive <=> root # NULL) /\ (root # NULL => root # owned)
      /\ Held = {root, owned} \ {NULL} /\ Joined(node) /\ Held \subseteq Nodes
  BY <1>1, WhileIdle
<1>4. q \in Nodes \ live /\ live' = live \cup {q}
  BY <1>2 DEF Allocates
<1>5. /\ node' \in [Nodes -> Cells] /\ node'[q].child = NULL /\ node'[q].next = NULL
      /\ \A n \in Nodes \ {q} : node'[n] = node[n]
      /\ Call(item, q) \in Called /\ Call(item, q).newitem = q /\ Call(item, q).nptr = NULL
  BY <1>2, CopiedIs DEF TreeInv
<1>6. PICK call \in Called : copies' = <<call>> /\ call.newitem = q /\ call.nptr = NULL
  BY <1>2, <1>5
<1>7. /\ copies' \in Seq(Called) /\ Len(copies') = 1 /\ copies'[1] = call /\ copies' # <<>>
      /\ DOMAIN copies' = {1} /\ 1 .. Len(copies') = {1}
  BY <1>6
<1>8. Held' = Held \cup {q}
  BY <1>1, <1>3, <1>4, <1>6, <1>7, NodesAre DEF Held
<1>9. TreeTypes'
  BY <1>1, <1>4, <1>5, <1>7 DEF TreeInv, TreeTypes
<1>10. /\ Trees' /\ q \notin Held
       /\ \A n \in Held \cup {NULL} : Below(n)' = Below(n)
  <2>1. SamePointers(node, node', live)
    BY <1>4, <1>5 DEF SamePointers, TreeInv, TreeTypes
  <2> QED BY <1>3, <1>4, <1>5, <1>8, <1>9, <2>1, TypesJoinedNext, TreePlanted DEF TreeInv
<1>11. Cursors'
  <2>1. root \in Held \cup {NULL}
    BY <1>3
  <2>2. PICK r : r = root
    OBVIOUS
  <2>3. Below(r)' = Below(r) /\ Below(root)' = Below(r)' /\ Below(root) = Below(r)
    BY <1>1, <1>10, <2>1, <2>2
  <2> QED BY <1>1, <2>3 DEF Cursors, TreeInv
<1>12. Apart'
  <2>1. q \notin {root, owned}
    BY <1>3, <1>10, NodesAre
  <2> QED BY <1>1, <1>3, <1>6, <1>7, <2>1 DEF Apart
<1>13. Copying'
  BY <1>5, <1>6, <1>7 DEF Copying
<1>14. \A n \in live : node'[n] = node[n]
  BY <1>4, <1>5 DEF TreeInv, TreeTypes
<1>15. OwnKept
  BY <1>3, <1>14, InTrees DEF OwnKept, TreeInv
<1>16. /\ alive' /\ top' = NULL /\ open' = <<>>
       /\ \/ target' = "owned" /\ owned' = NULL /\ root' # NULL
          \/ target' = "root" /\ owned' # NULL /\ root' = NULL
  BY <1>1, <1>3, Zenon
<1>17. TreeInv'
  BY <1>1, <1>7, <1>9, <1>10, <1>11, <1>12, <1>13, <1>16, CopyingInv
<1> QED BY <1>15, <1>17

\* Each call has a new node.
LEMMA CopyCallsTree == ASSUME TreeInv, CopyCalls PROVE TreeInv' /\ OwnKept
<1>1. /\ stage = "copy" /\ Calling.cptr # NULL
      /\ UNCHANGED <<alive, root, child, array, owned, stage, top, open, target>>
  BY DEF CopyCalls, object, cursors, parser
<1>2. PICK q \in Nodes : /\ Allocates(q) /\ node' = Copied(Calling.cptr, q)
                         /\ copies' = Append(copies, Call(Calling.cptr, q))
  BY DEF CopyCalls
<1>3. /\ top = NULL /\ open = <<>> /\ copies # <<>> /\ alive
      /\ \/ target = "owned" /\ owned = NULL /\ root # NULL
         \/ target = "root" /\ owned # NULL /\ root = NULL
      /\ Joined(node) /\ Held \subseteq Nodes
      /\ (root # NULL => root \in Held) /\ (owned # NULL => owned \in Held)
  BY <1>1, WhileCopying
<1>4. PICK L \in Nat \ {0} : L = Len(copies)
  BY <1>1, WhileCopying
<1>5. /\ Calling = copies[L]
      /\ \A i \in 1 .. L : copies[i] \in Called /\ copies[i].newitem \in Held
      /\ Held = ({root, owned} \ {NULL}) \cup {copies[i].newitem : i \in 1 .. L}
  BY <1>1, <1>4, WhileCopying
<1>6. Calling.cptr \in Nodes
  <2>1. copies[L] \in Called
    BY <1>4, <1>5
  <2> QED BY <1>1, <1>5, <2>1 DEF Called, Pointers
<1>7. q \in Nodes \ live /\ live' = live \cup {q}
  BY <1>2 DEF Allocates
<1>8. PICK call \in Called : /\ copies' = Append(copies, call)
                             /\ call.newitem = q /\ call.nptr = NULL
  BY <1>2, <1>6, CopiedIs DEF TreeInv
<1>9. /\ node' \in [Nodes -> Cells] /\ node'[q].child = NULL /\ node'[q].next = NULL
      /\ \A n \in Nodes \ {q} : node'[n] = node[n]
  BY <1>2, <1>6, CopiedIs DEF TreeInv
<1>10. /\ copies' \in Seq(Called) /\ Len(copies') = L + 1 /\ copies' # <<>>
       /\ copies'[L + 1] = call /\ \A i \in 1 .. L : copies'[i] = copies[i]
       /\ DOMAIN copies' = 1 .. L + 1
  <2>1. copies \in Seq(Called)
    BY DEF TreeInv, TreeTypes
  <2>2. /\ copies' \in Seq(Called) /\ Len(copies') = L + 1
        /\ copies'[L + 1] = call /\ \A i \in 1 .. L : copies'[i] = copies[i]
    BY <1>4, <1>8, <2>1, AppendProperties
  <2> QED BY <1>4, <2>2, EmptySeq, LenProperties
<1>11. \A i \in 1 .. L + 1 : i \in 1 .. L \/ i = L + 1
  OBVIOUS
<1>12. Held' = Held \cup {q}
  <2>1. Held' = ({root', owned', top'} \cup {copies'[i].newitem : i \in 1 .. L + 1}) \ {NULL}
    BY <1>10 DEF Held
  <2>2. {copies'[i].newitem : i \in 1 .. L + 1} = {copies[i].newitem : i \in 1 .. L} \cup {q}
    BY <1>8, <1>10, <1>11
  <2> QED BY <1>1, <1>3, <1>5, <2>1, <2>2, NodesAre
<1>13. TreeTypes'
  BY <1>1, <1>7, <1>9, <1>10 DEF TreeInv, TreeTypes
<1>14. /\ Trees' /\ q \notin Held
       /\ \A n \in Held \cup {NULL} : Below(n)' = Below(n)
  <2>1. SamePointers(node, node', live)
    BY <1>7, <1>9 DEF SamePointers, TreeInv, TreeTypes
  <2> QED BY <1>3, <1>7, <1>9, <1>12, <1>13, <2>1, TypesJoinedNext, TreePlanted DEF TreeInv
<1>15. Cursors'
  <2>1. root \in Held \cup {NULL}
    BY <1>3
  <2>2. PICK r : r = root
    OBVIOUS
  <2>3. Below(r)' = Below(r) /\ Below(root)' = Below(r)' /\ Below(root) = Below(r)
    BY <1>1, <1>14, <2>1, <2>2
  <2> QED BY <1>1, <2>3 DEF Cursors, TreeInv
<1>16. /\ \A i \in 1 .. L : copies[i].newitem \notin {root, owned, q}
       /\ \A i, j \in 1 .. L : i # j => copies[i].newitem # copies[j].newitem
       /\ q \notin {root, owned}
  BY <1>3, <1>4, <1>5, <1>14, NodesAre DEF TreeInv, Apart
<1>17. Apart'
  <2>1. \A i \in 1 .. L + 1 : copies'[i].newitem \notin {root, owned}
    BY <1>8, <1>10, <1>11, <1>16
  <2>2. \A i, j \in 1 .. L + 1 : i # j => copies'[i].newitem # copies'[j].newitem
    BY <1>8, <1>10, <1>11, <1>16
  <2> QED BY <1>1, <1>3, <1>10, <2>1, <2>2 DEF Apart
<1>18. \A n \in live : node'[n] = node[n]
  BY <1>7, <1>9 DEF TreeInv, TreeTypes
<1>19. \A n \in Held : n \in Below(n) /\ Below(n) \subseteq live
  BY <1>3, InTrees DEF TreeInv
<1>20. Copying'
  <2>1. ASSUME NEW i \in 1 .. L + 1
        PROVE  /\ node'[copies'[i].newitem].next = NULL
               /\ i # L + 1 => copies'[i].cptr # NULL
               /\ IF copies'[i].nptr = NULL THEN node'[copies'[i].newitem].child = NULL
                  ELSE /\ copies'[i].nptr \in Below(copies[i].newitem)' \ {copies'[i].newitem}
                       /\ node'[copies'[i].nptr].next = NULL
    <3>1. CASE i = L + 1
      BY <1>8, <1>9, <1>10, <3>1
    <3>2. CASE i \in 1 .. L
      <4>1. PICK c : c = copies[i] /\ c = copies'[i]
        BY <1>10, <3>2
      <4>2. /\ node[c.newitem].next = NULL
            /\ IF c.nptr = NULL THEN node[c.newitem].child = NULL
               ELSE c.nptr \in Below(c.newitem) \ {c.newitem} /\ node[c.nptr].next = NULL
        BY <1>4, <3>2, <4>1 DEF TreeInv, Copying
      <4>3. c.newitem \in Held /\ c.newitem \in live /\ Below(c.newitem) \subseteq live
        BY <1>5, <1>19, <3>2, <4>1
      <4>4. Below(c.newitem)' = Below(c.newitem)
        <5>1. PICK m : m = c.newitem
          OBVIOUS
        <5> QED BY <1>14, <4>3
      <4>5. c.cptr # NULL
        <5>1. i # L => copies[i].cptr # NULL
          BY <1>4, <3>2 DEF TreeInv, Copying
        <5> QED BY <1>1, <1>5, <4>1, <5>1
      <4>6. Below(copies[i].newitem)' = Below(c.newitem)
        BY <4>1, <4>4
      <4>7. c.nptr # NULL => node'[c.nptr] = node[c.nptr]
        BY <1>18, <4>2, <4>3
      <4> QED BY <1>18, <4>1, <4>2, <4>3, <4>5, <4>6, <4>7
    <3> QED BY <1>11, <3>1, <3>2
  <2> QED BY <1>10, <2>1 DEF Copying
<1>21. OwnKept
  BY <1>3, <1>18, <1>19 DEF OwnKept
<1>22. TreeInv'
  BY <1>1, <1>3, <1>10, <1>13, <1>14, <1>15, <1>17, <1>20, CopyingInv
<1> QED BY <1>21, <1>22

\* The node q of a call that returns is hung into that of its caller, r.
HangsOn(L, c, e, q, r, a) ==
  /\ L + 1 = Len(copies) /\ c = copies[L] /\ r = c.newitem /\ q = copies[L + 1].newitem
  /\ r \in Held /\ q \in Held /\ r # q /\ q \notin {root, owned} /\ r \notin {root, owned}
  /\ a = IF c.nptr = NULL THEN r ELSE c.nptr
  /\ a \in Below(r) /\ a \in live /\ a \notin Below(q) /\ a # q
  /\ node' \in [Nodes -> Cells] /\ \A n \in Nodes \ {a} : node'[n] = node[n]
  /\ IF c.nptr = NULL
     THEN node[a].child = NULL /\ node'[a] = [node[a] EXCEPT !.child = q]
     ELSE node[a].next = NULL /\ node'[a] = [node[a] EXCEPT !.next = q]
  /\ e = [c EXCEPT !.nptr = q, !.cptr = node[c.cptr].next]
  /\ e.item = c.item /\ e.newitem = r /\ e.nptr = q /\ e.cptr = node[c.cptr].next
  /\ c.cptr # NULL
  /\ copies' \in Seq(Called) /\ Len(copies') = L /\ copies' # <<>> /\ copies'[L] = e
  /\ DOMAIN copies' = 1 .. L
  /\ \A i \in 1 .. L - 1 : copies'[i] = copies[i]
LEMMA CopyReturnsIs ==
  ASSUME TreeInv, CopyReturns
  PROVE  \E L \in Nat \ {0}, c, e \in Called, q, r, a \in Nodes : HangsOn(L, c, e, q, r, a)
<1>1. /\ stage = "copy" /\ Calling.cptr = NULL /\ Len(copies) > 1
      /\ UNCHANGED <<live, alive, root, child, array, owned, stage, top, open, target>>
  BY DEF CopyReturns, object, cursors, parser
<1>2. /\ top = NULL /\ open = <<>> /\ copies # <<>> /\ alive
      /\ \/ target = "owned" /\ owned = NULL /\ root # NULL
         \/ target = "root" /\ owned # NULL /\ root = NULL
      /\ Joined(node) /\ Held \subseteq Nodes
      /\ (root # NULL => root \in Held) /\ (owned # NULL => owned \in Held)
  BY <1>1, WhileCopying
<1>3. PICK L \in Nat \ {0} : L + 1 = Len(copies)
  <2>1. Len(copies) \in Nat \ {0} /\ Len(copies) > 1
    BY <1>1, WhileCopying
  <2>2. PICK n \in Nat : n = Len(copies) /\ n > 1
    BY <2>1
  <2>3. n - 1 \in Nat \ {0} /\ (n - 1) + 1 = Len(copies)
    BY <2>2
  <2> QED BY <2>3
<1>4. /\ Calling = copies[L + 1]
      /\ \A i \in 1 .. L + 1 : copies[i] \in Called /\ copies[i].newitem \in Held
      /\ Held = ({root, owned} \ {NULL}) \cup {copies[i].newitem : i \in 1 .. L + 1}
  BY <1>1, <1>3, WhileCopying
<1>5. PICK c \in Called : c = copies[L]
  BY <1>4
<1>6. PICK q \in Nodes : q = Calling.newitem /\ q = copies[L + 1].newitem /\ q \in Held
  BY <1>2, <1>4
<1>7. PICK r \in Nodes : r = c.newitem /\ r \in Held
  BY <1>2, <1>4, <1>5
<1>8. L \in 1 .. L + 1 /\ L + 1 \in 1 .. L + 1 /\ \A i \in 1 .. L : i \in 1 .. L + 1 /\ i # L + 1
  OBVIOUS
<1>9. /\ \A i \in 1 .. L + 1 : copies[i].newitem \notin {root, owned}
      /\ \A i, j \in 1 .. L + 1 : i # j => copies[i].newitem # copies[j].newitem
  BY <1>3 DEF TreeInv, Apart
<1>10. /\ r # q /\ q \notin {root, owned} /\ r \notin {root, owned}
       /\ \A i \in 1 .. L : copies[i].newitem # q
  BY <1>5, <1>6, <1>7, <1>8, <1>9
<1>11. /\ node[r].next = NULL /\ c.cptr # NULL /\ node[q].next = NULL
       /\ IF c.nptr = NULL THEN node[r].child = NULL
          ELSE c.nptr \in Below(r) \ {r} /\ node[c.nptr].next = NULL
  <2>1. L # L + 1
    OBVIOUS
  <2> QED BY <1>3, <1>5, <1>6, <1>7, <1>8, <2>1 DEF TreeInv, Copying
<1>12. \A n \in Held : n \in Below(n) /\ Below(n) \subseteq live
  BY <1>2, InTrees DEF TreeInv
<1>13. \A m, n \in Held : m # n => Below(m) \cap Below(n) = {}
  BY DEF TreeInv, Trees
<1>14. PICK a \in Below(r) : a = IF c.nptr = NULL THEN r ELSE c.nptr
  BY <1>7, <1>11, <1>12
<1>15. a \in live /\ a \in Nodes /\ a \notin Below(q) /\ a # q
  BY <1>6, <1>7, <1>10, <1>12, <1>13, <1>14 DEF TreeInv, TreeTypes
<1> DEFINE e == [c EXCEPT !.nptr = q, !.cptr = node[c.cptr].next]
<1>16. e \in Called /\ e.newitem = r /\ e.nptr = q
  <2>1. node[c.cptr].next \in Pointers
    BY <1>11 DEF Called, Pointers, TreeInv, TreeTypes, Cells
  <2> QED BY <1>7, <2>1 DEF Called, Pointers
<1>17. node' = Hangs(c, q) /\ copies' = Append(Front(Front(copies)), e)
  <2>1. Len(copies) - 1 = L
    BY <1>3
  <2> QED BY <1>5, <1>6, <2>1 DEF CopyReturns
<1>e. e.item = c.item /\ e.cptr = node[c.cptr].next
  BY DEF Called
<1> HIDE DEF e
<1>18. /\ node' \in [Nodes -> Cells] /\ \A n \in Nodes \ {a} : node'[n] = node[n]
       /\ IF c.nptr = NULL
          THEN node[a].child = NULL /\ node'[a] = [node[a] EXCEPT !.child = q]
          ELSE node[a].next = NULL /\ node'[a] = [node[a] EXCEPT !.next = q]
  <2>1. CASE c.nptr = NULL
    <3>1. node' = [node EXCEPT ![a].child = q]
      BY <1>7, <1>14, <1>17, <2>1 DEF Hangs
    <3>2. node[a].child = NULL
      BY <1>11, <1>14, <2>1
    <3>3. node \in [Nodes -> Cells] /\ a \in Nodes /\ q \in Pointers
      BY <1>15 DEF TreeInv, TreeTypes, Pointers
    <3>4. /\ node' \in [Nodes -> Cells] /\ \A n \in Nodes \ {a} : node'[n] = node[n]
          /\ node'[a] = [node[a] EXCEPT !.child = q]
      BY <3>1, <3>3 DEF Cells
    <3> QED BY <2>1, <3>2, <3>4
  <2>2. CASE c.nptr # NULL
    <3>1. node' = [node EXCEPT ![a].next = q]
      BY <1>14, <1>17, <2>2 DEF Hangs
    <3>2. node[a].next = NULL
      BY <1>11, <1>14, <2>2
    <3>3. node \in [Nodes -> Cells] /\ a \in Nodes /\ q \in Pointers
      BY <1>15 DEF TreeInv, TreeTypes, Pointers
    <3>4. /\ node' \in [Nodes -> Cells] /\ \A n \in Nodes \ {a} : node'[n] = node[n]
          /\ node'[a] = [node[a] EXCEPT !.next = q]
      BY <3>1, <3>3 DEF Cells
    <3> QED BY <2>2, <3>2, <3>4
  <2> QED BY <2>1, <2>2
<1>19. /\ copies' \in Seq(Called) /\ Len(copies') = L /\ copies' # <<>> /\ copies'[L] = e
       /\ \A i \in 1 .. L - 1 : copies'[i] = copies[i]
       /\ DOMAIN copies' = 1 .. L
  <2> DEFINE f == Front(copies)
             g == Front(f)
  <2>1. copies \in Seq(Called)
    BY DEF TreeInv, TreeTypes
  <2>2. f \in Seq(Called) /\ Len(f) = L /\ \A i \in 1 .. L : f[i] = copies[i]
    <3>1. /\ f \in Seq(Called) /\ Len(f) = Len(copies) - 1
          /\ \A i \in 1 .. Len(copies) - 1 : f[i] = copies[i]
      BY <1>2, <2>1, FrontIs
    <3>2. Len(copies) - 1 = L
      BY <1>3
    <3> QED BY <3>1, <3>2
  <2>3. f # <<>>
    <3> HIDE DEF f
    <3> QED BY <2>2, EmptySeq
  <2>4. g \in Seq(Called) /\ Len(g) = L - 1 /\ \A i \in 1 .. L - 1 : g[i] = copies[i]
    <3> HIDE DEF f
    <3>1. /\ g \in Seq(Called) /\ Len(g) = Len(f) - 1 /\ \A i \in 1 .. Len(f) - 1 : g[i] = f[i]
      BY <2>2, <2>3, FrontIs
    <3>2. \A i \in 1 .. L - 1 : i \in 1 .. L
      OBVIOUS
    <3> QED BY <2>2, <3>1, <3>2
  <2>5. copies' = Append(g, e)
    BY <1>17
  <2> HIDE DEF f, g
  <2>6. (L - 1) + 1 = L
    OBVIOUS
  <2>7. /\ copies' \in Seq(Called) /\ Len(copies') = L
        /\ copies'[L] = e /\ \A i \in 1 .. L - 1 : copies'[i] = copies[i]
    BY <1>16, <2>4, <2>5, <2>6, AppendProperties
  <2> QED BY <2>7, EmptySeq, LenProperties
<1>0. e = [c EXCEPT !.nptr = q, !.cptr = node[c.cptr].next]
  BY DEF e
<1>20. HangsOn(L, c, e, q, r, a)
  BY <1>0, <1>3, <1>4, <1>5, <1>6, <1>7, <1>10, <1>11, <1>14, <1>15, <1>16, <1>18, <1>19, <1>e
     DEF HangsOn
<1> QED BY <1>3, <1>5, <1>6, <1>7, <1>15, <1>16, <1>20

\* It is one tree with that then.
LEMMA CopyReturnsTree == ASSUME TreeInv, CopyReturns PROVE TreeInv' /\ OwnKept
<1>1. /\ stage = "copy" /\ Calling.cptr = NULL /\ Len(copies) > 1
      /\ UNCHANGED <<live, alive, root, child, array, owned, stage, top, open, target>>
  BY DEF CopyReturns, object, cursors, parser
<1>2. /\ top = NULL /\ open = <<>> /\ copies # <<>> /\ alive
      /\ \/ target = "owned" /\ owned = NULL /\ root # NULL
         \/ target = "root" /\ owned # NULL /\ root = NULL
      /\ Joined(node) /\ Held \subseteq Nodes
      /\ (root # NULL => root \in Held) /\ (owned # NULL => owned \in Held)
  BY <1>1, WhileCopying
<1>a. PICK L \in Nat \ {0}, c, e \in Called, q, r, a \in Nodes : HangsOn(L, c, e, q, r, a)
  BY CopyReturnsIs
<1>3. L + 1 = Len(copies)
  BY <1>a DEF HangsOn
<1>4. /\ Calling = copies[L + 1]
      /\ \A i \in 1 .. L + 1 : copies[i] \in Called /\ copies[i].newitem \in Held
      /\ Held = ({root, owned} \ {NULL}) \cup {copies[i].newitem : i \in 1 .. L + 1}
  BY <1>1, <1>3, WhileCopying
<1>5. c = copies[L]
  BY <1>a DEF HangsOn
<1>6. q = copies[L + 1].newitem /\ q \in Held
  BY <1>a DEF HangsOn
<1>7. r = c.newitem /\ r \in Held
  BY <1>a DEF HangsOn
<1>8. L \in 1 .. L + 1 /\ L + 1 \in 1 .. L + 1 /\ \A i \in 1 .. L : i \in 1 .. L + 1 /\ i # L + 1
  OBVIOUS
<1>9. /\ \A i \in 1 .. L + 1 : copies[i].newitem \notin {root, owned}
      /\ \A i, j \in 1 .. L + 1 : i # j => copies[i].newitem # copies[j].newitem
  BY <1>3 DEF TreeInv, Apart
<1>10. /\ r # q /\ q \notin {root, owned} /\ r \notin {root, owned}
       /\ \A i \in 1 .. L : copies[i].newitem # q
  BY <1>a, <1>6, <1>8, <1>9 DEF HangsOn
<1>11. /\ node[r].next = NULL /\ c.cptr # NULL /\ node[q].next = NULL
       /\ IF c.nptr = NULL THEN node[r].child = NULL
          ELSE c.nptr \in Below(r) \ {r} /\ node[c.nptr].next = NULL
  <2>1. L # L + 1
    OBVIOUS
  <2> QED BY <1>3, <1>5, <1>6, <1>7, <1>8, <2>1 DEF TreeInv, Copying
<1>12. \A n \in Held : n \in Below(n) /\ Below(n) \subseteq live
  BY <1>2, InTrees DEF TreeInv
<1>13. \A m, n \in Held : m # n => Below(m) \cap Below(n) = {}
  BY DEF TreeInv, Trees
<1>14. a \in Below(r) /\ a = IF c.nptr = NULL THEN r ELSE c.nptr
  BY <1>a DEF HangsOn
<1>15. a \in live /\ a \in Nodes /\ a \notin Below(q) /\ a # q
  BY <1>a DEF HangsOn, TreeInv, TreeTypes
<1>16. e \in Called /\ e.newitem = r /\ e.nptr = q
  BY <1>a DEF HangsOn
<1>18. /\ node' \in [Nodes -> Cells] /\ \A n \in Nodes \ {a} : node'[n] = node[n]
       /\ IF c.nptr = NULL THEN node'[a].child = q /\ node'[a].next = node[a].next
          ELSE node'[a].next = q /\ node'[a].child = node[a].child
  <2>1. PICK x \in Cells : x = node[a]
    BY <1>15 DEF TreeInv, TreeTypes
  <2>2. /\ node' \in [Nodes -> Cells] /\ \A n \in Nodes \ {a} : node'[n] = node[n]
        /\ IF c.nptr = NULL THEN node'[a] = [x EXCEPT !.child = q]
           ELSE node'[a] = [x EXCEPT !.next = q]
    BY <1>a, <2>1 DEF HangsOn
  <2>3. CASE c.nptr = NULL
    BY <2>1, <2>2, <2>3 DEF Cells
  <2>4. CASE c.nptr # NULL
    BY <2>1, <2>2, <2>4 DEF Cells
  <2> QED BY <2>3, <2>4
<1>19. /\ copies' \in Seq(Called) /\ Len(copies') = L /\ copies' # <<>> /\ copies'[L] = e
       /\ \A i \in 1 .. L - 1 : copies'[i] = copies[i]
       /\ DOMAIN copies' = 1 .. L
  BY <1>a DEF HangsOn
<1>20. \A i \in 1 .. L : i = L \/ (i \in 1 .. L - 1 /\ i # L)
  OBVIOUS
<1>21. \A i \in 1 .. L : copies'[i].newitem = copies[i].newitem
  BY <1>5, <1>7, <1>16, <1>19, <1>20
<1>22. Held' = Held \ {q}
  <2>1. Held' = ({root', owned', top'} \cup {copies'[i].newitem : i \in 1 .. L}) \ {NULL}
    BY <1>19 DEF Held
  <2>2. {copies'[i].newitem : i \in 1 .. L} = {copies[i].newitem : i \in 1 .. L}
    BY <1>21
  <2>3. {copies[i].newitem : i \in 1 .. L + 1} = {copies[i].newitem : i \in 1 .. L} \cup {q}
    <3>1. \A i \in 1 .. L + 1 : i \in 1 .. L \/ i = L + 1
      OBVIOUS
    <3> QED BY <1>6, <1>8, <3>1
  <2>4. q \notin {copies[i].newitem : i \in 1 .. L}
    BY <1>10
  <2>5. NULL \notin {copies[i].newitem : i \in 1 .. L}
    BY <1>2, <1>4, <1>8, NodesAre
  <2> QED BY <1>1, <1>2, <1>4, <1>10, <2>1, <2>2, <2>3, <2>4, <2>5
<1>23. TreeTypes'
  BY <1>1, <1>18, <1>19 DEF TreeInv, TreeTypes
<1>24. /\ Trees' /\ Below(r)' = Below(r) \cup Below(q)
       /\ \A n \in (Held \ {q, r}) \cup {NULL} : Below(n)' = Below(n)
  <2>1. Reached(node', q, Below(q))
    <3>1. Reached(node, q, Below(q))
      BY <1>2, BelowReached DEF Pointers
    <3>2. SamePointers(node, node', Below(q))
      BY <1>6, <1>12, <1>15, <1>18 DEF SamePointers, TreeInv, TreeTypes
    <3> QED BY <3>1, <3>2, ReachedStill
  <2>2. SamePointers(node, node', live \ {a})
    BY <1>18 DEF SamePointers, TreeInv, TreeTypes
  <2>3. /\ q \in {node'[a].child, node'[a].next}
        /\ {node'[a].child, node'[a].next} \subseteq {node[a].child, node[a].next, q}
        /\ {node[a].child, node[a].next} \subseteq {node'[a].child, node'[a].next, NULL}
    BY <1>11, <1>14, <1>18
  <2>4. live' = live \cup Below(q) /\ q \in Held
    BY <1>1, <1>6, <1>12
  <2>5. Joined(node)' /\ Trees
    BY <1>23, TypesJoinedNext DEF TreeInv
  <2>6. a \in Below(r) /\ r \in Held /\ q # r /\ Held \subseteq Nodes /\ Joined(node)
    BY <1>2, <1>7, <1>10, <1>14
  <2> QED BY <1>22, <2>1, <2>2, <2>3, <2>4, <2>5, <2>6, TreeGrafted
<1>25. Cursors'
  <2>1. root \in (Held \ {q, r}) \cup {NULL}
    BY <1>2, <1>10
  <2>2. PICK s : s = root
    OBVIOUS
  <2>3. Below(s)' = Below(s) /\ Below(root)' = Below(s)' /\ Below(root) = Below(s)
    BY <1>1, <1>24, <2>1, <2>2
  <2> QED BY <1>1, <2>3 DEF Cursors, TreeInv
<1>26. Apart'
  <2>1. \A i \in 1 .. L : copies'[i].newitem \notin {root, owned}
    BY <1>8, <1>9, <1>21
  <2>2. \A i, j \in 1 .. L : i # j => copies'[i].newitem # copies'[j].newitem
    BY <1>8, <1>9, <1>21
  <2> QED BY <1>1, <1>2, <1>19, <2>1, <2>2 DEF Apart
<1>27. Copying'
  <2>1. ASSUME NEW i \in 1 .. L
        PROVE  /\ node'[copies'[i].newitem].next = NULL
               /\ i # L => copies'[i].cptr # NULL
               /\ IF copies'[i].nptr = NULL THEN node'[copies'[i].newitem].child = NULL
                  ELSE /\ copies'[i].nptr \in Below(copies[i].newitem)' \ {copies'[i].newitem}
                       /\ node'[copies'[i].nptr].next = NULL
    <3>1. CASE i = L
      <4>1. copies'[i] = e
        BY <1>19, <3>1
      <4>2. node'[r].next = NULL
        BY <1>11, <1>14, <1>15, <1>18
      <4>3. node'[q].next = NULL
        BY <1>11, <1>15, <1>18
      <4>4. q \in Below(r)'
        BY <1>6, <1>12, <1>24
      <4>5. Below(copies[i].newitem)' = Below(r)'
        BY <1>16, <4>1
      <4> QED BY <1>10, <1>16, <3>1, <4>1, <4>2, <4>3, <4>4, <4>5, NodesAre
    <3>2. CASE i \in 1 .. L - 1 /\ i # L
      <4>1. PICK d : d = copies[i] /\ d = copies'[i]
        BY <1>19, <3>2
      <4>2. /\ node[d.newitem].next = NULL /\ d.cptr # NULL
            /\ IF d.nptr = NULL THEN node[d.newitem].child = NULL
               ELSE d.nptr \in Below(d.newitem) \ {d.newitem} /\ node[d.nptr].next = NULL
        BY <1>3, <1>8, <3>2, <4>1 DEF TreeInv, Copying
      <4>3. d.newitem \in Held \ {q, r}
        BY <1>4, <1>5, <1>7, <1>8, <1>9, <1>10, <3>2, <4>1
      <4>4. Below(d.newitem)' = Below(d.newitem)
        <5>1. PICK m : m = d.newitem
          OBVIOUS
        <5> QED BY <1>24, <4>3
      <4>5. Below(copies[i].newitem)' = Below(d.newitem)
        BY <4>1, <4>4
      <4>6. /\ a \notin Below(d.newitem) /\ d.newitem \in Below(d.newitem)
            /\ Below(d.newitem) \subseteq Nodes
        BY <1>7, <1>12, <1>13, <1>14, <4>3 DEF TreeInv, TreeTypes
      <4>7. /\ node'[d.newitem] = node[d.newitem]
            /\ d.nptr # NULL => node'[d.nptr] = node[d.nptr]
        BY <1>18, <4>2, <4>6
      <4> QED BY <4>1, <4>2, <4>5, <4>7
    <3> QED BY <1>20, <3>1, <3>2
  <2> QED BY <1>19, <2>1 DEF Copying
<1>28. OwnKept
  <2> SUFFICES ASSUME owned # NULL PROVE \A n \in Below(owned) : node'[n] = node[n]
    BY DEF OwnKept
  <2>1. a \notin Below(owned) /\ Below(owned) \subseteq Nodes
    BY <1>2, <1>7, <1>10, <1>12, <1>13, <1>14 DEF TreeInv, TreeTypes
  <2> QED BY <1>18, <2>1
<1>29. TreeInv'
  BY <1>1, <1>2, <1>19, <1>23, <1>24, <1>25, <1>26, <1>27, CopyingInv
<1> QED BY <1>28, <1>29

\* The copy is the caller's, or the document of the object.
LEMMA CopyEndsTree == ASSUME TreeInv, CopyEnds PROVE TreeInv' /\ OwnKept
<1>1. /\ stage = "copy" /\ Len(copies) = 1
      /\ copies' = <<>> /\ target' = NULL /\ stage' = "idle"
      /\ UNCHANGED <<node, live, alive, child, array, top, open>>
      /\ IF target = "owned" THEN owned' = Calling.newitem /\ root' = root
         ELSE root' = Calling.newitem /\ owned' = owned
  BY DEF CopyEnds, heap, cursors, parser
<1>2. /\ top = NULL /\ open = <<>> /\ copies # <<>> /\ alive
      /\ \/ target = "owned" /\ owned = NULL /\ root # NULL
         \/ target = "root" /\ owned # NULL /\ root = NULL
      /\ Joined(node) /\ Held \subseteq Nodes
  BY <1>1, WhileCopying
<1>3. PICK q \in Nodes : /\ q = Calling.newitem /\ q = copies[1].newitem
                         /\ Held = ({root, owned} \ {NULL}) \cup {q} /\ q \notin {root, owned}
  <2>1. /\ Calling = copies[1] /\ copies[1].newitem \in Held
        /\ Held = ({root, owned} \ {NULL}) \cup {copies[i].newitem : i \in 1 .. 1}
    BY <1>1, WhileCopying
  <2>2. copies[1].newitem \notin {root, owned}
    BY <1>1 DEF TreeInv, Apart
  <2>3. {copies[i].newitem : i \in 1 .. 1} = {copies[1].newitem}
    OBVIOUS
  <2> QED BY <1>2, <2>1, <2>2, <2>3
<1>4. q # NULL
  BY NodesAre
<1>5. Held' = Held
  <2>1. Held' = {root', owned'} \ {NULL}
    BY <1>1, <1>2, HeldIdle
  <2> QED BY <1>1, <1>2, <1>3, <1>4, <2>1
<1>6. TreeTypes'
  BY <1>1, <1>3 DEF TreeInv, TreeTypes, Pointers
<1>7. Trees' /\ \A n \in Held \cup {NULL} : Below(n)' = Below(n)
  <2>1. SamePointers(node, node', live)
    BY <1>1 DEF SamePointers
  <2> QED BY <1>1, <1>2, <1>5, <1>6, <2>1, TypesJoinedNext, TreesStill DEF TreeInv
<1>8. Cursors'
  <2>1. CASE target = "owned"
    <3>1. root' = root /\ root \in Held \cup {NULL}
      BY <1>1, <1>3, <2>1
    <3>2. PICK s : s = root
      OBVIOUS
    <3>3. Below(s)' = Below(s) /\ Below(root)' = Below(s)' /\ Below(root) = Below(s)
      BY <1>7, <3>1, <3>2
    <3> QED BY <1>1, <3>3 DEF Cursors, TreeInv
  <2>2. CASE target # "owned"
    <3>1. root = NULL
      BY <1>2, <2>2
    <3>2. child = NULL /\ array = NULL
      BY <1>2, <3>1, BelowNull DEF TreeInv, Cursors
    <3> QED BY <1>1, <3>2 DEF Cursors
  <2> QED BY <2>1, <2>2
<1>9. OwnKept
  BY <1>1 DEF OwnKept
<1>10. /\ root' # NULL /\ alive' /\ root' # owned' /\ top' = NULL /\ open' = <<>>
  BY <1>1, <1>2, <1>3, <1>4
<1>11. TreeInv'
  BY <1>1, <1>6, <1>7, <1>8, <1>10, IdleInv
<1> QED BY <1>9, <1>11

\* The node of each call is deleted: what is not yet hung into another is among them.
LEMMA CopyFailsTree == ASSUME TreeInv, CopyFails PROVE TreeInv' /\ OwnKept
<1>1. /\ stage = "copy" /\ Deletes({copies[i].newitem : i \in DOMAIN copies})
      /\ alive' = (alive /\ target = "owned")
      /\ copies' = <<>> /\ target' = NULL /\ stage' = "idle"
      /\ UNCHANGED <<root, child, array, owned, top, open>>
  BY DEF CopyFails, cursors, parser
<1>2. /\ top = NULL /\ open = <<>> /\ alive
      /\ \/ target = "owned" /\ owned = NULL /\ root # NULL
         \/ target = "root" /\ owned # NULL /\ root = NULL
      /\ Joined(node) /\ Held \subseteq Nodes /\ DOMAIN copies = 1 .. Len(copies)
  BY <1>1, WhileCopying
<1> DEFINE S == {copies[i].newitem : i \in DOMAIN copies}
<1>3. /\ Held = ({root, owned} \ {NULL}) \cup S /\ root \notin S /\ owned \notin S
  <2>1. Held = ({root, owned} \ {NULL}) \cup {copies[i].newitem : i \in 1 .. Len(copies)}
    BY <1>1, WhileCopying
  <2>2. \A i \in 1 .. Len(copies) : copies[i].newitem \notin {root, owned}
    BY DEF TreeInv, Apart
  <2> QED BY <1>2, <2>1, <2>2
<1>4. Deletes(S)
  BY <1>1
<1>5. PICK heads : heads = S
  OBVIOUS
<1> HIDE DEF S
<1>6. Deletes(heads) /\ heads \in SUBSET Held
  BY <1>3, <1>4, <1>5
<1>7. Held' = Held \ heads
  <2>1. Held' = {root', owned'} \ {NULL}
    BY <1>1, <1>2, HeldIdle
  <2> QED BY <1>1, <1>3, <1>5, <2>1
<1>8. /\ Joined(node)' /\ Trees'
      /\ \A n \in (Held \ heads) \cup {NULL} : Below(n)' = Below(n)
      /\ \A n \in (Held \ heads) \cup {NULL} : \A m \in Below(n) : node'[m] = node[m]
  BY <1>2, <1>6, <1>7, TreesFelled DEF TreeInv
<1>9. TreeTypes'
  <2>1. live' \subseteq Nodes /\ node' \in [Nodes -> Cells]
    BY <1>6, DeletesTypes DEF TreeInv
  <2>2. copies' \in Seq(Called)
    BY <1>1
  <2> QED BY <1>1, <2>1, <2>2 DEF TreeInv, TreeTypes
<1>10. Cursors'
  <2>1. root \in (Held \ heads) \cup {NULL}
    BY <1>3, <1>5
  <2>2. PICK s : s = root
    OBVIOUS
  <2>3. Below(s)' = Below(s) /\ Below(root)' = Below(s)' /\ Below(root) = Below(s)
    BY <1>1, <1>8, <2>1, <2>2
  <2> QED BY <1>1, <2>3 DEF Cursors, TreeInv
<1>11. OwnKept
  <2>1. owned # NULL => owned \in Held \ heads
    BY <1>3, <1>5
  <2> QED BY <1>8, <2>1 DEF OwnKept
<1>12. alive' <=> root' # NULL
  <2>1. CASE target = "owned"
    BY <1>1, <1>2, <2>1, Zenon
  <2>2. CASE target # "owned"
    BY <1>1, <1>2, <2>2, Zenon
  <2> QED BY <2>1, <2>2
<1>13. root' # NULL => root' # owned'
  BY <1>1, <1>2
<1>14. TreeInv'
  BY <1>1, <1>2, <1>8, <1>9, <1>10, <1>12, <1>13, IdleInv
<1> QED BY <1>11, <1>14

-----------------------------------------------------------------------------
(* Every step                                                              *)

\* At first there is no tree.
LEMMA TreeInit == Init => TreeInv
<1> SUFFICES ASSUME Init PROVE TreeInv
  OBVIOUS
<1>1. /\ node = [n \in Nodes |-> Junk] /\ live = {}
      /\ alive = FALSE /\ root = NULL /\ child = NULL /\ array = NULL /\ owned = NULL
      /\ stage = "idle" /\ top = NULL /\ open = <<>> /\ copies = <<>> /\ target = NULL
  BY DEF Init
<1>2. Len(copies) = 0 /\ 1 .. Len(copies) = {} /\ DOMAIN copies = {}
  BY <1>1, EmptySeq
<1>3. TreeTypes
  <2>1. Junk \in Cells
    BY DEF Junk, Cells, Pointers
  <2> QED BY <1>1, <2>1 DEF TreeTypes, Pointers
<1>4. Phases
  BY <1>1, Zenon DEF Phases
<1>5. Held = {}
  BY <1>1, <1>2 DEF Held
<1>6. Trees
  BY <1>1, <1>5 DEF Trees
<1>7. Apart /\ Copying
  BY <1>1, <1>2 DEF Apart, Copying
<1>8. Cursors /\ Path
  BY <1>1 DEF Cursors, Path
<1> QED BY <1>3, <1>4, <1>6, <1>7, <1>8 DEF TreeInv

\* No step, no change.
LEMMA TreeStutter ==
  ASSUME TreeInv, UNCHANGED vars
  PROVE  TreeInv' /\ OwnKept
<1>1. UNCHANGED <<node, live, alive, root, child, array, owned, stage, top, open, copies, target>>
  BY DEF vars, heap, object, cursors, parser, copier
<1>2. TreeTypes' /\ Phases' /\ Apart'
  BY <1>1 DEF TreeInv, TreeTypes, Phases, Apart
<1>3. \A n : Below(n)' = Below(n)
  BY <1>1 DEF Below, Linked
<1>4. Held' = Held
  BY <1>1 DEF Held
<1>5. Trees'
  BY <1>1, <1>3, <1>4 DEF TreeInv, Trees
<1>6. Cursors'
  <2>1. Below(root)' = Below(root)
    BY <1>1 DEF Below, Linked
  <2> QED BY <1>1, <2>1 DEF TreeInv, Cursors
<1>7. Path'
  BY <1>1 DEF TreeInv, Path, Place
<1>8. Copying'
  <2>1. \A i : Below(copies[i].newitem)' = Below(copies[i].newitem)
    BY <1>1 DEF Below, Linked
  <2> QED BY <1>1, <2>1 DEF TreeInv, Copying
<1>9. TreeInv'
  BY <1>2, <1>5, <1>6, <1>7, <1>8 DEF TreeInv
<1> QED BY <1>1, <1>9 DEF OwnKept

\* While a document is parsed the caller holds none.
LEMMA ParsesOwn ==
  ASSUME TreeInv, Parse
  PROVE  OwnKept
<1>1. \/ stage = "idle" /\ owned = NULL
      \/ stage \in {"value", "open", "name", "more"}
  BY DEF Parse, ParseBegins, ParseValue, ParseOpens, ParseNext, ParseName, ParseCloses,
     ParseEnds, ParseFails
<1>2. owned = NULL
  BY <1>1 DEF TreeInv, Phases
<1> QED BY <1>2 DEF OwnKept

\* Every step of parser, object and duplication keeps the trees, and what the caller holds.
LEMMA TreeNext ==
  ASSUME TreeInv, [Next]_vars
  PROVE  TreeInv' /\ OwnKept
<1>1. CASE Parse
  <2>1. TreeInv'
    BY <1>1, ParseBeginsTree, ParseValueTree, ParseOpensTree, ParseNextTree, ParseNameTree,
       ParseClosesTree, ParseEndsTree, ParseFailsTree DEF Parse
  <2> QED BY <1>1, <2>1, ParsesOwn
<1>2. CASE Use
  BY <1>2, UseMovesCursor, PutValueStringTree, DeletesObjectTree, FreeAllTree DEF Use
<1>3. CASE Copy
  BY <1>3, CopyBeginsTree, CopyCallsTree, CopyReturnsTree, CopyEndsTree, CopyFailsTree DEF Copy
<1>4. CASE UNCHANGED vars
  BY <1>4, TreeStutter
<1> QED BY <1>1, <1>2, <1>3, <1>4 DEF Next

\* What the caller holds has no node before it: it is its tree.
LEMMA OwnIsTree ==
  ASSUME TreeInv, OwnKept, owned # NULL, owned' = owned
  PROVE  \A n \in Tree(owned) : node'[n] = node[n]
<1>1. \A n \in Below(owned) : node'[n] = node[n]
  BY DEF OwnKept
<1>2. Joined(node) /\ owned \in Pointers
  BY TypesJoined DEF TreeInv, TreeTypes
<1>3. owned \in Below(owned)
  BY <1>2, BelowReached DEF Reached
<1>4. node[owned].child \in Below(owned) \cup {NULL}
  BY <1>2, <1>3, BelowBelow
<1>5. Below(node[owned].child) \subseteq Below(owned)
  BY <1>2, <1>4, BelowBelow, BelowNull
<1> QED BY <1>1, <1>3, <1>5 DEF Tree

\* What is held is all that is allocated.
LEMMA TreeLeaks == TreeInv => NoNodeLeaks
<1> SUFFICES ASSUME TreeInv PROVE NoNodeLeaks
  OBVIOUS
<1>1. Below(root) \subseteq live
  <2>1. CASE root = NULL
    BY <2>1, TypesJoined, BelowNull DEF TreeInv
  <2>2. CASE root # NULL
    <3>1. root \in Held
      BY <2>2 DEF Held
    <3> QED BY <3>1 DEF TreeInv, Trees
  <2> QED BY <2>1, <2>2
<1> QED BY <1>1 DEF TreeInv, Trees, Cursors, NoNodeLeaks

-----------------------------------------------------------------------------
(* No node is linked twice                                                 *)

Once ==
  \A m, n \in live :
    /\ node[m].child # NULL => /\ node[m].child # node[n].next
                               /\ node[m].child = node[n].child => m = n
    /\ node[m].next # NULL /\ node[m].next = node[n].next => m = n
    /\ node[m].child \notin Held /\ node[m].next \notin Held

\* Of fewer nodes this is still so.
LEMMA OnceLess ==
  ASSUME Once, live' \subseteq live, SamePointers(node, node', live'), Held' \subseteq Held
  PROVE  Once'
  BY DEF Once, SamePointers

\* A new node is not linked.
LEMMA OncePlanted ==
  ASSUME Once, TreeInv, NEW q \in Nodes \ live, live' = live \cup {q},
         Held' \subseteq Held \cup {q},
         SamePointers(node, node', live), node'[q].child = NULL, node'[q].next = NULL
  PROVE  Once'
<1>1. /\ \A n \in live : {node[n].child, node[n].next} \subseteq live \cup {NULL}
      /\ q # NULL
  BY InTrees, TypesJoined, HeldAreNodes, NodesAre DEF TreeInv
<1>2. NULL \notin Held'
  BY DEF Held
<1> QED BY <1>1, <1>2 DEF Once, SamePointers

\* A node that is not linked, but held or new, is linked where there was no link.
LEMMA OnceLinked ==
  ASSUME Once, TreeInv, NEW a \in live, NEW q \in Nodes, q # a,
         q \in Held \/ q \notin live, Held' \subseteq Held \ {q}, live' \subseteq live \cup {q},
         q \notin live => node'[q].child = NULL /\ node'[q].next = NULL,
         SamePointers(node, node', live \ {a}),
         \/ /\ node[a].child = NULL /\ node'[a].child = q /\ node'[a].next = node[a].next
         \/ /\ node[a].next = NULL /\ node'[a].next = q /\ node'[a].child = node[a].child
  PROVE  Once'
<1>1. /\ \A n \in live : {node[n].child, node[n].next} \subseteq live \cup {NULL}
      /\ q # NULL /\ \A n \in live : node[n].child # q /\ node[n].next # q
  BY InTrees, TypesJoined, HeldAreNodes, NodesAre DEF TreeInv, Once
<1>2. NULL \notin Held'
  BY DEF Held
<1>3. \A n \in live' : \/ n \in live \ {a} /\ node'[n].child = node[n].child
                                           /\ node'[n].next = node[n].next
                       \/ n = a
                       \/ n = q /\ q \notin live /\ node'[n].child = NULL /\ node'[n].next = NULL
  BY DEF SamePointers
<1> SUFFICES ASSUME NEW m \in live', NEW n \in live'
             PROVE  /\ node'[m].child # NULL => /\ node'[m].child # node'[n].next
                                                /\ node'[m].child = node'[n].child => m = n
                    /\ node'[m].next # NULL /\ node'[m].next = node'[n].next => m = n
                    /\ node'[m].child \notin Held' /\ node'[m].next \notin Held'
  BY DEF Once
<1>4. CASE node[a].child = NULL /\ node'[a].child = q /\ node'[a].next = node[a].next
  <2>1. \A k \in live' :
          \/ k \in live /\ k # a /\ node'[k].child = node[k].child /\ node'[k].next = node[k].next
          \/ k = a /\ node'[k].child = q /\ node'[k].next = node[k].next
          \/ k = q /\ q \notin live /\ node'[k].child = NULL /\ node'[k].next = NULL
    BY <1>3, <1>4
  <2>2. node'[m].child # NULL => /\ node'[m].child # node'[n].next
                                 /\ node'[m].child = node'[n].child => m = n
    BY <1>1, <2>1 DEF Once
  <2>3. node'[m].next # NULL /\ node'[m].next = node'[n].next => m = n
    BY <1>1, <2>1 DEF Once
  <2>4. node'[m].child \notin Held' /\ node'[m].next \notin Held'
    BY <1>1, <1>2, <2>1 DEF Once
  <2> QED BY <2>2, <2>3, <2>4
<1>5. CASE node[a].next = NULL /\ node'[a].next = q /\ node'[a].child = node[a].child
  <2>1. \A k \in live' :
          \/ k \in live /\ k # a /\ node'[k].child = node[k].child /\ node'[k].next = node[k].next
          \/ k = a /\ node'[k].next = q /\ node'[k].child = node[k].child
          \/ k = q /\ q \notin live /\ node'[k].child = NULL /\ node'[k].next = NULL
    BY <1>3, <1>5
  <2>2. node'[m].child # NULL => /\ node'[m].child # node'[n].next
                                 /\ node'[m].child = node'[n].child => m = n
    BY <1>1, <2>1 DEF Once
  <2>3. node'[m].next # NULL /\ node'[m].next = node'[n].next => m = n
    BY <1>1, <2>1 DEF Once
  <2>4. node'[m].child \notin Held' /\ node'[m].next \notin Held'
    BY <1>1, <1>2, <2>1 DEF Once
  <2> QED BY <2>2, <2>3, <2>4
<1> QED BY <1>4, <1>5

\* A step that deletes some of what is held.
LEMMA OnceDeletes ==
  ASSUME Once, TreeInv, NEW heads, Deletes(heads), Held' \subseteq Held
  PROVE  Once'
<1>1. live' = live \ UNION {Below(n) : n \in heads}
  BY DEF Deletes
<1>2. SamePointers(node, node', live')
  BY <1>1 DEF Deletes, SamePointers, TreeInv, TreeTypes
<1> QED BY <1>1, <1>2, OnceLess

\* The parser links a new node, where there was no link.
LEMMA OnceParse ==
  ASSUME Once, TreeInv, TreeInv', Parse
  PROVE  Once'
<1>1. CASE ParseBegins
  <2>1. PICK q \in Nodes : Allocates(q) /\ top' = q /\ node' = Cleared(q)
    BY <1>1 DEF ParseBegins
  <2>2. Held' \subseteq Held \cup {q}
    BY <1>1, <2>1 DEF ParseBegins, Held, copier
  <2>3. q \in Nodes \ live /\ live' = live \cup {q}
    BY <2>1 DEF Allocates
  <2>4. /\ SamePointers(node, node', live) /\ node'[q].child = NULL /\ node'[q].next = NULL
    BY <2>1, <2>3, BlankIs DEF Cleared, SamePointers, TreeInv, TreeTypes
  <2> QED BY <2>2, <2>3, <2>4, OncePlanted
<1>2. CASE ParseValue \/ ParseOpens \/ ParseName \/ ParseCloses \/ ParseEnds
  <2>1. /\ UNCHANGED <<live, owned, copies>>
        /\ \/ top' = top /\ root' = root
           \/ top' = NULL /\ root' = top
    BY <1>2 DEF ParseValue, ParseOpens, ParseName, ParseCloses, ParseEnds, heap, object, parser,
                copier
  <2>2. Held' \subseteq Held /\ live' = live
    BY <2>1 DEF Held
  <2>3. SamePointers(node, node', live)
    <3>1. CASE ParseValue
      <4>1. PICK c, t, type : node' = [node EXCEPT ![c].type = type, ![c].valuestring = t]
        BY <3>1 DEF ParseValue
      <4> QED BY <4>1 DEF SamePointers, TreeInv, TreeTypes, Cells
    <3>2. CASE ParseOpens
      <4>1. PICK c, type : node' = [node EXCEPT ![c].type = type]
        BY <3>2 DEF ParseOpens
      <4> QED BY <4>1 DEF SamePointers, TreeInv, TreeTypes, Cells
    <3>3. CASE ParseName
      <4>1. PICK c, name : node' = [node EXCEPT ![c].type = "string", ![c].string = name]
        BY <3>3 DEF ParseName
      <4> QED BY <4>1 DEF SamePointers, TreeInv, TreeTypes, Cells
    <3>4. CASE ParseCloses \/ ParseEnds
      BY <3>4 DEF ParseCloses, ParseEnds, heap, SamePointers
    <3> QED BY <1>2, <3>1, <3>2, <3>3, <3>4
  <2> QED BY <2>2, <2>3, OnceLess
<1>3. CASE ParseNext
  <2>1. PICK q \in Nodes \ live, L \in Nat \ {0}, w \in Opened, a \in live : LinksNew(q, L, w, a)
    BY <1>3, ParseNextIs
  <2>2. /\ live' = live \cup {q} /\ node'[q] = Blank
        /\ \A n \in Nodes \ {q, a} : node'[n] = node[n]
    BY <2>1 DEF LinksNew
  <2>3. PICK x \in Cells : x = node[a]
    BY DEF TreeInv, TreeTypes
  <2>4. \/ x.child = NULL /\ node'[a] = [x EXCEPT !.child = q]
        \/ x.next = NULL /\ node'[a] = [x EXCEPT !.next = q]
    BY <2>1, <2>3 DEF LinksNew
  <2>5. \/ x.child = NULL /\ node'[a].child = q /\ node'[a].next = x.next
        \/ x.next = NULL /\ node'[a].next = q /\ node'[a].child = x.child
    BY <2>4 DEF Cells
  <2>6. Held' \subseteq Held \ {q}
    <3>1. Held' = Held
      BY <1>3 DEF ParseNext, object, copier, Held
    <3>2. q \notin Held
      BY InTrees, TypesJoined, HeldAreNodes DEF TreeInv
    <3> QED BY <3>1, <3>2
  <2>7. SamePointers(node, node', live \ {a})
    BY <2>2 DEF SamePointers, TreeInv, TreeTypes
  <2>8. node'[q].child = NULL /\ node'[q].next = NULL
    BY <2>2, BlankIs
  <2> QED BY <2>2, <2>3, <2>5, <2>6, <2>7, <2>8, OnceLinked
<1>4. CASE ParseFails
  <2>1. Held' \subseteq Held /\ Deletes({top})
    BY <1>4 DEF ParseFails, Held, copier
  <2> QED BY <2>1, OnceDeletes
<1> QED BY <1>1, <1>2, <1>3, <1>4 DEF Parse

\* The object links nothing.
LEMMA OnceUse ==
  ASSUME Once, TreeInv, TreeInv', Use
  PROVE  Once'
<1>1. CASE LoadChildObject \/ LoadChildArray \/ LoadChildObjectFromChildArrayByIndex \/ ReleaseChild
  <2>1. UNCHANGED <<node, live, root, owned, top, copies>>
    BY <1>1 DEF LoadChildObject, LoadChildArray, LoadChildObjectFromChildArrayByIndex, ReleaseChild,
                heap, parser, copier
  <2>2. Held' \subseteq Held /\ live' = live /\ SamePointers(node, node', live)
    BY <2>1 DEF Held, SamePointers
  <2> QED BY <2>2, OnceLess
<1>2. CASE PutValueString
  <2>1. UNCHANGED <<live, root, owned, top, copies>>
    BY <1>2 DEF PutValueString, object, parser, copier
  <2>2. PICK m, t : node' = [node EXCEPT ![m].valuestring = t]
    BY <1>2 DEF PutValueString
  <2>3. Held' \subseteq Held /\ live' = live
    BY <2>1 DEF Held
  <2>4. SamePointers(node, node', live)
    BY <2>2 DEF SamePointers, TreeInv, TreeTypes, Cells
  <2> QED BY <2>3, <2>4, OnceLess
<1>3. CASE DeletesObject
  <2>1. Held' \subseteq Held /\ Deletes({root})
    BY <1>3 DEF DeletesObject, Held, parser, copier
  <2> QED BY <2>1, OnceDeletes
<1>4. CASE FreeAll
  <2>1. Held' \subseteq Held /\ Deletes({owned})
    BY <1>4 DEF FreeAll, Held, object, parser, copier
  <2> QED BY <2>1, OnceDeletes
<1> QED BY <1>1, <1>2, <1>3, <1>4 DEF Use

\* Duplication links what it holds, and no longer holds it.
LEMMA OnceCopy ==
  ASSUME Once, TreeInv, TreeInv', Copy
  PROVE  Once'
<1>1. CASE CopyBegins \/ CopyCalls
  <2>1. PICK item \in Nodes, q \in Nodes :
          /\ Allocates(q) /\ node' = Copied(item, q)
          /\ copies' = <<Call(item, q)>> \/ copies' = Append(copies, Call(item, q))
    <3>1. CASE CopyBegins
      <4>1. owned # NULL => owned \in Nodes
        BY DEF TreeInv, TreeTypes, Pointers
      <4> QED BY <3>1, <4>1 DEF CopyBegins
    <3>2. CASE CopyCalls
      <4>1. Calling.cptr \in Nodes
        <5>1. Calling \in Called
          BY <3>2, WhileCopying DEF CopyCalls
        <5> QED BY <3>2, <5>1 DEF CopyCalls, Called, Pointers
      <4> QED BY <3>2, <4>1 DEF CopyCalls
    <3> QED BY <1>1, <3>1, <3>2
  <2>2. PICK call \in Called : /\ copies' = <<call>> \/ copies' = Append(copies, call)
                               /\ call.newitem = q
    BY <2>1, CopiedIs DEF TreeInv
  <2>3. q \in Nodes \ live /\ live' = live \cup {q}
    BY <2>1 DEF Allocates
  <2>4. /\ SamePointers(node, node', live) /\ node'[q].child = NULL /\ node'[q].next = NULL
    BY <2>1, <2>3, CopiedIs DEF SamePointers, TreeInv, TreeTypes
  <2>5. UNCHANGED <<root, owned, top>>
    BY <1>1 DEF CopyBegins, CopyCalls, object, cursors, parser
  <2>6. ASSUME NEW i \in DOMAIN copies'
        PROVE  copies'[i].newitem \in {copies[j].newitem : j \in DOMAIN copies} \cup {q}
    <3>1. CASE copies' = <<call>>
      BY <2>2, <2>6, <3>1
    <3>2. CASE copies' = Append(copies, call)
      <4>1. copies \in Seq(Called)
        BY DEF TreeInv, TreeTypes
      <4>2. PICK L \in Nat : L = Len(copies)
        BY <4>1, LenProperties
      <4>3. /\ Len(copies') = L + 1 /\ copies'[L + 1] = call
            /\ \A j \in 1 .. L : copies'[j] = copies[j]
            /\ copies' \in Seq(Called)
        BY <3>2, <4>1, <4>2, AppendProperties
      <4>4. i \in 1 .. L + 1 /\ DOMAIN copies = 1 .. L
        BY <2>6, <4>1, <4>2, <4>3, LenProperties
      <4>5. i \in 1 .. L \/ i = L + 1
        BY <4>4
      <4> QED BY <2>2, <4>3, <4>4, <4>5
    <3> QED BY <2>2, <3>1, <3>2
  <2>7. Held' \subseteq Held \cup {q}
    BY <2>5, <2>6 DEF Held
  <2> QED BY <2>3, <2>4, <2>7, OncePlanted
<1>2. CASE CopyReturns
  <2>1. PICK L \in Nat \ {0}, c, e \in Called, q, r, a \in Nodes : HangsOn(L, c, e, q, r, a)
    BY <1>2, CopyReturnsIs
  <2>2. /\ live' = live /\ UNCHANGED <<root, owned, top>> /\ stage = "copy"
    BY <1>2 DEF CopyReturns, object, cursors, parser
  <2>3. PICK x \in Cells : x = node[a]
    BY DEF TreeInv, TreeTypes
  <2>4. \/ x.child = NULL /\ node'[a] = [x EXCEPT !.child = q]
        \/ x.next = NULL /\ node'[a] = [x EXCEPT !.next = q]
    BY <2>1, <2>3 DEF HangsOn
  <2>5. \/ x.child = NULL /\ node'[a].child = q /\ node'[a].next = x.next
        \/ x.next = NULL /\ node'[a].next = q /\ node'[a].child = x.child
    BY <2>4 DEF Cells
  <2>6. /\ SamePointers(node, node', live \ {a}) /\ a \in live /\ q # a /\ q \in Held
        /\ q \notin {root, owned} /\ L + 1 = Len(copies) /\ q = copies[L + 1].newitem
        /\ copies' \in Seq(Called) /\ DOMAIN copies' = 1 .. L
        /\ copies'[L].newitem = copies[L].newitem
        /\ \A i \in 1 .. L - 1 : copies'[i] = copies[i]
    BY <2>1 DEF HangsOn, SamePointers, TreeInv, TreeTypes
  <2>7. \A i \in 1 .. L : copies'[i].newitem = copies[i].newitem
    <3>1. \A i \in 1 .. L : i = L \/ i \in 1 .. L - 1
      OBVIOUS
    <3> QED BY <2>6, <3>1
  <2>8. \A i \in 1 .. L : copies[i].newitem # q /\ i \in DOMAIN copies
    <3>1. DOMAIN copies = 1 .. L + 1
      BY <2>2, <2>6, WhileCopying
    <3>2. \A i \in 1 .. L : i \in 1 .. L + 1 /\ i # L + 1
      OBVIOUS
    <3>3. L + 1 \in 1 .. L + 1
      OBVIOUS
    <3> QED BY <2>6, <3>1, <3>2, <3>3 DEF TreeInv, Apart
  <2>9. top = NULL
    BY <2>2, WhileCopying
  <2>10. Held' \subseteq Held \ {q}
    <3>1. Held' = ({root, owned, top} \cup {copies'[i].newitem : i \in 1 .. L}) \ {NULL}
      BY <2>2, <2>6 DEF Held
    <3>2. {copies'[i].newitem : i \in 1 .. L} = {copies[i].newitem : i \in 1 .. L}
      BY <2>7
    <3>3. /\ {copies[i].newitem : i \in 1 .. L} \subseteq {copies[i].newitem : i \in DOMAIN copies}
          /\ q \notin {copies[i].newitem : i \in 1 .. L}
      BY <2>8
    <3> QED BY <2>6, <2>9, <3>1, <3>2, <3>3, NodesAre DEF Held
  <2>11. q \in live
    BY <2>6, InTrees, TypesJoined, HeldAreNodes DEF TreeInv
  <2> QED BY <2>2, <2>3, <2>5, <2>6, <2>10, <2>11, OnceLinked
<1>3. CASE CopyEnds
  <2>1. /\ stage = "copy" /\ copies' = <<>> /\ UNCHANGED <<node, live, top>>
        /\ {root', owned'} \subseteq {root, owned, Calling.newitem}
    BY <1>3 DEF CopyEnds, heap, parser
  <2>2. Calling.newitem \in Held
    <3>1. Len(copies) \in 1 .. Len(copies)
      BY <2>1, WhileCopying
    <3> QED BY <2>1, <3>1, WhileCopying
  <2>3. Held' \subseteq Held
    BY <2>1, <2>2 DEF Held
  <2>4. SamePointers(node, node', live)
    BY <2>1 DEF SamePointers
  <2> QED BY <2>1, <2>3, <2>4, OnceLess
<1>4. CASE CopyFails
  <2>1. /\ Deletes({copies[i].newitem : i \in DOMAIN copies})
        /\ copies' = <<>> /\ UNCHANGED <<root, owned, top>>
    BY <1>4 DEF CopyFails, parser
  <2>2. Held' \subseteq Held
    BY <2>1 DEF Held
  <2> QED BY <2>1, <2>2, OnceDeletes
<1> QED BY <1>1, <1>2, <1>3, <1>4 DEF Copy

\* So no step of LibJson links a node twice.
LEMMA OnceNext ==
  ASSUME Once, TreeInv, TreeInv', [Next]_vars
  PROVE  Once'
<1>1. CASE UNCHANGED vars
  <2>1. UNCHANGED <<node, live, root, owned, top, copies>>
    BY <1>1 DEF vars, heap, object, parser, copier
  <2>2. Held' \subseteq Held /\ live' = live /\ SamePointers(node, node', live)
    BY <2>1 DEF Held, SamePointers
  <2> QED BY <2>2, OnceLess
<1> QED BY <1>1, OnceParse, OnceUse, OnceCopy DEF Next

\* Nothing is allocated in the beginning.
LEMMA OnceInit == Init => Once
  BY DEF Init, Once

-----------------------------------------------------------------------------
(* What has been copied, and its copies                                    *)

\* T is all that is copied for x: x and what is below its children, no node of it linked twice.
Whole(T, x) ==
  /\ x \in T /\ T \subseteq live
  /\ \A n \in T : /\ node[n].child \in (T \ {x}) \cup {NULL}
                  /\ n # x => node[n].next \in (T \ {x}) \cup {NULL}
  /\ \A m, n \in T :
       /\ node[m].child # NULL => /\ node[m].child # node[n].next
                                  /\ node[m].child = node[n].child => m = n
       /\ node[m].next # NULL /\ node[m].next = node[n].next => m = n

\* A node and its copy.
Alike(a, b) == a.type = b.type /\ a.string = b.string /\ a.valuestring = b.valuestring

\* D is what has been copied of it, and F[n] is the copy of n.
Made(T, D, F, x) ==
  /\ D \subseteq T
  /\ \A n \in D : F[n] \in live \ T /\ Alike(node[n], node[F[n]])
  /\ \A m, n \in D : F[m] = F[n] => m = n
  /\ \A m \in D \ {x} : \E n \in D : node[n].child = m \/ (n # x /\ node[n].next = m)

\* Where a call is: what is linked next is the child of its item, or what follows the last
\* that was linked; and what follows its item has not been copied yet.
At(D, F, x, i) ==
  /\ copies[i].item \in D /\ F[copies[i].item] = copies[i].newitem
  /\ IF i = Len(copies) THEN copies[i].cptr \notin D ELSE copies[i].cptr = copies[i + 1].item
  /\ IF copies[i].nptr = NULL THEN copies[i].cptr = node[copies[i].item].child
     ELSE \E p \in D \ {x} : F[p] = copies[i].nptr /\ node[p].next = copies[i].cptr
  /\ copies[i].item # x => node[copies[i].item].next \notin D

\* The copy of m is m1.
Stands(D, F, m, m1) == IF m = NULL THEN m1 = NULL ELSE m \in D /\ F[m] = m1

\* A link of what has been copied is copied, but for those that the calls have yet to make.
LinkedUp(D, F, x) ==
  /\ \A n \in D : \/ Stands(D, F, node[n].child, node[F[n]].child)
                  \/ \E i \in 1 .. Len(copies) : copies[i].item = n /\ copies[i].nptr = NULL
  /\ \A n \in D \ {x} : \/ Stands(D, F, node[n].next, node[F[n]].next)
                        \/ \E i \in 1 .. Len(copies) : copies[i].item = n \/ copies[i].nptr = F[n]

\* What a duplication of x has come to.
Halfway(T, D, F, x) ==
  /\ copies[1].item = x
  /\ Whole(T, x) /\ Made(T, D, F, x) /\ LinkedUp(D, F, x)
  /\ \A i \in 1 .. Len(copies) : At(D, F, x, i)
CopyInv ==
  copies # <<>> =>
    \E T, D \in SUBSET Nodes, F \in [Nodes -> Nodes], x \in Nodes : Halfway(T, D, F, x)

\* An item and what is below its children is a whole: nothing in it is before the item.
LEMMA TreeIsWhole ==
  ASSUME TreeInv, Once, NEW r \in Held, NEW x \in Below(r)
  PROVE  Whole(Tree(x), x) /\ Tree(x) \subseteq Nodes
<1> DEFINE B == Below(r)
           C == Below(node[x].child)
<1>1. Joined(node) /\ Held \subseteq Nodes /\ r \in Nodes /\ r # NULL /\ r \in Pointers
  BY TypesJoined, HeldAreNodes, NodesAre DEF TreeInv, Pointers
<1>2. x \in Nodes /\ node[x].child \in B \cup {NULL} /\ B \subseteq Nodes /\ B \subseteq live
  BY <1>1, BelowBelow, InTrees DEF TreeInv
<1>3. C \subseteq B
  BY <1>1, <1>2, BelowBelow, BelowNull
<1>4. Reached(node, r, B) /\ Reached(node, node[x].child, C)
  BY <1>1, <1>2, BelowReached DEF Joined
<1> HIDE DEF B, C
<1>5. Tree(x) = {x} \cup C
  BY DEF Tree, C
<1>6. Closed(node, C) /\ Closed(node, B) /\ r \in B /\ (node[x].child # NULL => node[x].child \in C)
  BY <1>1, <1>4 DEF Reached
<1>7. x \notin C
  <2> SUFFICES ASSUME x \in C PROVE FALSE
    OBVIOUS
  <2>1. node[x].child # NULL
    <3> SUFFICES ASSUME node[x].child = NULL PROVE FALSE
      OBVIOUS
    <3>1. {NULL} \ {NULL} \subseteq {} /\ Closed(node, {})
      BY DEF Closed
    <3>2. C \subseteq {}
      BY <1>4, <3>1 DEF Reached
    <3> QED BY <3>2
  <2>2. r \notin C
    <3>1. Closed(node, C \ {r})
      <4>1. \A n \in C : node[n].child # r /\ node[n].next # r
        BY <1>2, <1>3 DEF Once
      <4> QED BY <1>6, <4>1 DEF Closed
    <3>2. {node[x].child} \ {NULL} \subseteq C \ {r}
      BY <1>2, <1>6, <2>1 DEF Once, B
    <3>3. C \subseteq C \ {r}
      BY <1>4, <3>1, <3>2 DEF Reached
    <3> QED BY <3>3
  <2> DEFINE C0 == {n \in C : \E k \in C : node[k].child = n \/ node[k].next = n}
  <2>3. C \subseteq C0
    <3>1. {node[x].child} \ {NULL} \subseteq C0
      BY <1>6, <2>1
    <3>2. Closed(node, C0)
      BY <1>6 DEF Closed
    <3> HIDE DEF C0
    <3> QED BY <1>4, <3>1, <3>2 DEF Reached
  <2>4. Closed(node, B \ C)
    <3> SUFFICES ASSUME NEW n \in B \ C, NEW m \in {node[n].child, node[n].next}, m # NULL, m \in C
                 PROVE  FALSE
      BY <1>6 DEF Closed
    <3>1. PICK k \in C : node[k].child = m \/ node[k].next = m
      BY <2>3
    <3>2. k \in live /\ n \in live /\ k # n
      BY <1>2, <1>3
    <3> QED BY <3>1, <3>2 DEF Once
  <2>5. {r} \ {NULL} \subseteq B \ C
    BY <1>6, <2>2
  <2>6. B \subseteq B \ C
    BY <1>4, <2>4, <2>5 DEF Reached
  <2>7. x \in B
    BY DEF B
  <2> QED BY <2>6, <2>7
<1>8. x \in B
  BY DEF B
<1>9. {x} \cup C \subseteq live
  BY <1>2, <1>3, <1>8
<1>10. \A n \in {x} \cup C : /\ node[n].child \in C \cup {NULL}
                             /\ n # x => node[n].next \in C \cup {NULL}
  BY <1>6 DEF Closed
<1>11. C = ({x} \cup C) \ {x}
  BY <1>7
<1>12. \A m, n \in {x} \cup C :
       /\ node[m].child # NULL => /\ node[m].child # node[n].next
                                  /\ node[m].child = node[n].child => m = n
       /\ node[m].next # NULL /\ node[m].next = node[n].next => m = n
  BY <1>9 DEF Once
<1> QED BY <1>2, <1>3, <1>5, <1>9, <1>10, <1>11, <1>12 DEF Whole

\* A step that changes nothing of it leaves it whole.
LEMMA WholeStill ==
  ASSUME NEW T, NEW x, Whole(T, x), T \subseteq live', SamePointers(node, node', T)
  PROVE  Whole(T, x)'
  BY DEF Whole, SamePointers

\* The node made for an item.
LEMMA CopiedAlike ==
  ASSUME TreeTypes, NEW item \in Nodes, NEW q \in Nodes, node' = Copied(item, q)
  PROVE  Alike(node[item], node'[q])
<1>1. node'[q] = [Blank EXCEPT !.type = node[item].type, !.string = node[item].string,
                               !.valuestring = node[item].valuestring]
  BY DEF Copied, TreeTypes
<1> QED BY <1>1, BlankIs DEF Alike, Cells

\* The nodes that calls have last linked are others than those they began with, and than one
\* another.
LEMMA LastOnesAre ==
  ASSUME TreeInv, stage = "copy", NEW i \in 1 .. Len(copies), copies[i].nptr # NULL
  PROVE  /\ \A j \in 1 .. Len(copies) : copies[j].newitem # copies[i].nptr
         /\ \A j \in 1 .. Len(copies) : j # i => copies[j].nptr # copies[i].nptr
         /\ copies[i].nptr \in Below(copies[i].newitem)
         /\ node[copies[i].nptr].next = NULL
<1>1. /\ copies[i].nptr \in Below(copies[i].newitem) \ {copies[i].newitem}
      /\ node[copies[i].nptr].next = NULL
  BY DEF TreeInv, Copying
<1>2. \A j \in 1 .. Len(copies) : /\ copies[j].newitem \in Held
                                  /\ copies[j].newitem \in Below(copies[j].newitem)
  BY WhileCopying, InTrees DEF TreeInv
<1>3. ASSUME NEW j \in 1 .. Len(copies), j # i
      PROVE  Below(copies[i].newitem) \cap Below(copies[j].newitem) = {}
  BY <1>2, <1>3 DEF TreeInv, Trees, Apart
<1>4. ASSUME NEW j \in 1 .. Len(copies), j # i
      PROVE  copies[j].newitem # copies[i].nptr /\ copies[j].nptr # copies[i].nptr
  <2>1. copies[j].newitem # copies[i].nptr
    BY <1>1, <1>2, <1>3, <1>4
  <2>2. copies[j].nptr # NULL => copies[j].nptr \in Below(copies[j].newitem)
    BY DEF TreeInv, Copying
  <2> QED BY <1>1, <1>3, <1>4, <2>1, <2>2
<1> QED BY <1>1, <1>4

\* A duplication begins: the first item has been copied.
LEMMA CopyBeginsInv ==
  ASSUME TreeInv, Once, CopyBegins
  PROVE  CopyInv'
<1>1. PICK item \in Nodes, q \in Nodes :
        /\ \E r \in Held : item \in Below(r)
        /\ Allocates(q) /\ node' = Copied(item, q) /\ copies' = <<Call(item, q)>>
  <2>1. CASE alive /\ owned = NULL /\ \E item, q \in Nodes :
              /\ \/ item = root
                 \/ \E name \in Names, fromChild \in BOOLEAN :
                      item = GetItem(From(child, fromChild), name, "object")
              /\ Allocates(q) /\ node' = Copied(item, q) /\ copies' = <<Call(item, q)>>
    <3>1. PICK item \in Nodes, q \in Nodes :
              /\ \/ item = root
                 \/ \E name \in Names, fromChild \in BOOLEAN :
                      item = GetItem(From(child, fromChild), name, "object")
              /\ Allocates(q) /\ node' = Copied(item, q) /\ copies' = <<Call(item, q)>>
      BY <2>1
    <3>2. Ready
      BY <2>1 DEF CopyBegins, Ready
    <3>3. /\ root # NULL /\ root \in Pointers /\ root \in Below(root) /\ Joined(node)
          /\ \A fromChild \in BOOLEAN : From(child, fromChild) \in Below(root)
      BY <3>2, ReadyIs, TypesJoined DEF TreeInv, Pointers
    <3>4. root \in Held
      BY <3>3 DEF Held
    <3>5. item \in Below(root)
      <4>1. CASE item = root
        BY <3>3, <4>1
      <4>2. CASE \E name \in Names, fromChild \in BOOLEAN :
                   item = GetItem(From(child, fromChild), name, "object")
        BY <3>3, <4>2, GetItemBelow, NodesAre
      <4> QED BY <3>1, <4>1, <4>2
    <3> QED BY <3>1, <3>4, <3>5
  <2>2. CASE owned # NULL /\ \E q \in Nodes :
               Allocates(q) /\ node' = Copied(owned, q) /\ copies' = <<Call(owned, q)>>
    <3>1. owned \in Held /\ owned \in Nodes
      BY <2>2, HeldAreNodes DEF Held, TreeInv
    <3>2. owned \in Below(owned)
      BY <3>1, InTrees, TypesJoined, HeldAreNodes DEF TreeInv
    <3> QED BY <2>2, <3>1, <3>2
  <2> QED BY <2>1, <2>2 DEF CopyBegins
<1>2. PICK r \in Held : item \in Below(r)
  BY <1>1
<1>3. q \in Nodes \ live /\ live' = live \cup {q} /\ q # NULL
  BY <1>1, NodesAre DEF Allocates
<1>4. PICK T : T = Tree(item)
  OBVIOUS
<1>5. Whole(T, item) /\ T \subseteq Nodes
  BY <1>2, <1>4, TreeIsWhole
<1>6. /\ \A n \in Nodes \ {q} : node'[n] = node[n]
      /\ Alike(node[item], node'[q])
  BY <1>1, CopiedIs, CopiedAlike DEF TreeInv
<1>7. item \in T /\ T \subseteq live /\ q \notin T
  BY <1>3, <1>5 DEF Whole
<1>8. SamePointers(node, node', T) /\ T \subseteq live' /\ node'[item] = node[item]
  BY <1>3, <1>5, <1>6, <1>7 DEF SamePointers
<1>9. Whole(T, item)'
  BY <1>5, <1>8, WholeStill
<1>10. PICK F \in [Nodes -> Nodes] : F = [n \in Nodes |-> q]
  OBVIOUS
<1>11. F[item] = q
  BY <1>10
<1>12. Made(T, {item}, F, item)'
  BY <1>3, <1>6, <1>7, <1>8, <1>11 DEF Made
<1>13. PICK c : c = Call(item, q)
  OBVIOUS
<1>14. c.item = item /\ c.newitem = q /\ c.cptr = node[item].child /\ c.nptr = NULL
  BY <1>13 DEF Call
<1>15. Len(copies') = 1 /\ copies'[1] = c
  BY <1>1, <1>13
<1>16. \A i \in 1 .. 1 : i = 1
  OBVIOUS
<1>17. 1 \in 1 .. 1
  OBVIOUS
<1>18. LinkedUp({item}, F, item)'
  BY <1>14, <1>15, <1>17 DEF LinkedUp
<1>19. ASSUME NEW i \in 1 .. Len(copies')
       PROVE  At({item}, F, item, i)'
  <2>1. i = 1
    BY <1>15, <1>16
  <2>2. node[item].child # item
    BY <1>5, <1>7, NodesAre DEF Whole
  <2> QED BY <1>8, <1>11, <1>14, <1>15, <2>1, <2>2 DEF At
<1>20. Halfway(T, {item}, F, item)'
  BY <1>9, <1>12, <1>14, <1>15, <1>18, <1>19 DEF Halfway
<1> QED BY <1>5, <1>7, <1>20 DEF CopyInv

\* What follows a node that has not been copied has not been copied either.
LEMMA NotBefore ==
  ASSUME NEW T, NEW D, NEW F, NEW x, Whole(T, x), Made(T, D, F, x), NULL \notin T,
         NEW c \in T \ {x}, c \notin D,
         \E n \in D : node[n].child = c \/ (n # x /\ node[n].next = c)
  PROVE  node[c].child \notin D \cup {c} /\ node[c].next \notin D \cup {c}
<1>1. PICK k \in D : node[k].child = c \/ (k # x /\ node[k].next = c)
  OBVIOUS
<1>2. c # NULL /\ k \in T /\ k # c /\ D \subseteq T
  BY DEF Made
<1>3. /\ node[c].child \in (T \ {x}) \cup {NULL}
      /\ node[c].next \in (T \ {x}) \cup {NULL}
      /\ \A m, n \in T :
           /\ node[m].child # NULL => /\ node[m].child # node[n].next
                                      /\ node[m].child = node[n].child => m = n
           /\ node[m].next # NULL /\ node[m].next = node[n].next => m = n
  BY DEF Whole
<1>4. ASSUME NEW m \in T \ {x}, m = node[c].child \/ m = node[c].next
      PROVE  m \notin D \cup {c}
  <2>1. m # NULL
    OBVIOUS
  <2>2. CASE m = c
    BY <1>1, <1>2, <1>3, <1>4, <2>2
  <2>3. CASE m \in D
    <3>1. PICK n \in D : node[n].child = m \/ (n # x /\ node[n].next = m)
      BY <1>4, <2>3 DEF Made
    <3>2. n \in T /\ n # c
      BY <1>2
    <3> QED BY <1>3, <1>4, <2>1, <3>1, <3>2
  <2> QED BY <2>2, <2>3
<1>5. NULL \notin D \cup {c}
  BY <1>2
<1> QED BY <1>3, <1>4, <1>5

\* A call is made: one item more has been copied.
LEMMA CopyCallsInv ==
  ASSUME TreeInv, CopyCalls, CopyInv
  PROVE  CopyInv'
<1>1. /\ stage = "copy" /\ Calling.cptr # NULL
      /\ copies # <<>> /\ Calling = copies[Len(copies)]
  BY WhileCopying DEF CopyCalls
<1>2. PICK L \in Nat \ {0} : L = Len(copies)
  BY <1>1, WhileCopying
<1>3. PICK c : c = copies[L].cptr /\ c = Calling.cptr /\ c # NULL
  BY <1>1, <1>2
<1>4. PICK q \in Nodes :
        /\ Allocates(q) /\ node' = Copied(c, q) /\ copies' = Append(copies, Call(c, q))
  BY <1>3 DEF CopyCalls
<1>5. PICK T \in SUBSET Nodes, D \in SUBSET Nodes, F \in [Nodes -> Nodes], x \in Nodes :
        Halfway(T, D, F, x)
  BY <1>1 DEF CopyInv
<1>6. /\ copies[1].item = x /\ Whole(T, x) /\ Made(T, D, F, x) /\ LinkedUp(D, F, x)
      /\ \A i \in 1 .. L : At(D, F, x, i)
  BY <1>2, <1>5 DEF Halfway
<1>7. L \in 1 .. L /\ 1 \in 1 .. L /\ \A i \in 1 .. L + 1 : (i \in 1 .. L /\ i # L + 1) \/ i = L + 1
  OBVIOUS
<1>8. /\ c \in T \ {x} /\ c \in Nodes /\ c \notin D
      /\ \E n \in D : node[n].child = c \/ (n # x /\ node[n].next = c)
  <2>1. c \notin D
    BY <1>2, <1>3, <1>6, <1>7 DEF At
  <2>2. /\ At(D, F, x, L) /\ D \subseteq T /\ Whole(T, x)
    BY <1>6, <1>7 DEF Made
  <2>3. \E n \in D : node[n].child = c \/ (n # x /\ node[n].next = c)
    BY <1>3, <2>2 DEF At
  <2>4. c \in T \ {x}
    BY <1>3, <2>2, <2>3 DEF Whole
  <2> QED BY <2>1, <2>3, <2>4
<1>9. NULL \notin T /\ D \subseteq T /\ T \subseteq live
  BY <1>6, NodesAre DEF Made, Whole
<1>10. node[c].child \notin D \cup {c} /\ node[c].next \notin D \cup {c}
  BY <1>6, <1>8, <1>9, NotBefore
<1>11. q \in Nodes \ live /\ live' = live \cup {q}
  BY <1>4 DEF Allocates
<1>12. /\ \A n \in Nodes \ {q} : node'[n] = node[n]
       /\ Alike(node[c], node'[q])
  BY <1>4, <1>8, CopiedIs, CopiedAlike DEF TreeInv
<1>13. PICK call \in Called : call = Call(c, q)
  BY <1>4, <1>8, CopiedIs DEF TreeInv
<1>14. call.item = c /\ call.newitem = q /\ call.cptr = node[c].child /\ call.nptr = NULL
  BY <1>13 DEF Call
<1>15. Len(copies') = L + 1 /\ copies'[L + 1] = call /\ \A i \in 1 .. L : copies'[i] = copies[i]
  <2>1. copies \in Seq(Called)
    BY DEF TreeInv, TreeTypes
  <2> QED BY <1>2, <1>4, <1>13, <2>1, AppendProperties
<1>16. PICK E \in SUBSET Nodes, G \in [Nodes -> Nodes] : E = D \cup {c} /\ G = [F EXCEPT ![c] = q]
  BY <1>4, <1>8
<1>17. G[c] = q /\ \A n \in D : G[n] = F[n] /\ n # c
  BY <1>5, <1>8, <1>16
<1>18. \A n \in T : node'[n] = node[n]
  BY <1>9, <1>11, <1>12
<1>19. Whole(T, x)'
  <2>1. SamePointers(node, node', T)
    BY <1>18 DEF SamePointers
  <2> QED BY <1>6, <1>9, <1>11, <2>1, WholeStill
<1>20. \A n \in D : F[n] \in live \ T /\ node'[F[n]] = node[F[n]]
  <2>1. \A n \in D : F[n] \in live \ T
    BY <1>6 DEF Made
  <2> QED BY <1>11, <1>12, <2>1 DEF TreeInv, TreeTypes
<1>21. Made(T, E, G, x)'
  <2>1. \A n \in E : G[n] \in live' \ T /\ Alike(node'[n], node'[G[n]])
    BY <1>6, <1>8, <1>9, <1>11, <1>12, <1>16, <1>17, <1>18, <1>20 DEF Made
  <2>2. \A m, n \in E : G[m] = G[n] => m = n
    BY <1>6, <1>11, <1>16, <1>17, <1>20 DEF Made
  <2>3. \A m \in E \ {x} : \E n \in E : node'[n].child = m \/ (n # x /\ node'[n].next = m)
    <3>1. \A m \in E \ {x} : \E n \in D : node[n].child = m \/ (n # x /\ node[n].next = m)
      BY <1>6, <1>8, <1>16 DEF Made
    <3> QED BY <1>9, <1>16, <1>18, <3>1
  <2>4. E \subseteq T
    BY <1>8, <1>9, <1>16
  <2> QED BY <2>1, <2>2, <2>3, <2>4 DEF Made
<1>22. LinkedUp(E, G, x)'
  <2>1. \A m, m1 : Stands(D, F, m, m1) => Stands(E, G, m, m1)
    BY <1>16, <1>17 DEF Stands
  <2>2. ASSUME NEW n \in E
        PROVE  \/ Stands(E, G, node'[n].child, node'[G[n]].child)
               \/ \E i \in 1 .. L + 1 : copies'[i].item = n /\ copies'[i].nptr = NULL
    <3>1. CASE n = c
      BY <1>7, <1>14, <1>15, <3>1
    <3>2. CASE n \in D
      <4>1. CASE Stands(D, F, node[n].child, node[F[n]].child)
        BY <1>9, <1>17, <1>18, <1>20, <2>1, <3>2, <4>1
      <4>2. CASE \E i \in 1 .. L : copies[i].item = n /\ copies[i].nptr = NULL
        BY <1>15, <4>2
      <4> QED BY <1>2, <1>6, <3>2, <4>1, <4>2 DEF LinkedUp
    <3> QED BY <1>16, <3>1, <3>2
  <2>3. ASSUME NEW n \in E \ {x}
        PROVE  \/ Stands(E, G, node'[n].next, node'[G[n]].next)
               \/ \E i \in 1 .. L + 1 : copies'[i].item = n \/ copies'[i].nptr = G[n]
    <3>1. CASE n = c
      BY <1>7, <1>14, <1>15, <3>1
    <3>2. CASE n \in D
      <4>1. CASE Stands(D, F, node[n].next, node[F[n]].next)
        BY <1>9, <1>17, <1>18, <1>20, <2>1, <3>2, <4>1
      <4>2. CASE \E i \in 1 .. L : copies[i].item = n \/ copies[i].nptr = F[n]
        BY <1>15, <1>17, <3>2, <4>2
      <4> QED BY <1>2, <1>6, <3>2, <4>1, <4>2 DEF LinkedUp
    <3> QED BY <1>16, <3>1, <3>2
  <2> QED BY <1>15, <2>2, <2>3 DEF LinkedUp
<1>23. ASSUME NEW i \in 1 .. L + 1
       PROVE  At(E, G, x, i)'
  <2>1. CASE i = L + 1
    BY <1>8, <1>10, <1>14, <1>15, <1>16, <1>17, <1>18, <2>1 DEF At
  <2>2. CASE i \in 1 .. L
    <3>1. PICK ci : ci = copies[i] /\ ci = copies'[i]
      BY <1>15, <2>2
    <3>2. At(D, F, x, i)
      BY <1>6, <2>2
    <3>3. ci.item \in E /\ G[ci.item] = ci.newitem /\ ci.item \in D /\ ci.item \in T
      BY <1>9, <1>16, <1>17, <3>1, <3>2 DEF At
    <3>4. ci.cptr = copies'[i + 1].item
      <4>1. CASE i = L
        BY <1>3, <1>14, <1>15, <3>1, <4>1
      <4>2. CASE i # L
        <5>1. i + 1 \in 1 .. L
          BY <2>2, <4>2
        <5> QED BY <1>2, <1>15, <3>1, <3>2, <4>2, <5>1 DEF At
      <4> QED BY <4>1, <4>2
    <3>5. IF ci.nptr = NULL THEN ci.cptr = node'[ci.item].child
          ELSE \E p \in E \ {x} : G[p] = ci.nptr /\ node'[p].next = ci.cptr
      BY <1>9, <1>16, <1>17, <1>18, <3>1, <3>2, <3>3 DEF At
    <3>6. ASSUME ci.item # x
          PROVE  node'[ci.item].next \notin E
      <4>1. node'[ci.item].next = node[ci.item].next /\ node[ci.item].next \notin D
        BY <1>18, <3>1, <3>2, <3>3, <3>6 DEF At
      <4> SUFFICES ASSUME node[ci.item].next = c PROVE FALSE
        BY <1>16, <4>1
      <4>2. At(D, F, x, L)
        BY <1>6, <1>7
      <4>3. copies[L].nptr # NULL
        <5> SUFFICES ASSUME copies[L].nptr = NULL PROVE FALSE
          OBVIOUS
        <5>1. node[copies[L].item].child = c /\ copies[L].item \in T
          BY <1>3, <1>9, <4>2 DEF At
        <5> QED BY <1>3, <1>6, <3>3, <5>1 DEF Whole
      <4>4. PICK p \in D \ {x} : F[p] = copies[L].nptr /\ node[p].next = c
        BY <1>3, <4>2, <4>3 DEF At
      <4>5. p = ci.item
        BY <1>3, <1>6, <1>9, <3>3, <4>4 DEF Whole
      <4>6. copies[i].newitem = copies[L].nptr
        BY <1>17, <3>1, <3>3, <4>4, <4>5
      <4> QED BY <1>1, <1>2, <1>7, <2>2, <4>3, <4>6, LastOnesAre
    <3>7. i # L + 1
      BY <2>2
    <3> QED BY <1>15, <3>1, <3>3, <3>4, <3>5, <3>6, <3>7 DEF At
  <2> QED BY <1>7, <2>1, <2>2
<1>24. copies'[1].item = x
  BY <1>6, <1>7, <1>15
<1>25. Halfway(T, E, G, x)'
  BY <1>15, <1>19, <1>21, <1>22, <1>23, <1>24 DEF Halfway
<1> QED BY <1>5, <1>16, <1>25 DEF CopyInv

\* A call returns: its copy is linked.
LEMMA CopyReturnsInv ==
  ASSUME TreeInv, CopyReturns, CopyInv
  PROVE  CopyInv'
<1>1. stage = "copy" /\ Calling.cptr = NULL /\ UNCHANGED live
  BY DEF CopyReturns
<1>2. copies # <<>> /\ Calling = copies[Len(copies)]
  BY <1>1, WhileCopying
<1>3. PICK L \in Nat \ {0}, c \in Called, e \in Called, q \in Nodes, r \in Nodes, a \in Nodes :
        HangsOn(L, c, e, q, r, a)
  BY CopyReturnsIs
<1>4. PICK T \in SUBSET Nodes, D \in SUBSET Nodes, F \in [Nodes -> Nodes], x \in Nodes :
        Halfway(T, D, F, x)
  BY <1>2 DEF CopyInv
<1>5. /\ L + 1 = Len(copies) /\ c = copies[L] /\ r = c.newitem /\ q = copies[L + 1].newitem
      /\ a = IF c.nptr = NULL THEN r ELSE c.nptr
      /\ c.cptr # NULL
      /\ e.item = c.item /\ e.newitem = r /\ e.nptr = q /\ e.cptr = node[c.cptr].next
      /\ Len(copies') = L /\ copies'[L] = e /\ \A i \in 1 .. L - 1 : copies'[i] = copies[i]
      /\ a # q /\ \A n \in Nodes \ {a} : node'[n] = node[n]
  BY <1>3 DEF HangsOn
<1>6. /\ IF c.nptr = NULL THEN node'[a].child = q /\ node'[a].next = node[a].next
         ELSE node'[a].next = q /\ node'[a].child = node[a].child
      /\ Alike(node[a], node'[a])
  <2>1. PICK y \in Cells : y = node[a]
    BY DEF TreeInv, TreeTypes
  <2>2. node'[a] = IF c.nptr = NULL THEN [y EXCEPT !.child = q] ELSE [y EXCEPT !.next = q]
    BY <1>3, <2>1 DEF HangsOn
  <2>3. /\ y.type = node[a].type /\ y.string = node[a].string
        /\ y.valuestring = node[a].valuestring /\ y.child = node[a].child /\ y.next = node[a].next
    BY <2>1
  <2> QED BY <2>2, <2>3 DEF Cells, Alike
<1>7. /\ copies[1].item = x /\ Whole(T, x) /\ Made(T, D, F, x) /\ LinkedUp(D, F, x)
      /\ \A i \in 1 .. L + 1 : At(D, F, x, i)
  BY <1>4, <1>5 DEF Halfway
<1>8. /\ L \in 1 .. L /\ L \in 1 .. L + 1 /\ L + 1 \in 1 .. L + 1 /\ L # L + 1
      /\ \A i \in 1 .. L + 1 : i \in 1 .. L - 1 \/ i = L \/ i = L + 1
      /\ \A i \in 1 .. L - 1 : i \in 1 .. L /\ i \in 1 .. L + 1 /\ i + 1 \in 1 .. L /\ i # L
                               /\ i # L + 1 /\ (i + 1 \in 1 .. L - 1 \/ i + 1 = L)
      /\ \A i \in 1 .. L : i \in 1 .. L - 1 \/ i = L
  OBVIOUS
<1>9. PICK c1 : c1 = copies[L + 1]
  OBVIOUS
<1>10. c1.cptr = NULL /\ c1.newitem = q
  BY <1>1, <1>2, <1>5, <1>9
<1>11. NULL \notin T /\ D \subseteq T /\ T \subseteq live /\ NULL \notin Nodes
  BY <1>7, NodesAre DEF Made, Whole
<1>12. PICK k : k = c1.item
  OBVIOUS
<1>13. /\ c.cptr = k /\ k \in D /\ F[k] = q /\ c.item \in D /\ F[c.item] = r
       /\ (k # x => node[k].next \notin D) /\ (c.item # x => node[c.item].next \notin D)
       /\ IF c.nptr = NULL THEN node[c.item].child = k
          ELSE \E p \in D \ {x} : F[p] = c.nptr /\ node[p].next = k
       /\ c1.nptr # NULL => \E p \in D \ {x} : F[p] = c1.nptr /\ node[p].next = NULL
       /\ c1.nptr = NULL => node[k].child = NULL
  <2>1. At(D, F, x, L)
    BY <1>7, <1>8
  <2>2. At(D, F, x, L + 1)
    BY <1>7, <1>8
  <2>3. /\ c.cptr = k /\ c.item \in D /\ F[c.item] = r
        /\ (c.item # x => node[c.item].next \notin D)
        /\ IF c.nptr = NULL THEN node[c.item].child = k
           ELSE \E p \in D \ {x} : F[p] = c.nptr /\ node[p].next = k
    BY <1>5, <1>8, <1>9, <1>12, <2>1 DEF At
  <2>4. /\ k \in D /\ F[k] = q /\ (k # x => node[k].next \notin D)
        /\ c1.nptr # NULL => \E p \in D \ {x} : F[p] = c1.nptr /\ node[p].next = NULL
        /\ c1.nptr = NULL => node[k].child = NULL
    BY <1>9, <1>10, <1>12, <2>2 DEF At
  <2> QED BY <2>3, <2>4
<1>14. k # x /\ k # NULL
  <2>1. k # NULL
    BY <1>11, <1>13
  <2> QED BY <1>7, <1>11, <1>13, <2>1 DEF Whole
<1>15. /\ \A n \in D : F[n] \in live \ T /\ F[n] \in Nodes /\ Alike(node[n], node[F[n]])
       /\ \A m, n \in D : F[m] = F[n] => m = n
       /\ \A m \in D \ {x} : \E n \in D : node[n].child = m \/ (n # x /\ node[n].next = m)
  BY <1>4, <1>7 DEF Made
<1>16. a \notin T
  BY <1>5, <1>13, <1>15
<1>17. \A n \in T : node'[n] = node[n]
  BY <1>4, <1>5, <1>16
<1>18. Whole(T, x)'
  <2>1. SamePointers(node, node', T)
    BY <1>17 DEF SamePointers
  <2> QED BY <1>1, <1>7, <1>11, <2>1, WholeStill
<1>19. Made(T, D, F, x)'
  <2>1. ASSUME NEW n \in D
        PROVE  F[n] \in live' \ T /\ Alike(node'[n], node'[F[n]])
    <3>1. Alike(node[F[n]], node'[F[n]])
      <4>1. CASE F[n] = a
        BY <1>6, <4>1
      <4>2. CASE F[n] # a
        BY <1>5, <1>15, <4>2 DEF Alike
      <4> QED BY <4>1, <4>2
    <3>2. node'[n] = node[n]
      BY <1>11, <1>17
    <3> QED BY <1>1, <1>15, <3>1, <3>2 DEF Alike
  <2>2. \A m \in D \ {x} : \E n \in D : node'[n].child = m \/ (n # x /\ node'[n].next = m)
    BY <1>11, <1>15, <1>17
  <2> QED BY <1>11, <1>15, <2>1, <2>2 DEF Made
<1>20. /\ c1.nptr = NULL => node[q].child = NULL
       /\ c1.nptr # NULL => node[c1.nptr].next = NULL
  BY <1>5, <1>8, <1>9 DEF TreeInv, Copying
<1>21. ASSUME NEW n \in D
       PROVE  \/ Stands(D, F, node'[n].child, node'[F[n]].child)
              \/ \E i \in 1 .. L : copies'[i].item = n /\ copies'[i].nptr = NULL
  <2>1. node'[n] = node[n]
    BY <1>11, <1>17
  <2>2. CASE n = c.item /\ c.nptr = NULL
    <3>1. node'[F[n]].child = q /\ node[n].child = k
      BY <1>5, <1>6, <1>13, <2>2
    <3> QED BY <1>13, <1>14, <2>1, <3>1 DEF Stands
  <2>3. CASE ~(n = c.item /\ c.nptr = NULL)
    <3>1. node'[F[n]].child = node[F[n]].child
      <4>1. F[n] = a => c.nptr # NULL
        BY <1>5, <1>13, <1>15, <2>3
      <4> QED BY <1>5, <1>6, <1>15, <4>1
    <3>2. CASE Stands(D, F, node[n].child, node[F[n]].child)
      BY <2>1, <3>1, <3>2
    <3>3. CASE \E i \in 1 .. L + 1 : copies[i].item = n /\ copies[i].nptr = NULL
      <4>1. PICK i \in 1 .. L + 1 : copies[i].item = n /\ copies[i].nptr = NULL
        BY <3>3
      <4>2. CASE i \in 1 .. L - 1
        BY <1>5, <1>8, <4>1, <4>2
      <4>3. CASE i = L
        BY <1>5, <2>3, <4>1, <4>3
      <4>4. CASE i = L + 1
        <5>1. n = k /\ c1.nptr = NULL
          BY <1>9, <1>12, <4>1, <4>4
        <5> QED BY <1>13, <1>20, <2>1, <3>1, <5>1 DEF Stands
      <4> QED BY <1>8, <4>2, <4>3, <4>4
    <3> QED BY <1>5, <1>7, <3>2, <3>3 DEF LinkedUp
  <2> QED BY <2>2, <2>3
<1>22. ASSUME NEW n \in D \ {x}
       PROVE  \/ Stands(D, F, node'[n].next, node'[F[n]].next)
              \/ \E i \in 1 .. L : copies'[i].item = n \/ copies'[i].nptr = F[n]
  <2>1. node'[n] = node[n]
    BY <1>11, <1>17
  <2>2. CASE F[n] = c.nptr
    <3>1. c.nptr # NULL
      BY <1>11, <1>15, <2>2
    <3>2. PICK p \in D \ {x} : F[p] = c.nptr /\ node[p].next = k
      BY <1>13, <3>1
    <3>3. p = n
      BY <1>15, <2>2, <3>2
    <3>4. node'[F[n]].next = q
      BY <1>5, <1>6, <2>2, <3>1
    <3> QED BY <1>13, <1>14, <2>1, <3>2, <3>3, <3>4 DEF Stands
  <2>3. CASE F[n] # c.nptr
    <3>1. node'[F[n]].next = node[F[n]].next
      <4>1. F[n] = a => c.nptr = NULL
        BY <1>5, <2>3
      <4> QED BY <1>5, <1>6, <1>15, <4>1
    <3>2. CASE Stands(D, F, node[n].next, node[F[n]].next)
      BY <2>1, <3>1, <3>2
    <3>3. CASE \E i \in 1 .. L + 1 : copies[i].item = n \/ copies[i].nptr = F[n]
      <4>1. PICK i \in 1 .. L + 1 : copies[i].item = n \/ copies[i].nptr = F[n]
        BY <3>3
      <4>2. CASE i \in 1 .. L - 1
        BY <1>5, <1>8, <4>1, <4>2
      <4>3. CASE i = L
        BY <1>5, <1>8, <2>3, <4>1, <4>3
      <4>4. CASE i = L + 1 /\ copies[i].item = n
        <5>1. n = k
          BY <1>9, <1>12, <4>4
        <5> QED BY <1>5, <1>8, <1>13, <5>1
      <4>5. CASE i = L + 1 /\ copies[i].nptr = F[n]
        <5>1. c1.nptr = F[n] /\ c1.nptr # NULL
          BY <1>9, <1>11, <1>15, <4>5
        <5>2. PICK p \in D \ {x} : F[p] = c1.nptr /\ node[p].next = NULL
          BY <1>13, <5>1
        <5>3. p = n
          BY <1>15, <5>1, <5>2
        <5> QED BY <1>20, <2>1, <3>1, <5>1, <5>2, <5>3 DEF Stands
      <4> QED BY <1>8, <4>1, <4>2, <4>3, <4>4, <4>5
    <3> QED BY <1>5, <1>7, <3>2, <3>3 DEF LinkedUp
  <2> QED BY <2>2, <2>3
<1>23. LinkedUp(D, F, x)'
  BY <1>5, <1>21, <1>22 DEF LinkedUp
<1>24. ASSUME NEW i \in 1 .. L
       PROVE  At(D, F, x, i)'
  <2>1. CASE i = L
    <3>1. node'[k] = node[k] /\ node'[c.item] = node[c.item]
      BY <1>11, <1>13, <1>17
    <3>2. e.nptr # NULL /\ e.cptr = node[k].next /\ e.cptr \notin D
      BY <1>5, <1>11, <1>13, <1>14
    <3>3. k \in D \ {x} /\ F[k] = e.nptr /\ node'[k].next = e.cptr
      BY <1>5, <1>13, <1>14, <3>1, <3>2
    <3> QED BY <1>5, <1>13, <2>1, <3>1, <3>2, <3>3 DEF At
  <2>2. CASE i \in 1 .. L - 1
    <3>1. PICK ci : ci = copies[i] /\ ci = copies'[i]
      BY <1>5, <2>2
    <3>2. At(D, F, x, i)
      BY <1>7, <1>8, <2>2
    <3>3. ci.cptr = copies[i + 1].item
      BY <1>5, <1>8, <2>2, <3>1, <3>2 DEF At
    <3>4. copies'[i + 1].item = copies[i + 1].item
      BY <1>5, <1>8, <2>2
    <3>5. ci.item \in D /\ F[ci.item] = ci.newitem /\ node'[ci.item] = node[ci.item]
      BY <1>11, <1>17, <3>1, <3>2 DEF At
    <3>6. IF ci.nptr = NULL THEN ci.cptr = node'[ci.item].child
          ELSE \E p \in D \ {x} : F[p] = ci.nptr /\ node'[p].next = ci.cptr
      BY <1>11, <1>17, <3>1, <3>2, <3>5 DEF At
    <3>7. ci.item # x => node'[ci.item].next \notin D
      BY <3>1, <3>2, <3>5 DEF At
    <3>8. i # L
      BY <1>8, <2>2
    <3> QED BY <1>5, <3>1, <3>3, <3>4, <3>5, <3>6, <3>7, <3>8 DEF At
  <2> QED BY <1>8, <2>1, <2>2
<1>25. copies'[1].item = x
  <2>1. 1 = L \/ 1 \in 1 .. L - 1
    OBVIOUS
  <2> QED BY <1>5, <1>7, <2>1
<1>26. Halfway(T, D, F, x)'
  BY <1>5, <1>18, <1>19, <1>23, <1>24, <1>25 DEF Halfway
<1> QED BY <1>4, <1>26 DEF CopyInv

\* Nothing else copies.
LEMMA CopyInvNext ==
  ASSUME TreeInv, Once, CopyInv, [Next]_vars
  PROVE  CopyInv'
<1>1. ASSUME stage # "copy", UNCHANGED copies PROVE CopyInv'
  <2>1. copies = <<>>
    BY <1>1 DEF TreeInv, Phases
  <2> QED BY <1>1, <2>1 DEF CopyInv
<1>2. CASE Parse
  <2>1. stage # "copy" /\ UNCHANGED copies
    BY <1>2 DEF Parse, ParseBegins, ParseValue, ParseOpens, ParseNext, ParseName, ParseCloses,
                ParseEnds, ParseFails, copier
  <2> QED BY <1>1, <2>1
<1>3. CASE Use
  <2>1. stage # "copy" /\ UNCHANGED copies
    BY <1>3 DEF Use, LoadChildObject, LoadChildArray, LoadChildObjectFromChildArrayByIndex,
                ReleaseChild, PutValueString, DeletesObject, FreeAll, Ready, copier
  <2> QED BY <1>1, <2>1
<1>4. CASE CopyBegins
  BY <1>4, CopyBeginsInv
<1>5. CASE CopyCalls
  BY <1>5, CopyCallsInv
<1>6. CASE CopyReturns
  BY <1>6, CopyReturnsInv
<1>7. CASE CopyEnds \/ CopyFails
  <2>1. copies' = <<>>
    BY <1>7 DEF CopyEnds, CopyFails
  <2> QED BY <2>1 DEF CopyInv
<1>8. CASE UNCHANGED vars
  <2>1. UNCHANGED <<node, live, copies>>
    BY <1>8 DEF vars, heap, copier
  <2>2. ASSUME NEW T, NEW D, NEW F, NEW x, Halfway(T, D, F, x) PROVE Halfway(T, D, F, x)'
    <3>1. Whole(T, x)' /\ Made(T, D, F, x)'
      BY <2>1, <2>2 DEF Halfway, Whole, Made
    <3>2. LinkedUp(D, F, x)' /\ \A i \in 1 .. Len(copies') : At(D, F, x, i)'
      BY <2>1, <2>2 DEF Halfway, LinkedUp, At
    <3> QED BY <2>1, <2>2, <3>1, <3>2 DEF Halfway
  <2> QED BY <2>1, <2>2 DEF CopyInv
<1> QED BY <1>2, <1>3, <1>4, <1>5, <1>6, <1>7, <1>8 DEF Next, Copy

\* D is all of a tree, and F makes the copy of it.
Mirrored(D, F, a, b) ==
  /\ a \in D /\ F[a] = b /\ D \subseteq live
  /\ \A n \in D : F[n] \in live /\ Alike(node[n], node[F[n]])
                  /\ Stands(D, F, node[n].child, node[F[n]].child)
                  /\ node[n].child # a
  /\ \A n \in D \ {a} : Stands(D, F, node[n].next, node[F[n]].next) /\ node[n].next # a

\* When all calls but the first have returned, and that has nothing left to do, all is copied.
LEMMA AllIsCopied ==
  ASSUME TreeInv, CopyInv, stage = "copy", Len(copies) = 1, Calling.cptr = NULL
  PROVE  \E D \in SUBSET Nodes, F \in [Nodes -> Nodes] :
           Mirrored(D, F, Calling.item, Calling.newitem)
<1>1. copies # <<>> /\ Calling = copies[1]
  BY WhileCopying
<1>2. PICK c \in Called : c = copies[1] /\ c = Calling
  <2>1. copies[1] \in Called
    BY WhileCopying
  <2> QED BY <1>1, <2>1
<1>3. PICK T \in SUBSET Nodes, D \in SUBSET Nodes, F \in [Nodes -> Nodes], x \in Nodes :
        Halfway(T, D, F, x)
  BY <1>1 DEF CopyInv
<1>4. 1 \in 1 .. 1 /\ \A i \in 1 .. 1 : i = 1
  OBVIOUS
<1>5. c.item = x /\ Whole(T, x) /\ Made(T, D, F, x) /\ LinkedUp(D, F, x) /\ At(D, F, x, 1)
  BY <1>2, <1>3, <1>4 DEF Halfway
<1>6. /\ x \in D /\ F[x] = c.newitem /\ c.cptr = NULL
      /\ c.nptr = NULL => node[x].child = NULL
      /\ c.nptr # NULL => \E p \in D \ {x} : F[p] = c.nptr /\ node[p].next = NULL
  BY <1>2, <1>5 DEF At
<1>7. /\ c.nptr = NULL => node[c.newitem].child = NULL
      /\ c.nptr # NULL => node[c.nptr].next = NULL
  BY <1>2, <1>4 DEF TreeInv, Copying
<1>8. /\ D \subseteq live /\ NULL \notin Nodes
      /\ \A n \in D : F[n] \in live /\ F[n] \in Nodes /\ Alike(node[n], node[F[n]])
      /\ \A m, n \in D : F[m] = F[n] => m = n
      /\ \A n \in D : node[n].child # x /\ (n # x => node[n].next # x)
  BY <1>3, <1>5, NodesAre DEF Made, Whole
<1>9. ASSUME NEW n \in D PROVE Stands(D, F, node[n].child, node[F[n]].child)
  <2>1. CASE n = x /\ c.nptr = NULL
    BY <1>6, <1>7, <2>1 DEF Stands
  <2>2. CASE ~(n = x /\ c.nptr = NULL)
    BY <1>2, <1>4, <1>5, <2>2 DEF LinkedUp
  <2> QED BY <2>1, <2>2
<1>10. ASSUME NEW n \in D \ {x} PROVE Stands(D, F, node[n].next, node[F[n]].next)
  <2>1. CASE c.nptr = F[n]
    <3>1. c.nptr # NULL
      BY <1>8, <2>1
    <3>2. node[n].next = NULL
      BY <1>6, <1>8, <2>1, <3>1
    <3> QED BY <1>7, <2>1, <3>1, <3>2 DEF Stands
  <2>2. CASE c.nptr # F[n]
    BY <1>2, <1>4, <1>5, <2>2 DEF LinkedUp
  <2> QED BY <2>1, <2>2
<1>11. Mirrored(D, F, x, c.newitem)
  BY <1>6, <1>8, <1>9, <1>10 DEF Mirrored
<1> QED BY <1>2, <1>3, <1>5, <1>11

\* It is the same tree then.
LEMMA MirroredSame ==
  ASSUME TreeTypes, NEW D \in SUBSET Nodes, NEW F \in [Nodes -> Nodes], NEW a, NEW b,
         Mirrored(D, F, a, b), node[b].next = NULL
  PROVE  SameTree(a, b)
<1>1. /\ a \in D /\ F[a] = b /\ a \in Nodes /\ b \in Nodes /\ NULL \notin Nodes
      /\ \A n \in D : /\ F[n] \in Nodes /\ Alike(node[n], node[F[n]])
                      /\ Stands(D, F, node[n].child, node[F[n]].child) /\ node[n].child # a
                      /\ n # a => Stands(D, F, node[n].next, node[F[n]].next) /\ node[n].next # a
  BY NodesAre DEF Mirrored
<1>2. PICK B : B = Below(node[a].child)
  OBVIOUS
<1>3. PICK C : C = Below(node[b].child)
  OBVIOUS
<1>4. Reached(node, node[a].child, B) /\ Reached(node, node[b].child, C)
  BY <1>1, <1>2, <1>3, TypesJoined, BelowReached DEF Joined
<1>5. Tree(a) = {a} \cup B /\ Tree(b) = {b} \cup C
  BY <1>2, <1>3 DEF Tree
<1> DEFINE Y == {n \in D \ {a} : F[n] \in C}
<1>6. B \subseteq Y
  <2>1. {node[a].child} \ {NULL} \subseteq Y
    <3> SUFFICES ASSUME node[a].child # NULL PROVE node[a].child \in Y
      OBVIOUS
    <3>1. node[a].child \in D \ {a} /\ F[node[a].child] = node[b].child
      BY <1>1 DEF Stands
    <3>2. node[b].child # NULL
      BY <1>1, <3>1
    <3> QED BY <1>4, <3>1, <3>2 DEF Reached
  <2>2. Closed(node, Y)
    <3> SUFFICES ASSUME NEW n \in Y, NEW m \in {node[n].child, node[n].next}, m # NULL
                 PROVE  m \in Y
      BY DEF Closed
    <3>1. m \in D \ {a} /\ F[m] \in {node[F[n]].child, node[F[n]].next} /\ F[m] # NULL
      BY <1>1 DEF Stands
    <3>2. F[n] \in C
      OBVIOUS
    <3>3. F[m] \in C
      BY <1>4, <3>1, <3>2 DEF Reached, Closed
    <3> QED BY <3>1, <3>3
  <2> HIDE DEF Y
  <2> QED BY <1>4, <2>1, <2>2 DEF Reached
<1>7. PICK f : f = [n \in Tree(a) |-> F[n]]
  OBVIOUS
<1>8. Tree(a) \subseteq D
  BY <1>1, <1>5, <1>6
<1>9. f \in [Tree(a) -> Tree(b)]
  BY <1>1, <1>5, <1>6, <1>7
<1>10. /\ \A n \in Tree(a) : node[n].child \in Tree(a) \cup {NULL}
       /\ \A n \in Tree(a) \ {a} : node[n].next \in Tree(a) \cup {NULL}
  BY <1>4, <1>5 DEF Reached, Closed
<1> DEFINE I(g, m) == IF m = NULL THEN NULL ELSE g[m]
<1>11. ASSUME NEW n \in Tree(a)
       PROVE  /\ node[f[n]] = [node[n] EXCEPT !.child = I(f, node[n].child),
                                              !.next = node[f[n]].next]
              /\ n # a => node[f[n]].next = I(f, node[n].next)
  <2>1. f[n] = F[n] /\ n \in D
    BY <1>7, <1>8
  <2>2. node[F[n]].child = I(f, node[n].child)
    BY <1>1, <1>7, <1>10, <2>1 DEF Stands
  <2>3. n # a => node[F[n]].next = I(f, node[n].next)
    BY <1>1, <1>7, <1>10, <2>1 DEF Stands
  <2>4. PICK y \in Cells, z \in Cells : y = node[n] /\ z = node[F[n]]
    BY <1>1, <2>1 DEF TreeTypes
  <2>5. Alike(y, z)
    BY <1>1, <2>1, <2>4
  <2>6. z = [y EXCEPT !.child = z.child, !.next = z.next]
    BY <2>4, <2>5 DEF Cells, Alike
  <2> QED BY <2>1, <2>2, <2>3, <2>4, <2>6
<1>12. f[a] = b
  BY <1>1, <1>5, <1>7
<1> QED BY <1>9, <1>11, <1>12 DEF SameTree

\* So the copy is faithful (cJSON_Duplicate, cJSON.cpp:714-730).
LEMMA CopyFaithful ==
  ASSUME TreeInv, CopyInv
  PROVE  CopyIsFaithful
<1> SUFFICES ASSUME stage = "copy", Len(copies) = 1, Calling.cptr = NULL
             PROVE  SameTree(Calling.item, Calling.newitem)
  BY DEF CopyIsFaithful
<1>1. PICK D \in SUBSET Nodes, F \in [Nodes -> Nodes] :
        Mirrored(D, F, Calling.item, Calling.newitem)
  BY AllIsCopied
<1>2. node[Calling.newitem].next = NULL
  <2>1. Calling = copies[1] /\ 1 \in 1 .. Len(copies)
    BY WhileCopying
  <2> QED BY <2>1 DEF TreeInv, Copying
<1> QED BY <1>1, <1>2, MirroredSame DEF TreeInv

-----------------------------------------------------------------------------
(* Lists of children                                                       *)

\* From n, next leads through s.
Lists(h, n, s) ==
  /\ s \in Seq(Nodes)
  /\ Len(s) = 0 <=> n = NULL
  /\ Len(s) # 0 => s[1] = n /\ h[s[Len(s)]].next = NULL
  /\ \A i \in 1 .. Len(s) - 1 : h[s[i]].next = s[i + 1]

\* What next leads through from a node of a closed set is in that set.
LEMMA ListsIn ==
  ASSUME NEW h, NEW n, NEW s, Lists(h, n, s), NEW S, n \in S \cup {NULL},
         \A m \in S : h[m].next \in S \cup {NULL}
  PROVE  \A i \in 1 .. Len(s) : s[i] \in S
<1>1. NULL \notin Nodes /\ Len(s) \in Nat /\ \A i \in 1 .. Len(s) : s[i] \in Nodes
  BY NodesAre, LenProperties, ElementOfSeq DEF Lists
<1>2. PICK L \in Nat : L = Len(s)
  BY <1>1
<1> DEFINE T == {i \in Nat : i + 1 <= L => s[i + 1] \in S}
<1>3. 0 \in T
  BY <1>1, <1>2 DEF Lists
<1>4. ASSUME NEW i \in Nat, i \in T PROVE i + 1 \in T
  <2> SUFFICES ASSUME (i + 1) + 1 <= L PROVE s[(i + 1) + 1] \in S
    OBVIOUS
  <2>1. i + 1 \in 1 .. L - 1 /\ (i + 1) + 1 \in 1 .. L /\ i + 1 <= L
    OBVIOUS
  <2>2. s[i + 1] \in S /\ h[s[i + 1]].next = s[(i + 1) + 1] /\ s[(i + 1) + 1] \in Nodes
    BY <1>1, <1>2, <1>4, <2>1 DEF Lists
  <2> QED BY <1>1, <2>2
<1>5. Nat \subseteq T
  <2> HIDE DEF T
  <2> QED BY <1>3, <1>4, Induction
<1>6. \A i \in 1 .. L : i - 1 \in Nat /\ (i - 1) + 1 = i /\ (i - 1) + 1 <= L
  OBVIOUS
<1>7. \A i \in 1 .. L : s[(i - 1) + 1] \in S
  BY <1>5, <1>6
<1> QED BY <1>2, <1>6, <1>7

\* What one list has in a place another has too.
LEMMA ListsSame ==
  ASSUME NEW h, NEW n, NEW s, NEW t, Lists(h, n, s), Lists(h, n, t)
  PROVE  Len(s) <= Len(t) /\ \A i \in 1 .. Len(s) : s[i] = t[i]
<1>1. /\ NULL \notin Nodes /\ Len(s) \in Nat /\ \A i \in 1 .. Len(s) : s[i] \in Nodes
      /\ Len(t) \in Nat
  BY NodesAre, LenProperties, ElementOfSeq DEF Lists
<1>2. PICK L \in Nat, M \in Nat : L = Len(s) /\ M = Len(t)
  BY <1>1
<1> DEFINE T == {i \in Nat : i + 1 <= L => i + 1 <= M /\ s[i + 1] = t[i + 1]}
<1>3. 0 \in T
  BY <1>1, <1>2 DEF Lists
<1>4. ASSUME NEW i \in Nat, i \in T PROVE i + 1 \in T
  <2> SUFFICES ASSUME (i + 1) + 1 <= L
               PROVE  (i + 1) + 1 <= M /\ s[(i + 1) + 1] = t[(i + 1) + 1]
    OBVIOUS
  <2>1. i + 1 \in 1 .. L - 1 /\ (i + 1) + 1 \in 1 .. L /\ i + 1 <= L
    OBVIOUS
  <2>2. s[i + 1] = t[i + 1] /\ i + 1 <= M
    BY <1>4, <2>1
  <2>3. h[s[i + 1]].next = s[(i + 1) + 1] /\ s[(i + 1) + 1] # NULL
    BY <1>1, <1>2, <2>1 DEF Lists
  <2>4. i + 1 # M
    <3> SUFFICES ASSUME i + 1 = M PROVE FALSE
      OBVIOUS
    <3>1. h[t[M]].next = NULL
      BY <1>2 DEF Lists
    <3> QED BY <2>2, <2>3, <3>1
  <2>5. i + 1 \in 1 .. M - 1 /\ (i + 1) + 1 <= M
    BY <2>2, <2>4
  <2>6. h[t[i + 1]].next = t[(i + 1) + 1]
    BY <1>2, <2>5 DEF Lists
  <2> QED BY <2>2, <2>3, <2>5, <2>6
<1>5. Nat \subseteq T
  <2> HIDE DEF T
  <2> QED BY <1>3, <1>4, Induction
<1>6. \A i \in 1 .. L : i - 1 \in Nat /\ (i - 1) + 1 = i /\ (i - 1) + 1 <= L
  OBVIOUS
<1>7. \A i \in 1 .. L : i <= M /\ s[i] = t[i]
  BY <1>5, <1>6
<1>8. L <= M
  BY <1>7
<1> QED BY <1>2, <1>7, <1>8

\* There is one such list.
LEMMA ListsOnce ==
  ASSUME NEW h, NEW n, NEW s, NEW t, Lists(h, n, s), Lists(h, n, t)
  PROVE  s = t
<1>1. Len(s) <= Len(t) /\ \A i \in 1 .. Len(s) : s[i] = t[i]
  BY ListsSame
<1>4. Len(t) <= Len(s)
  BY ListsSame
<1>5. s \in Seq(Nodes) /\ t \in Seq(Nodes)
  BY DEF Lists
<1>2. Len(s) \in Nat /\ Len(t) \in Nat
  BY <1>5, LenProperties
<1>3. Len(s) = Len(t)
  BY <1>1, <1>2, <1>4
<1> QED BY <1>1, <1>3, <1>5, SeqEqual

\* A list is there still when no next of it changes.
LEMMA ListsStill ==
  ASSUME NEW h, NEW g, NEW n, NEW s, Lists(h, n, s),
         \A i \in 1 .. Len(s) : g[s[i]].next = h[s[i]].next
  PROVE  Lists(g, n, s)
<1>1. Len(s) \in Nat
  BY LenProperties DEF Lists
<1>2. Len(s) # 0 => Len(s) \in 1 .. Len(s)
  BY <1>1
<1>3. \A i \in 1 .. Len(s) - 1 : i \in 1 .. Len(s)
  BY <1>1
<1> QED BY <1>2, <1>3 DEF Lists

\* The children of a node are a list: next, which leads to no node twice, ends within so many
\* steps as there are nodes.
LEMMA ChildrenListed ==
  ASSUME TreeInv, Once, NEW p \in live
  PROVE  Lists(node, node[p].child, Children(p))
<1>1. /\ Joined(node) /\ p \in Nodes /\ node[p].child \in Pointers /\ NULL \notin Nodes
      /\ live \subseteq Nodes
      /\ \A n \in live : {node[n].child, node[n].next} \subseteq live \cup {NULL}
  BY TypesJoined, HeldAreNodes, InTrees, NodesAre DEF TreeInv, TreeTypes, Joined
<1>2. PICK f : /\ Follows(f, node[p].child)
               /\ Chain(node[p].child) =
                  [k \in 1 .. Cardinality({i \in 1 .. 2 * DocSize : f[i - 1] # NULL}) |-> f[k - 1]]
  BY <1>1, ChainIs
<1>3. /\ f \in [Nat -> Pointers] /\ f[0] = node[p].child
      /\ \A k \in Nat : f[k + 1] = IF f[k] = NULL THEN NULL ELSE node[f[k]].next
  BY <1>2 DEF Follows
<1> DEFINE V == {k \in Nat : f[k] \in live \cup {NULL}}
<1>4. \A k \in Nat : f[k] \in live \cup {NULL}
  <2>1. 0 \in V
    BY <1>1, <1>3
  <2>2. ASSUME NEW k \in Nat, k \in V PROVE k + 1 \in V
    BY <1>1, <1>3, <2>2
  <2>3. Nat \subseteq V
    <3> HIDE DEF V
    <3> QED BY <2>1, <2>2, Induction
  <2> QED BY <2>3
<1> DEFINE W == {i \in Nat : \E j \in Nat : i < j /\ f[i] # NULL /\ f[i] = f[j]}
<1>5. W = {}
  <2> SUFFICES ASSUME W # {} PROVE FALSE
    OBVIOUS
  <2>1. PICK i \in W : \A m \in W : ~(m < i)
    <3>1. W \in SUBSET Nat
      OBVIOUS
    <3> HIDE DEF W
    <3> QED BY <3>1, LeastNatural
  <2>2. PICK j \in Nat : i \in Nat /\ i < j /\ f[i] # NULL /\ f[i] = f[j]
    BY <2>1
  <2>3. j - 1 \in Nat /\ (j - 1) + 1 = j
    BY <2>2
  <2>4. f[j - 1] # NULL /\ f[j] = node[f[j - 1]].next /\ f[j - 1] \in live
    <3>1. f[(j - 1) + 1] = IF f[j - 1] = NULL THEN NULL ELSE node[f[j - 1]].next
      BY <1>3, <2>3
    <3> QED BY <1>4, <2>2, <2>3, <3>1
  <2>5. CASE i = 0
    BY <1>3, <2>2, <2>4, <2>5 DEF Once
  <2>6. CASE i # 0
    <3>1. i - 1 \in Nat /\ (i - 1) + 1 = i /\ i - 1 < j - 1 /\ i - 1 < i
      BY <2>2, <2>3, <2>6
    <3>2. f[i - 1] # NULL /\ f[i] = node[f[i - 1]].next /\ f[i - 1] \in live
      <4>1. f[(i - 1) + 1] = IF f[i - 1] = NULL THEN NULL ELSE node[f[i - 1]].next
        BY <1>3, <3>1
      <4> QED BY <1>4, <2>2, <3>1, <4>1
    <3>3. f[i - 1] = f[j - 1]
      BY <2>2, <2>4, <3>2 DEF Once
    <3>4. i - 1 \in W
      BY <2>3, <3>1, <3>2, <3>3
    <3> QED BY <2>1, <3>1, <3>4
  <2> QED BY <2>5, <2>6
<1>6. PICK M \in Nat : M = 2 * DocSize /\ M = Cardinality(Nodes) /\ IsFiniteSet(Nodes)
  BY NodesAre
<1> DEFINE Z == {k \in Nat : f[k] = NULL}
<1>7. \E k \in 0 .. M : k \in Z
  <2> SUFFICES ASSUME \A k \in 0 .. M : f[k] # NULL PROVE FALSE
    OBVIOUS
  <2>1. PICK g : g = [k \in 0 .. M |-> f[k]]
    OBVIOUS
  <2>2. g \in [0 .. M -> Nodes]
    BY <1>3, <2>1 DEF Pointers
  <2>3. IsFiniteSet(0 .. M) /\ Cardinality(0 .. M) = M + 1
    <3>1. 0 \in Int /\ M \in Int /\ ~(0 > M) /\ M - 0 + 1 = M + 1
      OBVIOUS
    <3>2. IsFiniteSet(0 .. M) /\ Cardinality(0 .. M) = IF 0 > M THEN 0 ELSE M - 0 + 1
      BY <3>1, FS_Interval
    <3> QED BY <3>1, <3>2
  <2>4. Cardinality(Nodes) < Cardinality(0 .. M)
    BY <1>6, <2>3
  <2>5. PICK a \in 0 .. M, b \in 0 .. M : a # b /\ g[a] = g[b]
    BY <1>6, <2>2, <2>3, <2>4, FS_PigeonHole
  <2>6. a \in Nat /\ b \in Nat /\ (a < b \/ b < a) /\ f[a] = f[b] /\ f[a] # NULL
    BY <2>1, <2>5
  <2>7. a \in W \/ b \in W
    BY <2>6
  <2> QED BY <1>5, <2>7
<1>8. PICK N \in Z : \A m \in Z : ~(m < N)
  <2>1. Z \in SUBSET Nat /\ Z # {}
    BY <1>7
  <2> HIDE DEF Z
  <2> QED BY <2>1, LeastNatural
<1>9. /\ N \in Nat /\ f[N] = NULL /\ N <= M
      /\ \A k \in Nat : k < N => f[k] \in Nodes
  <2>1. N \in Nat /\ f[N] = NULL /\ N <= M
    BY <1>7, <1>8
  <2>2. \A k \in Nat : k < N => f[k] # NULL
    BY <1>8
  <2> QED BY <1>3, <2>1, <2>2 DEF Pointers
<1> DEFINE U == {k \in Nat : k >= N => f[k] = NULL}
<1>10. \A k \in Nat : k >= N => f[k] = NULL
  <2>1. 0 \in U
    BY <1>9
  <2>2. ASSUME NEW k \in Nat, k \in U PROVE k + 1 \in U
    <3>1. CASE k >= N
      BY <1>3, <2>2, <3>1
    <3>2. CASE ~(k >= N)
      <4>1. k + 1 >= N => k + 1 = N
        BY <1>9, <3>2
      <4> QED BY <1>9, <4>1
    <3> QED BY <3>1, <3>2
  <2>3. Nat \subseteq U
    <3> HIDE DEF U
    <3> QED BY <2>1, <2>2, Induction
  <2> QED BY <2>3
<1>11. {i \in 1 .. 2 * DocSize : f[i - 1] # NULL} = 1 .. N
  <2>1. \A i \in 1 .. M : i - 1 \in Nat /\ (i - 1 < N <=> i <= N) /\ (i - 1 >= N \/ i - 1 < N)
    BY <1>9
  <2>2. \A i \in 1 .. M : f[i - 1] # NULL <=> i <= N
    BY <1>1, <1>9, <1>10, <2>1
  <2>3. \A i : i \in 1 .. N <=> i \in 1 .. M /\ i <= N
    BY <1>9
  <2> QED BY <1>6, <2>2, <2>3
<1>12. Cardinality(1 .. N) = N
  <2>1. 1 \in Int /\ N \in Int
    BY <1>9
  <2>2. Cardinality(1 .. N) = IF 1 > N THEN 0 ELSE N - 1 + 1
    BY <2>1, FS_Interval
  <2> QED BY <1>9, <2>2
<1>13. PICK s : s = [k \in 1 .. N |-> f[k - 1]] /\ s = Children(p)
  BY <1>2, <1>11, <1>12 DEF Children
<1> HIDE DEF U, V, W, Z
<1>14. \A k \in 1 .. N : k - 1 \in Nat /\ k - 1 < N /\ s[k] = f[k - 1]
  BY <1>9, <1>13
<1>15. s \in Seq(Nodes) /\ Len(s) = N
  <2>1. s \in [1 .. N -> Nodes]
    BY <1>9, <1>13, <1>14
  <2>2. s \in Seq(Nodes)
    BY <1>9, <2>1, SeqDef
  <2> QED BY <1>9, <2>1, <2>2, LenProperties
<1>16. N # 0 => s[1] = node[p].child /\ node[s[N]].next = NULL
  <2> SUFFICES ASSUME N # 0 PROVE s[1] = node[p].child /\ node[s[N]].next = NULL
    OBVIOUS
  <2>1. 1 \in 1 .. N /\ 1 - 1 = 0 /\ N \in 1 .. N /\ N - 1 \in Nat /\ (N - 1) + 1 = N /\ N - 1 < N
    BY <1>9
  <2>2. s[1] = f[0] /\ s[N] = f[N - 1] /\ f[N - 1] \in Nodes
    BY <1>9, <1>14, <2>1
  <2>3. f[(N - 1) + 1] = node[f[N - 1]].next
    BY <1>1, <1>3, <2>1, <2>2
  <2> QED BY <1>3, <1>9, <2>1, <2>2, <2>3
<1>17. N = 0 <=> node[p].child = NULL
  <2>1. N = 0 => f[0] = NULL
    BY <1>9
  <2>2. N # 0 => f[0] \in Nodes
    BY <1>9
  <2> QED BY <1>1, <1>3, <2>1, <2>2
<1>18. \A i \in 1 .. N - 1 : node[s[i]].next = s[i + 1]
  <2> SUFFICES ASSUME NEW i \in 1 .. N - 1 PROVE node[s[i]].next = s[i + 1]
    OBVIOUS
  <2>1. /\ i \in 1 .. N /\ i + 1 \in 1 .. N /\ i - 1 \in Nat /\ (i - 1) + 1 = i /\ i - 1 < N
        /\ (i + 1) - 1 = i
    BY <1>9
  <2>2. s[i] = f[i - 1] /\ s[i + 1] = f[i] /\ f[i - 1] \in Nodes
    BY <1>9, <1>14, <2>1
  <2>3. f[(i - 1) + 1] = node[f[i - 1]].next
    BY <1>1, <1>3, <2>1, <2>2
  <2> QED BY <2>1, <2>2, <2>3
<1> QED BY <1>13, <1>15, <1>16, <1>17, <1>18 DEF Lists

-----------------------------------------------------------------------------
(* What is read of a list                                                   *)

-----------------------------------------------------------------------------
(* What a list says of a name                                              *)

\* A node is of that name, in whichever case; and what is read of it.
Named(h, n, l) == h[n].string # NULL /\ h[n].string[1] = l
Value(h, n) == <<h[n].type, h[n].valuestring>>

\* v is what the first of that name, among the first k of s, has; or NULL if there is none.
Finds(h, s, k, l, v) ==
  IF v = NULL THEN \A i \in 1 .. k : ~Named(h, s[i], l)
  ELSE \E i \in 1 .. k : /\ Named(h, s[i], l) /\ v = Value(h, s[i])
                         /\ \A j \in 1 .. i - 1 : ~Named(h, s[j], l)

\* No value is NULL.
LEMMA ValueIs ==
  ASSUME TreeTypes, NEW n \in Nodes
  PROVE  /\ node[n].type \in Types \cup {"false", "junk"}
         /\ node[n].valuestring \in Texts \cup {NULL}
         /\ Value(node, n) # NULL
<1>1. PICK c \in Cells : c = node[n]
  BY DEF TreeTypes
<1>2. c.type \in Types \cup {"false", "junk"} /\ c.valuestring \in Texts \cup {NULL}
  BY DEF Cells
<1>3. <<c.type, c.valuestring>> \in (Types \cup {"false", "junk"}) \X (Texts \cup {NULL})
  BY <1>2
<1>4. <<c.type, c.valuestring>> # NULL
  BY <1>3, JsonAssumption
<1> QED BY <1>1, <1>2, <1>4 DEF Value

\* There is one such value.
LEMMA FindsOnce ==
  ASSUME NEW h, NEW s, NEW k \in Nat, NEW l, NEW v, NEW w,
         Finds(h, s, k, l, v), Finds(h, s, k, l, w)
  PROVE  v = w
<1>1. CASE v = NULL \/ w = NULL
  BY <1>1 DEF Finds
<1>2. CASE v # NULL /\ w # NULL
  <2>1. PICK i \in 1 .. k : /\ Named(h, s[i], l) /\ v = Value(h, s[i])
                            /\ \A j \in 1 .. i - 1 : ~Named(h, s[j], l)
    BY <1>2 DEF Finds
  <2>2. PICK m \in 1 .. k : /\ Named(h, s[m], l) /\ w = Value(h, s[m])
                            /\ \A j \in 1 .. m - 1 : ~Named(h, s[j], l)
    BY <1>2 DEF Finds
  <2>3. i = m \/ i \in 1 .. m - 1 \/ m \in 1 .. i - 1
    OBVIOUS
  <2> QED BY <2>1, <2>2, <2>3
<1> QED BY <1>1, <1>2

\* Look-up finds the first.
LEMMA ItemIs ==
  ASSUME NEW p, NEW name, NEW s, s = Children(p), s \in Seq(Nodes)
  PROVE  \/ /\ GetObjectItem(p, name) = NULL
            /\ \A i \in 1 .. Len(s) : ~Named(node, s[i], name[1])
         \/ \E i \in 1 .. Len(s) : /\ GetObjectItem(p, name) = s[i] /\ Named(node, s[i], name[1])
                                   /\ \A j \in 1 .. i - 1 : ~Named(node, s[j], name[1])
<1>1. PICK T : T = {i \in 1 .. Len(s) : Same(node[s[i]].string, name)}
  OBVIOUS
<1>2. GetObjectItem(p, name) = LET i == IF T # {} THEN Min(T) ELSE 0
                               IN IF i = 0 THEN NULL ELSE s[i]
  BY <1>1 DEF GetObjectItem, SelectInSeq
<1>3. \A i \in 1 .. Len(s) : i \in T <=> Named(node, s[i], name[1])
  BY <1>1 DEF Same, Named
<1>4. CASE T = {}
  BY <1>2, <1>3, <1>4
<1>5. CASE T # {}
  <2>1. Min(T) \in T /\ \A i \in T : Min(T) <= i
    <3>1. T \in SUBSET (1 .. Len(s))
      BY <1>1
    <3> QED BY <1>5, <3>1, FirstIn
  <2>2. PICK i : i = Min(T)
    OBVIOUS
  <2>3. Len(s) \in Nat
    BY LenProperties
  <2>4. i \in 1 .. Len(s) /\ i # 0 /\ Named(node, s[i], name[1])
    BY <1>1, <1>3, <2>1, <2>2, <2>3
  <2>5. \A j \in 1 .. i - 1 : j \in 1 .. Len(s) /\ ~(i <= j)
    BY <2>3, <2>4
  <2>6. \A j \in 1 .. i - 1 : ~Named(node, s[j], name[1])
    BY <1>3, <2>1, <2>2, <2>5
  <2> QED BY <1>2, <1>5, <2>2, <2>4, <2>6
<1> QED BY <1>4, <1>5

\* So what Read gives is what the first of that name has.
LEMMA ReadFinds ==
  ASSUME TreeInv, Once, NEW p \in live, NEW name
  PROVE  Finds(node, Children(p), Len(Children(p)), name[1], Read(p, name))
<1>1. PICK s \in Seq(Nodes) : s = Children(p)
  BY ChildrenListed DEF Lists
<1>2. \A i \in 1 .. Len(s) : s[i] \in Nodes /\ s[i] # NULL /\ Value(node, s[i]) # NULL
  BY ElementOfSeq, NodesAre, ValueIs DEF TreeInv
<1>3. Read(p, name) = LET m == GetObjectItem(p, name) IN IF m = NULL THEN NULL ELSE Value(node, m)
  BY DEF Read, Value
<1>4. CASE /\ GetObjectItem(p, name) = NULL
           /\ \A i \in 1 .. Len(s) : ~Named(node, s[i], name[1])
  BY <1>1, <1>3, <1>4 DEF Finds
<1>5. CASE \E i \in 1 .. Len(s) : /\ GetObjectItem(p, name) = s[i] /\ Named(node, s[i], name[1])
                                  /\ \A j \in 1 .. i - 1 : ~Named(node, s[j], name[1])
  BY <1>1, <1>2, <1>3, <1>5 DEF Finds
<1> QED BY <1>1, <1>4, <1>5, ItemIs

\* The lists of two items have no node in common.
LEMMA ListsApart ==
  ASSUME TreeInv, Once, NEW p \in live, NEW r \in live, p # r,
         NEW s, NEW t, Lists(node, node[p].child, s), Lists(node, node[r].child, t)
  PROVE  \A i \in 1 .. Len(s), j \in 1 .. Len(t) : s[i] # t[j]
<1>1. /\ \A n \in live : {node[n].child, node[n].next} \subseteq live \cup {NULL}
      /\ NULL \notin Nodes
  BY TypesJoined, HeldAreNodes, InTrees, NodesAre DEF TreeInv
<1>2. PICK L \in Nat, M \in Nat : L = Len(s) /\ M = Len(t)
  BY LenProperties DEF Lists
<1>3. (\A i \in 1 .. L : s[i] \in live) /\ (\A j \in 1 .. M : t[j] \in live)
  <2>1. /\ node[p].child \in live \cup {NULL} /\ node[r].child \in live \cup {NULL}
        /\ \A m \in live : node[m].next \in live \cup {NULL}
    BY <1>1
  <2>2. \A i \in 1 .. Len(s) : s[i] \in live
    BY <2>1, ListsIn
  <2>3. \A i \in 1 .. Len(t) : t[i] \in live
    BY <2>1, ListsIn
  <2> QED BY <1>2, <2>2, <2>3
<1>4. /\ \A i \in 1 .. L : IF i = 1 THEN s[i] = node[p].child
                           ELSE i - 1 \in 1 .. L /\ s[i] = node[s[i - 1]].next
      /\ \A j \in 1 .. M : IF j = 1 THEN t[j] = node[r].child
                           ELSE j - 1 \in 1 .. M /\ t[j] = node[t[j - 1]].next
      /\ (\A i \in 1 .. L : s[i] # NULL) /\ (\A j \in 1 .. M : t[j] # NULL)
  <2>1. \A i \in 1 .. L : i = 1 \/ (i - 1 \in 1 .. L - 1 /\ i - 1 \in 1 .. L /\ (i - 1) + 1 = i)
    OBVIOUS
  <2>2. \A i \in 1 .. M : i = 1 \/ (i - 1 \in 1 .. M - 1 /\ i - 1 \in 1 .. M /\ (i - 1) + 1 = i)
    OBVIOUS
  <2>3. \A i \in 1 .. L : IF i = 1 THEN s[i] = node[p].child
                           ELSE i - 1 \in 1 .. L /\ s[i] = node[s[i - 1]].next
    BY <1>2, <2>1 DEF Lists
  <2>4. \A j \in 1 .. M : IF j = 1 THEN t[j] = node[r].child
                           ELSE j - 1 \in 1 .. M /\ t[j] = node[t[j - 1]].next
    BY <1>2, <2>2 DEF Lists
  <2>5. live \subseteq Nodes
    BY DEF TreeInv, TreeTypes
  <2> QED BY <1>1, <1>3, <2>3, <2>4, <2>5
<1> DEFINE T == {i \in 1 .. L : \E j \in 1 .. M : s[i] = t[j]}
<1> SUFFICES ASSUME T # {} PROVE FALSE
  BY <1>2
<1>5. PICK i \in T : \A m \in T : ~(m < i)
  <2>1. T \in SUBSET Nat
    OBVIOUS
  <2> HIDE DEF T
  <2> QED BY <2>1, LeastNatural
<1>6. PICK j \in 1 .. M : i \in 1 .. L /\ s[i] = t[j]
  BY <1>5
<1>7. CASE i = 1 \/ j = 1
  BY <1>3, <1>4, <1>6, <1>7 DEF Once
<1>8. CASE i # 1 /\ j # 1
  <2>1. i - 1 \in 1 .. L /\ j - 1 \in 1 .. M /\ i - 1 < i
    BY <1>6, <1>8
  <2>2. s[i - 1] = t[j - 1]
    BY <1>3, <1>4, <1>6, <1>8, <2>1 DEF Once
  <2>3. i - 1 \in T
    BY <2>1, <2>2
  <2> QED BY <1>5, <2>1, <2>3
<1> QED BY <1>7, <1>8

-----------------------------------------------------------------------------
(* What is read of what is being parsed                                    *)

\* Where the list is the same, or one of nodes alike, so is what it says.
LEMMA FindsAlike ==
  ASSUME NEW h, NEW g, NEW s, NEW t, NEW k, NEW l, NEW v, Finds(h, s, k, l, v), k \in Nat,
         \A i \in 1 .. k : Alike(h[s[i]], g[t[i]])
  PROVE  Finds(g, t, k, l, v)
<1>1. \A i \in 1 .. k : /\ Named(h, s[i], l) <=> Named(g, t[i], l)
                        /\ Value(h, s[i]) = Value(g, t[i])
  BY DEF Alike, Named, Value
<1>2. \A i \in 1 .. k : \A j \in 1 .. i - 1 : j \in 1 .. k
  OBVIOUS
<1> QED BY <1>1, <1>2 DEF Finds

\* One node more says something only if nothing was said, and it has the name.
LEMMA FindsMore ==
  ASSUME NEW h, NEW s, NEW k \in Nat, NEW l, NEW v, Finds(h, s, k, l, v)
  PROVE  /\ v # NULL => Finds(h, s, k + 1, l, v)
         /\ v = NULL /\ ~Named(h, s[k + 1], l) => Finds(h, s, k + 1, l, v)
         /\ v = NULL /\ Named(h, s[k + 1], l) /\ Value(h, s[k + 1]) # NULL =>
              Finds(h, s, k + 1, l, Value(h, s[k + 1]))
<1>1. /\ \A i \in 1 .. k + 1 : i \in 1 .. k \/ i = k + 1
      /\ k + 1 \in 1 .. k + 1 /\ \A i \in 1 .. k : i \in 1 .. k + 1
      /\ (k + 1) - 1 = k
  OBVIOUS
<1>2. v # NULL => Finds(h, s, k + 1, l, v)
  BY <1>1 DEF Finds
<1>3. v = NULL /\ ~Named(h, s[k + 1], l) => Finds(h, s, k + 1, l, v)
  BY <1>1 DEF Finds
<1>4. v = NULL /\ Named(h, s[k + 1], l) /\ Value(h, s[k + 1]) # NULL =>
        Finds(h, s, k + 1, l, Value(h, s[k + 1]))
  BY <1>1 DEF Finds
<1> QED BY <1>2, <1>3, <1>4

-----------------------------------------------------------------------------
(* The root's children while they are parsed                               *)

\* The last of the children of top has no value yet, or not even a name.
Fresh == Len(open) = 1 /\ stage \in {"name", "value"}

\* s are the children of top: the last is where the parser is, or was before it went deeper.
\* The text has said what all of them say, but for the last while its value is to come.
Reading(s) ==
  /\ Lists(node, node[top].child, s)
  /\ Len(open) # 0 => IF Len(s) = 0 THEN open[1].child = NULL ELSE open[1].child = s[Len(s)]
  /\ \A i \in 2 .. Len(open), j \in 1 .. Len(s) : s[j] # open[i].child
  /\ Len(open) # 0 /\ node[top].type # "object" => \A j \in 1 .. Len(s) : node[s[j]].string = NULL
  /\ Fresh => /\ Len(s) # 0 /\ node[s[Len(s)]].valuestring = NULL
              /\ stage = "name" => node[top].type = "object"
              /\ stage = "value" /\ node[top].type = "object" => node[s[Len(s)]].string # NULL
              /\ \A l \in Letters : Finds(node, s, Len(s) - 1, l, said[l])
  /\ ~Fresh => \A l \in Letters : Finds(node, s, Len(s), l, said[l])
\* What is known of said but for its values: its domain.
SaidIs == said = [l \in Letters |-> said[l]]

\* Of these, a value or a name is written at the last, if the parser is no deeper.
LEMMA ReadingWrites ==
  ASSUME TreeInv, top # NULL, NEW s, Reading(s), stage \in {"value", "name"},
         NEW h, NEW c, c = Current, SamePointers(node, h, Nodes)
  PROVE  /\ Lists(h, h[top].child, s) /\ Len(s) \in Nat /\ Len(open) \in Nat
         /\ c \in live /\ top \in Nodes
         /\ \A i \in 1 .. Len(s) : s[i] \in Nodes /\ (s[i] = c => Len(open) = 1 /\ i = Len(s))
         /\ Len(open) # 0 => c # top
         /\ Len(open) = 1 => Len(s) # 0 /\ c = s[Len(s)]
         /\ Len(open) = 0 => Len(s) = 0
<1>1. PICK L \in Nat : L = Len(open) /\ c = Place(L)
  BY CurrentIs DEF TreeInv
<1>2. c \in live /\ c \in Nodes /\ node[c].next = NULL /\ node[c].child = NULL /\ c # NULL
      /\ \A j \in 0 .. L - 1 : Place(j) # c
  BY <1>1, NodesAre DEF TreeInv, TreeTypes, Path
<1>3. PICK M \in Nat : M = Len(s)
  BY LenProperties DEF Reading, Lists
<1>4. /\ Lists(node, node[top].child, s)
      /\ L # 0 => IF M = 0 THEN open[1].child = NULL ELSE open[1].child = s[M]
      /\ \A i \in 2 .. L, j \in 1 .. M : s[j] # open[i].child
  BY <1>1, <1>3 DEF Reading
<1>5. top \in Nodes
  BY DEF TreeInv, TreeTypes, Pointers
<1>6. \A i \in 1 .. M : s[i] \in Nodes
  BY <1>3, <1>4, ElementOfSeq DEF Lists
<1>7. Lists(h, h[top].child, s)
  <2>1. h[top].child = node[top].child /\ \A i \in 1 .. M : h[s[i]].next = node[s[i]].next
    BY <1>5, <1>6 DEF SamePointers
  <2> QED BY <1>3, <1>4, <2>1, ListsStill
<1>8. L = 0 => c = top /\ M = 0
  BY <1>1, <1>2, <1>3, <1>4 DEF Place, Lists
<1>9. L # 0 => c # top
  <2>1. L # 0 => 0 \in 0 .. L - 1 /\ Place(0) = top
    BY DEF Place
  <2> QED BY <1>2, <2>1
<1>10. L = 1 => M # 0 /\ c = s[M]
  BY <1>1, <1>2, <1>4 DEF Place
<1>11. ASSUME NEW i \in 1 .. M, s[i] = c PROVE L = 1 /\ i = M
  <2>1. L # 0
    BY <1>8
  <2>2. ~(L \in 2 .. L)
    <3> SUFFICES ASSUME L \in 2 .. L PROVE FALSE
      OBVIOUS
    <3>1. s[i] # open[L].child
      BY <1>4
    <3> QED BY <1>1, <1>11, <2>1, <3>1 DEF Place
  <2>3. L = 1
    BY <2>1, <2>2
  <2>4. i # M => i \in 1 .. M - 1 /\ i + 1 \in 1 .. M
    OBVIOUS
  <2>5. i # M => node[s[i]].next = s[i + 1] /\ s[i + 1] # NULL
    BY <1>3, <1>4, <1>6, <2>4, NodesAre DEF Lists
  <2> QED BY <1>2, <1>11, <2>3, <2>5
<1> QED BY <1>1, <1>2, <1>3, <1>5, <1>6, <1>7, <1>8, <1>9, <1>10, <1>11

\* A value in the outermost object is what the text says of the member with this name, unless
\* it has said something of it before; elsewhere no name is given.
LEMMA SaysLast ==
  ASSUME SaidIs, Len(open) = 1, NEW s, NEW k \in Nat, NEW c, c = Current, s[k + 1] = c,
         NEW y, y # NULL, Says(y), Value(node', c) = y,
         node'[c].string = node[c].string, node[c].string \in Names \cup {NULL},
         node[top].type = "object" <=> node[c].string # NULL,
         \A l \in Letters : Finds(node', s, k, l, said[l])
  PROVE  SaidIs' /\ \A l \in Letters : Finds(node', s, k + 1, l, said'[l])
<1>1. CASE node[top].type = "object"
  <2>1. PICK a \in Letters : a = node[c].string[1]
    BY <1>1 DEF Names
  <2>2. said' = IF said[a] = NULL THEN [said EXCEPT ![a] = y] ELSE said
    BY <1>1, <2>1 DEF Says
  <2>3. SaidIs' /\ \A l \in Letters : said'[l] = IF l = a /\ said[a] = NULL THEN y ELSE said[l]
    BY <2>2 DEF SaidIs
  <2>4. \A l : Named(node', s[k + 1], l) <=> l = a
    BY <1>1, <2>1 DEF Named
  <2>5. ASSUME NEW l \in Letters PROVE Finds(node', s, k + 1, l, said'[l])
    <3>1. CASE said[l] # NULL
      BY <2>3, <3>1, FindsMore
    <3>2. CASE said[l] = NULL /\ l # a
      BY <2>3, <2>4, <3>2, FindsMore
    <3>3. CASE said[l] = NULL /\ l = a
      BY <2>3, <2>4, <3>3, FindsMore
    <3> QED BY <3>1, <3>2, <3>3
  <2> QED BY <2>3, <2>5
<1>2. CASE node[top].type # "object"
  <2>1. said' = said
    BY <1>2 DEF Says
  <2>2. \A l : ~Named(node', s[k + 1], l)
    BY <1>2 DEF Named
  <2>3. ASSUME NEW l \in Letters PROVE Finds(node', s, k + 1, l, said'[l])
    BY <2>1, <2>2, FindsMore
  <2> QED BY <2>1, <2>3 DEF SaidIs
<1> QED BY <1>1, <1>2

\* Each step of the parser. A value is said where it is the first of its name, ...
LEMMA ParseValueRead ==
  ASSUME TreeInv, NEW s, Reading(s), SaidIs, ParseValue
  PROVE  Reading(s)' /\ SaidIs'
<1>1. PICK type \in Words \cup {"string"}, t \in Texts \cup {NULL} :
        /\ node' = [node EXCEPT ![Current].type = type, ![Current].valuestring = t]
        /\ Says(<<type, t>>)
  BY DEF ParseValue
<1>2. /\ stage = "value" /\ stage' = "more" /\ UNCHANGED <<top, open>>
  BY DEF ParseValue, parser
<1>3. top # NULL
  BY <1>2 DEF TreeInv, Phases
<1>4. PICK c : c = Current
  OBVIOUS
<1>5. PICK y : y = <<type, t>>
  OBVIOUS
<1>6. PICK L, M : L = Len(open) /\ M = Len(s)
  OBVIOUS
<1>7. node \in [Nodes -> Cells] /\ c \in live /\ c \in Nodes
  BY <1>2, <1>3, <1>4, CurrentIs DEF TreeInv, TreeTypes, Path
<1>8. /\ SamePointers(node, node', Nodes)
      /\ \A n \in Nodes \ {c} : node'[n] = node[n]
      /\ node'[c].string = node[c].string /\ Value(node', c) = y
      /\ node[c].string \in Names \cup {NULL}
  <2>1. node' = [node EXCEPT ![c].type = type, ![c].valuestring = t]
    BY <1>1, <1>4
  <2> QED BY <1>5, <1>7, <2>1 DEF Cells, SamePointers, Value
<1>9. /\ Lists(node', node'[top].child, s) /\ M \in Nat /\ L \in Nat
      /\ \A i \in 1 .. M : s[i] \in Nodes /\ (s[i] = c => L = 1 /\ i = M)
      /\ (L # 0 => c # top) /\ (L = 1 => M # 0 /\ c = s[M]) /\ (L = 0 => M = 0)
      /\ top \in Nodes
  BY <1>2, <1>3, <1>4, <1>6, <1>8, ReadingWrites
<1>10. y # NULL
  BY <1>5, JsonAssumption DEF Types
<1>11. /\ L # 0 => IF M = 0 THEN open[1].child = NULL ELSE open[1].child = s[M]
       /\ \A i \in 2 .. L, j \in 1 .. M : s[j] # open[i].child
       /\ L # 0 /\ node[top].type # "object" => \A j \in 1 .. M : node[s[j]].string = NULL
       /\ L = 1 => /\ node[top].type = "object" => node[s[M]].string # NULL
                   /\ \A l \in Letters : Finds(node, s, M - 1, l, said[l])
       /\ L # 1 => \A l \in Letters : Finds(node, s, M, l, said[l])
  BY <1>2, <1>6 DEF Reading, Fresh
<1>12. ~Fresh'
  BY <1>2 DEF Fresh
<1>13. L # 0 /\ node'[top].type # "object" => \A j \in 1 .. M : node'[s[j]].string = NULL
  BY <1>8, <1>9, <1>11
<1>14. CASE L # 1
  <2>1. said' = said
    BY <1>1, <1>6, <1>14 DEF Says
  <2>2. \A l \in Letters : Finds(node', s, M, l, said'[l])
    <3>1. \A i \in 1 .. M : Alike(node[s[i]], node'[s[i]])
      BY <1>8, <1>9, <1>14 DEF Alike
    <3> QED BY <1>9, <1>11, <1>14, <2>1, <3>1, FindsAlike
  <2>3. Reading(s)'
    BY <1>2, <1>6, <1>9, <1>11, <1>12, <1>13, <2>2 DEF Reading
  <2> QED BY <2>1, <2>3 DEF SaidIs
<1>15. CASE L = 1
  <2>1. PICK k \in Nat : k = M - 1 /\ k + 1 = M
    BY <1>9, <1>15
  <2>2. \A l \in Letters : Finds(node', s, k, l, said[l])
    <3>1. \A i \in 1 .. k : i \in 1 .. M /\ i # M
      BY <2>1
    <3>2. \A i \in 1 .. k : Alike(node[s[i]], node'[s[i]])
      BY <1>8, <1>9, <3>1 DEF Alike
    <3> QED BY <1>11, <1>15, <2>1, <3>2, FindsAlike
  <2>3. s[k + 1] = c
    BY <1>9, <1>15, <2>1
  <2>4. node[top].type = "object" <=> node[c].string # NULL
    <3>1. M \in 1 .. M
      BY <2>1
    <3> QED BY <1>9, <1>11, <1>15, <3>1
  <2>5. /\ Says(y) /\ Len(open) = 1 /\ node'[c].string = node[c].string
        /\ node[c].string \in Names \cup {NULL} /\ Value(node', c) = y
    BY <1>1, <1>5, <1>6, <1>8, <1>15
  <2>7. SaidIs' /\ \A l \in Letters : Finds(node', s, k + 1, l, said'[l])
    BY <1>4, <1>10, <2>2, <2>3, <2>4, <2>5, SaysLast
  <2>8. Reading(s)'
    BY <1>2, <1>6, <1>9, <1>11, <1>12, <1>13, <2>1, <2>7 DEF Reading
  <2> QED BY <2>7, <2>8
<1> QED BY <1>14, <1>15

\* ... a name alone says nothing, ...
LEMMA ParseNameRead ==
  ASSUME TreeInv, NEW s, Reading(s), SaidIs, ParseName
  PROVE  Reading(s)' /\ SaidIs'
<1>1. PICK name \in Names :
        node' = [node EXCEPT ![Current].type = "string", ![Current].string = name]
  BY DEF ParseName
<1>2. /\ stage = "name" /\ stage' = "value" /\ UNCHANGED <<top, open, said>>
  BY DEF ParseName, parser
<1>3. top # NULL
  BY <1>2 DEF TreeInv, Phases
<1>4. PICK c : c = Current
  OBVIOUS
<1>6. PICK L, M : L = Len(open) /\ M = Len(s)
  OBVIOUS
<1>7. node \in [Nodes -> Cells] /\ c \in live /\ c \in Nodes
  BY <1>2, <1>3, <1>4, CurrentIs DEF TreeInv, TreeTypes, Path
<1>8. /\ SamePointers(node, node', Nodes)
      /\ \A n \in Nodes \ {c} : node'[n] = node[n]
      /\ node'[c].string # NULL /\ node'[c].valuestring = node[c].valuestring
  <2>1. node' = [node EXCEPT ![c].type = "string", ![c].string = name]
    BY <1>1, <1>4
  <2> QED BY <1>7, <2>1, JsonAssumption DEF Cells, SamePointers
<1>9. /\ Lists(node', node'[top].child, s) /\ M \in Nat /\ L \in Nat
      /\ \A i \in 1 .. M : s[i] \in Nodes /\ (s[i] = c => L = 1 /\ i = M)
      /\ (L # 0 => c # top) /\ (L = 1 => M # 0 /\ c = s[M]) /\ (L = 0 => M = 0)
      /\ top \in Nodes
  BY <1>2, <1>3, <1>4, <1>6, <1>8, ReadingWrites
<1>11. /\ L # 0 => IF M = 0 THEN open[1].child = NULL ELSE open[1].child = s[M]
       /\ \A i \in 2 .. L, j \in 1 .. M : s[j] # open[i].child
       /\ L # 0 /\ node[top].type # "object" => \A j \in 1 .. M : node[s[j]].string = NULL
       /\ L = 1 => /\ node[top].type = "object" /\ node[s[M]].valuestring = NULL
                   /\ \A l \in Letters : Finds(node, s, M - 1, l, said[l])
       /\ L # 1 => \A l \in Letters : Finds(node, s, M, l, said[l])
  BY <1>2, <1>6 DEF Reading, Fresh
<1>13. L # 0 /\ node'[top].type # "object" => \A j \in 1 .. M : node'[s[j]].string = NULL
  BY <1>8, <1>9, <1>11
<1>14. CASE L # 1
  <2>2. \A l \in Letters : Finds(node', s, M, l, said'[l])
    <3>1. \A i \in 1 .. M : Alike(node[s[i]], node'[s[i]])
      BY <1>8, <1>9, <1>14 DEF Alike
    <3> QED BY <1>2, <1>9, <1>11, <1>14, <3>1, FindsAlike
  <2>3. Reading(s)'
    BY <1>2, <1>6, <1>9, <1>11, <1>13, <1>14, <2>2 DEF Reading, Fresh
  <2> QED BY <1>2, <2>3 DEF SaidIs
<1>15. CASE L = 1
  <2>1. PICK k \in Nat : k = M - 1 /\ k + 1 = M
    BY <1>9, <1>15
  <2>2. \A l \in Letters : Finds(node', s, k, l, said'[l])
    <3>1. \A i \in 1 .. k : i \in 1 .. M /\ i # M
      BY <2>1
    <3>2. \A i \in 1 .. k : Alike(node[s[i]], node'[s[i]])
      BY <1>8, <1>9, <3>1 DEF Alike
    <3> QED BY <1>2, <1>11, <1>15, <2>1, <3>2, FindsAlike
  <2>3. /\ M # 0 /\ node'[s[M]].valuestring = NULL /\ node'[s[M]].string # NULL
        /\ \A l \in Letters : Finds(node', s, M - 1, l, said'[l])
    BY <1>8, <1>9, <1>11, <1>15, <2>1, <2>2
  <2>4. Fresh' /\ stage' # "name" /\ Len(open') = 1
    BY <1>2, <1>6, <1>15 DEF Fresh
  <2>5. Reading(s)'
    BY <1>2, <1>6, <1>9, <1>11, <1>13, <1>15, <2>3, <2>4 DEF Reading
  <2> QED BY <1>2, <2>5 DEF SaidIs
<1> QED BY <1>14, <1>15

\* ... an array or object is said as it opens, ...
LEMMA ParseOpensRead ==
  ASSUME TreeInv, NEW s, Reading(s), SaidIs, ParseOpens
  PROVE  Reading(s)' /\ SaidIs'
<1>1. PICK type \in {"array", "object"} :
        node' = [node EXCEPT ![Current].type = type] /\ Says(<<type, NULL>>)
  BY DEF ParseOpens
<1>2. /\ stage = "value" /\ stage' = "open" /\ UNCHANGED top
      /\ open' = Append(open, [item |-> Current, child |-> NULL])
  BY DEF ParseOpens
<1>3. top # NULL
  BY <1>2 DEF TreeInv, Phases
<1>4. PICK c : c = Current
  OBVIOUS
<1>5. PICK y : y = <<type, NULL>>
  OBVIOUS
<1>6. PICK L, M : L = Len(open) /\ M = Len(s)
  OBVIOUS
<1>7. node \in [Nodes -> Cells] /\ c \in live /\ c \in Nodes
  BY <1>2, <1>3, <1>4, CurrentIs DEF TreeInv, TreeTypes, Path
<1>8. /\ SamePointers(node, node', Nodes)
      /\ \A n \in Nodes \ {c} : node'[n] = node[n]
      /\ node'[c].string = node[c].string /\ node'[c].type = type
      /\ node'[c].valuestring = node[c].valuestring
      /\ node[c].string \in Names \cup {NULL}
  <2>1. node' = [node EXCEPT ![c].type = type]
    BY <1>1, <1>4
  <2> QED BY <1>7, <2>1 DEF Cells, SamePointers
<1>9. /\ Lists(node', node'[top].child, s) /\ M \in Nat /\ L \in Nat
      /\ \A i \in 1 .. M : s[i] \in Nodes /\ (s[i] = c => L = 1 /\ i = M)
      /\ (L # 0 => c # top) /\ (L = 1 => M # 0 /\ c = s[M]) /\ (L = 0 => M = 0)
      /\ top \in Nodes
  BY <1>2, <1>3, <1>4, <1>6, <1>8, ReadingWrites
<1>10. y # NULL
  BY <1>5, JsonAssumption DEF Types
<1>11. /\ L # 0 => IF M = 0 THEN open[1].child = NULL ELSE open[1].child = s[M]
       /\ \A i \in 2 .. L, j \in 1 .. M : s[j] # open[i].child
       /\ L # 0 /\ node[top].type # "object" => \A j \in 1 .. M : node[s[j]].string = NULL
       /\ L = 1 => /\ node[s[M]].valuestring = NULL
                   /\ node[top].type = "object" => node[s[M]].string # NULL
                   /\ \A l \in Letters : Finds(node, s, M - 1, l, said[l])
       /\ L # 1 => \A l \in Letters : Finds(node, s, M, l, said[l])
  BY <1>2, <1>6 DEF Reading, Fresh
<1>12. ~Fresh'
  BY <1>2 DEF Fresh
<1>13. L # 0 /\ node'[top].type # "object" => \A j \in 1 .. M : node'[s[j]].string = NULL
  BY <1>8, <1>9, <1>11
<1>16. /\ Len(open') = L + 1 /\ open'[L + 1].child = NULL
       /\ \A i \in 1 .. L : open'[i] = open[i]
  <2>1. open \in Seq(Opened)
    BY DEF TreeInv, TreeTypes
  <2> DEFINE e == [item |-> c, child |-> NULL]
  <2>2. e \in Opened /\ e.child = NULL
    BY <1>7 DEF Opened, Pointers
  <2>3. open' = Append(open, e)
    BY <1>2, <1>4
  <2> HIDE DEF e
  <2> QED BY <1>6, <2>1, <2>2, <2>3, AppendProperties
<1>17. /\ IF M = 0 THEN open'[1].child = NULL ELSE open'[1].child = s[M]
       /\ \A i \in 2 .. L + 1, j \in 1 .. M : s[j] # open'[i].child
       /\ Len(open') # 0 /\ node'[top].type # "object" =>
            \A j \in 1 .. M : node'[s[j]].string = NULL
  <2>1. \A i \in 2 .. L + 1 : (i \in 2 .. L /\ i \in 1 .. L) \/ i = L + 1
    BY <1>9
  <2>2. L = 0 => L + 1 = 1
    OBVIOUS
  <2>3. L # 0 => 1 \in 1 .. L
    BY <1>9
  <2>4. IF M = 0 THEN open'[1].child = NULL ELSE open'[1].child = s[M]
    BY <1>9, <1>11, <1>16, <2>2, <2>3
  <2>5. \A i \in 2 .. L + 1, j \in 1 .. M : s[j] # open'[i].child
    BY <1>9, <1>11, <1>16, <2>1, NodesAre
  <2>6. L = 0 => \A j \in 1 .. M : node'[s[j]].string = NULL
    BY <1>9
  <2> QED BY <1>13, <2>4, <2>5, <2>6
<1>14. CASE L # 1
  <2>1. said' = said
    BY <1>1, <1>6, <1>14 DEF Says
  <2>2. \A l \in Letters : Finds(node', s, M, l, said'[l])
    <3>1. \A i \in 1 .. M : Alike(node[s[i]], node'[s[i]])
      BY <1>8, <1>9, <1>14 DEF Alike
    <3> QED BY <1>9, <1>11, <1>14, <2>1, <3>1, FindsAlike
  <2>3. Reading(s)'
    BY <1>2, <1>6, <1>9, <1>16, <1>17, <1>12, <2>2 DEF Reading
  <2> QED BY <2>1, <2>3 DEF SaidIs
<1>15. CASE L = 1
  <2>1. PICK k \in Nat : k = M - 1 /\ k + 1 = M
    BY <1>9, <1>15
  <2>2. \A l \in Letters : Finds(node', s, k, l, said[l])
    <3>1. \A i \in 1 .. k : i \in 1 .. M /\ i # M
      BY <2>1
    <3>2. \A i \in 1 .. k : Alike(node[s[i]], node'[s[i]])
      BY <1>8, <1>9, <3>1 DEF Alike
    <3> QED BY <1>11, <1>15, <2>1, <3>2, FindsAlike
  <2>3. s[k + 1] = c
    BY <1>9, <1>15, <2>1
  <2>6. Value(node', c) = y
    BY <1>5, <1>8, <1>9, <1>11, <1>15 DEF Value
  <2>4. node[top].type = "object" <=> node[c].string # NULL
    <3>1. M \in 1 .. M
      BY <2>1
    <3> QED BY <1>9, <1>11, <1>15, <3>1
  <2>5. /\ Says(y) /\ Len(open) = 1 /\ node'[c].string = node[c].string
        /\ node[c].string \in Names \cup {NULL}
    BY <1>1, <1>5, <1>6, <1>8, <1>15
  <2>7. SaidIs' /\ \A l \in Letters : Finds(node', s, k + 1, l, said'[l])
    BY <1>4, <1>10, <2>2, <2>3, <2>4, <2>5, <2>6, SaysLast
  <2>8. Reading(s)'
    BY <1>2, <1>6, <1>9, <1>12, <1>16, <1>17, <2>1, <2>7 DEF Reading
  <2> QED BY <2>7, <2>8
<1> QED BY <1>14, <1>15

\* ... a bracket leads back to what was there, ...
LEMMA ParseClosesRead ==
  ASSUME TreeInv, NEW s, Reading(s), SaidIs, ParseCloses
  PROVE  Reading(s)' /\ SaidIs'
<1>1. /\ stage \in {"open", "more"} /\ stage' = "more" /\ open # <<>> /\ open' = Front(open)
      /\ UNCHANGED <<node, top, said>>
  BY DEF ParseCloses, heap
<1>2. PICK L \in Nat : L = Len(open)
  BY CurrentIs DEF TreeInv
<1>3. L # 0 /\ Len(open') = L - 1 /\ \A i \in 1 .. L - 1 : open'[i] = open[i]
  <2>1. open \in Seq(Opened)
    BY DEF TreeInv, TreeTypes
  <2> QED BY <1>1, <1>2, <2>1, FrontIs
<1>4. \A i \in 2 .. L - 1 : i \in 2 .. L /\ i \in 1 .. L - 1
  OBVIOUS
<1>5. L - 1 # 0 => 1 \in 1 .. L - 1
  BY <1>3
<1>6. ~Fresh /\ ~Fresh'
  BY <1>1 DEF Fresh
<1>7. PICK M : M = Len(s)
  OBVIOUS
<1>8. /\ Lists(node, node[top].child, s)
      /\ IF M = 0 THEN open[1].child = NULL ELSE open[1].child = s[M]
      /\ \A i \in 2 .. L, j \in 1 .. M : s[j] # open[i].child
      /\ node[top].type # "object" => \A j \in 1 .. M : node[s[j]].string = NULL
      /\ \A l \in Letters : Finds(node, s, M, l, said[l])
  BY <1>2, <1>3, <1>6, <1>7 DEF Reading
<1>9. /\ L - 1 # 0 => IF M = 0 THEN open'[1].child = NULL ELSE open'[1].child = s[M]
      /\ \A i \in 2 .. L - 1, j \in 1 .. M : s[j] # open'[i].child
  BY <1>3, <1>4, <1>5, <1>8
<1>10. Reading(s)'
  BY <1>1, <1>3, <1>6, <1>7, <1>8, <1>9 DEF Reading
<1> QED BY <1>1, <1>10 DEF SaidIs

\* ... and a comma adds a node, which is a child of top if the parser is no deeper.
LEMMA ParseNextRead ==
  ASSUME TreeInv, NEW s, Reading(s), SaidIs, ParseNext
  PROVE  (\E t : Reading(t)') /\ SaidIs'
<1>1. /\ stage \in {"open", "more"} /\ open # <<>>
      /\ stage' = IF node[Within.item].type = "object" THEN "name" ELSE "value"
      /\ UNCHANGED <<top, said>>
  <2>1. /\ stage = "open" \/ (stage = "more" /\ open # <<>>)
        /\ stage' = IF node[Within.item].type = "object" THEN "name" ELSE "value"
        /\ UNCHANGED <<top, said>>
    BY DEF ParseNext
  <2>2. stage = "open" => open # <<>>
    BY DEF TreeInv, Phases, Path
  <2> QED BY <2>1, <2>2
<1>2. top # NULL
  BY <1>1 DEF TreeInv, Phases
<1>3. PICK q \in Nodes \ live, L \in Nat \ {0}, w \in Opened, a \in live : LinksNew(q, L, w, a)
  BY ParseNextIs
<1>4. /\ L = Len(open) /\ w = open[L] /\ a = IF w.child = NULL THEN w.item ELSE w.child
      /\ w.item = Place(L - 1) /\ w.child = Place(L)
      /\ Len(open') = L /\ open'[L].child = q /\ \A i \in 1 .. L - 1 : open'[i] = open[i]
      /\ node'[q] = Blank /\ \A n \in Nodes \ {q, a} : node'[n] = node[n]
  BY <1>3 DEF LinksNew
<1>5. /\ IF w.child = NULL THEN node'[a].child = q /\ node'[a].next = node[a].next
         ELSE node'[a].next = q /\ node'[a].child = node[a].child /\ node[a].next = NULL
      /\ Alike(node[a], node'[a])
  <2>1. PICK y \in Cells : y = node[a]
    BY DEF TreeInv, TreeTypes
  <2>2. node'[a] = IF w.child = NULL THEN [y EXCEPT !.child = q] ELSE [y EXCEPT !.next = q]
    BY <1>3, <2>1 DEF LinksNew
  <2>3. w.child # NULL => node[a].next = NULL
    BY <1>3 DEF LinksNew
  <2> QED BY <2>1, <2>2, <2>3 DEF Cells, Alike
<1>6. /\ node'[q].next = NULL /\ node'[q].string = NULL /\ node'[q].valuestring = NULL
  BY <1>4, BlankIs DEF Blank, Junk
<1>7. /\ top \in live /\ live \subseteq Nodes /\ NULL \notin Nodes
      /\ \A n \in live : {node[n].child, node[n].next} \subseteq live \cup {NULL}
  <2>1. 0 \in 0 .. Len(open) /\ 0 # Len(open) /\ Place(0) = top
    BY <1>4 DEF Place
  <2>2. top \in live
    BY <1>2, <2>1 DEF TreeInv, Path
  <2> QED BY <2>2, TypesJoined, HeldAreNodes, InTrees, NodesAre DEF TreeInv
<1>8. PICK M \in Nat : M = Len(s)
  BY LenProperties DEF Reading, Lists
<1>9. ~Fresh
  BY <1>1 DEF Fresh
<1>10. /\ Lists(node, node[top].child, s)
       /\ IF M = 0 THEN open[1].child = NULL ELSE open[1].child = s[M]
       /\ \A i \in 2 .. L, j \in 1 .. M : s[j] # open[i].child
       /\ node[top].type # "object" => \A j \in 1 .. M : node[s[j]].string = NULL
       /\ \A l \in Letters : Finds(node, s, M, l, said[l])
  BY <1>4, <1>8, <1>9 DEF Reading
<1>11. \A i \in 1 .. M : s[i] \in live /\ s[i] # q /\ s[i] \in Nodes
  <2>1. \A i \in 1 .. Len(s) : s[i] \in live
    BY <1>7, <1>10, ListsIn
  <2> QED BY <1>7, <1>8, <2>1
<1>12. \A n \in live : /\ Alike(node[n], node'[n])
                       /\ n # a => node'[n] = node[n]
  BY <1>4, <1>5, <1>7 DEF Alike
<1>13. CASE L = 1
  <2>1. w.item = top /\ w.child = open[1].child
    BY <1>4, <1>13 DEF Place
  <2>2. PICK t : t = Append(s, q)
    OBVIOUS
  <2>3. t \in Seq(Nodes) /\ Len(t) = M + 1 /\ t[M + 1] = q /\ \A i \in 1 .. M : t[i] = s[i]
    BY <1>8, <1>10, <2>2, AppendProperties DEF Lists
  <2>4. /\ M = 0 => node[top].child = NULL
        /\ M # 0 => s[1] = node[top].child /\ node[s[M]].next = NULL
        /\ \A i \in 1 .. M - 1 : node[s[i]].next = s[i + 1]
    BY <1>8, <1>10 DEF Lists
  <2>5. Lists(node', node'[top].child, t)
    <3>1. CASE M = 0
      <4>1. a = top /\ node'[top].child = q
        BY <1>4, <1>5, <1>10, <2>1, <3>1
      <4> QED BY <1>3, <1>6, <1>7, <2>3, <3>1, <4>1 DEF Lists
    <3>2. CASE M # 0
      <4>1. w.child = s[M] /\ w.child # NULL /\ a = s[M] /\ M \in 1 .. M /\ 1 \in 1 .. M
        BY <1>4, <1>7, <1>10, <1>11, <2>1, <3>2
      <4>2. node'[top].child = node[top].child
        BY <1>5, <1>7, <1>12, <4>1
      <4>3. \A i \in 1 .. M : i # M => i \in 1 .. M - 1 /\ i \in 1 .. M /\ i + 1 \in 1 .. M
        OBVIOUS
      <4>4. \A i \in 1 .. M : i # M => s[i] # a /\ node'[s[i]].next = s[i + 1]
        BY <1>7, <1>11, <1>12, <2>4, <4>1, <4>3
      <4>5. \A i \in 1 .. M : node'[t[i]].next = t[i + 1]
        BY <1>5, <2>3, <4>1, <4>3, <4>4
      <4>6. (M + 1) - 1 = M /\ M + 1 # 0 /\ t[1] = node'[top].child /\ node'[top].child # NULL
        BY <1>7, <1>11, <2>3, <2>4, <4>1, <4>2
      <4> QED BY <1>6, <2>3, <4>5, <4>6 DEF Lists
    <3> QED BY <3>1, <3>2
  <2>6. \A l \in Letters : Finds(node', t, M, l, said'[l])
    <3>1. \A i \in 1 .. M : Alike(node[s[i]], node'[t[i]])
      BY <1>11, <1>12, <2>3
    <3> QED BY <1>1, <1>8, <1>10, <3>1, FindsAlike
  <2>7. /\ node'[top].type = node[top].type
        /\ stage' = IF node[top].type = "object" THEN "name" ELSE "value"
    <3>1. Within = w
      BY <1>1, <1>4, CurrentIs DEF TreeInv
    <3> QED BY <1>1, <1>7, <1>12, <2>1, <3>1 DEF Alike
  <2>8. \A j \in 1 .. M + 1 : node'[top].type # "object" => node'[t[j]].string = NULL
    <3>1. \A j \in 1 .. M + 1 : j \in 1 .. M \/ j = M + 1
      OBVIOUS
    <3>2. \A j \in 1 .. M : node'[t[j]].string = node[s[j]].string
      BY <1>11, <1>12, <2>3 DEF Alike
    <3> QED BY <1>6, <1>10, <2>3, <2>7, <3>1, <3>2
  <2>9. \A i \in 2 .. L : FALSE
    BY <1>13
  <2>10. (M + 1) - 1 = M /\ M + 1 # 0
    OBVIOUS
  <2>11. Fresh'
    BY <1>4, <1>13, <2>7 DEF Fresh
  <2>12. Reading(t)'
    BY <1>1, <1>4, <1>6, <1>13, <2>3, <2>5, <2>6, <2>7, <2>8, <2>9, <2>10, <2>11 DEF Reading
  <2> QED BY <1>1, <2>12 DEF SaidIs
<1>14. CASE L # 1
  <2>1. /\ L - 1 \in 0 .. L /\ L \in 0 .. L /\ L \in 2 .. L /\ 0 \in 0 .. (L - 1) - 1
        /\ 0 \in 0 .. L - 1 /\ L - 1 # L /\ L # 0 /\ 1 \in 1 .. L - 1
    BY <1>14
  <2>2. top # a
    <3>1. Place(0) = top
      BY DEF Place
    <3>2. Place(L - 1) # top
      BY <1>2, <1>4, <2>1, <3>1 DEF TreeInv, Path
    <3>3. w.child # NULL => Place(L) # top
      BY <1>2, <1>4, <2>1, <3>1 DEF TreeInv, Path
    <3> QED BY <1>4, <3>2, <3>3
  <2>3. node'[top] = node[top]
    BY <1>7, <1>12, <2>2
  <2>4. Lists(node', node'[top].child, s)
    <3>1. \A i \in 1 .. M : node'[s[i]].next = node[s[i]].next
      <4>1. w.child = NULL => node'[a].next = node[a].next
        BY <1>5
      <4>2. w.child # NULL => \A i \in 1 .. M : s[i] # a
        BY <1>4, <1>10, <2>1
      <4> QED BY <1>11, <1>12, <4>1, <4>2
    <3> QED BY <1>8, <1>10, <2>3, <3>1, ListsStill
  <2>5. \A l \in Letters : Finds(node', s, M, l, said'[l])
    <3>1. \A i \in 1 .. M : Alike(node[s[i]], node'[s[i]])
      BY <1>11, <1>12
    <3> QED BY <1>1, <1>8, <1>10, <3>1, FindsAlike
  <2>6. \A i \in 2 .. L, j \in 1 .. M : s[j] # open'[i].child
    <3>1. \A i \in 2 .. L : i = L \/ i \in 1 .. L - 1
      OBVIOUS
    <3> QED BY <1>4, <1>10, <1>11, <3>1
  <2>7. node'[top].type # "object" => \A j \in 1 .. M : node'[s[j]].string = NULL
    BY <1>10, <1>11, <1>12, <2>3 DEF Alike
  <2>8. ~Fresh'
    BY <1>4, <1>14 DEF Fresh
  <2>9. IF M = 0 THEN open'[1].child = NULL ELSE open'[1].child = s[M]
    BY <1>4, <1>10, <2>1
  <2>10. Reading(s)'
    BY <1>1, <1>4, <1>8, <2>4, <2>5, <2>6, <2>7, <2>8, <2>9 DEF Reading
  <2> QED BY <1>1, <2>10 DEF SaidIs
<1> QED BY <1>13, <1>14

-----------------------------------------------------------------------------
(* What is read of the document                                            *)

\* s are the children of r, and w says what they say.
Tells(h, r, s, w) ==
  Lists(h, h[r].child, s) /\ \A l \in Letters : Finds(h, s, Len(s), l, w[l])

\* What is read, at any time.
ReadInv ==
  /\ SaidIs
  /\ top # NULL => \E s : Reading(s)
  /\ root # NULL => \E s : Tells(node, root, s, said)
  /\ top = NULL /\ root = NULL => \A l \in Letters : said[l] = NULL
  /\ stage = "copy" /\ target = "root" => copies[1].item = owned

\* The root's members are still what they were.
LEMMA RootStill ==
  ASSUME TreeInv, ReadInv, root # NULL, \A m \in Below(root) : node'[m] = node[m]
  PROVE  \E s : Tells(node', root, s, said)
<1>1. PICK s : Tells(node, root, s, said)
  BY DEF ReadInv
<1>2. PICK L \in Nat : L = Len(s)
  BY <1>1, LenProperties DEF Tells, Lists
<1>3. root \in Below(root) /\ root \in Pointers /\ Joined(node)
  BY TypesJoined, HeldAreNodes, InTrees DEF TreeInv, Held, Pointers
<1>4. node[root].child \in Below(root) \cup {NULL}
      /\ \A m \in Below(root) : node[m].next \in Below(root) \cup {NULL}
  BY <1>3, BelowBelow
<1>5. Lists(node, node[root].child, s)
  BY <1>1 DEF Tells
<1>6. \A i \in 1 .. Len(s) : s[i] \in Below(root)
  BY <1>4, <1>5, ListsIn
<1>7. node'[root].child = node[root].child /\ Lists(node', node'[root].child, s)
  BY <1>3, <1>5, <1>6, ListsStill
<1>8. \A i \in 1 .. L : Alike(node[s[i]], node'[s[i]])
  BY <1>2, <1>6 DEF Alike
<1>9. \A l \in Letters : Finds(node', s, L, l, said[l])
  BY <1>1, <1>2, <1>8, FindsAlike DEF Tells
<1> QED BY <1>2, <1>7, <1>9 DEF Tells

\* At first there are no children and nothing is said.
LEMMA ParseBeginsRead ==
  ASSUME TreeInv, ReadInv, ParseBegins
  PROVE  ReadInv'
<1>1. PICK q \in Nodes : Allocates(q) /\ top' = q /\ node' = Cleared(q)
  BY DEF ParseBegins
<1>2. /\ stage = "idle" /\ ~alive /\ stage' = "value"
      /\ UNCHANGED <<root, open, target, said>>
  BY DEF ParseBegins, copier
<1>3. root = NULL /\ open = <<>> /\ top = NULL /\ target = NULL
  BY <1>2, WhileIdle
<1>4. /\ node'[q] = Blank /\ node'[q].child = NULL /\ q # NULL
  BY <1>1, BlankIs, NodesAre DEF Cleared, TreeInv, TreeTypes
<1>5. \A l \in Letters : said'[l] = NULL
  BY <1>2, <1>3 DEF ReadInv
<1>6. PICK s : s = <<>>
  OBVIOUS
<1>7. s \in Seq(Nodes) /\ Len(s) = 0 /\ Len(open') = 0
  BY <1>2, <1>3, <1>6
<1>8. Lists(node', node'[top'].child, s)
  BY <1>1, <1>4, <1>7 DEF Lists
<1>9. (\A i \in 2 .. 0 : FALSE) /\ (\A i \in 1 .. 0 : FALSE)
  OBVIOUS
<1>10. Reading(s)'
  BY <1>5, <1>7, <1>8, <1>9 DEF Reading, Fresh, Finds
<1>11. SaidIs'
  BY <1>2 DEF ReadInv, SaidIs
<1> QED BY <1>1, <1>2, <1>3, <1>4, <1>10, <1>11 DEF ReadInv

\* What was being parsed becomes the document.
LEMMA ParseEndsRead ==
  ASSUME TreeInv, ReadInv, ParseEnds
  PROVE  ReadInv'
<1>1. /\ stage = "more" /\ open = <<>> /\ root' = top /\ top' = NULL
      /\ UNCHANGED <<node, target, said>>
  BY DEF ParseEnds, heap, copier
<1>2. top # NULL
  BY <1>1 DEF TreeInv, Phases
<1>3. PICK s : Reading(s)
  BY <1>2 DEF ReadInv
<1>4. ~Fresh
  BY <1>1 DEF Fresh
<1>5. Tells(node', root', s, said')
  BY <1>1, <1>3, <1>4 DEF Reading, Tells
<1>6. stage' # "copy"
  BY DEF ParseEnds
<1>7. SaidIs'
  BY <1>1 DEF ReadInv, SaidIs
<1> QED BY <1>1, <1>2, <1>5, <1>6, <1>7 DEF ReadInv

\* When it fails there is nothing to read, and nothing is said.
LEMMA ParseFailsRead ==
  ASSUME TreeInv, ReadInv, ParseFails
  PROVE  ReadInv'
<1>1. /\ stage \in {"value", "open", "name", "more"} /\ top' = NULL
      /\ said' = [l \in Letters |-> NULL] /\ UNCHANGED <<root, target>>
  BY DEF ParseFails, copier
<1>2. top # NULL
  BY <1>1 DEF TreeInv, Phases
<1>3. root = NULL /\ target = NULL
  BY <1>2, WhileParsing
<1>4. SaidIs' /\ \A l \in Letters : said'[l] = NULL
  BY <1>1 DEF SaidIs
<1>5. stage' # "copy"
  BY DEF ParseFails
<1> QED BY <1>1, <1>3, <1>4, <1>5 DEF ReadInv

\* So each step of the parser keeps what is read.
LEMMA ParseRead ==
  ASSUME TreeInv, ReadInv, Parse
  PROVE  ReadInv'
<1>1. CASE ParseBegins \/ ParseEnds \/ ParseFails
  BY <1>1, ParseBeginsRead, ParseEndsRead, ParseFailsRead
<1>2. CASE ParseValue \/ ParseOpens \/ ParseNext \/ ParseName \/ ParseCloses
  <2>1. /\ stage \in {"value", "open", "name", "more"} /\ UNCHANGED <<top, root, target>>
    BY <1>2 DEF ParseValue, ParseOpens, ParseNext, ParseName, ParseCloses, parser, object, copier
  <2>2. top # NULL
    BY <2>1 DEF TreeInv, Phases
  <2>3. root = NULL /\ target = NULL
    BY <2>2, WhileParsing
  <2>4. PICK s : Reading(s)
    BY <2>2 DEF ReadInv
  <2>5. SaidIs
    BY DEF ReadInv
  <2>6. SaidIs' /\ \E t : Reading(t)'
    BY <1>2, <2>4, <2>5, ParseValueRead, ParseOpensRead, ParseNameRead, ParseClosesRead,
       ParseNextRead
  <2>7. stage' # "copy"
    BY <1>2 DEF ParseValue, ParseOpens, ParseNext, ParseName, ParseCloses
  <2> QED BY <2>1, <2>2, <2>3, <2>6, <2>7 DEF ReadInv
<1> QED BY <1>1, <1>2 DEF Parse

\* A document that stays as it is, with what was said of it, is read as before.
LEMMA IdleRead ==
  ASSUME TreeInv, ReadInv, top = NULL, top' = NULL, root' = root, said' = said,
         stage' = "copy" /\ target' = "root" => copies'[1].item = owned',
         root # NULL => \A m \in Below(root) : node'[m] = node[m]
  PROVE  ReadInv'
<1>1. SaidIs'
  BY DEF ReadInv, SaidIs
<1>2. root' # NULL => \E s : Tells(node', root', s, said')
  BY RootStill
<1>3. top' = NULL /\ root' = NULL => \A l \in Letters : said'[l] = NULL
  BY DEF ReadInv
<1> QED BY <1>1, <1>2, <1>3 DEF ReadInv

\* A text that is changed through the root is what is read from then on.
LEMMA PutAtRoot ==
  ASSUME TreeInv, Once, ReadInv, Ready, NEW name \in Names, NEW t \in Texts \cup {NULL},
         NEW m, m = GetItem(root, name, "string"), m # NULL,
         node' = [node EXCEPT ![m].valuestring = t],
         said' = [said EXCEPT ![name[1]] = <<"string", t>>]
  PROVE  SaidIs' /\ \E s : Tells(node', root, s, said')
<1>1. root \in live /\ root \in Nodes /\ NULL \notin Nodes
  BY ReadyIs, TypesJoined, HeldAreNodes, InTrees, NodesAre DEF TreeInv, Held
<1>2. PICK s : Tells(node, root, s, said)
  BY <1>1 DEF ReadInv
<1>3. PICK L \in Nat : L = Len(s) /\ s \in Seq(Nodes) /\ \A i \in 1 .. L : s[i] \in Nodes
  BY <1>2, LenProperties DEF Tells, Lists
<1>4. Lists(node, node[root].child, Children(root))
  BY <1>1, ChildrenListed
<1>5. s = Children(root)
  BY <1>2, <1>4, ListsOnce DEF Tells
<1>6. m = GetObjectItem(root, name) /\ node[m].type = "string"
  BY DEF GetItem
<1>7. PICK i \in 1 .. L : /\ m = s[i] /\ Named(node, s[i], name[1])
                          /\ \A j \in 1 .. i - 1 : ~Named(node, s[j], name[1])
  BY <1>3, <1>5, <1>6, ItemIs
<1>8. PICK a \in Letters : a = name[1]
  BY DEF Names
<1>9. PICK y \in Cells : y = node[m]
  BY <1>3, <1>7 DEF TreeInv, TreeTypes
<1>10. /\ node'[m] = [y EXCEPT !.valuestring = t]
       /\ \A n \in Nodes \ {m} : node'[n] = node[n]
  BY <1>3, <1>7, <1>9 DEF TreeInv, TreeTypes
<1>11. /\ node'[m].type = "string" /\ node'[m].string = node[m].string
       /\ node'[m].child = node[m].child /\ node'[m].next = node[m].next
       /\ node'[m].valuestring = t
  BY <1>6, <1>9, <1>10 DEF Cells
<1>12. Value(node', m) = <<"string", t>> /\ <<"string", t>> # NULL
  BY <1>11, JsonAssumption DEF Value, Types
<1>13. /\ \A l \in Letters : l # a => said'[l] = said[l]
       /\ said'[a] = <<"string", t>> /\ SaidIs'
  BY <1>8 DEF ReadInv, SaidIs
<1>14. \A n \in Nodes : \A l : Named(node', n, l) <=> Named(node, n, l)
  BY <1>10, <1>11 DEF Named
<1>15. \A n \in Nodes : n # m => Value(node', n) = Value(node, n)
  BY <1>10 DEF Value
<1>16. Lists(node', node'[root].child, s)
  <2>1. node'[root].child = node[root].child
    BY <1>1, <1>10, <1>11
  <2>2. \A j \in 1 .. Len(s) : node'[s[j]].next = node[s[j]].next
    BY <1>3, <1>10, <1>11
  <2>3. Lists(node, node[root].child, s)
    BY <1>4, <1>5
  <2>4. Lists(node', node[root].child, s)
    BY <2>2, <2>3, ListsStill
  <2> QED BY <2>1, <2>4
<1>17. \A j \in 1 .. i - 1 : j \in 1 .. L
  BY <1>3
<1>18. Finds(node', s, L, a, said'[a])
  BY <1>3, <1>7, <1>8, <1>12, <1>13, <1>14, <1>17 DEF Finds
<1>19. ASSUME NEW l \in Letters, l # a
       PROVE  Finds(node', s, L, l, said'[l])
  <2>1. Finds(node, s, L, l, said[l])
    BY <1>2, <1>3 DEF Tells
  <2>2. m = s[i] /\ ~Named(node, m, l)
    BY <1>7, <1>8, <1>19 DEF Named
  <2>3. CASE said[l] = NULL
    BY <1>3, <1>13, <1>14, <1>19, <2>1, <2>3 DEF Finds
  <2>4. CASE said[l] # NULL
    <3>1. PICK k \in 1 .. L : /\ Named(node, s[k], l) /\ said[l] = Value(node, s[k])
                              /\ \A j \in 1 .. k - 1 : ~Named(node, s[j], l)
      BY <2>1, <2>4 DEF Finds
    <3>2. s[k] # m /\ s[k] \in Nodes
      BY <1>3, <2>2, <3>1
    <3>3. Named(node', s[k], l) /\ said'[l] = Value(node', s[k])
      BY <1>13, <1>14, <1>15, <1>19, <3>1, <3>2
    <3>4. \A j \in 1 .. k - 1 : j \in 1 .. L
      BY <1>3
    <3>5. \A j \in 1 .. k - 1 : ~Named(node', s[j], l)
      BY <1>3, <1>14, <3>1, <3>4
    <3> QED BY <1>13, <1>19, <2>4, <3>3, <3>5 DEF Finds
  <2> QED BY <2>3, <2>4
<1> QED BY <1>3, <1>13, <1>16, <1>18, <1>19 DEF Tells

\* One that is changed through a cursor is not a member of the root.
LEMMA PutBelow ==
  ASSUME TreeInv, Once, ReadInv, Ready, NEW name \in Names, NEW t \in Texts \cup {NULL},
         NEW p \in live, p # root,
         NEW m, m = GetItem(p, name, "string"), m # NULL,
         node' = [node EXCEPT ![m].valuestring = t], said' = said
  PROVE  \E s : Tells(node', root, s, said')
<1>1. root \in live /\ root \in Nodes /\ NULL \notin Nodes
  BY ReadyIs, TypesJoined, HeldAreNodes, InTrees, NodesAre DEF TreeInv, Held
<1>2. PICK s : Tells(node, root, s, said)
  BY <1>1 DEF ReadInv
<1>3. PICK L \in Nat : L = Len(s) /\ s \in Seq(Nodes) /\ \A i \in 1 .. L : s[i] \in Nodes
  BY <1>2, LenProperties DEF Tells, Lists
<1>4. Lists(node, node[p].child, Children(p)) /\ Lists(node, node[root].child, s)
  BY <1>2, ChildrenListed DEF Tells
<1>5. PICK c : c = Children(p)
  OBVIOUS
<1>6. c \in Seq(Nodes) /\ Lists(node, node[p].child, c) /\ \A k \in 1 .. Len(c) : c[k] \in Nodes
  BY <1>4, <1>5 DEF Lists
<1>7. m = GetObjectItem(p, name)
  BY DEF GetItem
<1>8. PICK k \in 1 .. Len(c) : m = c[k]
  BY <1>5, <1>6, <1>7, ItemIs
<1>9. \A i \in 1 .. Len(s), j \in 1 .. Len(c) : s[i] # c[j]
  BY <1>1, <1>4, <1>6, ListsApart
<1>10. \A i \in 1 .. L : s[i] # m
  BY <1>3, <1>8, <1>9
<1>11. m \in Nodes
  BY <1>6, <1>8
<1>12. PICK y \in Cells : y = node[m]
  BY <1>11 DEF TreeInv, TreeTypes
<1>13. /\ node'[m] = [y EXCEPT !.valuestring = t]
       /\ \A n \in Nodes \ {m} : node'[n] = node[n]
  BY <1>11, <1>12 DEF TreeInv, TreeTypes
<1>14. node'[m].child = node[m].child
  BY <1>12, <1>13 DEF Cells
<1>15. node'[root].child = node[root].child
  BY <1>1, <1>13, <1>14
<1>16. \A i \in 1 .. L : node'[s[i]] = node[s[i]]
  BY <1>3, <1>10, <1>13
<1>17. Lists(node', node'[root].child, s)
  BY <1>3, <1>4, <1>15, <1>16, ListsStill
<1>18. \A i \in 1 .. L : Alike(node[s[i]], node'[s[i]])
  BY <1>16 DEF Alike
<1>19. \A l \in Letters : Finds(node', s, L, l, said'[l])
  BY <1>2, <1>3, <1>18, FindsAlike DEF Tells
<1> QED BY <1>3, <1>17, <1>19 DEF Tells

\* A change of a text, through the root or a cursor (json.cpp:326-342).
LEMMA PutValueStringRead ==
  ASSUME TreeInv, Once, ReadInv, PutValueString
  PROVE  ReadInv'
<1>1. /\ Ready /\ stage' = stage /\ stage = "idle" /\ UNCHANGED <<root, top, target>>
  BY DEF PutValueString, Ready, object, parser, copier
<1>2. PICK name \in Names, fromChild \in BOOLEAN, t \in Texts \cup {NULL} :
        LET p == From(child, fromChild)
            m == GetItem(p, name, "string")
        IN /\ m # NULL
           /\ node' = [node EXCEPT ![m].valuestring = t]
           /\ said' = IF p = root THEN [said EXCEPT ![name[1]] = <<"string", t>>] ELSE said
  BY DEF PutValueString
<1>3. PICK p : p = From(child, fromChild)
  OBVIOUS
<1>4. PICK m : m = GetItem(p, name, "string")
  OBVIOUS
<1>5. /\ m # NULL /\ node' = [node EXCEPT ![m].valuestring = t]
      /\ said' = IF p = root THEN [said EXCEPT ![name[1]] = <<"string", t>>] ELSE said
  BY <1>2, <1>3, <1>4
<1>6. root # NULL /\ top = NULL
  BY <1>1, ReadyIs, WhileIdle
<1>7. p \in live
  BY <1>1, <1>3, ReadyIs, TypesJoined, HeldAreNodes, InTrees DEF TreeInv, Held
<1>8. SaidIs
  BY DEF ReadInv
<1>9. CASE p = root
  <2>1. SaidIs' /\ \E s : Tells(node', root, s, said')
    BY <1>1, <1>4, <1>5, <1>9, PutAtRoot
  <2> QED BY <1>1, <1>6, <2>1 DEF ReadInv
<1>10. CASE p # root
  <2>1. \E s : Tells(node', root, s, said')
    BY <1>1, <1>4, <1>5, <1>7, <1>10, PutBelow
  <2>2. SaidIs'
    BY <1>5, <1>8, <1>10 DEF SaidIs
  <2> QED BY <1>1, <1>6, <2>1, <2>2 DEF ReadInv
<1> QED BY <1>9, <1>10

\* What the object does.
LEMMA UseRead ==
  ASSUME TreeInv, Once, ReadInv, Use
  PROVE  ReadInv'
<1>1. CASE LoadChildObject \/ LoadChildArray \/ LoadChildObjectFromChildArrayByIndex \/ ReleaseChild
  <2>1. /\ stage = "idle" /\ stage' = "idle" /\ UNCHANGED <<node, root, top, said>>
    BY <1>1 DEF LoadChildObject, LoadChildArray, LoadChildObjectFromChildArrayByIndex,
                ReleaseChild, Ready, heap, parser
  <2>2. top = NULL
    BY <2>1, WhileIdle
  <2> QED BY <2>1, <2>2, IdleRead
<1>2. CASE PutValueString
  BY <1>2, PutValueStringRead
<1>3. CASE DeletesObject
  <2>1. /\ root' = NULL /\ said' = [l \in Letters |-> NULL]
        /\ stage = "idle" /\ stage' = "idle" /\ top' = top
    BY <1>3 DEF DeletesObject, Ready, parser
  <2>2. top = NULL
    BY <2>1, WhileIdle
  <2>3. SaidIs' /\ \A l \in Letters : said'[l] = NULL
    BY <2>1 DEF SaidIs
  <2> QED BY <2>1, <2>2, <2>3 DEF ReadInv
<1>4. CASE FreeAll
  <2>1. /\ stage = "idle" /\ owned # NULL /\ Deletes({owned}) /\ owned' = NULL /\ stage' = "idle"
        /\ UNCHANGED <<root, top, copies, said>>
    BY <1>4 DEF FreeAll, object, parser, copier
  <2>2. /\ top = NULL /\ Held = {root, owned} \ {NULL} /\ (root # NULL => root # owned)
        /\ Joined(node) /\ Held \subseteq Nodes /\ copies = <<>>
    BY <2>1, WhileIdle
  <2>3. Held' = {root', owned'} \ {NULL}
    BY <2>1, <2>2, HeldIdle
  <2>4. PICK heads : heads = {owned}
    OBVIOUS
  <2>5. heads \in SUBSET Held /\ Deletes(heads) /\ Held' = Held \ heads
    BY <2>1, <2>2, <2>3, <2>4
  <2>6. \A n \in (Held \ heads) \cup {NULL} : \A m \in Below(n) : node'[m] = node[m]
    BY <2>2, <2>5, TreesFelled DEF TreeInv
  <2>7. root # NULL => \A m \in Below(root) : node'[m] = node[m]
    BY <2>2, <2>4, <2>6
  <2> QED BY <2>1, <2>2, <2>7, IdleRead
<1> QED BY <1>1, <1>2, <1>3, <1>4 DEF Use

\* Duplication writes to new nodes, when it begins ...
LEMMA CopyBeginsRead ==
  ASSUME TreeInv, ReadInv, CopyBegins
  PROVE  ReadInv'
<1>1. /\ stage = "idle" /\ stage' = "copy" /\ UNCHANGED <<root, owned, top, said>>
  BY DEF CopyBegins, parser
<1>2. top = NULL
  BY <1>1, WhileIdle
<1>3. PICK item, q \in Nodes :
        /\ Allocates(q) /\ node' = Copied(item, q) /\ copies' = <<Call(item, q)>>
        /\ target' = "root" => item = owned
  <2>1. CASE alive
    <3>1. target' = "owned" /\ \E item, q \in Nodes :
            Allocates(q) /\ node' = Copied(item, q) /\ copies' = <<Call(item, q)>>
      BY <2>1 DEF CopyBegins
    <3> QED BY <3>1
  <2>2. CASE ~alive
    <3>1. owned # NULL /\ \E q \in Nodes :
            Allocates(q) /\ node' = Copied(owned, q) /\ copies' = <<Call(owned, q)>>
      BY <2>2 DEF CopyBegins
    <3>2. owned \in Nodes
      BY <3>1 DEF TreeInv, TreeTypes, Pointers
    <3> QED BY <3>1, <3>2
  <2> QED BY <2>1, <2>2
<1>4. target' = "root" => copies'[1].item = owned'
  BY <1>1, <1>3 DEF Call
<1>5. q \notin live /\ \A n \in Nodes \ {q} : node'[n] = node[n]
  BY <1>3, CopiedIs DEF Allocates, TreeInv
<1>6. root # NULL => Below(root) \subseteq live /\ live \subseteq Nodes
  BY TypesJoined, HeldAreNodes, InTrees DEF TreeInv, Held
<1>7. root # NULL => \A m \in Below(root) : node'[m] = node[m]
  BY <1>5, <1>6
<1> QED BY <1>1, <1>2, <1>4, <1>7, IdleRead

\* ... and at each child; ...
LEMMA CopyCallsRead ==
  ASSUME TreeInv, ReadInv, CopyCalls
  PROVE  ReadInv'
<1>1. /\ stage = "copy" /\ stage' = "copy" /\ UNCHANGED <<root, owned, top, target, said>>
      /\ Calling.cptr # NULL
  BY DEF CopyCalls, object, parser
<1>2. /\ top = NULL /\ Len(copies) \in Nat \ {0} /\ 1 \in 1 .. Len(copies)
      /\ copies \in Seq(Called) /\ Calling \in Called
  BY <1>1, WhileCopying DEF TreeInv, TreeTypes
<1>3. PICK c \in Nodes : c = Calling.cptr
  BY <1>1, <1>2 DEF Called, Pointers
<1>4. PICK q \in Nodes : /\ Allocates(q) /\ node' = Copied(c, q)
                         /\ copies' = Append(copies, Call(c, q))
  BY <1>3 DEF CopyCalls
<1>5. copies'[1] = copies[1]
  BY <1>2, <1>4
<1>6. target' = "root" => copies'[1].item = owned'
  BY <1>1, <1>5 DEF ReadInv
<1>7. q \notin live /\ \A n \in Nodes \ {q} : node'[n] = node[n]
  BY <1>4, CopiedIs DEF Allocates, TreeInv
<1>8. root # NULL => Below(root) \subseteq live /\ live \subseteq Nodes
  BY TypesJoined, HeldAreNodes, InTrees DEF TreeInv, Held
<1>9. root # NULL => \A m \in Below(root) : node'[m] = node[m]
  BY <1>7, <1>8
<1> QED BY <1>1, <1>2, <1>6, <1>9, IdleRead

\* ... what it links are the copies; ...
LEMMA CopyReturnsRead ==
  ASSUME TreeInv, ReadInv, CopyReturns
  PROVE  ReadInv'
<1>1. /\ stage = "copy" /\ stage' = "copy" /\ UNCHANGED <<root, owned, top, target, said>>
  BY DEF CopyReturns, object, parser
<1>2. top = NULL
  BY <1>1, WhileCopying
<1>3. PICK L \in Nat \ {0}, c, e \in Called, q, r, a \in Nodes : HangsOn(L, c, e, q, r, a)
  BY CopyReturnsIs
<1>4. /\ c = copies[L] /\ copies'[L] = e /\ e.item = c.item
      /\ \A i \in 1 .. L - 1 : copies'[i] = copies[i]
      /\ r \in Held /\ r \notin {root, owned} /\ a \in Below(r)
      /\ \A n \in Nodes \ {a} : node'[n] = node[n]
  BY <1>3 DEF HangsOn
<1>5. L = 1 \/ 1 \in 1 .. L - 1
  OBVIOUS
<1>6. copies'[1].item = copies[1].item
  BY <1>4, <1>5
<1>7. target' = "root" => copies'[1].item = owned'
  BY <1>1, <1>6 DEF ReadInv
<1>8. root # NULL => root \in Held /\ Below(root) \subseteq Nodes
  BY TypesJoined, HeldAreNodes, InTrees DEF TreeInv, Held
<1>9. root # NULL => a \notin Below(root)
  BY <1>4, <1>8 DEF TreeInv, Trees
<1>10. root # NULL => \A m \in Below(root) : node'[m] = node[m]
  BY <1>4, <1>8, <1>9
<1> QED BY <1>1, <1>2, <1>7, <1>10, IdleRead

\* ... and when it fails only they are deleted.
LEMMA CopyFailsRead ==
  ASSUME TreeInv, ReadInv, CopyFails
  PROVE  ReadInv'
<1>1. PICK heads : heads = {copies[i].newitem : i \in DOMAIN copies}
  OBVIOUS
<1>2. /\ stage = "copy" /\ stage' = "idle" /\ UNCHANGED <<root, owned, top, said>>
      /\ Deletes(heads) /\ copies' = <<>>
  BY <1>1 DEF CopyFails, cursors, parser
<1>3. top = NULL /\ Joined(node) /\ Held \subseteq Nodes
  BY <1>2, WhileCopying
<1>4. heads = {copies[i].newitem : i \in 1 .. Len(copies)} /\ heads \subseteq Held
      /\ Held = ({root, owned} \ {NULL}) \cup heads
      /\ root \notin heads /\ owned \notin heads
  BY <1>1, <1>2, WhileCopying DEF TreeInv, Apart
<1>5. Held' = {root, owned} \ {NULL}
  BY <1>2, <1>3, HeldIdle
<1>6. Held' = Held \ heads
  BY <1>4, <1>5
<1>7. \A n \in (Held \ heads) \cup {NULL} : \A m \in Below(n) : node'[m] = node[m]
  BY <1>2, <1>3, <1>4, <1>6, TreesFelled DEF TreeInv
<1>8. root # NULL => \A m \in Below(root) : node'[m] = node[m]
  BY <1>4, <1>7
<1> QED BY <1>2, <1>3, <1>8, IdleRead

\* The copy of a document has its members, in the same order.
LEMMA CopyTells ==
  ASSUME TreeInv, Once, NEW a \in live, NEW b, NEW D \in SUBSET Nodes, NEW F \in [Nodes -> Nodes],
         Mirrored(D, F, a, b), NEW w, \A l \in Letters : w[l] = Read(a, <<l, "lower">>)
  PROVE  \E s : Tells(node, b, s, w)
<1>1. PICK t : t = Children(a)
  OBVIOUS
<1>2. Lists(node, node[a].child, t)
  BY <1>1, ChildrenListed
<1>3. PICK L \in Nat : L = Len(t)
  BY <1>2, LenProperties DEF Lists
<1>4. NULL \notin Nodes /\ a \in Nodes /\ DOMAIN t = 1 .. L
  BY <1>2, <1>3, NodesAre DEF TreeInv, TreeTypes, Lists
<1>5. /\ a \in D /\ F[a] = b /\ D \subseteq live
      /\ \A n \in D : /\ Alike(node[n], node[F[n]])
                      /\ Stands(D, F, node[n].child, node[F[n]].child)
                      /\ node[n].child # a
      /\ \A n \in D \ {a} : Stands(D, F, node[n].next, node[F[n]].next) /\ node[n].next # a
  BY DEF Mirrored
<1>6. \A i \in 1 .. L : t[i] \in D \ {a}
  <2>1. node[a].child \in (D \ {a}) \cup {NULL}
    BY <1>5 DEF Stands
  <2>2. \A m \in D \ {a} : node[m].next \in (D \ {a}) \cup {NULL}
    BY <1>5 DEF Stands
  <2>3. \A i \in 1 .. Len(t) : t[i] \in D \ {a}
    BY <1>2, <2>1, <2>2, ListsIn
  <2> QED BY <1>3, <2>3
<1>7. PICK s : s = [i \in 1 .. L |-> F[t[i]]]
  OBVIOUS
<1>8. s \in Seq(Nodes) /\ Len(s) = L /\ \A i \in 1 .. L : s[i] = F[t[i]]
  BY <1>3, <1>4, <1>6, <1>7
<1>9. Lists(node, node[b].child, s)
  <2>1. Stands(D, F, node[a].child, node[b].child)
    BY <1>5
  <2>2. L = 0 <=> node[a].child = NULL
    BY <1>2, <1>3 DEF Lists
  <2>3. L = 0 <=> node[b].child = NULL
    BY <1>4, <2>1, <2>2 DEF Stands
  <2>4. \A i \in 1 .. L : Stands(D, F, node[t[i]].next, node[s[i]].next)
    BY <1>5, <1>6, <1>8
  <2>5. CASE L # 0
    <3>1. 1 \in 1 .. L /\ L \in 1 .. L
      BY <2>5
    <3>2. \A i \in 1 .. L - 1 : i \in 1 .. L /\ i + 1 \in 1 .. L
      OBVIOUS
    <3>3. t[1] = node[a].child /\ node[t[L]].next = NULL
          /\ \A i \in 1 .. L - 1 : node[t[i]].next = t[i + 1]
      BY <1>2, <1>3, <2>5 DEF Lists
    <3>4. s[1] = node[b].child
      BY <1>4, <1>6, <1>8, <2>1, <3>1, <3>3 DEF Stands
    <3>5. node[s[L]].next = NULL
      BY <2>4, <3>1, <3>3 DEF Stands
    <3>6. \A i \in 1 .. L - 1 : node[s[i]].next = s[i + 1]
      BY <1>4, <1>6, <1>8, <2>4, <3>2, <3>3 DEF Stands
    <3> QED BY <1>8, <2>3, <3>4, <3>5, <3>6 DEF Lists
  <2>6. CASE L = 0
    <3>1. \A i \in 1 .. L - 1 : FALSE
      BY <2>6
    <3> QED BY <1>8, <2>3, <2>6, <3>1 DEF Lists
  <2> QED BY <2>5, <2>6
<1>10. \A i \in 1 .. L : Alike(node[t[i]], node[s[i]])
  BY <1>5, <1>6, <1>8
<1>11. ASSUME NEW l \in Letters
       PROVE  Finds(node, s, L, l, w[l])
  <2>1. PICK name : name = <<l, "lower">>
    OBVIOUS
  <2>2. Finds(node, t, L, name[1], Read(a, name))
    BY <1>1, <1>3, ReadFinds
  <2>3. Finds(node, t, L, l, w[l])
    BY <2>1, <2>2
  <2> QED BY <1>10, <2>3, FindsAlike
<1> QED BY <1>8, <1>9, <1>11 DEF Tells

\* A copy that becomes a document is read as its original (json.cpp:703-736).
LEMMA CopyEndsRead ==
  ASSUME TreeInv, Once, CopyInv, ReadInv, CopyEnds
  PROVE  ReadInv'
<1>1. /\ stage = "copy" /\ Calling.cptr = NULL /\ Len(copies) = 1 /\ stage' = "idle"
      /\ IF target = "owned"
         THEN owned' = Calling.newitem /\ UNCHANGED <<root, said>>
         ELSE /\ root' = Calling.newitem
              /\ said' = [l \in Letters |-> Read(owned, <<l, "lower">>)]
              /\ UNCHANGED owned
      /\ UNCHANGED <<node, top>>
  BY DEF CopyEnds, heap, parser
<1>2. top = NULL
  BY <1>1, WhileCopying
<1>3. CASE target = "owned"
  BY <1>1, <1>2, <1>3, IdleRead
<1>4. CASE target # "owned"
  <2>1. /\ target = "root" /\ owned # NULL /\ owned \in Held /\ Joined(node) /\ Held \subseteq Nodes
        /\ Calling = copies[1] /\ Calling.newitem \in Nodes
    BY <1>1, <1>4, WhileCopying
  <2>2. owned \in live
    BY <2>1, InTrees DEF TreeInv
  <2>3. Calling.item = owned
    BY <1>1, <2>1 DEF ReadInv
  <2>4. PICK D \in SUBSET Nodes, F \in [Nodes -> Nodes] :
          Mirrored(D, F, Calling.item, Calling.newitem)
    BY <1>1, AllIsCopied
  <2>5. PICK b : b = Calling.newitem
    OBVIOUS
  <2>6. PICK w : w = [l \in Letters |-> Read(owned, <<l, "lower">>)]
    OBVIOUS
  <2>7. \A l \in Letters : w[l] = Read(owned, <<l, "lower">>)
    BY <2>6
  <2>8. Mirrored(D, F, owned, b)
    BY <2>3, <2>4, <2>5
  <2>9. \E s : Tells(node, b, s, w)
    BY <2>2, <2>7, <2>8, CopyTells
  <2>10. said' = w /\ root' = b /\ node' = node
    BY <1>1, <1>4, <2>5, <2>6
  <2>11. \E s : Tells(node', root', s, said')
    BY <2>9, <2>10
  <2>12. SaidIs'
    BY <2>6, <2>10 DEF SaidIs
  <2>13. b # NULL
    BY <2>1, <2>5, NodesAre
  <2> QED BY <1>1, <1>2, <2>10, <2>11, <2>12, <2>13 DEF ReadInv
<1> QED BY <1>3, <1>4

\* Every step.
LEMMA ReadNext ==
  ASSUME TreeInv, Once, CopyInv, ReadInv, [Next]_vars
  PROVE  ReadInv'
<1>1. CASE Parse
  BY <1>1, ParseRead
<1>2. CASE Use
  BY <1>2, UseRead
<1>3. CASE Copy
  BY <1>3, CopyBeginsRead, CopyCallsRead, CopyReturnsRead, CopyEndsRead, CopyFailsRead DEF Copy
<1>4. CASE UNCHANGED vars
  BY <1>4 DEF ReadInv, vars, heap, object, parser, copier, SaidIs, Tells, Reading, Fresh
<1> QED BY <1>1, <1>2, <1>3, <1>4 DEF Next

\* At first nothing is read.
LEMMA ReadInit == Init => ReadInv
<1> SUFFICES ASSUME Init PROVE ReadInv
  OBVIOUS
<1>1. top = NULL /\ root = NULL /\ stage = "idle" /\ said = [l \in Letters |-> NULL]
  BY DEF Init
<1> QED BY <1>1 DEF ReadInv, SaidIs

\* There is one list of the children of the root, and one first of each name.
LEMMA ReadsFirst ==
  ASSUME TreeInv, Once, ReadInv
  PROVE  ReadsFirstMember
<1> SUFFICES ASSUME Ready, NEW name \in Names
             PROVE  Read(root, name) = said[name[1]]
  BY DEF ReadsFirstMember
<1>1. root # NULL /\ root \in live
  BY ReadyIs, TypesJoined, HeldAreNodes, InTrees DEF TreeInv, Held
<1>2. PICK s : Tells(node, root, s, said)
  BY <1>1 DEF ReadInv
<1>3. PICK L \in Nat : L = Len(s)
  BY <1>2, LenProperties DEF Tells, Lists
<1>4. Lists(node, node[root].child, Children(root))
  BY <1>1, ChildrenListed
<1>5. s = Children(root)
  BY <1>2, <1>4, ListsOnce DEF Tells
<1>6. PICK a \in Letters : a = name[1]
  BY DEF Names
<1>7. Finds(node, s, L, a, said[a])
  BY <1>2, <1>3 DEF Tells
<1>8. Finds(node, s, L, a, Read(root, name))
  BY <1>1, <1>3, <1>5, <1>6, ReadFinds
<1> QED BY <1>6, <1>7, <1>8, FindsOnce
=============================================================================
