------------------------- MODULE SortedMapProofs -------------------------
(***************************************************************************)
(* The weight-balanced tree for every number of keys: the proofs of        *)
(* WellFormed, PickFree and ScanMeetsEach.                                 *)
(*                                                                         *)
(* The keys at and below each node are a function b that the invariant     *)
(* says exists and the lemmas rebuild at each assignment.  A rotation      *)
(* keeps them in order; an insertion or a deletion walks back to the root  *)
(* and everything below the walk is balanced; pick() narrows an interval   *)
(* of keys of which some id is free; and the node the iterator stands on,  *)
(* though deleted, still leads to the least key that is left.              *)
(***************************************************************************)
EXTENDS SortedMap, FiniteSetTheorems, WellFoundedInduction, TLAPS

-----------------------------------------------------------------------------
(* Loops.                                                                  *)

(* A set of natural numbers has a least element.                           *)
LEMMA LeastOf ==
  ASSUME NEW T \in SUBSET Nat, T # {}
  PROVE  \E n \in T : \A m \in T : n <= m
<1>1. \E n \in T : \A m \in T : ~(<<m, n>> \in OpToRel(<, Nat))
  BY NatLessThanWellFounded, WFMin, Zenon
<1>2. PICK n \in T : \A m \in T : ~(<<m, n>> \in OpToRel(<, Nat))
  BY <1>1
<1>3. \A m \in T : ~(m < n)
  BY <1>2 DEF OpToRel
<1> QED BY <1>3

(* What a loop does, turn by turn.                                         *)
Turns(S, body, start, n) ==
  {at \in [0..n -> S] : at[0] = start /\ \A i \in 1..n : at[i] = body[at[i - 1]]}

(* A body can be repeated any number of times.                             *)
LEMMA TurnsExist ==
  ASSUME NEW S, NEW body \in [S -> S], NEW start \in S, NEW N \in Nat
  PROVE  Turns(S, body, start, N) # {}
<1> DEFINE T == {n \in Nat : Turns(S, body, start, n) = {}}
<1>1. SUFFICES ASSUME T # {} PROVE FALSE
  OBVIOUS
<1>2. PICK n \in T : \A m \in T : n <= m
  BY <1>1, LeastOf
<1>3. n # 0
  <2> DEFINE g == [i \in 0..0 |-> start]
  <2>1. g \in Turns(S, body, start, 0)
    BY DEF Turns
  <2> QED BY <1>2, <2>1
<1>4. n \in Nat /\ n - 1 \in Nat /\ n - 1 \notin T
  BY <1>2, <1>3
<1>5. PICK f : f \in Turns(S, body, start, n - 1)
  BY <1>4
<1>6. f \in [0..(n - 1) -> S] /\ f[0] = start /\ \A i \in 1..(n - 1) : f[i] = body[f[i - 1]]
  BY <1>5 DEF Turns
<1> DEFINE g == [i \in 0..n |-> IF i = n THEN body[f[n - 1]] ELSE f[i]]
<1>7. f[n - 1] \in S
  BY <1>4, <1>6
<1>8. g \in [0..n -> S]
  <2> SUFFICES ASSUME NEW i \in 0..n PROVE g[i] \in S
    OBVIOUS
  <2>1. CASE i = n
    BY <1>7, <2>1
  <2>2. CASE i # n
    BY <1>4, <1>6, <2>2
  <2> QED BY <2>1, <2>2
<1>9. g[0] = start
  BY <1>3, <1>4, <1>6
<1>10. ASSUME NEW i \in 1..n PROVE g[i] = body[g[i - 1]]
  <2>1. i - 1 \in 0..n /\ i - 1 # n /\ g[i - 1] = f[i - 1]
    BY <1>4
  <2>2. CASE i = n
    BY <2>1, <2>2
  <2>3. CASE i # n
    BY <1>4, <1>6, <2>1, <2>3
  <2> QED BY <2>2, <2>3
<1> HIDE DEF g
<1>11. g \in Turns(S, body, start, n)
  BY <1>8, <1>9, <1>10 DEF Turns
<1> QED BY <1>2, <1>11

(* Loop is the last of MaxKey turns.                                       *)
LEMMA LoopTurns ==
  ASSUME NEW S, NEW body \in [S -> S], NEW start \in S
  PROVE  \E at \in Turns(S, body, start, MaxKey) : Loop(body, start) = at[MaxKey]
<1> DEFINE Eq(h) == h = [i \in 0..MaxKey |-> IF i = 0 THEN start ELSE body[h[i - 1]]]
           at == CHOOSE h : Eq(h)
<1>0. MaxKey \in Nat
  BY SortedMapAssumption
<1>1. PICK g : g \in Turns(S, body, start, MaxKey)
  BY <1>0, TurnsExist
<1>2. Eq(g)
  BY <1>0, <1>1 DEF Turns
<1>3. Eq(at)
  <2> HIDE DEF Eq
  <2> QED BY <1>2
<1>4. Loop(body, start) = at[MaxKey]
  BY DEF Loop
<1> HIDE DEF at
<1>5. at = [i \in 0..MaxKey |-> IF i = 0 THEN start ELSE body[at[i - 1]]]
  BY <1>3
<1>6. ASSUME NEW i \in 0..MaxKey, at[i] # g[i] PROVE FALSE
  <2> DEFINE T == {n \in 0..MaxKey : at[n] # g[n]}
  <2>1. \A n \in T : n \in Nat
    BY <1>0
  <2>2. PICK n \in T : \A m \in T : n <= m
    <3>1. i \in T
      BY <1>6
    <3> HIDE DEF T
    <3> QED BY <2>1, <3>1, LeastOf
  <2>3. n # 0
    BY <1>0, <1>1, <1>5 DEF Turns
  <2>4. n - 1 \in 0..MaxKey /\ n \in 1..MaxKey /\ n - 1 \notin T
    BY <2>1, <2>2, <2>3, <1>0
  <2>5. at[n - 1] = g[n - 1]
    BY <2>4
  <2>6. at[n] = body[at[n - 1]] /\ g[n] = body[g[n - 1]]
    BY <1>1, <1>5, <2>2, <2>3, <2>4 DEF Turns
  <2> QED BY <2>2, <2>5, <2>6
<1>7. MaxKey \in 0..MaxKey
  BY <1>0
<1> QED BY <1>1, <1>4, <1>6, <1>7

(* What holds at the start, of turn 0, and is kept by every turn holds of  *)
(* what Loop returns, of turn MaxKey.                                      *)
LEMMA LoopInduction ==
  ASSUME NEW S, NEW body \in [S -> S], NEW start \in S, NEW I, <<0, start>> \in I,
         \A i \in 0..(MaxKey - 1) : \A w \in S : <<i, w>> \in I => <<i + 1, body[w]>> \in I
  PROVE  Loop(body, start) \in S /\ <<MaxKey, Loop(body, start)>> \in I
<1>0. MaxKey \in Nat
  BY SortedMapAssumption
<1>1. PICK at \in Turns(S, body, start, MaxKey) : Loop(body, start) = at[MaxKey]
  BY LoopTurns
<1>2. /\ at \in [0..MaxKey -> S] /\ at[0] = start
      /\ \A i \in 1..MaxKey : at[i] = body[at[i - 1]]
  BY <1>1 DEF Turns
<1>3. ASSUME NEW k \in 0..MaxKey, <<k, at[k]>> \notin I PROVE FALSE
  <2> DEFINE T == {n \in 0..MaxKey : <<n, at[n]>> \notin I}
  <2>1. \A n \in T : n \in Nat
    BY <1>0
  <2>2. PICK n \in T : \A m \in T : n <= m
    <3>1. k \in T
      BY <1>3
    <3> HIDE DEF T
    <3> QED BY <2>1, <3>1, LeastOf
  <2>3. n # 0
    BY <1>2
  <2>4. n - 1 \in 0..MaxKey /\ n - 1 \in 0..(MaxKey - 1) /\ n \in 1..MaxKey /\ n - 1 \notin T
    BY <2>1, <2>2, <2>3, <1>0
  <2>5. <<n - 1, at[n - 1]>> \in I /\ at[n - 1] \in S /\ at[n] = body[at[n - 1]]
    BY <1>2, <2>4
  <2>6. (n - 1) + 1 = n
    BY <2>4
  <2>7. <<(n - 1) + 1, body[at[n - 1]]>> \in I
    BY <2>4, <2>5
  <2> QED BY <2>2, <2>5, <2>6, <2>7
<1>4. MaxKey \in 0..MaxKey
  BY <1>0
<1> QED BY <1>1, <1>2, <1>3, <1>4

-----------------------------------------------------------------------------
(* What the pointers say.  A tree is linked when some b gives each of its  *)
(* nodes the keys at and below it: the node's own and those of its two     *)
(* sides, the smaller ones on the left.  b is what Below computes          *)
(* (BelowIs, further down); the lemmas about the operations say what       *)
(* becomes of it.                                                          *)

(* The keys, the nodes and the two sides.                                  *)
LEMMA Basics ==
  /\ MaxKey \in Nat /\ MaxKey > 0 /\ Nil \notin Keys /\ Nil \in Nodes /\ Keys \subseteq Nodes
  /\ Nodes = Keys \cup {Nil} /\ Keys \subseteq Nat \ {0} /\ Nodes \subseteq Nat
  /\ \A s \in Side : Opp(s) \in Side /\ Opp(s) # s /\ Opp(Opp(s)) = s
  /\ \A s, u \in Side : u = s \/ u = Opp(s)
  /\ "left" \in Side /\ "right" \in Side /\ Side = {"left", "right"}
BY SortedMapAssumption DEF Nil, Keys, Nodes, Side, Opp

(* Sets of keys are finite, and have MaxKey elements at most.              *)
LEMMA KeySets ==
  /\ IsFiniteSet(Keys) /\ Cardinality(Keys) = MaxKey
  /\ \A S \in SUBSET Keys : IsFiniteSet(S) /\ Cardinality(S) \in Nat /\ Cardinality(S) <= MaxKey
<1>1. IsFiniteSet(Keys) /\ Cardinality(Keys) = MaxKey
  BY SortedMapAssumption, FS_Interval DEF Keys
<1> QED BY <1>1, FS_Subset, FS_CardinalityType, Zenon

(* k lies on a side of n.                                                  *)
On(s, k, n) == IF s = "left" THEN k < n ELSE k > n

(* b[n]: the keys at and below a node that is held.                        *)
Linked(t, b) ==
  /\ t \in Trees /\ b \in [Nodes -> SUBSET Keys] /\ b[Nil] = {}
  /\ \A n \in Keys : n \in b[n]
  /\ \A n \in b[t.root] : b[n] \subseteq b[t.root]
  /\ \A n \in b[t.root] : b[n] = {n} \cup b[t.kid["left"][n]] \cup b[t.kid["right"][n]]
  /\ \A n \in b[t.root], s \in Side : \A k \in b[t.kid[s][n]] : On(s, k, n)
  /\ \A n \in b[t.root], s \in Side : t.kid[s][n] # Nil => t.parent[t.kid[s][n]] = n
  /\ \A n \in Keys \ b[t.root], s \in Side : t.kid[s][n] \in b[t.root] \cup {Nil}
  /\ t.parent[t.root] = Nil
  /\ \A s \in Side : t.kid[s][Nil] = Nil
  /\ t.parent[Nil] = Nil /\ t.size[Nil] = 0

(* The parts of a tree.                                                    *)
LEMMA TreeParts ==
  ASSUME NEW t \in Trees
  PROVE  /\ t.root \in Nodes /\ t.parent \in [Nodes -> Nodes] /\ t.size \in [Nodes -> Nat]
         /\ \A s \in Side : t.kid[s] \in [Nodes -> Nodes]
         /\ \A n \in Nodes : t.parent[n] \in Nodes /\ t.size[n] \in Nat
         /\ \A s \in Side, n \in Nodes : t.kid[s][n] \in Nodes
BY DEF Trees

(* The kids of a node that is held.                                        *)
LEMMA KidsOf ==
  ASSUME NEW t, NEW b, Linked(t, b), NEW n \in b[t.root]
  PROVE  /\ n \in Keys /\ b[n] = {n} \cup b[t.kid["left"][n]] \cup b[t.kid["right"][n]]
         /\ \A s \in Side :
              /\ t.kid[s][n] \in Nodes /\ n \notin b[t.kid[s][n]] /\ b[t.kid[s][n]] \subseteq b[n]
              /\ t.kid[s][n] # Nil => /\ t.kid[s][n] \in b[t.root] /\ t.kid[s][n] \in b[t.kid[s][n]]
                                      /\ t.parent[t.kid[s][n]] = n /\ t.kid[s][n] # n
         /\ \A s \in Side : b[n] = {n} \cup b[t.kid[s][n]] \cup b[t.kid[Opp(s)][n]]
         /\ \A s \in Side : b[t.kid[s][n]] \cap b[t.kid[Opp(s)][n]] = {}
<1>1. t \in Trees /\ t.root \in Nodes /\ b[t.root] \subseteq Keys /\ n \in Keys
  BY TreeParts DEF Linked
<1>2. b[n] = {n} \cup b[t.kid["left"][n]] \cup b[t.kid["right"][n]] /\ b[n] \subseteq b[t.root]
  BY DEF Linked
<1>3. ASSUME NEW s \in Side
      PROVE  /\ t.kid[s][n] \in Nodes /\ b[t.kid[s][n]] \subseteq b[n]
             /\ b[t.kid[s][n]] \subseteq Keys
             /\ \A k \in b[t.kid[s][n]] : On(s, k, n)
  <2>1. t.kid[s][n] \in Nodes
    BY <1>1, Basics, TreeParts
  <2>2. b[t.kid[s][n]] \subseteq Keys
    BY <2>1 DEF Linked
  <2>3. \A k \in b[t.kid[s][n]] : On(s, k, n)
    BY DEF Linked
  <2> QED BY <1>2, <2>1, <2>2, <2>3 DEF Side
<1>4. ASSUME NEW s \in Side PROVE n \notin b[t.kid[s][n]]
  BY <1>1, <1>3, Basics DEF On
<1>5. ASSUME NEW s \in Side, t.kid[s][n] # Nil
      PROVE  /\ t.kid[s][n] \in b[t.root] /\ t.kid[s][n] \in b[t.kid[s][n]]
             /\ t.parent[t.kid[s][n]] = n /\ t.kid[s][n] # n
  <2>1. t.kid[s][n] \in Keys
    BY <1>3, <1>5, Basics
  <2>2. t.kid[s][n] \in b[t.kid[s][n]] /\ t.parent[t.kid[s][n]] = n
    BY <2>1, <1>5 DEF Linked
  <2> QED BY <1>2, <1>3, <1>4, <2>2
<1>6. \A s \in Side : b[n] = {n} \cup b[t.kid[s][n]] \cup b[t.kid[Opp(s)][n]]
  BY <1>2 DEF Side, Opp
<1>7. ASSUME NEW s \in Side, NEW k \in b[t.kid[s][n]], k \in b[t.kid[Opp(s)][n]] PROVE FALSE
  <2>1. On(s, k, n) /\ On(Opp(s), k, n) /\ k \in Nat /\ n \in Nat
    BY <1>1, <1>3, <1>7, Basics, ZenonT(30)
  <2> QED BY <2>1 DEF On, Side, Opp
<1> QED BY <1>1, <1>2, <1>3, <1>4, <1>5, <1>6, <1>7

(* A subtree has its node more than its two sides together.                *)
LEMMA Counts ==
  ASSUME NEW t, NEW b, Linked(t, b), NEW n \in b[t.root]
  PROVE  \A s \in Side :
           /\ Cardinality(b[n]) = Cardinality(b[t.kid[s][n]]) + Cardinality(b[t.kid[Opp(s)][n]]) + 1
           /\ Cardinality(b[t.kid[s][n]]) \in Nat /\ Cardinality(b[t.kid[Opp(s)][n]]) \in Nat
           /\ Cardinality(b[t.kid[s][n]]) < Cardinality(b[n])
<1> SUFFICES ASSUME NEW s \in Side
             PROVE
               /\ Cardinality(b[n]) = Cardinality(b[t.kid[s][n]]) + Cardinality(b[t.kid[Opp(s)][n]]) + 1
                    /\ Cardinality(b[t.kid[s][n]]) \in Nat
                       /\ Cardinality(b[t.kid[Opp(s)][n]]) \in Nat
  <2>1. \A i, j \in Nat : i < i + j + 1
    OBVIOUS
  <2> QED BY <2>1
<1> DEFINE A == b[t.kid[s][n]]
           B == b[t.kid[Opp(s)][n]]
<1>1. /\ A \in SUBSET Keys /\ B \in SUBSET Keys /\ b[n] = (A \cup B) \cup {n} /\ A \cap B = {}
      /\ n \notin A \cup B
  <2>1. t.kid[s][n] \in Nodes /\ t.kid[Opp(s)][n] \in Nodes
    BY KidsOf, Basics
  <2>2. A \in SUBSET Keys /\ B \in SUBSET Keys
    BY <2>1 DEF Linked
  <2> QED BY <2>2, KidsOf, Basics
<1> HIDE DEF A, B
<1>2. IsFiniteSet(A) /\ IsFiniteSet(B) /\ A \cup B \in SUBSET Keys
  BY <1>1, KeySets
<1>3. Cardinality(A) \in Nat /\ Cardinality(B) \in Nat /\ IsFiniteSet(A \cup B)
  BY <1>1, <1>2, KeySets
<1>4. Cardinality(A \cap B) = 0
  BY <1>1, FS_EmptySet
<1>5. Cardinality(A \cup B) = Cardinality(A) + Cardinality(B)
  <2>1. Cardinality(A \cup B) = Cardinality(A) + Cardinality(B) - Cardinality(A \cap B)
    BY <1>2, FS_Union, Zenon
  <2> QED BY <1>3, <1>4, <2>1
<1>6. Cardinality((A \cup B) \cup {n}) = Cardinality(A \cup B) + 1
  BY <1>1, <1>3, FS_AddElement
<1> QED BY <1>1, <1>3, <1>5, <1>6 DEF A, B

(* In a set of nodes one has no kid in the set.                            *)
LEMMA FromLeaves ==
  ASSUME NEW t, NEW b, Linked(t, b), NEW T \in SUBSET b[t.root], T # {}
  PROVE  \E n \in T : \A s \in Side : t.kid[s][n] \notin T
<1> DEFINE C == {Cardinality(b[n]) : n \in T}
<1>0. \A n \in T : n \in b[t.root] /\ n \in Keys /\ b[n] \in SUBSET Keys
  BY KidsOf, Basics DEF Linked
<1>1. C \in SUBSET Nat /\ C # {}
  BY <1>0, KeySets
<1>2. PICK c \in C : \A d \in C : c <= d
  <2> HIDE DEF C
  <2> QED BY <1>1, LeastOf
<1>3. PICK n \in T : c = Cardinality(b[n])
  BY <1>2
<1>4. ASSUME NEW s \in Side, t.kid[s][n] \in T PROVE FALSE
  <2>1. Cardinality(b[t.kid[s][n]]) < Cardinality(b[n])
    BY <1>0, Counts
  <2>2. Cardinality(b[n]) <= Cardinality(b[t.kid[s][n]])
    BY <1>2, <1>3, <1>4
  <2>3. Cardinality(b[t.kid[s][n]]) \in Nat /\ Cardinality(b[n]) \in Nat
    BY <1>0, <1>4, KeySets
  <2> QED BY <2>1, <2>2, <2>3
<1> QED BY <1>4

(* What is below a node below n is below n.                                *)
LEMMA Nested ==
  ASSUME NEW t, NEW b, Linked(t, b), NEW n \in b[t.root], NEW m \in b[n]
  PROVE  b[m] \subseteq b[n] /\ m \in b[t.root]
<1> DEFINE T == {x \in b[t.root] : \E y \in b[x] : ~(b[y] \subseteq b[x])}
<1>1. SUFFICES ASSUME T # {} PROVE FALSE
  BY DEF Linked
<1>2. T \in SUBSET b[t.root]
  OBVIOUS
<1>3. PICK x \in T : \A s \in Side : t.kid[s][x] \notin T
  <2> HIDE DEF T
  <2> QED BY <1>1, <1>2, FromLeaves
<1>4. PICK y \in b[x] : ~(b[y] \subseteq b[x])
  OBVIOUS
<1>5. y # x /\ x \in b[t.root]
  BY <1>3, <1>4, Zenon
<1>6. PICK s \in Side : y \in b[t.kid[s][x]]
  BY <1>4, <1>5, KidsOf, Basics
<1>7. t.kid[s][x] # Nil
  BY <1>6 DEF Linked
<1>8. t.kid[s][x] \in b[t.root] /\ b[t.kid[s][x]] \subseteq b[x]
  BY <1>5, <1>7, KidsOf
<1>9. b[y] \subseteq b[t.kid[s][x]]
  BY <1>3, <1>6, <1>8
<1> QED BY <1>4, <1>8, <1>9

(* The parent of a node below n is below n.                                *)
LEMMA ParentOf ==
  ASSUME NEW t, NEW b, Linked(t, b), NEW n \in b[t.root], NEW m \in b[n], m # n
  PROVE  /\ t.parent[m] \in b[n] /\ t.parent[m] \in b[t.root] /\ t.parent[m] # Nil
         /\ t.parent[m] # m
         /\ \E s \in Side : t.kid[s][t.parent[m]] = m
<1> DEFINE T == {x \in b[t.root] :
                   \E y \in b[x] : y # x /\ ~(t.parent[y] \in b[x]
                     /\ \E s \in Side : t.kid[s][t.parent[y]] = y)}
<1>1. T = {}
  <2>1. SUFFICES ASSUME T # {} PROVE FALSE
    OBVIOUS
  <2>2. T \in SUBSET b[t.root]
    OBVIOUS
  <2>3. PICK x \in T : \A s \in Side : t.kid[s][x] \notin T
    <3> HIDE DEF T
    <3> QED BY <2>1, <2>2, FromLeaves
  <2>4. PICK y \in b[x] : y # x /\ ~(t.parent[y] \in b[x]
               /\ \E s \in Side : t.kid[s][t.parent[y]] = y)
    OBVIOUS
  <2>5. x \in b[t.root] /\ x \in b[x]
    BY <2>3, KidsOf
  <2>6. PICK s \in Side : y \in b[t.kid[s][x]]
    BY <2>4, <2>5, KidsOf, Basics
  <2>7. t.kid[s][x] # Nil
    BY <2>6 DEF Linked
  <2>8. t.kid[s][x] \in b[t.root] /\ b[t.kid[s][x]] \subseteq b[x] /\ t.parent[t.kid[s][x]] = x
    BY <2>5, <2>7, KidsOf
  <2>9. CASE y = t.kid[s][x]
    BY <2>4, <2>5, <2>8, <2>9, Zenon
  <2>10. CASE y # t.kid[s][x]
    BY <2>3, <2>4, <2>6, <2>8, <2>10
  <2> QED BY <2>9, <2>10
<1>2. t.parent[m] \in b[n] /\ \E s \in Side : t.kid[s][t.parent[m]] = m
  BY <1>1
<1>3. t.parent[m] \in b[t.root] /\ m \in b[t.root]
  BY <1>2, Nested
<1>4. t.parent[m] # Nil /\ m # Nil
  <2>1. \A x \in b[t.root] : x \in Keys
    BY KidsOf
  <2> QED BY <1>3, <2>1, Basics
<1>5. t.parent[m] # m
  BY <1>2, <1>3, <1>4, KidsOf, SMTT(30)
<1> QED BY <1>2, <1>3, <1>4, <1>5

(* Two nodes are not below each other.                                     *)
LEMMA Antisymmetric ==
  ASSUME NEW t, NEW b, Linked(t, b), NEW n \in b[t.root], NEW m \in b[n], n \in b[m]
  PROVE  m = n
<1>1. SUFFICES ASSUME m # n PROVE FALSE
  OBVIOUS
<1>2. PICK s \in Side : m \in b[t.kid[s][n]]
  BY <1>1, KidsOf, Basics
<1>3. t.kid[s][n] # Nil
  BY <1>2 DEF Linked
<1>4. t.kid[s][n] \in b[t.root] /\ n \notin b[t.kid[s][n]]
  BY <1>3, KidsOf
<1>5. b[m] \subseteq b[t.kid[s][n]]
  BY <1>2, <1>4, Nested
<1> QED BY <1>4, <1>5

(* The root of a tree that holds anything holds it all.                    *)
LEMMA RootOf ==
  ASSUME NEW t, NEW b, Linked(t, b)
  PROVE  /\ t.root \in Nodes /\ b[t.root] \subseteq Keys
         /\ t.root # Nil => t.root \in b[t.root]
         /\ t.root = Nil => b[t.root] = {}
         /\ \A m \in b[t.root] : t.parent[m] = Nil <=> m = t.root
         /\ \A m \in b[t.root] : m \in Keys /\ b[m] \in SUBSET b[t.root] /\ m \in b[m]
<1>1. t.root \in Nodes /\ b[t.root] \subseteq Keys
  BY TreeParts DEF Linked
<1>2. t.root # Nil => t.root \in b[t.root]
  BY <1>1, Basics DEF Linked
<1>3. ASSUME NEW m \in b[t.root] PROVE t.parent[m] = Nil <=> m = t.root
  <2>1. CASE m = t.root
    BY <2>1 DEF Linked
  <2>2. CASE m # t.root
    <3>1. t.root # Nil
      BY DEF Linked
    <3>2. t.parent[m] # Nil
      BY <1>2, <2>2, <3>1, ParentOf
    <3> QED BY <2>2, <3>2
  <2> QED BY <2>1, <2>2
<1> QED BY <1>1, <1>2, <1>3 DEF Linked

(* The same for all nodes that are held.                                   *)
LEMMA KidFacts ==
  ASSUME NEW t, NEW b, Linked(t, b)
  PROVE  \A n \in b[t.root] :
           /\ n \in Keys /\ n \in Nodes /\ n # Nil /\ n \in b[n] /\ b[n] \subseteq b[t.root]
           /\ \A s \in Side :
                /\ t.kid[s][n] \in Nodes /\ n \notin b[t.kid[s][n]] /\ b[t.kid[s][n]] \subseteq b[n]
                /\ t.kid[s][n] # n
                /\ b[t.kid[s][n]] \cap b[t.kid[Opp(s)][n]] = {}
                /\ t.kid[s][n] # Nil => /\ t.kid[s][n] \in b[t.root]
                                           /\ t.kid[s][n] \in b[t.kid[s][n]]
                                        /\ t.kid[s][n] \in b[n] /\ t.parent[t.kid[s][n]] = n
<1> SUFFICES ASSUME NEW n \in b[t.root]
             PROVE  /\ n \in Keys /\ n \in Nodes /\ n # Nil /\ n \in b[n]
                       /\ b[n] \subseteq b[t.root]
                    /\ \A s \in Side :
                         /\ t.kid[s][n] \in Nodes /\ n \notin b[t.kid[s][n]]
                            /\ b[t.kid[s][n]] \subseteq b[n]
                         /\ t.kid[s][n] # n
                         /\ b[t.kid[s][n]] \cap b[t.kid[Opp(s)][n]] = {}
                         /\ t.kid[s][n] # Nil => /\ t.kid[s][n] \in b[t.root]
                                                    /\ t.kid[s][n] \in b[t.kid[s][n]]
                                                 /\ t.kid[s][n] \in b[n]
                                                    /\ t.parent[t.kid[s][n]] = n
  BY Zenon
<1>1. n \in Keys /\ n \in Nodes /\ n # Nil /\ n \in b[n] /\ b[n] \subseteq b[t.root]
  <2>1. n \in Keys /\ b[n] \in SUBSET b[t.root] /\ n \in b[n]
    BY RootOf
  <2> QED BY <2>1, Basics
<1> QED BY <1>1, KidsOf

-----------------------------------------------------------------------------
(* What each assignment to the tree changes.                               *)

(* A child is replaced.                                                    *)
LEMMA SetKid ==
  ASSUME NEW t \in Trees, NEW s \in Side, NEW n \in Nodes, NEW k \in Nodes
  PROVE  LET r == [t EXCEPT !.kid[s][n] = k]
         IN /\ r \in Trees /\ r.root = t.root /\ r.parent = t.parent /\ r.size = t.size
            /\ \A u \in Side, x \in Nodes : r.kid[u][x] = IF u = s /\ x = n THEN k ELSE t.kid[u][x]
<1> DEFINE r == [t EXCEPT !.kid[s][n] = k]
<1>1. /\ t.kid \in [Side -> [Nodes -> Nodes]] /\ t.root \in Nodes
      /\ t.parent \in [Nodes -> Nodes] /\ t.size \in [Nodes -> Nat]
  BY DEF Trees
<1>2. r.kid = [t.kid EXCEPT ![s][n] = k] /\ r.root = t.root /\ r.parent = t.parent
        /\ r.size = t.size
  BY DEF Trees
<1>3. r.kid \in [Side -> [Nodes -> Nodes]]
  BY <1>1, <1>2
<1>4. r = [root |-> r.root, kid |-> r.kid, parent |-> r.parent, size |-> r.size]
  BY DEF Trees
<1>5. r \in Trees
  <2> HIDE DEF r
  <2> QED BY <1>1, <1>2, <1>3, <1>4 DEF Trees
<1>6. \A u \in Side, x \in Nodes : r.kid[u][x] = IF u = s /\ x = n THEN k ELSE t.kid[u][x]
  <2> HIDE DEF r
  <2> QED BY <1>1, <1>2
<1> QED BY <1>2, <1>5, <1>6

(* The same as a relation between the two trees.                           *)
KidSet(t, r, s, n, k) ==
  /\ r \in Trees /\ r.root = t.root /\ r.parent = t.parent /\ r.size = t.size
  /\ \A u \in Side, x \in Nodes : r.kid[u][x] = IF u = s /\ x = n THEN k ELSE t.kid[u][x]

(* An assignment to a child.                                               *)
LEMMA KidIsSet ==
  ASSUME NEW t \in Trees, NEW s \in Side, NEW n \in Nodes, NEW k \in Nodes
  PROVE  KidSet(t, [t EXCEPT !.kid[s][n] = k], s, n, k)
BY SetKid DEF KidSet

(* A parent is replaced.                                                   *)
LEMMA SetParent ==
  ASSUME NEW t \in Trees, NEW n \in Nodes, NEW k \in Nodes
  PROVE  LET r == [t EXCEPT !.parent[n] = k]
         IN /\ r \in Trees /\ r.root = t.root /\ r.kid = t.kid /\ r.size = t.size
            /\ \A x \in Nodes : r.parent[x] = IF x = n THEN k ELSE t.parent[x]
BY DEF Trees

(* A size is replaced.                                                     *)
LEMMA SetSize ==
  ASSUME NEW t \in Trees, NEW n \in Nodes, NEW k \in Nat
  PROVE  LET r == [t EXCEPT !.size[n] = k]
         IN /\ r \in Trees /\ r.root = t.root /\ r.kid = t.kid /\ r.parent = t.parent
            /\ \A x \in Nodes : r.size[x] = IF x = n THEN k ELSE t.size[x]
BY DEF Trees

(* The root is replaced.                                                   *)
LEMMA SetRoot ==
  ASSUME NEW t \in Trees, NEW k \in Nodes
  PROVE  LET r == [t EXCEPT !.root = k]
         IN r \in Trees /\ r.root = k /\ r.kid = t.kid /\ r.parent = t.parent /\ r.size = t.size
BY Zenon DEF Trees

(* Weigh changes the size of its node only.                                *)
LEMMA Weighed ==
  ASSUME NEW t \in Trees, NEW n \in Nodes
  PROVE  /\ Weigh(t, n) \in Trees /\ Weigh(t, n).root = t.root /\ Weigh(t, n).kid = t.kid
         /\ Weigh(t, n).parent = t.parent
         /\ Weigh(t, n).size[n] = t.size[t.kid["left"][n]] + t.size[t.kid["right"][n]] + 1
         /\ \A x \in Nodes : x # n => Weigh(t, n).size[x] = t.size[x]
<1> DEFINE w == t.size[t.kid["left"][n]] + t.size[t.kid["right"][n]] + 1
<1>1. w \in Nat
  <2>1. t.kid["left"][n] \in Nodes /\ t.kid["right"][n] \in Nodes
    BY TreeParts, Basics
  <2>2. t.size[t.kid["left"][n]] \in Nat /\ t.size[t.kid["right"][n]] \in Nat
    BY <2>1, TreeParts
  <2> QED BY <2>2
<1>2. Weigh(t, n) = [t EXCEPT !.size[n] = w]
  BY DEF Weigh
<1> HIDE DEF w
<1>3. LET r == [t EXCEPT !.size[n] = w]
      IN /\ r \in Trees /\ r.root = t.root /\ r.kid = t.kid /\ r.parent = t.parent
         /\ \A x \in Nodes : r.size[x] = IF x = n THEN w ELSE t.size[x]
  BY <1>1, SetSize
<1> QED BY <1>2, <1>3 DEF w

(* Reparent changes the parent of its node only, and NIL's never.          *)
LEMMA Reparented ==
  ASSUME NEW t \in Trees, NEW n \in Nodes, NEW k \in Nodes
  PROVE  /\ Reparent(t, n, k) \in Trees /\ Reparent(t, n, k).root = t.root
         /\ Reparent(t, n, k).kid = t.kid /\ Reparent(t, n, k).size = t.size
         /\ \A x \in Nodes :
              Reparent(t, n, k).parent[x] = IF x = n /\ n # Nil THEN k ELSE t.parent[x]
BY SetParent DEF Reparent

(* Replace changes the root, or one child of one node.                     *)
LEMMA Replaced ==
  ASSUME NEW t \in Trees, NEW old \in Nodes, NEW new \in Nodes, NEW r, r = Replace(t, old, new),
         NEW p, p = t.parent[old],
         NEW s, s = IF old = t.kid["left"][p] THEN "left" ELSE "right"
  PROVE  /\ r \in Trees /\ r.parent = t.parent /\ r.size = t.size
         /\ r.root = IF old = t.root THEN new ELSE t.root
         /\ \A u \in Side, x \in Nodes :
              r.kid[u][x] = IF old # t.root /\ u = s /\ x = p THEN new ELSE t.kid[u][x]
<1>1. CASE old = t.root
  BY <1>1, SetRoot DEF Replace
<1>2. CASE old # t.root
  <2>1. p \in Nodes /\ s \in Side
    BY TreeParts, Basics, Zenon
  <2>2. r = [t EXCEPT !.kid[s][p] = new]
    BY <1>2, Zenon DEF Replace
  <2>3. /\ r \in Trees /\ r.root = t.root /\ r.parent = t.parent /\ r.size = t.size
        /\ \A u \in Side, x \in Nodes : r.kid[u][x] = IF u = s /\ x = p THEN new ELSE t.kid[u][x]
    <3>1. KidSet(t, [t EXCEPT !.kid[s][p] = new], s, p, new)
      BY <2>1, KidIsSet, Zenon
    <3>2. KidSet(t, r, s, p, new)
      BY <2>2, <3>1, Zenon
    <3> QED BY <3>2, Zenon DEF KidSet
  <2> QED BY <1>2, <2>3
<1> QED BY <1>1, <1>2

(* A rotation, of a node n whose child is c, the child's child m and the   *)
(* parent p.                                                               *)
Spun(t, n, side, c, m, p) ==
  LET t1 == Reparent([t EXCEPT !.kid[Opp(side)][n] = m], m, n)
      t2 == Replace([t1 EXCEPT !.parent[c] = p], n, c)
      t3 == [t2 EXCEPT !.parent[n] = c, !.kid[side][c] = n, !.size[c] = t.size[n]]
  IN Weigh(t3, n)

(* What a rotation does, pointer by pointer.                               *)
Effect(t, r, n, side, c, m, p) ==
  /\ r.root = IF n = t.root THEN c ELSE t.root
  /\ \A u \in Side, x \in Nodes :
       r.kid[u][x] =
         IF x = n THEN IF u = side THEN t.kid[u][n] ELSE m
         ELSE IF x = c THEN IF u = side THEN n ELSE t.kid[u][c]
         ELSE IF x = p /\ n # t.root /\ u = (IF n = t.kid["left"][p] THEN "left" ELSE "right")
           THEN c
         ELSE t.kid[u][x]
  /\ \A x \in Nodes :
       r.parent[x] = IF x = n THEN c ELSE IF x = c THEN p
                     ELSE IF x = m /\ m # Nil THEN n ELSE t.parent[x]
  /\ \A x \in Nodes :
       r.size[x] = IF x = n THEN t.size[t.kid[side][n]] + t.size[m] + 1
                   ELSE IF x = c THEN t.size[n] ELSE t.size[x]

(* A rotation has its effect in any tree whose nodes are apart.            *)
LEMMA SpunIs ==
  ASSUME NEW t \in Trees, NEW n \in Nodes, NEW side \in Side,
         NEW c \in Nodes, NEW m \in Nodes, NEW p \in Nodes
  PROVE  /\ Spun(t, n, side, c, m, p) \in Trees
         /\ t.kid[Opp(side)][n] = c /\ t.kid[side][c] = m /\ t.parent[n] = p
                /\ n # c /\ n # m /\ p # n /\ p # c /\ c # m /\ t.kid[side][n] # c =>
              Effect(t, Spun(t, n, side, c, m, p), n, side, c, m, p)
<1> DEFINE r == Spun(t, n, side, c, m, p)
<1>1. c \in Nodes /\ m \in Nodes /\ p \in Nodes /\ Opp(side) \in Side
  BY Basics
<1> DEFINE t0 == [t EXCEPT !.kid[Opp(side)][n] = m]
           t1 == Reparent(t0, m, n)
           ta == [t1 EXCEPT !.parent[c] = p]
           t2 == Replace(ta, n, c)
           tb == [t2 EXCEPT !.parent[n] = c]
           tc == [tb EXCEPT !.kid[side][c] = n]
           t3 == [tc EXCEPT !.size[c] = t.size[n]]
<1>2. /\ t0 \in Trees /\ t0.root = t.root /\ t0.parent = t.parent /\ t0.size = t.size
      /\ \A u \in Side, x \in Nodes :
           t0.kid[u][x] = IF u = Opp(side) /\ x = n THEN m ELSE t.kid[u][x]
  BY <1>1, SetKid
<1> HIDE DEF t0
<1>3. /\ t1 \in Trees /\ t1.root = t.root /\ t1.kid = t0.kid /\ t1.size = t.size
      /\ \A x \in Nodes : t1.parent[x] = IF x = m /\ m # Nil THEN n ELSE t.parent[x]
  <2>1. t0 \in Trees /\ m \in Nodes /\ n \in Nodes
    BY <1>1, <1>2
  <2>2. /\ t1 \in Trees /\ t1.root = t0.root /\ t1.kid = t0.kid /\ t1.size = t0.size
        /\ \A x \in Nodes : t1.parent[x] = IF x = m /\ m # Nil THEN n ELSE t0.parent[x]
    BY <2>1, Reparented
  <2> QED BY <1>2, <2>2
<1> HIDE DEF t1
<1>4. /\ ta \in Trees /\ ta.root = t.root /\ ta.kid = t0.kid /\ ta.size = t.size
      /\ \A x \in Nodes : ta.parent[x] = IF x = c THEN p ELSE t1.parent[x]
  BY <1>1, <1>3, SetParent
<1> HIDE DEF ta
<1> DEFINE q == ta.parent[n]
           h == IF n = ta.kid["left"][q] THEN "left" ELSE "right"
<1>5. /\ t2 \in Trees /\ t2.parent = ta.parent /\ t2.size = ta.size
      /\ t2.root = IF n = ta.root THEN c ELSE ta.root
      /\ \A u \in Side, x \in Nodes :
           t2.kid[u][x] = IF n # ta.root /\ u = h /\ x = q THEN c ELSE ta.kid[u][x]
  BY <1>1, <1>4, Replaced
<1> HIDE DEF t2
<1>6. /\ tb \in Trees /\ tb.root = t2.root /\ tb.kid = t2.kid /\ tb.size = t2.size
      /\ \A x \in Nodes : tb.parent[x] = IF x = n THEN c ELSE t2.parent[x]
  BY <1>1, <1>5, SetParent
<1>7. /\ tc \in Trees /\ tc.root = tb.root /\ tc.parent = tb.parent /\ tc.size = tb.size
      /\ \A u \in Side, x \in Nodes : tc.kid[u][x] = IF u = side /\ x = c THEN n ELSE tb.kid[u][x]
  <2> HIDE DEF tb
  <2> QED BY <1>1, <1>6, SetKid
<1>8. /\ t3 \in Trees /\ t3.root = tc.root /\ t3.kid = tc.kid /\ t3.parent = tc.parent
      /\ \A x \in Nodes : t3.size[x] = IF x = c THEN t.size[n] ELSE tc.size[x]
  <2>1. t.size[n] \in Nat
    BY TreeParts
  <2> HIDE DEF tc
  <2> QED BY <1>1, <1>7, <2>1, SetSize
<1>9. r = Weigh(t3, n)
  <2>1. t3 = [t2 EXCEPT !.parent[n] = c, !.kid[side][c] = n, !.size[c] = t.size[n]]
    BY <1>5 DEF Trees
  <2> QED BY <2>1 DEF r, Spun, t0, t1, ta, t2
<1> HIDE DEF r, tb, tc, t3
<1>10. /\ r \in Trees /\ r.root = t3.root /\ r.kid = t3.kid /\ r.parent = t3.parent
       /\ r.size[n] = t3.size[t3.kid["left"][n]] + t3.size[t3.kid["right"][n]] + 1
       /\ \A x \in Nodes : x # n => r.size[x] = t3.size[x]
  <2>1. t3 \in Trees /\ n \in Nodes
    BY <1>8
  <2> QED BY <1>9, <2>1, Weighed
<1>11. ASSUME t.kid[Opp(side)][n] = c, t.kid[side][c] = m, t.parent[n] = p, n # c, n # m, p # n,
              p # c, c # m, t.kid[side][n] # c
       PROVE  Effect(t, r, n, side, c, m, p)
  <2>1. r.root = IF n = t.root THEN c ELSE t.root
    BY <1>4, <1>5, <1>6, <1>7, <1>8, <1>10
  <2>2. ta.parent[n] = p
    BY <1>1, <1>3, <1>4, <1>11
  <2>3. ta.kid["left"][p] = t.kid["left"][p]
    BY <1>1, <1>2, <1>4, <1>11, Basics
  <2>4. ASSUME NEW u \in Side, NEW x \in Nodes
        PROVE  r.kid[u][x] =
                 IF x = n THEN IF u = side THEN t.kid[u][n] ELSE m
                 ELSE IF x = c THEN IF u = side THEN n ELSE t.kid[u][c]
                 ELSE IF x = p /\ n # t.root
                         /\ u = (IF n = t.kid["left"][p] THEN "left" ELSE "right")
                   THEN c
                 ELSE t.kid[u][x]
    <3>1. r.kid[u][x] = IF u = side /\ x = c THEN n ELSE t2.kid[u][x]
      BY <1>6, <1>7, <1>8, <1>10
    <3>2. t2.kid[u][x] = IF n # t.root
            /\ u = (IF n = t.kid["left"][p] THEN "left" ELSE "right") /\ x = p
                         THEN c ELSE t0.kid[u][x]
      BY <1>4, <1>5, <2>2, <2>3
    <3>3. t0.kid[u][x] = IF u = Opp(side) /\ x = n THEN m ELSE t.kid[u][x]
      BY <1>2
    <3>4. u = side \/ u = Opp(side)
      BY Basics
    <3> QED BY <1>11, <3>1, <3>2, <3>3, <3>4, Basics
  <2>5. ASSUME NEW x \in Nodes
        PROVE  r.parent[x] = IF x = n THEN c ELSE IF x = c THEN p
                             ELSE IF x = m /\ m # Nil THEN n ELSE t.parent[x]
    BY <1>3, <1>4, <1>5, <1>6, <1>7, <1>8, <1>10, <1>11
  <2>6. r.kid[side][n] = t.kid[side][n] /\ r.kid[Opp(side)][n] = m
    BY <1>1, <1>11, <2>4, Basics
  <2>7. \A x \in Nodes : t3.size[x] = IF x = c THEN t.size[n] ELSE t.size[x]
    BY <1>4, <1>5, <1>6, <1>7, <1>8
  <2>8. t3.size[r.kid[side][n]] = t.size[t.kid[side][n]] /\ t3.size[r.kid[Opp(side)][n]] = t.size[m]
      <3>1. t.kid[side][n] \in Nodes
      BY TreeParts
    <3> QED BY <1>1, <1>11, <2>6, <2>7, <3>1
  <2>9. t.size[t.kid[side][n]] \in Nat /\ t.size[m] \in Nat
    BY <1>1, TreeParts
  <2>10. r.size[n] = t.size[t.kid[side][n]] + t.size[m] + 1
    <3>1. r.size[n] = t3.size[r.kid["left"][n]] + t3.size[r.kid["right"][n]] + 1
      BY <1>10
    <3> QED BY <2>8, <2>9, <3>1 DEF Side, Opp
  <2>11. ASSUME NEW x \in Nodes
         PROVE  r.size[x] = IF x = n THEN t.size[t.kid[side][n]] + t.size[m] + 1
                            ELSE IF x = c THEN t.size[n] ELSE t.size[x]
    BY <1>10, <2>7, <2>10
  <2> QED BY <2>1, <2>4, <2>5, <2>11 DEF Effect
<1>12. r \in Trees
  BY <1>10, Zenon
<1> QED BY <1>11, <1>12 DEF r

(* What is below a node once n has been rotated down to the side.          *)
Turned(t, b, n, side) ==
  LET c == t.kid[Opp(side)][n]
  IN [x \in Nodes |->
        IF x = c THEN b[n]
        ELSE IF x = n THEN {n} \cup b[t.kid[side][n]] \cup b[t.kid[side][c]]
        ELSE b[x]]

(* Distinctness of the nodes of a rotation.                                *)
LEMMA Apart ==
  ASSUME NEW t, NEW b, Linked(t, b), NEW n \in b[t.root], NEW side \in Side,
         NEW c, c = t.kid[Opp(side)][n], c # Nil
  PROVE  /\ n \in Keys /\ c \in Keys /\ c \in b[t.root] /\ c \in b[n]
         /\ t.kid[side][c] \in Nodes /\ t.kid[Opp(side)][c] \in Nodes /\ t.kid[side][n] \in Nodes
         /\ t.parent[n] \in Nodes
         /\ n # c /\ n # t.kid[side][c] /\ t.parent[n] # n /\ t.parent[n] # c
         /\ c # t.kid[side][c] /\ t.kid[side][n] # c /\ t.parent[c] = n
         /\ t.kid[Opp(side)][c] # n /\ t.kid[Opp(side)][c] # c /\ t.kid[side][n] # n
         /\ t.root # c
         /\ t.kid[side][c] # Nil => /\ t.kid[side][c] # t.kid[side][n]
                                    /\ t.kid[side][c] # t.kid[Opp(side)][c]
<1>1. Opp(side) \in Side /\ Opp(Opp(side)) = side
  BY Basics
<1>2. /\ n \in Keys /\ c \in Nodes /\ n \notin b[c] /\ b[c] \subseteq b[n] /\ c \in b[t.root]
      /\ c \in b[c] /\ t.parent[c] = n /\ c # n
  BY <1>1, KidsOf
<1>3. c \in Keys
  BY <1>2, Basics
<1>4. /\ t.kid[side][c] \in Nodes /\ c \notin b[t.kid[side][c]] /\ b[t.kid[side][c]] \subseteq b[c]
      /\ t.kid[side][c] # Nil => t.kid[side][c] \in b[t.kid[side][c]] /\ t.kid[side][c] # c
  BY <1>2, KidsOf
<1>5. /\ t.kid[Opp(side)][c] \in Nodes /\ b[t.kid[Opp(side)][c]] \subseteq b[c]
      /\ t.kid[Opp(side)][c] # Nil =>
           t.kid[Opp(side)][c] \in b[t.kid[Opp(side)][c]] /\ t.kid[Opp(side)][c] # c
  BY <1>1, <1>2, KidsOf
<1>6. /\ t.kid[side][n] \in Nodes
      /\ t.kid[side][n] # Nil => t.kid[side][n] \in b[t.kid[side][n]] /\ t.kid[side][n] # n
  BY KidsOf
<1>7. b[t.kid[side][n]] \cap b[c] = {} /\ b[t.kid[side][c]] \cap b[t.kid[Opp(side)][c]] = {}
  <2>1. \A x \in b[t.root], s \in Side : b[t.kid[s][x]] \cap b[t.kid[Opp(s)][x]] = {}
    BY KidsOf
  <2> QED BY <1>2, <2>1
<1>8. Nil \notin Keys
  BY Basics
<1>9. t.root # c
  BY <1>2, <1>3, <1>8 DEF Linked
<1>10. t.parent[n] \in Nodes /\ t.parent[n] # n /\ t.parent[n] # c
  <2>1. CASE n = t.root
    <3>1. t.parent[n] = Nil
      BY <2>1 DEF Linked
    <3> QED BY <1>2, <1>3, <1>8, <3>1, Basics
  <2>2. CASE n # t.root
    <3>1. t.root \in b[t.root]
      BY <1>2, RootOf
    <3>2. t.parent[n] # n /\ t.parent[n] \in b[t.root] /\ \E s \in Side : t.kid[s][t.parent[n]] = n
      BY <2>2, <3>1, ParentOf
    <3>3. t.parent[n] \in Nodes
      BY <3>2, KidsOf, Basics
    <3>4. ASSUME t.parent[n] = c PROVE FALSE
      <4>1. PICK s \in Side : t.kid[s][c] = n
        BY <3>2, <3>4, Zenon
      <4>2. n \in b[t.kid[s][c]]
        BY <1>2, <1>8, <4>1, KidsOf
      <4>3. n \in b[c]
        BY <1>2, <4>2, KidsOf
      <4> QED BY <1>2, <4>3
    <3> QED BY <3>2, <3>3, <3>4
  <2> QED BY <2>1, <2>2
<1>11. n # t.kid[side][c] /\ c # t.kid[side][c]
  BY <1>2, <1>3, <1>4, <1>8, Zenon
<1>12. t.kid[side][n] # c /\ t.kid[side][n] # n
  BY <1>2, <1>3, <1>6, <1>7, <1>8
<1>13. t.kid[Opp(side)][c] # n /\ t.kid[Opp(side)][c] # c
  BY <1>2, <1>3, <1>5, <1>8, ZenonT(30)
<1>14. t.kid[side][c] # Nil => /\ t.kid[side][c] # t.kid[side][n]
                               /\ t.kid[side][c] # t.kid[Opp(side)][c]
  BY <1>4, <1>5, <1>6, <1>7
<1> QED BY <1>2, <1>3, <1>4, <1>5, <1>6, <1>9, <1>10, <1>11, <1>12, <1>13, <1>14, Zenon

(* The pointers after a rotation in a linked tree.                         *)
Spins(t, b, r, n, side) ==
  LET c == t.kid[Opp(side)][n]
      m == t.kid[side][c]
  IN /\ r.root = IF n = t.root THEN c ELSE t.root
     /\ r.kid[side][n] = t.kid[side][n] /\ r.kid[Opp(side)][n] = m
     /\ r.kid[side][c] = n /\ r.kid[Opp(side)][c] = t.kid[Opp(side)][c]
     /\ \A x \in b[t.root] \ {n, c}, u \in Side :
          r.kid[u][x] = IF t.kid[u][x] = n THEN c ELSE t.kid[u][x]
     /\ \A x \in Nodes \ b[t.root], u \in Side : r.kid[u][x] = t.kid[u][x]
     /\ r.parent[n] = c /\ r.parent[c] = t.parent[n]
     /\ m # Nil => r.parent[m] = n
     /\ \A x \in Nodes : x # n /\ x # c /\ (x # m \/ m = Nil) => r.parent[x] = t.parent[x]
     /\ r.size[c] = t.size[n] /\ r.size[n] = t.size[t.kid[side][n]] + t.size[m] + 1
     /\ \A x \in Nodes : x # n /\ x # c => r.size[x] = t.size[x]

(* A rotation of a linked tree changes the pointers as expected.           *)
LEMMA RotateSpins ==
  ASSUME NEW t, NEW b, Linked(t, b), NEW n \in b[t.root], NEW side \in Side,
         t.kid[Opp(side)][n] # Nil
  PROVE  Rotate(t, n, side) \in Trees /\ Spins(t, b, Rotate(t, n, side), n, side)
<1> DEFINE c == t.kid[Opp(side)][n]
           m == t.kid[side][c]
           p == t.parent[n]
           r == Rotate(t, n, side)
<1>1. /\ n \in Keys /\ c \in Keys /\ c \in b[t.root] /\ m \in Nodes /\ p \in Nodes
      /\ n # c /\ n # m /\ p # n /\ p # c /\ c # m /\ t.kid[side][n] # c
  BY Apart, SMTT(30)
<1>2. t \in Trees /\ n \in Nodes /\ c \in Nodes /\ Nil \notin Keys /\ Opp(side) \in Side
        /\ Opp(side) # side
      /\ \A x \in b[t.root] : x \in Keys /\ x \in Nodes
  BY <1>1, RootOf, Basics DEF Linked
<1>3. r = Spun(t, n, side, c, m, p)
  BY DEF Rotate, Spun
<1>4. t.kid[Opp(side)][n] = c /\ t.kid[side][c] = m /\ t.parent[n] = p
  OBVIOUS
<1> HIDE DEF c, m, p, r
<1>5. r \in Trees /\ Effect(t, r, n, side, c, m, p)
  <2>1. /\ Spun(t, n, side, c, m, p) \in Trees
        /\ Effect(t, Spun(t, n, side, c, m, p), n, side, c, m, p)
    BY <1>1, <1>2, <1>4, SpunIs
  <2> QED BY <1>3, <2>1
<1>6. /\ r.root = IF n = t.root THEN c ELSE t.root
      /\ \A u \in Side, x \in Nodes :
           r.kid[u][x] =
             IF x = n THEN IF u = side THEN t.kid[u][n] ELSE m
             ELSE IF x = c THEN IF u = side THEN n ELSE t.kid[u][c]
             ELSE IF x = p /\ n # t.root /\ u = (IF n = t.kid["left"][p] THEN "left" ELSE "right")
               THEN c
             ELSE t.kid[u][x]
      /\ \A x \in Nodes :
           r.parent[x] = IF x = n THEN c ELSE IF x = c THEN p
                         ELSE IF x = m /\ m # Nil THEN n ELSE t.parent[x]
      /\ \A x \in Nodes :
           r.size[x] = IF x = n THEN t.size[t.kid[side][n]] + t.size[m] + 1
                       ELSE IF x = c THEN t.size[n] ELSE t.size[x]
  BY <1>5, Zenon DEF Effect
<1>7. n # t.root => p \in b[t.root] /\ \E s \in Side : t.kid[s][p] = n
  <2>1. n # t.root => t.root \in b[t.root]
    BY <1>2, RootOf, Basics DEF Linked
  <2> QED BY <1>4, <2>1, ParentOf
<1>8. ASSUME NEW x \in b[t.root] \ {n, c}, NEW u \in Side
      PROVE  r.kid[u][x] = IF t.kid[u][x] = n THEN c ELSE t.kid[u][x]
  <2>1. CASE t.kid[u][x] = n
    <3>1. t.parent[n] = x
      BY <1>1, <1>2, <2>1, KidsOf
    <3>2. x = p /\ n # t.root
      BY <1>2, <1>4, <3>1 DEF Linked
    <3>3. u = (IF n = t.kid["left"][p] THEN "left" ELSE "right")
      <4>1. n \in b[t.kid[u][x]] /\ b[t.kid["left"][x]] \cap b[t.kid["right"][x]] = {}
          <5>1. n # Nil /\ x \in b[t.root]
            BY <1>1, <1>2
          <5>2. n \in b[t.kid[u][x]]
            BY <2>1, <5>1, KidsOf, Zenon
          <5>3. b[t.kid["left"][x]] \cap b[t.kid[Opp("left")][x]] = {}
            BY <5>1, KidsOf, Basics, Zenon
          <5>4. Opp("left") = "right"
            BY DEF Opp
          <5> QED BY <5>2, <5>3, <5>4
      <4> QED BY <2>1, <3>2, <4>1, Basics, Zenon
    <3> QED BY <1>2, <1>6, <2>1, <3>2, <3>3
  <2>2. CASE t.kid[u][x] # n
    <3>1. ~(x = p /\ n # t.root /\ u = (IF n = t.kid["left"][p] THEN "left" ELSE "right"))
      BY <1>7, <2>2, Basics
    <3> QED BY <1>2, <1>6, <2>2, <3>1
  <2> QED BY <2>1, <2>2
<1>9. ASSUME NEW x \in Nodes \ b[t.root], NEW u \in Side PROVE r.kid[u][x] = t.kid[u][x]
  BY <1>1, <1>6, <1>7, <1>9
<1>10. /\ r.kid[side][n] = t.kid[side][n] /\ r.kid[Opp(side)][n] = m
       /\ r.kid[side][c] = n /\ r.kid[Opp(side)][c] = t.kid[Opp(side)][c]
  BY <1>1, <1>2, <1>6
<1>11. r.parent[n] = c /\ r.parent[c] = p /\ (m # Nil => r.parent[m] = n)
  BY <1>1, <1>2, <1>6
<1>12. \A x \in Nodes : x # n /\ x # c /\ (x # m \/ m = Nil) => r.parent[x] = t.parent[x]
  BY <1>6
<1>13. r.size[c] = t.size[n] /\ r.size[n] = t.size[t.kid[side][n]] + t.size[m] + 1
  BY <1>1, <1>2, <1>6
<1>14. \A x \in Nodes : x # n /\ x # c => r.size[x] = t.size[x]
  BY <1>6
<1>15. r \in Trees /\ r.root = IF n = t.root THEN c ELSE t.root
  BY <1>5, <1>6
<1> QED BY <1>8, <1>9, <1>10, <1>11, <1>12, <1>13, <1>14, <1>15, Zenon DEF Spins, c, m, p, r

(* A rotation keeps the tree linked, with the same keys in the same order. *)
LEMMA RotateLinked ==
  ASSUME NEW t, NEW b, Linked(t, b), NEW n \in b[t.root], NEW side \in Side,
         t.kid[Opp(side)][n] # Nil
  PROVE  LET r == Rotate(t, n, side)
             d == Turned(t, b, n, side)
         IN /\ Linked(r, d) /\ d[r.root] = b[t.root]
            /\ \A x \in b[t.root] \ {n, t.kid[Opp(side)][n]}, u \in Side :
                 d[r.kid[u][x]] = b[t.kid[u][x]]
<1> DEFINE c == t.kid[Opp(side)][n]
           m == t.kid[side][c]
           e == t.kid[Opp(side)][c]
           k == t.kid[side][n]
           r == Rotate(t, n, side)
           d == Turned(t, b, n, side)
           H == b[t.root]
<1>1. /\ n \in Keys /\ c \in Keys /\ c \in H /\ m \in Nodes /\ e \in Nodes /\ k \in Nodes
         /\ c \in b[n]
      /\ n # c /\ n # m /\ c # m /\ k # c /\ k # n /\ e # n /\ e # c /\ t.parent[c] = n
      /\ t.root # c /\ t.parent[n] \in Nodes
      /\ m # Nil => m # k /\ m # e
  BY Apart
<1>2. /\ r \in Trees /\ Spins(t, b, r, n, side)
  BY RotateSpins
<1>3. /\ H \subseteq Keys /\ Nil \notin Keys /\ Nodes = Keys \cup {Nil} /\ Keys \subseteq Nat
      /\ side \in Side /\ Opp(side) \in Side /\ Opp(side) # side
         /\ \A u \in Side : u = side \/ u = Opp(side)
      /\ b \in [Nodes -> SUBSET Keys] /\ b[Nil] = {} /\ (\A x \in Keys : x \in b[x])
         /\ t.root \in Nodes
  BY RootOf, Basics DEF Linked
<1>4. d = [x \in Nodes |-> IF x = c THEN b[n]
                           ELSE IF x = n THEN {n} \cup b[k] \cup b[m] ELSE b[x]]
  BY DEF Turned
<1>5. /\ b[n] = {n} \cup b[k] \cup b[c] /\ b[c] = {c} \cup b[m] \cup b[e]
      /\ b[n] \subseteq H /\ b[c] \subseteq H
  <2>1. \A x \in H : b[x] = {x} \cup b[t.kid[side][x]] \cup b[t.kid[Opp(side)][x]]
          /\ b[x] \subseteq H
    BY KidsOf DEF Linked
  <2> QED BY <1>1, <2>1
<1>6. /\ r.root = IF n = t.root THEN c ELSE t.root
      /\ r.kid[side][n] = k /\ r.kid[Opp(side)][n] = m
      /\ r.kid[side][c] = n /\ r.kid[Opp(side)][c] = e
      /\ \A x \in H \ {n, c}, u \in Side : r.kid[u][x] = IF t.kid[u][x] = n THEN c ELSE t.kid[u][x]
      /\ \A x \in Nodes \ H, u \in Side : r.kid[u][x] = t.kid[u][x]
  BY <1>2, Zenon DEF Spins
<1>7. /\ r.parent[n] = c /\ r.parent[c] = t.parent[n]
      /\ m # Nil => r.parent[m] = n
      /\ \A x \in Nodes : x # n /\ x # c /\ (x # m \/ m = Nil) => r.parent[x] = t.parent[x]
      /\ \A x \in Nodes : x # n /\ x # c => r.size[x] = t.size[x]
  BY <1>2, Zenon DEF Spins
<1>8. \A x \in H, u \in Side : /\ t.kid[u][x] \in Nodes
                               /\ t.kid[u][x] # Nil => t.parent[t.kid[u][x]] = x
                               /\ \A q \in b[t.kid[u][x]] : On(u, q, x)
  BY KidsOf DEF Linked
<1>9. \A x \in H : b[x] = {x} \cup b[t.kid["left"][x]] \cup b[t.kid["right"][x]]
  BY DEF Linked
<1>10. \A x \in H : b[x] \subseteq H /\ x \in Keys
  BY <1>3 DEF Linked
<1>11. \A x \in Keys \ H, u \in Side : t.kid[u][x] \in H \cup {Nil}
  BY DEF Linked
<1>12. /\ \A u \in Side : t.kid[u][Nil] = Nil
       /\ t.parent[Nil] = Nil /\ t.size[Nil] = 0 /\ t.parent[t.root] = Nil
       /\ \A x \in H : t.parent[x] = Nil <=> x = t.root
  BY RootOf DEF Linked
<1>13. t.parent[c] = n /\ (m # Nil => t.parent[m] = c)
  BY <1>1, <1>3, <1>8
<1>14. /\ On(Opp(side), c, n) /\ On(side, n, c)
       /\ \A q \in b[k] : On(side, q, n) /\ On(side, q, c)
       /\ \A q \in b[m] : On(Opp(side), q, n) /\ On(side, q, c)
       /\ \A q \in b[e] : On(Opp(side), q, c)
  <2>1. On(Opp(side), c, n) /\ (\A q \in b[k] : On(side, q, n)) /\ (\A q \in b[m] : On(side, q, c))
        /\ (\A q \in b[e] : On(Opp(side), q, c)) /\ \A q \in b[c] : On(Opp(side), q, n)
    BY <1>1, <1>3, <1>8, Zenon
  <2>2. n \in Nat /\ c \in Nat /\ b[k] \subseteq Nat /\ b[m] \subseteq Nat /\ b[m] \subseteq b[c]
    BY <1>1, <1>3, <1>5, Zenon
  <2> HIDE DEF c, m, e, k, H
  <2>3. On(side, n, c)
    BY <2>1, <2>2 DEF On, Opp, Side
  <2>4. \A q \in b[k] : On(side, q, c)
    BY <2>1, <2>2, <2>3 DEF On, Opp, Side
  <2> QED BY <2>1, <2>2, <2>3, <2>4
<1> HIDE DEF c, m, e, k, r, d, H
<1>15. /\ d \in [Nodes -> SUBSET Keys] /\ d[c] = b[n] /\ d[n] = {n} \cup b[k] \cup b[m]
       /\ \A x \in Nodes : x # c /\ x # n => d[x] = b[x]
  BY <1>1, <1>3, <1>4
<1>16. d[Nil] = {} /\ \A x \in Keys : x \in d[x]
  BY <1>1, <1>3, <1>5, <1>15
<1>17. d[r.root] = H
  <2>1. CASE n = t.root
    BY <1>6, <1>15, <2>1 DEF H
  <2>2. CASE n # t.root
    BY <1>1, <1>3, <1>6, <1>15, <2>2 DEF H
  <2> QED BY <2>1, <2>2
<1>18. \A x \in H : d[x] \subseteq H
  BY <1>1, <1>3, <1>5, <1>10, <1>15
<1>19. ASSUME NEW x \in H \ {n, c}, NEW u \in Side PROVE d[r.kid[u][x]] = b[t.kid[u][x]]
  <2>1. CASE t.kid[u][x] = n
    BY <1>6, <1>15, <2>1
  <2>2. CASE t.kid[u][x] # n
    <3>1. t.kid[u][x] \in Nodes /\ r.kid[u][x] = t.kid[u][x]
      BY <1>6, <1>8, <2>2
    <3>2. t.kid[u][x] # c
      BY <1>1, <1>3, <1>8
    <3> QED BY <1>15, <2>2, <3>1, <3>2
  <2> QED BY <2>1, <2>2
<1>20. /\ d[r.kid[side][n]] = b[k] /\ d[r.kid[Opp(side)][n]] = b[m]
       /\ d[r.kid[side][c]] = {n} \cup b[k] \cup b[m] /\ d[r.kid[Opp(side)][c]] = b[e]
  BY <1>1, <1>6, <1>15
<1>21. ASSUME NEW x \in H PROVE d[x] = {x} \cup d[r.kid["left"][x]] \cup d[r.kid["right"][x]]
  <2>1. CASE x = n
    <3>1. d[x] = {x} \cup d[r.kid[side][x]] \cup d[r.kid[Opp(side)][x]]
      BY <1>15, <1>20, <2>1
    <3> QED BY <1>3, <3>1 DEF Side, Opp
  <2>2. CASE x = c
    <3>1. d[x] = {x} \cup d[r.kid[side][x]] \cup d[r.kid[Opp(side)][x]]
      BY <1>5, <1>15, <1>20, <2>2
    <3> QED BY <1>3, <3>1 DEF Side, Opp
  <2>3. CASE x # n /\ x # c
    <3>1. d[x] = b[x] /\ d[r.kid["left"][x]] = b[t.kid["left"][x]]
            /\ d[r.kid["right"][x]] = b[t.kid["right"][x]]
      BY <1>3, <1>10, <1>15, <1>19, <2>3, Basics
    <3> QED BY <1>9, <3>1
  <2> QED BY <2>1, <2>2, <2>3
<1>22. ASSUME NEW x \in H, NEW u \in Side, NEW q \in d[r.kid[u][x]] PROVE On(u, q, x)
  <2>1. CASE x = n
    <3>1. CASE u = side
      BY <1>14, <1>20, <2>1, <3>1
    <3>2. CASE u = Opp(side)
      BY <1>14, <1>20, <2>1, <3>2
    <3> QED BY <1>3, <3>1, <3>2
  <2>2. CASE x = c
    <3>1. CASE u = side
      BY <1>14, <1>20, <2>2, <3>1
    <3>2. CASE u = Opp(side)
      BY <1>14, <1>20, <2>2, <3>2
    <3> QED BY <1>3, <3>1, <3>2
  <2>3. CASE x # n /\ x # c
    BY <1>8, <1>19, <2>3
  <2> QED BY <2>1, <2>2, <2>3
<1>23. ASSUME NEW x \in H, NEW u \in Side, r.kid[u][x] # Nil PROVE r.parent[r.kid[u][x]] = x
  <2>1. CASE x = n
    <3>1. CASE u = side
      <4>1. t.parent[k] = n
        BY <1>6, <1>8, <1>23, <2>1, <3>1 DEF k
      <4>2. k # m
        BY <1>1, <1>6, <1>23, <2>1, <3>1
      <4> QED BY <1>1, <1>6, <1>7, <2>1, <3>1, <4>1, <4>2
    <3>2. CASE u = Opp(side)
      BY <1>6, <1>7, <1>23, <2>1, <3>2
    <3> QED BY <1>3, <3>1, <3>2
  <2>2. CASE x = c
    <3>1. CASE u = side
      BY <1>6, <1>7, <2>2, <3>1
    <3>2. CASE u = Opp(side)
      <4>1. t.parent[e] = c
        BY <1>3, <1>6, <1>8, <1>23, <2>2, <3>2 DEF e
      <4>2. e # m \/ m = Nil
        BY <1>1
      <4> QED BY <1>1, <1>6, <1>7, <2>2, <3>2, <4>1, <4>2
    <3> QED BY <1>3, <3>1, <3>2
  <2>3. CASE x # n /\ x # c
    <3>1. CASE t.kid[u][x] = n
      <4>1. t.parent[n] = x
        BY <1>1, <1>3, <1>8, <3>1
      <4> QED BY <1>6, <1>7, <2>3, <3>1, <4>1
    <3>2. CASE t.kid[u][x] # n
      <4>1. r.kid[u][x] = t.kid[u][x] /\ t.kid[u][x] \in Nodes /\ t.parent[t.kid[u][x]] = x
        BY <1>6, <1>8, <1>23, <2>3, <3>2
      <4>2. t.kid[u][x] # c /\ (t.kid[u][x] # m \/ m = Nil)
        BY <1>13, <2>3, <4>1
      <4> QED BY <1>7, <3>2, <4>1, <4>2
    <3> QED BY <3>1, <3>2
  <2> QED BY <2>1, <2>2, <2>3
<1>24. \A x \in Keys \ H, u \in Side : r.kid[u][x] \in H \cup {Nil}
  BY <1>3, <1>6, <1>11
<1>25. r.parent[r.root] = Nil
  <2>1. CASE n = t.root
    BY <1>6, <1>7, <1>12, <2>1
  <2>2. CASE n # t.root
    <3>1. m # Nil => m # t.root
      BY <1>1, <1>3, <1>12, <1>13
    <3> QED BY <1>1, <1>3, <1>6, <1>7, <1>12, <2>2, <3>1
  <2> QED BY <2>1, <2>2
<1>26. /\ \A u \in Side : r.kid[u][Nil] = Nil
       /\ r.parent[Nil] = Nil /\ r.size[Nil] = 0
  <2>1. Nil \in Nodes \ H /\ Nil # n /\ Nil # c /\ (Nil # m \/ m = Nil)
    BY <1>1, <1>3
  <2> QED BY <1>6, <1>7, <1>12, <2>1
<1>27. r \in Trees
  BY <1>2
<1>28. Linked(r, d)
  BY <1>15, <1>16, <1>17, <1>18, <1>21, <1>22, <1>23, <1>24, <1>25, <1>26, <1>27 DEF Linked
<1> QED BY <1>17, <1>19, <1>28, Zenon DEF r, d, H, c

-----------------------------------------------------------------------------
(* Weights.  The sides balance when none is more than three times as heavy *)
(* as the other, an empty one weighing one; a side that has just changed   *)
(* is off by one node at most.                                             *)

N(b, n) == Cardinality(b[n])

(* Two sides of which none is too heavy.                                   *)
Bal(a, o) == a + 1 <= 3 * (o + 1) /\ o + 1 <= 3 * (a + 1)
(* The second is a little too heavy at most.                               *)
Near(a, c) == a + 1 <= 3 * (c + 1) /\ c + 1 <= 3 * (a + 2)

(* When the inner side is light, a single rotation balances.               *)
LEMMA SingleSuffices ==
  ASSUME NEW o \in Nat, NEW i \in Nat, NEW e \in Nat,
         Near(o, i + e + 1), 3 * (o + 1) < i + e + 2, Bal(i, e), i + 1 < 2 * (e + 1)
  PROVE  Bal(o, i) /\ Bal(o + i + 1, e)
BY SMT DEF Bal, Near

(* When the inner side is heavy, a double rotation balances.               *)
LEMMA DoubleSuffices ==
  ASSUME NEW o \in Nat, NEW g \in Nat, NEW h \in Nat, NEW e \in Nat,
         Near(o, (g + h + 1) + e + 1), 3 * (o + 1) < (g + h + 1) + e + 2, Bal(g + h + 1, e),
         Bal(g, h), 2 * (e + 1) <= (g + h + 1) + 1
  PROVE  Bal(o, g) /\ Bal(h, e) /\ Bal(o + g + 1, h + e + 1)
BY SMT DEF Bal, Near

(* The sizes count and the sides balance.                                  *)
Good(t, b, n) ==
  /\ t.size[n] = N(b, n)
  /\ Bal(N(b, t.kid["left"][n]), N(b, t.kid["right"][n]))

(* Balance does not tell left from right.                                  *)
LEMMA GoodSides ==
  ASSUME NEW t, NEW b, NEW n, NEW s \in Side, 
         N(b, t.kid["left"][n]) \in Nat, N(b, t.kid["right"][n]) \in Nat
  PROVE  Good(t, b, n) <=> t.size[n] = N(b, n) /\ Bal(N(b, t.kid[s][n]), N(b, t.kid[Opp(s)][n]))
<1>1. CASE s = "left"
  BY <1>1 DEF Good, Opp
<1>2. CASE s = "right"
  BY <1>2 DEF Good, Opp, Bal
<1> QED BY <1>1, <1>2 DEF Side

(* The counts of the nodes and of their sides.                             *)
LEMMA CountOf ==
  ASSUME NEW t, NEW b, Linked(t, b)
  PROVE  /\ \A n \in Nodes : N(b, n) \in Nat /\ N(b, n) <= MaxKey /\ b[n] \in SUBSET Keys
         /\ N(b, Nil) = 0
         /\ \A n \in b[t.root], s \in Side : 
              /\ t.kid[s][n] \in Nodes /\ n \in Nodes
              /\ N(b, n) = N(b, t.kid[s][n]) + N(b, t.kid[Opp(s)][n]) + 1
              /\ N(b, t.kid[s][n]) < N(b, n)
<1>1. \A n \in Nodes : N(b, n) \in Nat /\ N(b, n) <= MaxKey /\ b[n] \in SUBSET Keys
  BY KeySets DEF N, Linked
<1>2. N(b, Nil) = 0
  BY FS_EmptySet, Zenon DEF N, Linked
<1>3. ASSUME NEW n \in b[t.root], NEW s \in Side
      PROVE  /\ t.kid[s][n] \in Nodes /\ n \in Nodes
             /\ N(b, n) = N(b, t.kid[s][n]) + N(b, t.kid[Opp(s)][n]) + 1
             /\ N(b, t.kid[s][n]) < N(b, n)
  BY KidsOf, Counts, Basics DEF N
<1> QED BY <1>1, <1>2, <1>3

(* The subtree of p has been worked upon, top is its top now: elsewhere    *)
(* nothing but the pointer to p has changed.                               *)
Outside(t, b, r, d, p, top) ==
  /\ \A n \in b[t.root] \ b[p] :
       /\ d[n] = b[n] /\ r.size[n] = t.size[n]
       /\ \A s \in Side : /\ d[r.kid[s][n]] = b[t.kid[s][n]]
                          /\ r.kid[s][n] = top => t.kid[s][n] = p
  /\ \A x \in Nodes \ b[t.root] :
       /\ r.parent[x] = t.parent[x] /\ r.size[x] = t.size[x]
       /\ \A s \in Side : r.kid[s][x] = t.kid[s][x]

(* And below p everything counts.                                          *)
Mended(t, b, r, d, p, top) ==
  /\ Linked(r, d) /\ d[r.root] = b[t.root]
  /\ top \in b[p] /\ d[top] = b[p] /\ r.parent[top] = t.parent[p]
  /\ \A n \in b[p] : Good(r, d, n)
  /\ Outside(t, b, r, d, p, top)

(* A rotation below p changes nothing outside p's subtree.                 *)
LEMMA RotateOutside ==
  ASSUME NEW t, NEW b, Linked(t, b), NEW p \in b[t.root], NEW n \in b[p], NEW side \in Side,
         t.kid[Opp(side)][n] # Nil
  PROVE  Outside(t, b, Rotate(t, n, side), Turned(t, b, n, side), p,
                 IF n = p THEN t.kid[Opp(side)][n] ELSE p)
<1> DEFINE c == t.kid[Opp(side)][n]
           m == t.kid[side][c]
           r == Rotate(t, n, side)
           d == Turned(t, b, n, side)
           H == b[t.root]
           top == IF n = p THEN c ELSE p
<1>1. n \in H /\ b[n] \subseteq b[p] /\ b[p] \subseteq H /\ H \subseteq Keys
  BY Nested, RootOf
<1>2. /\ n \in Keys /\ c \in Keys /\ c \in H /\ m \in Nodes /\ c \in b[n]
      /\ n # c /\ n # m /\ c # m /\ t.parent[c] = n /\ n \notin b[c]
      /\ c \in b[c] /\ b[c] \subseteq H /\ Nil \notin Keys
      /\ m # Nil => m \in H
  <2>1. /\ n \in Keys /\ c \in Keys /\ c \in H /\ m \in Nodes /\ c \in b[n]
        /\ n # c /\ n # m /\ c # m /\ t.parent[c] = n
    BY <1>1, Apart
  <2>2. n \notin b[c]
    BY <1>1, KidsOf, Basics
  <2>3. b[c] \subseteq H /\ c \in b[c]
    BY <2>1, RootOf
  <2>4. m # Nil => m \in H
    BY <2>1, KidsOf
  <2> QED BY <2>1, <2>2, <2>3, <2>4, Basics
<1>3. /\ r \in Trees /\ Spins(t, b, r, n, side)
  BY <1>1, RotateSpins
<1>4. \A x \in H \ {n, c}, u \in Side : d[r.kid[u][x]] = b[t.kid[u][x]]
  BY <1>1, RotateLinked
<1>5. /\ \A x \in H \ {n, c}, u \in Side : r.kid[u][x] = IF t.kid[u][x] = n THEN c ELSE t.kid[u][x]
      /\ \A x \in Nodes \ H, u \in Side : r.kid[u][x] = t.kid[u][x]
      /\ \A x \in Nodes : x # n /\ x # c /\ (x # m \/ m = Nil) => r.parent[x] = t.parent[x]
      /\ \A x \in Nodes : x # n /\ x # c => r.size[x] = t.size[x]
  BY <1>3, Zenon DEF Spins
<1>6. \A x \in Nodes : x # n /\ x # c => d[x] = b[x]
  BY DEF Turned
<1>7. \A x \in H, u \in Side : t.kid[u][x] # Nil => t.parent[t.kid[u][x]] = x
  BY DEF Linked
<1>8. H \subseteq Nodes
  BY <1>1, Basics
<1> HIDE DEF c, m, r, d, H
<1>9. ASSUME NEW x \in H \ b[p]
      PROVE  /\ d[x] = b[x] /\ r.size[x] = t.size[x]
             /\ \A s \in Side : /\ d[r.kid[s][x]] = b[t.kid[s][x]]
                                /\ r.kid[s][x] = top => t.kid[s][x] = p
  <2>1. x # n /\ x # c /\ x \in Nodes
    BY <1>1, <1>2, <1>8
  <2>2. ASSUME NEW s \in Side, r.kid[s][x] = top PROVE t.kid[s][x] = p
    <3>1. CASE t.kid[s][x] = n
      <4>1. r.kid[s][x] = c
        BY <1>5, <2>1, <3>1
      <4>2. CASE n = p
        BY <3>1, <4>2
      <4>3. CASE n # p
        BY <1>2, <2>2, <4>1, <4>3
      <4> QED BY <4>2, <4>3
    <3>2. CASE t.kid[s][x] # n
      <4>1. r.kid[s][x] = t.kid[s][x]
        BY <1>5, <2>1, <3>2
      <4>2. t.kid[s][x] # c
        BY <1>2, <1>7, <2>1
      <4> QED BY <2>2, <4>1, <4>2
    <3> QED BY <3>1, <3>2
  <2> QED BY <1>4, <1>5, <1>6, <2>1, <2>2
<1>10. ASSUME NEW x \in Nodes \ H
       PROVE  /\ r.parent[x] = t.parent[x] /\ r.size[x] = t.size[x]
              /\ \A s \in Side : r.kid[s][x] = t.kid[s][x]
  BY <1>1, <1>2, <1>5
<1> QED BY <1>9, <1>10 DEF Outside, c, r, d, H

(* So do two of them.                                                      *)
LEMMA OutsideTwice ==
  ASSUME NEW t, NEW b, NEW r, NEW d, NEW q, NEW e, NEW p, NEW top,
         d[r.root] = b[t.root], d[p] = b[p],
         Outside(t, b, r, d, p, p), Outside(r, d, q, e, p, top)
  PROVE  Outside(t, b, q, e, p, top)
<1>1. ASSUME NEW n \in b[t.root] \ b[p]
      PROVE  /\ e[n] = b[n] /\ q.size[n] = t.size[n]
             /\ \A s \in Side : /\ e[q.kid[s][n]] = b[t.kid[s][n]]
                                /\ q.kid[s][n] = top => t.kid[s][n] = p
  <2>1. /\ d[n] = b[n] /\ r.size[n] = t.size[n]
        /\ \A s \in Side : /\ d[r.kid[s][n]] = b[t.kid[s][n]]
                           /\ r.kid[s][n] = p => t.kid[s][n] = p
    BY Zenon DEF Outside
  <2>2. n \in d[r.root] \ d[p]
    OBVIOUS
  <2>3. /\ e[n] = d[n] /\ q.size[n] = r.size[n]
        /\ \A s \in Side : /\ e[q.kid[s][n]] = d[r.kid[s][n]]
                           /\ q.kid[s][n] = top => r.kid[s][n] = p
    BY <2>2, Zenon DEF Outside
  <2> QED BY <2>1, <2>3
<1>2. ASSUME NEW x \in Nodes \ b[t.root]
      PROVE  /\ q.parent[x] = t.parent[x] /\ q.size[x] = t.size[x]
             /\ \A s \in Side : q.kid[s][x] = t.kid[s][x]
  <2>1. /\ r.parent[x] = t.parent[x] /\ r.size[x] = t.size[x]
        /\ \A s \in Side : r.kid[s][x] = t.kid[s][x]
    BY Zenon DEF Outside
  <2>2. x \in Nodes \ d[r.root]
    OBVIOUS
  <2>3. /\ q.parent[x] = r.parent[x] /\ q.size[x] = r.size[x]
        /\ \A s \in Side : q.kid[s][x] = r.kid[s][x]
    BY <2>2, ZenonT(30) DEF Outside
  <2> QED BY <2>1, <2>3
<1> QED BY <1>1, <1>2, Zenon DEF Outside

(* What a rotation does to the counts.                                     *)
LEMMA RotateCounts ==
  ASSUME NEW t, NEW b, Linked(t, b), NEW n \in b[t.root], NEW side \in Side,
         NEW c, c = t.kid[Opp(side)][n], c # Nil
  PROVE  LET r == Rotate(t, n, side)
             d == Turned(t, b, n, side)
             k == t.kid[side][n]
             m == t.kid[side][c]
             e == t.kid[Opp(side)][c]
         IN /\ N(d, c) = N(b, n) /\ N(d, n) = N(b, k) + N(b, m) + 1
            /\ t.size[k] = N(b, k) /\ t.size[m] = N(b, m) /\ Bal(N(b, k), N(b, m)) => Good(r, d, n)
            /\ t.size[n] = N(b, n) /\ Bal(N(b, k) + N(b, m) + 1, N(b, e)) => Good(r, d, c)
            /\ \A x \in b[t.root] \ {n, c} : Good(t, b, x) => Good(r, d, x)
<1> DEFINE m == t.kid[side][c]
           e == t.kid[Opp(side)][c]
           k == t.kid[side][n]
           r == Rotate(t, n, side)
           d == Turned(t, b, n, side)
           H == b[t.root]
<1>1. /\ n \in Keys /\ c \in Keys /\ c \in H /\ m \in Nodes /\ e \in Nodes /\ k \in Nodes
      /\ n # c /\ n # m /\ c # m /\ k # c /\ k # n /\ e # n /\ e # c
  BY Apart
<1>2. /\ Linked(r, d) /\ d[r.root] = H
      /\ \A x \in H \ {n, c}, u \in Side : d[r.kid[u][x]] = b[t.kid[u][x]]
  BY RotateLinked
<1>3. Spins(t, b, r, n, side)
  BY RotateSpins
<1>4. /\ r.kid[side][n] = k /\ r.kid[Opp(side)][n] = m
      /\ r.kid[side][c] = n /\ r.kid[Opp(side)][c] = e
      /\ r.size[c] = t.size[n] /\ r.size[n] = t.size[k] + t.size[m] + 1
      /\ \A x \in Nodes : x # n /\ x # c => r.size[x] = t.size[x]
  BY <1>3, Zenon DEF Spins
<1>5. d[c] = b[n] /\ \A x \in Nodes : x # n /\ x # c => d[x] = b[x]
  BY <1>1, Basics, Zenon DEF Turned
<1>6. /\ \A x \in Nodes : N(b, x) \in Nat
      /\ \A x \in Nodes : N(d, x) \in Nat
      /\ \A x \in H : x \in Nodes /\ \A s \in Side : r.kid[s][x] \in Nodes
      /\ N(d, n) = N(d, r.kid[side][n]) + N(d, r.kid[Opp(side)][n]) + 1
  BY <1>2, CountOf
<1>7. Side = {"left", "right"} /\ Opp(side) \in Side
  BY Basics
<1> HIDE DEF m, e, k, r, d, H
<1>8. N(d, k) = N(b, k) /\ N(d, m) = N(b, m) /\ N(d, e) = N(b, e) /\ N(d, c) = N(b, n)
  BY <1>1, <1>5 DEF N
<1>9. N(d, n) = N(b, k) + N(b, m) + 1
  BY <1>4, <1>6, <1>8
<1>10. ASSUME t.size[k] = N(b, k), t.size[m] = N(b, m), Bal(N(b, k), N(b, m)) PROVE Good(r, d, n)
  <2>1. r.size[n] = N(d, n) /\ Bal(N(d, r.kid[side][n]), N(d, r.kid[Opp(side)][n]))
    BY <1>4, <1>8, <1>9, <1>10
  <2>2. N(d, r.kid["left"][n]) \in Nat /\ N(d, r.kid["right"][n]) \in Nat
    BY <1>6, <1>7, ZenonT(30) DEF H
  <2> QED BY <2>1, <2>2, GoodSides
<1>11. ASSUME t.size[n] = N(b, n), Bal(N(b, k) + N(b, m) + 1, N(b, e)) PROVE Good(r, d, c)
  <2>1. r.size[c] = N(d, c) /\ Bal(N(d, r.kid[side][c]), N(d, r.kid[Opp(side)][c]))
    BY <1>4, <1>8, <1>9, <1>11
  <2>2. N(d, r.kid["left"][c]) \in Nat /\ N(d, r.kid["right"][c]) \in Nat
    BY <1>1, <1>6, <1>7
  <2> QED BY <2>1, <2>2, GoodSides
<1>12. ASSUME NEW x \in H \ {n, c}, Good(t, b, x) PROVE Good(r, d, x)
  BY <1>2, <1>4, <1>5, <1>6, <1>7, <1>12 DEF Good, N
<1> QED BY <1>8, <1>9, <1>10, <1>11, <1>12 DEF m, e, k, r, d, H

(* The premise of rebalancing p: below it everything counts, its own size  *)
(* too, and its heavy side is a little too heavy at most.                  *)
Heavy(t, b, p, h) ==
  /\ Linked(t, b) /\ p \in b[t.root]
  /\ \A n \in b[p] \ {p} : Good(t, b, n)
  /\ t.size[p] = N(b, p)
  /\ Near(N(b, t.kid[Opp(h)][p]), N(b, t.kid[h][p]))

(* The sizes below a node that may be heavy.                               *)
LEMMA SizesCount ==
  ASSUME NEW t, NEW b, NEW p, NEW h \in Side, Heavy(t, b, p, h)
  PROVE  /\ \A n \in b[p] : n \in b[t.root] /\ t.size[n] = N(b, n)
         /\ \A n \in b[p], s \in Side : /\ t.kid[s][n] \in Nodes
                                        /\ t.size[t.kid[s][n]] = N(b, t.kid[s][n])
                                        /\ t.kid[s][n] # Nil => t.kid[s][n] \in b[p] \ {p}
<1>1. Linked(t, b) /\ p \in b[t.root]
  BY DEF Heavy
<1>2. \A n \in b[p] : n \in b[t.root] /\ b[n] \subseteq b[p]
  BY <1>1, Nested
<1>3. \A n \in b[p] : t.size[n] = N(b, n)
  BY DEF Heavy, Good
<1>4. ASSUME NEW n \in b[p], NEW s \in Side, t.kid[s][n] # Nil PROVE t.kid[s][n] \in b[p] \ {p}
  <2>1. t.kid[s][n] \in b[n] /\ n \notin b[t.kid[s][n]] /\ t.kid[s][n] # n
    BY <1>1, <1>2, <1>4, KidsOf
  <2>2. t.kid[s][n] # p
    BY <2>1
  <2> QED BY <1>2, <2>1, <2>2
<1>5. \A n \in b[p], s \in Side : t.kid[s][n] \in Nodes
  BY <1>1, <1>2, KidsOf
<1>6. t.size[Nil] = N(b, Nil)
  BY <1>1, CountOf DEF Linked
<1> QED BY <1>2, <1>3, <1>4, <1>5, <1>6

(* Without a rotation, all is balanced already.                            *)
LEMMA NotHeavy ==
  ASSUME NEW t, NEW b, NEW p, NEW h \in Side, Heavy(t, b, p, h),
         ~Unbalanced(t, t.kid[Opp(h)][p], t.kid[h][p])
  PROVE  Mended(t, b, t, b, p, p)
<1>1. Linked(t, b) /\ p \in b[t.root] /\ p \in b[p] /\ Opp(h) \in Side
  BY RootOf, Basics DEF Heavy
<1>2. Good(t, b, p)
  <2>1. /\ t.size[t.kid[h][p]] = N(b, t.kid[h][p])
        /\ t.size[t.kid[Opp(h)][p]] = N(b, t.kid[Opp(h)][p])
    BY <1>1, SizesCount
  <2>2. /\ N(b, t.kid[h][p]) \in Nat /\ N(b, t.kid[Opp(h)][p]) \in Nat
        /\ N(b, t.kid["left"][p]) \in Nat /\ N(b, t.kid["right"][p]) \in Nat
    BY <1>1, CountOf, Basics
  <2>3. Near(N(b, t.kid[Opp(h)][p]), N(b, t.kid[h][p])) /\ t.size[p] = N(b, p)
    BY DEF Heavy
  <2>4. Bal(N(b, t.kid[h][p]), N(b, t.kid[Opp(h)][p]))
    BY <2>1, <2>2, <2>3 DEF Near, Bal, Unbalanced, Delta
  <2> QED BY <2>2, <2>3, <2>4, GoodSides
<1>3. \A n \in b[p] : Good(t, b, n)
  BY <1>2 DEF Heavy
<1>4. Outside(t, b, t, b, p, p)
  BY DEF Outside
<1> QED BY <1>1, <1>3, <1>4 DEF Mended

(* The child comes up.                                                     *)
LEMMA SingleMends ==
  ASSUME NEW t, NEW b, NEW p, NEW h \in Side, Heavy(t, b, p, h),
         Unbalanced(t, t.kid[Opp(h)][p], t.kid[h][p]),
         Single(t, t.kid[Opp(h)][t.kid[h][p]], t.kid[h][t.kid[h][p]])
  PROVE  LET r == Rotate(t, p, Opp(h))
             d == Turned(t, b, p, Opp(h))
         IN /\ Mended(t, b, r, d, p, Top(t, r, p))
            /\ \A y \in b[t.kid[Opp(h)][p]] : d[y] = b[y]
<1> DEFINE c == t.kid[h][p]
           i == t.kid[Opp(h)][c]
           e == t.kid[h][c]
           k == t.kid[Opp(h)][p]
           r == Rotate(t, p, Opp(h))
           d == Turned(t, b, p, Opp(h))
<1>1. Linked(t, b) /\ p \in b[t.root] /\ p \in b[p] /\ Opp(h) \in Side /\ Opp(Opp(h)) = h
  BY RootOf, Basics DEF Heavy
<1>2. /\ t.size[p] = N(b, p) /\ t.size[c] = N(b, c) /\ t.size[k] = N(b, k)
      /\ c # Nil => c \in b[p] \ {p} /\ t.size[i] = N(b, i) /\ t.size[e] = N(b, e)
  BY <1>1, SizesCount
<1>3. N(b, c) \in Nat /\ N(b, k) \in Nat /\ N(b, Nil) = 0
  BY <1>1, CountOf, Zenon
<1>4. 3 * (N(b, k) + 1) < N(b, c) + 1
  BY <1>2 DEF Unbalanced, Delta
<1>5. c # Nil
  BY <1>3, <1>4
<1>6. c \in b[t.root]
  BY <1>1, <1>2, <1>5, Nested, Zenon
<1>7. N(b, i) \in Nat /\ N(b, e) \in Nat /\ N(b, c) = N(b, i) + N(b, e) + 1
  <2>1. t.kid[Opp(h)][c] \in Nodes /\ t.kid[h][c] \in Nodes
          /\ N(b, c) = N(b, t.kid[Opp(h)][c]) + N(b, t.kid[Opp(Opp(h))][c]) + 1
    BY <1>1, <1>6, CountOf
  <2> QED BY <1>1, <2>1, CountOf, Zenon
<1>8. Bal(N(b, i), N(b, e))
  <2>1. Good(t, b, c)
    BY <1>2, <1>5 DEF Heavy
  <2>2. N(b, t.kid["left"][c]) \in Nat /\ N(b, t.kid["right"][c]) \in Nat
    BY <1>1, <1>6, CountOf, Basics
  <2> QED BY <1>1, <2>1, <2>2, GoodSides
<1>9. N(b, i) + 1 < 2 * (N(b, e) + 1)
  BY <1>2, <1>5 DEF Single, Gamma
<1>10. Bal(N(b, k), N(b, i)) /\ Bal(N(b, k) + N(b, i) + 1, N(b, e))
  <2>1. Near(N(b, k), N(b, i) + N(b, e) + 1)
    BY <1>7, Zenon DEF Heavy
  <2>2. 3 * (N(b, k) + 1) < N(b, i) + N(b, e) + 2
    BY <1>3, <1>4, <1>7
  <2> HIDE DEF k, i, e, c
  <2> QED BY <1>3, <1>7, <1>8, <1>9, <2>1, <2>2, SingleSuffices, Zenon
<1>11. /\ Linked(r, d) /\ d[r.root] = b[t.root]
  <2>1. t.kid[Opp(Opp(h))][p] # Nil
    BY <1>1, <1>5
  <2> QED BY <1>1, <2>1, RotateLinked
<1>12. /\ N(d, c) = N(b, p) /\ N(d, p) = N(b, k) + N(b, i) + 1
       /\ t.size[k] = N(b, k) /\ t.size[i] = N(b, i) /\ Bal(N(b, k), N(b, i)) => Good(r, d, p)
       /\ t.size[p] = N(b, p) /\ Bal(N(b, k) + N(b, i) + 1, N(b, e)) => Good(r, d, c)
       /\ \A x \in b[t.root] \ {p, c} : Good(t, b, x) => Good(r, d, x)
  BY <1>1, <1>5, RotateCounts
<1>13. Outside(t, b, r, d, p, c)
  BY <1>1, <1>5, RotateOutside
<1>14. Spins(t, b, r, p, Opp(h))
  BY <1>1, <1>5, RotateSpins, Zenon
<1>15. r.parent[p] = c /\ r.parent[c] = t.parent[p] /\ r.kid[h][p] = i
  BY <1>1, <1>14, Zenon DEF Spins
<1>16. p # c /\ c # i /\ p \in Nodes /\ c \in Nodes
  <2>1. c # i /\ p # c /\ p \in Keys /\ c \in Keys
    BY <1>1, <1>5, Apart, SMTT(30)
  <2> QED BY <2>1, Basics, Zenon
<1>17. d[c] = b[p] /\ \A y \in Nodes : y # p /\ y # c => d[y] = b[y]
  BY <1>1, <1>16 DEF Turned
<1>18. Top(t, r, p) = c
  <2>1. r # t
    BY <1>15, <1>16, Zenon
  <2> QED BY <1>15, <2>1 DEF Top
<1>19. \A y \in b[k] : d[y] = b[y]
  <2>1. b[k] \cap b[c] = {} /\ p \notin b[k] /\ c \in b[c] /\ b[k] \subseteq Nodes
    <3>1. b[t.kid[h][p]] \cap b[t.kid[Opp(h)][p]] = {} /\ p \notin b[t.kid[Opp(h)][p]]
          /\ b[t.kid[Opp(h)][p]] \subseteq b[p]
      BY <1>1, KidsOf
    <3>2. b[p] \subseteq Nodes /\ c \in b[c]
      BY <1>1, <1>6, RootOf, Basics
    <3> QED BY <3>1, <3>2, Zenon
  <2> QED BY <1>17, <2>1, Zenon
<1> HIDE DEF c, i, e, k, r, d
<1>20. \A n \in b[p] : Good(r, d, n)
  <2>1. \A n \in b[p] \ {p} : Good(t, b, n) /\ n \in b[t.root]
    BY <1>1, SizesCount DEF Heavy
  <2> QED BY <1>2, <1>5, <1>10, <1>12, <2>1
<1>21. Mended(t, b, r, d, p, c)
  BY <1>2, <1>5, <1>11, <1>13, <1>15, <1>17, <1>20 DEF Mended
<1> QED BY <1>18, <1>19, <1>21 DEF c, k, r, d

(* The child's inner child comes up twice.                                 *)
LEMMA DoubleMends ==
  ASSUME NEW t, NEW b, NEW p, NEW h \in Side, Heavy(t, b, p, h),
         Unbalanced(t, t.kid[Opp(h)][p], t.kid[h][p]),
         ~Single(t, t.kid[Opp(h)][t.kid[h][p]], t.kid[h][t.kid[h][p]])
  PROVE  LET r == Rotate(t, t.kid[h][p], h)
             d == Turned(t, b, t.kid[h][p], h)
             q == Rotate(r, p, Opp(h))
             f == Turned(r, d, p, Opp(h))
         IN /\ Mended(t, b, q, f, p, Top(t, q, p))
            /\ \A y \in b[t.kid[Opp(h)][p]] : f[y] = b[y]
<1> DEFINE c == t.kid[h][p]
           i == t.kid[Opp(h)][c]
           e == t.kid[h][c]
           k == t.kid[Opp(h)][p]
           g1 == t.kid[Opp(h)][i]
           g2 == t.kid[h][i]
           r == Rotate(t, c, h)
           d == Turned(t, b, c, h)
           q == Rotate(r, p, Opp(h))
           f == Turned(r, d, p, Opp(h))
<1>0. /\ c = t.kid[h][p] /\ k = t.kid[Opp(h)][p] /\ e = t.kid[h][c] /\ i = t.kid[Opp(h)][c]
      /\ g2 = t.kid[h][i] /\ g1 = t.kid[Opp(h)][i]
  OBVIOUS
<1>1. /\ Linked(t, b) /\ p \in b[t.root] /\ p \in b[p] /\ Opp(h) \in Side /\ Opp(Opp(h)) = h
         /\ Opp(h) # h
      /\ b[t.root] \subseteq Nodes
  BY RootOf, Basics DEF Heavy
<1>K. \A n \in b[t.root] :
           /\ n \in Keys /\ n \in Nodes /\ n # Nil /\ n \in b[n] /\ b[n] \subseteq b[t.root]
           /\ \A s \in Side :
                /\ t.kid[s][n] \in Nodes /\ n \notin b[t.kid[s][n]] /\ b[t.kid[s][n]] \subseteq b[n]
                /\ t.kid[s][n] # n
                /\ b[t.kid[s][n]] \cap b[t.kid[Opp(s)][n]] = {}
                /\ t.kid[s][n] # Nil => /\ t.kid[s][n] \in b[t.root]
                                           /\ t.kid[s][n] \in b[t.kid[s][n]]
                                        /\ t.kid[s][n] \in b[n] /\ t.parent[t.kid[s][n]] = n
  BY <1>1, KidFacts
<1>S. /\ \A n \in b[p], s \in Side : /\ t.kid[s][n] \in Nodes
                                     /\ t.size[t.kid[s][n]] = N(b, t.kid[s][n])
                                     /\ t.kid[s][n] # Nil => t.kid[s][n] \in b[p] \ {p}
      /\ t.size[p] = N(b, p)
  BY <1>1, SizesCount
<1>C. /\ \A n \in Nodes : N(b, n) \in Nat
      /\ \A n \in b[t.root], s \in Side : N(b, n) = N(b, t.kid[s][n]) + N(b, t.kid[Opp(s)][n]) + 1
  BY <1>1, CountOf
<1>G. \A n \in b[p] \ {p} : Bal(N(b, t.kid[Opp(h)][n]), N(b, t.kid[h][n]))
  <2> SUFFICES ASSUME NEW n \in b[p] \ {p} PROVE Bal(N(b, t.kid[Opp(h)][n]), N(b, t.kid[h][n]))
    OBVIOUS
  <2>1. Good(t, b, n)
    BY DEF Heavy
  <2>2. N(b, t.kid["left"][n]) \in Nat /\ N(b, t.kid["right"][n]) \in Nat
    BY <1>S, <1>C, Basics
  <2>3. Bal(N(b, t.kid[Opp(h)][n]), N(b, t.kid[Opp(Opp(h))][n]))
    BY <1>1, <2>1, <2>2, GoodSides
  <2> QED BY <1>1, <2>3
<1>U. Unbalanced(t, k, c) /\ ~Single(t, i, e) /\ Near(N(b, k), N(b, c))
  BY Zenon DEF Heavy
<1> HIDE DEF c, i, e, k, g1, g2
<1>2. /\ t.size[p] = N(b, p) /\ t.size[c] = N(b, c) /\ t.size[k] = N(b, k) /\ c \in Nodes
         /\ k \in Nodes
      /\ c # Nil => /\ c \in b[p] \ {p} /\ t.size[i] = N(b, i) /\ t.size[e] = N(b, e)
                    /\ i \in Nodes /\ e \in Nodes
  BY <1>0, <1>1, <1>S
<1>3. N(b, c) \in Nat /\ N(b, k) \in Nat /\ N(b, Nil) = 0
  BY <1>1, <1>2, <1>C, CountOf
<1>4. 3 * (N(b, k) + 1) < N(b, c) + 1
  BY <1>2, <1>U DEF Unbalanced, Delta
<1>5. c # Nil
  BY <1>3, <1>4
<1>6. c \in b[t.root] /\ c \in b[p] /\ c # p
  BY <1>2, <1>5, <1>K, <1>1, Zenon
<1>7. N(b, i) \in Nat /\ N(b, e) \in Nat /\ N(b, c) = N(b, i) + N(b, e) + 1
  BY <1>0, <1>1, <1>2, <1>5, <1>6, <1>C
<1>8. Bal(N(b, i), N(b, e))
  BY <1>0, <1>6, <1>G
<1>9. 2 * (N(b, e) + 1) <= N(b, i) + 1
  <2>1. ~(N(b, i) + 1 < 2 * (N(b, e) + 1))
    BY <1>2, <1>5, <1>U DEF Single, Gamma
  <2> QED BY <1>7, <2>1
<1>10. i # Nil
  BY <1>3, <1>7, <1>9
<1>11. i \in b[p] /\ i \in b[t.root] /\ i \in b[c] /\ i \notin b[e] /\ i # p
  <2>1. i \in b[p] \ {p}
    BY <1>0, <1>1, <1>6, <1>10, <1>S, Zenon
  <2>2. i \in b[i] /\ i \in b[c] /\ i \in b[t.root]
    BY <1>0, <1>1, <1>6, <1>10, <1>K
  <2>3. b[e] \cap b[i] = {}
    BY <1>0, <1>1, <1>6, <1>K, Zenon
  <2> QED BY <2>1, <2>2, <2>3, Zenon
<1>12. /\ N(b, g1) \in Nat /\ N(b, g2) \in Nat /\ N(b, i) = N(b, g1) + N(b, g2) + 1
       /\ t.size[g1] = N(b, g1) /\ t.size[g2] = N(b, g2) /\ g1 \in Nodes /\ g2 \in Nodes
  <2>1. t.size[g1] = N(b, g1) /\ t.size[g2] = N(b, g2) /\ g1 \in Nodes /\ g2 \in Nodes
    BY <1>0, <1>1, <1>11, <1>S, Zenon
  <2>2. N(b, i) = N(b, g2) + N(b, g1) + 1
    BY <1>0, <1>11, <1>C
  <2>3. N(b, g1) \in Nat /\ N(b, g2) \in Nat
    BY <1>C, <2>1, Zenon
  <2> QED BY <2>1, <2>2, <2>3
<1>13. Bal(N(b, g1), N(b, g2))
  BY <1>0, <1>11, <1>G
<1>14. /\ Bal(N(b, k), N(b, g1)) /\ Bal(N(b, g2), N(b, e))
       /\ Bal(N(b, k) + N(b, g1) + 1, N(b, g2) + N(b, e) + 1)
  <2>1. Near(N(b, k), (N(b, g1) + N(b, g2) + 1) + N(b, e) + 1)
    BY <1>7, <1>12, <1>U
  <2>2. 3 * (N(b, k) + 1) < (N(b, g1) + N(b, g2) + 1) + N(b, e) + 2
    BY <1>3, <1>4, <1>7, <1>12
  <2>3. Bal(N(b, g1) + N(b, g2) + 1, N(b, e)) /\ 2 * (N(b, e) + 1) <= (N(b, g1) + N(b, g2) + 1) + 1
    BY <1>8, <1>9, <1>12
  <2> QED BY <1>3, <1>7, <1>12, <1>13, <2>1, <2>2, <2>3, DoubleSuffices
<1>15. /\ k # c /\ k \in Nodes /\ b[k] \cap b[c] = {} /\ p \notin b[k] /\ p \notin b[c]
          /\ b[k] \subseteq b[p]
       /\ t.parent[c] = p /\ k # i /\ c \in b[c]
  <2>1. /\ b[c] \cap b[k] = {} /\ p \notin b[k] /\ p \notin b[c] /\ b[k] \subseteq b[p]
        /\ k # Nil => k \in b[k]
    BY <1>0, <1>1, <1>K
  <2>2. c \in b[c] /\ t.parent[c] = p
    BY <1>0, <1>1, <1>5, <1>K
  <2> QED BY <1>2, <1>5, <1>10, <1>11, <2>1, <2>2, Zenon
<1>16. /\ i \notin b[g1] /\ i \notin b[g2] /\ b[g1] \subseteq b[i] /\ b[g2] \subseteq b[i]
       /\ c \notin b[i] /\ g1 # c /\ g2 # c /\ g1 # i /\ g2 # i /\ p # i /\ g1 # p /\ g2 # p
       /\ e # c /\ e # i
  <2>1. /\ i \notin b[g1] /\ b[g1] \subseteq b[i] /\ (g1 # Nil => g1 \in b[g1])
    <3>1. \A s \in Side : /\ i \notin b[t.kid[s][i]] /\ b[t.kid[s][i]] \subseteq b[i]
                          /\ t.kid[s][i] # Nil => t.kid[s][i] \in b[t.kid[s][i]]
      BY <1>11, <1>K
    <3> QED BY <1>0, <1>1, <3>1, Zenon
  <2>2. /\ i \notin b[g2] /\ b[g2] \subseteq b[i] /\ (g2 # Nil => g2 \in b[g2])
    <3>1. \A s \in Side : /\ i \notin b[t.kid[s][i]] /\ b[t.kid[s][i]] \subseteq b[i]
                          /\ t.kid[s][i] # Nil => t.kid[s][i] \in b[t.kid[s][i]]
      BY <1>11, <1>K
    <3> QED BY <1>0, <1>1, <3>1, Zenon
  <2>3. /\ c \notin b[i] /\ b[i] \subseteq b[c] /\ e # c /\ (e # Nil => e \in b[e])
    BY <1>0, <1>1, <1>6, <1>K
  <2>4. p # Nil
    BY <1>1, <1>K
  <2> QED BY <1>1, <1>5, <1>10, <1>11, <1>15, <2>1, <2>2, <2>3, <2>4, Zenon
<1>R. t.kid[Opp(h)][c] # Nil
  BY <1>0, <1>10
<1>17. Linked(r, d) /\ d[r.root] = b[t.root]
  BY <1>1, <1>6, <1>R, RotateLinked
<1>18. Spins(t, b, r, c, h)
  BY <1>1, <1>6, <1>R, RotateSpins
<1>19. /\ r.kid[h][c] = e /\ r.kid[Opp(h)][c] = g2 /\ r.kid[h][i] = c /\ r.kid[Opp(h)][i] = g1
       /\ r.kid[h][p] = i /\ r.kid[Opp(h)][p] = k /\ r.parent[p] = t.parent[p]
       /\ r.size[p] = t.size[p] /\ r.size[k] = t.size[k] /\ r.size[g1] = t.size[g1]
  <2> HIDE DEF r, d
  <2>1. /\ r.kid[h][c] = e /\ r.kid[Opp(h)][c] = g2 /\ r.kid[h][i] = c /\ r.kid[Opp(h)][i] = g1
        /\ \A x \in b[t.root] \ {c, i}, u \in Side :
             r.kid[u][x] = IF t.kid[u][x] = c THEN i ELSE t.kid[u][x]
        /\ \A x \in Nodes : x # c /\ x # i /\ (x # g2 \/ g2 = Nil) => r.parent[x] = t.parent[x]
        /\ \A x \in Nodes : x # c /\ x # i => r.size[x] = t.size[x]
    BY <1>18, Zenon DEF Spins, c, i, e, g1, g2
  <2>2. p \in Nodes /\ p # c /\ p # i
    BY <1>1, <1>6, <1>16, Zenon
  <2>3. r.kid[h][p] = i /\ r.kid[Opp(h)][p] = k
    BY <1>0, <1>1, <1>15, <2>1, <2>2, Zenon
  <2> QED BY <1>12, <1>15, <1>16, <2>1, <2>2, <2>3
<1>20. /\ d[i] = b[c] /\ d[c] = {c} \cup b[e] \cup b[g2]
       /\ \A y \in Nodes : y # c /\ y # i => d[y] = b[y]
  <2>1. c \in Nodes /\ i \in Nodes /\ c # i
    BY <1>1, <1>6, <1>11, <1>16, <1>K, Zenon
  <2> QED BY <1>0, <2>1, Zenon DEF Turned
<1>21. /\ N(d, i) = N(b, c) /\ N(d, c) = N(b, e) + N(b, g2) + 1
       /\ t.size[e] = N(b, e) /\ t.size[g2] = N(b, g2) /\ Bal(N(b, e), N(b, g2)) => Good(r, d, c)
       /\ \A x \in b[t.root] \ {c, i} : Good(t, b, x) => Good(r, d, x)
  <2>1. i = t.kid[Opp(h)][c] /\ i # Nil /\ c \in b[t.root]
    BY <1>0, <1>6, <1>10, Zenon
  <2>2. /\ N(d, i) = N(b, c) /\ N(d, c) = N(b, t.kid[h][c]) + N(b, t.kid[h][i]) + 1
        /\ t.size[t.kid[h][c]] = N(b, t.kid[h][c]) /\ t.size[t.kid[h][i]] = N(b, t.kid[h][i])
           /\ Bal(N(b, t.kid[h][c]), N(b, t.kid[h][i])) => Good(r, d, c)
        /\ \A x \in b[t.root] \ {c, i} : Good(t, b, x) => Good(r, d, x)
    BY <1>1, <2>1, RotateCounts
  <2> QED BY <1>0, <2>2, Zenon
<1>22. Outside(t, b, r, d, p, p)
  BY <1>1, <1>6, <1>R, RotateOutside
<1> HIDE DEF r, d
<1>23. p \in d[r.root] /\ r.kid[Opp(Opp(h))][p] = i /\ r.kid[Opp(Opp(h))][p] # Nil /\ Linked(r, d)
  BY <1>1, <1>10, <1>17, <1>19
<1>24. Linked(q, f) /\ f[q.root] = d[r.root]
  BY <1>1, <1>23, RotateLinked
<1>25. Spins(r, d, q, p, Opp(h))
  BY <1>1, <1>23, RotateSpins
<1>26. Outside(r, d, q, f, p, i)
  <2>1. p \in d[p]
    BY <1>23, RootOf
  <2> QED BY <1>1, <1>23, <2>1, RotateOutside
<1>27. /\ q.parent[p] = i /\ q.parent[i] = t.parent[p] /\ q.kid[h][p] = g1
  <2>1. /\ q.parent[p] = r.kid[Opp(Opp(h))][p]
        /\ q.parent[r.kid[Opp(Opp(h))][p]] = r.parent[p]
        /\ q.kid[Opp(Opp(h))][p] = r.kid[Opp(h)][r.kid[Opp(Opp(h))][p]]
    BY <1>25, Zenon DEF Spins
  <2> QED BY <1>1, <1>19, <1>23, <2>1
<1>28. /\ N(f, i) = N(d, p)
       /\ r.size[k] = N(d, k) /\ r.size[g1] = N(d, g1) /\ Bal(N(d, k), N(d, g1)) => Good(q, f, p)
       /\ r.size[p] = N(d, p) /\ Bal(N(d, k) + N(d, g1) + 1, N(d, c)) => Good(q, f, i)
       /\ \A x \in b[t.root] \ {p, i} : Good(r, d, x) => Good(q, f, x)
  <2>1. /\ N(f, i) = N(d, p)
        /\ r.size[r.kid[Opp(h)][p]] = N(d, r.kid[Opp(h)][p])
           /\ r.size[r.kid[Opp(h)][i]] = N(d, r.kid[Opp(h)][i])
           /\ Bal(N(d, r.kid[Opp(h)][p]), N(d, r.kid[Opp(h)][i])) => Good(q, f, p)
        /\ r.size[p] = N(d, p)
           /\ Bal(N(d, r.kid[Opp(h)][p]) + N(d, r.kid[Opp(h)][i]) + 1, N(d, r.kid[Opp(Opp(h))][i]))
           => Good(q, f, i)
        /\ \A x \in d[r.root] \ {p, i} : Good(r, d, x) => Good(q, f, x)
    BY <1>1, <1>10, <1>23, RotateCounts
  <2> QED BY <1>1, <1>17, <1>19, <2>1, Zenon
<1>29. f[i] = d[p] /\ \A y \in Nodes : y # p /\ y # i => f[y] = d[y]
  <2>1. p \in Nodes /\ i \in Nodes
    BY <1>1, <1>11
  <2> QED BY <1>23, <2>1 DEF Turned
<1>30. Top(t, q, p) = i
  <2>1. q # t
    BY <1>0, <1>16, <1>27, Zenon
  <2> HIDE DEF q
  <2> QED BY <1>27, <2>1, Zenon DEF Top
<1> HIDE DEF q, f
<1>31. d[p] = b[p] /\ d[k] = b[k] /\ d[g1] = b[g1] /\ f[i] = b[p]
  BY <1>1, <1>6, <1>12, <1>15, <1>16, <1>20, <1>29
<1>32. \A y \in b[k] : f[y] = b[y]
  <2>1. \A y \in b[k] : y \in Nodes /\ y # p /\ y # i /\ y # c
    BY <1>1, <1>11, <1>15, <1>K
  <2> QED BY <2>1, <1>20, <1>29, Zenon
<1>33. Good(r, d, c)
  <2>1. Bal(N(b, e), N(b, g2))
    BY <1>14 DEF Bal
  <2> QED BY <1>2, <1>5, <1>12, <1>21, <2>1
<1>34. Good(q, f, p)
  BY <1>2, <1>12, <1>14, <1>19, <1>28, <1>31 DEF N
<1>35. Good(q, f, i)
  <2>1. N(d, c) = N(b, g2) + N(b, e) + 1
    BY <1>7, <1>12, <1>21
  <2>2. N(d, k) = N(b, k) /\ N(d, g1) = N(b, g1) /\ N(d, p) = N(b, p)
    BY <1>31 DEF N
  <2> QED BY <1>2, <1>14, <1>19, <1>28, <2>1, <2>2
<1>36. \A n \in b[p] : Good(q, f, n)
  <2>1. \A n \in b[p] \ {p} : Good(t, b, n) /\ n \in b[t.root]
    BY <1>1, SizesCount, Zenon DEF Heavy
  <2>2. c # p /\ c # i
    BY <1>6, <1>16, <1>10, <1>11, <1>K
  <2>3. Good(q, f, c)
    BY <1>6, <1>28, <1>33, <2>2
  <2>4. \A n \in b[p] \ {p, c, i} : Good(q, f, n)
    BY <1>21, <1>28, <2>1
  <2> QED BY <1>34, <1>35, <2>3, <2>4, Zenon
<1>37. Outside(t, b, q, f, p, i)
  BY <1>17, <1>22, <1>26, <1>31, OutsideTwice
<1>38. Mended(t, b, q, f, p, i)
  BY <1>11, <1>17, <1>24, <1>27, <1>31, <1>36, <1>37 DEF Mended
<1> QED BY <1>30, <1>32, <1>38 DEF q, f, r, d, c, k

-----------------------------------------------------------------------------
(* The walk back to the root.                                              *)

(* Balance puts right what may be too heavy on one side.                   *)
LEMMA BalanceMends ==
  ASSUME NEW t, NEW b, NEW p, NEW h \in Side, Heavy(t, b, p, h)
  PROVE  \E d : /\ Mended(t, b, Balance(t, p, h), d, p, Top(t, Balance(t, p, h), p))
                /\ \A y \in b[t.kid[Opp(h)][p]] : d[y] = b[y]
<1>1. CASE ~Unbalanced(t, t.kid[Opp(h)][p], t.kid[h][p])
  <2>1. Balance(t, p, h) = t
    BY <1>1 DEF Balance
  <2>2. Top(t, t, p) = p
    BY Zenon DEF Top
  <2> QED BY <1>1, <2>1, <2>2, NotHeavy
<1>2. CASE /\ Unbalanced(t, t.kid[Opp(h)][p], t.kid[h][p])
           /\ Single(t, t.kid[Opp(h)][t.kid[h][p]], t.kid[h][t.kid[h][p]])
  <2>1. Balance(t, p, h) = Rotate(t, p, Opp(h))
    BY <1>2, Zenon DEF Balance
  <2> QED BY <1>2, <2>1, SingleMends
<1>3. CASE /\ Unbalanced(t, t.kid[Opp(h)][p], t.kid[h][p])
           /\ ~Single(t, t.kid[Opp(h)][t.kid[h][p]], t.kid[h][t.kid[h][p]])
  <2>1. Balance(t, p, h) = Rotate(Rotate(t, t.kid[h][p], h), p, Opp(h))
    BY <1>3 DEF Balance
  <2> QED BY <1>3, <2>1, DoubleMends
<1> QED BY <1>1, <1>2, <1>3

(* Types of the operators, in any tree.                                    *)
LEMMA RotateType ==
  ASSUME NEW t \in Trees, NEW n \in Nodes, NEW side \in Side
  PROVE  Rotate(t, n, side) \in Trees
<1> DEFINE c == t.kid[Opp(side)][n]
           m == t.kid[side][c]
           p == t.parent[n]
<1>1. c \in Nodes /\ p \in Nodes
  BY TreeParts, Basics
<1>2. m \in Nodes
  BY <1>1, TreeParts, ZenonT(30)
<1>3. Rotate(t, n, side) = Spun(t, n, side, c, m, p)
  BY DEF Rotate, Spun
<1> HIDE DEF c, m, p
<1> QED BY <1>1, <1>2, <1>3, SpunIs

(* A turn of a walk makes a walk.                                          *)
LEMMA UpType ==
  ASSUME NEW t \in Trees, NEW p \in Nodes, NEW h \in Side
  PROVE  Balance(t, p, h) \in Trees /\ Up(t, p, h) \in Walks
<1>1. Balance(t, p, h) \in Trees
  <2>1. Opp(h) \in Side /\ t.kid[h][p] \in Nodes
    BY TreeParts, Basics
  <2>2. Rotate(t, p, Opp(h)) \in Trees /\ Rotate(Rotate(t, t.kid[h][p], h), p, Opp(h)) \in Trees
    BY <2>1, RotateType
  <2> QED BY <2>2 DEF Balance
<1> DEFINE q == Balance(t, p, h)
<1> HIDE DEF q
<1>2. q \in Trees
  BY <1>1 DEF q
<1>3. Top(t, q, p) \in Nodes
  BY <1>2, TreeParts DEF Top
<1>4. q.parent[Top(t, q, p)] \in Nodes
  BY <1>2, <1>3, TreeParts
<1>5. Up(t, p, h) = [tree |-> q, node |-> Top(t, q, p), parent |-> q.parent[Top(t, q, p)]]
  BY DEF Up, q
<1> QED BY <1>1, <1>2, <1>3, <1>4, <1>5 DEF Walks

(* The bodies of both walks make walks.                                    *)
LEMMA BodyTypes ==
  ASSUME NEW w \in Walks
  PROVE  InsertBody(w) \in Walks /\ DeleteBody(w) \in Walks
<1>1. w.tree \in Trees /\ w.parent \in Nodes /\ w.tree.size[w.parent] + 1 \in Nat
  BY TreeParts DEF Walks
<1>2. [w.tree EXCEPT !.size[w.parent] = @ + 1] \in Trees
  BY <1>1, SetSize
<1>3. Weigh(w.tree, w.parent) \in Trees
  BY <1>1, Weighed
<1> QED BY <1>1, <1>2, <1>3, UpType, Basics DEF InsertBody, DeleteBody, Shrunk

(* Sizes have no part in being linked.                                     *)
LEMMA LinkedSizes ==
  ASSUME NEW t, NEW b, Linked(t, b), NEW r \in Trees,
         r.root = t.root, r.kid = t.kid, r.parent = t.parent, r.size[Nil] = 0
  PROVE  Linked(r, b)
<1>1. /\ b \in [Nodes -> SUBSET Keys] /\ b[Nil] = {}
      /\ \A n \in Keys : n \in b[n]
      /\ \A n \in b[r.root] : b[n] \subseteq b[r.root]
      /\ r.parent[r.root] = Nil /\ r.parent[Nil] = Nil
      /\ \A s \in Side : r.kid[s][Nil] = Nil
  BY DEF Linked
<1>2. /\ \A n \in b[r.root] : b[n] = {n} \cup b[r.kid["left"][n]] \cup b[r.kid["right"][n]]
      /\ \A n \in b[r.root], s \in Side : \A k \in b[r.kid[s][n]] : On(s, k, n)
  BY DEF Linked
<1>3. /\ \A n \in b[r.root], s \in Side : r.kid[s][n] # Nil => r.parent[r.kid[s][n]] = n
      /\ \A n \in Keys \ b[r.root], s \in Side : r.kid[s][n] \in b[r.root] \cup {Nil}
  BY DEF Linked
<1> QED BY <1>1, <1>2, <1>3, Zenon DEF Linked

(* The path from p to the root passes the side s of n.                     *)
Through(t, b, p, x, n, s) == p \in b[t.kid[s][n]] \/ (n = p /\ t.kid[s][p] = x)

(* The path's side had one node less, or more, when the sides balanced.    *)
Lean(a, o, ins) == IF ins THEN Bal(a - 1, o) ELSE Bal(a + 1, o)

(* On the way back to the root, a node has been added (or taken out) below *)
(* p.                                                                      *)
Walking(w, b, ins) ==
  LET t == w.tree  H == b[t.root]  p == w.parent
  IN /\ Linked(t, b) /\ w.node \in Nodes /\ p \in Nodes
     /\ p = Nil => w.node = t.root
     /\ p # Nil => p \in H /\ \E s \in Side : t.kid[s][p] = w.node
     /\ \A n \in H : p \notin b[n] => Good(t, b, n)
     /\ \A n \in H, s \in Side : Through(t, b, p, w.node, n, s) =>
          Lean(N(b, t.kid[s][n]), N(b, t.kid[Opp(s)][n]), ins)
     /\ ins => \A n \in H : p \in b[n] => t.size[n] + 1 = N(b, n)

Frame(t, r, K) ==
  \A x \in Nodes \ K : /\ r.parent[x] = t.parent[x] /\ r.size[x] = t.size[x]
                       /\ \A s \in Side : r.kid[s][x] = t.kid[s][x]

(* What a turn makes of a walk.                                            *)
Raised(w, b, ins, u) ==
  \E h \in Side, v \in Trees :
    /\ u = Up(v, w.parent, h)
    /\ w.tree.kid[IF ins THEN h ELSE Opp(h)][w.parent] = w.node
    /\ v.root = w.tree.root /\ v.kid = w.tree.kid /\ v.parent = w.tree.parent
    /\ v.size[w.parent] = N(b, w.parent)
    /\ \A x \in Nodes \ {w.parent} : v.size[x] = w.tree.size[x]

Lifted(w, b, ins, u, d) ==
  /\ Walking(u, d, ins) /\ d[u.tree.root] = b[w.tree.root]
  /\ u.parent # Nil => N(d, u.parent) > N(b, w.parent)
  /\ Frame(w.tree, u.tree, b[w.tree.root])
  /\ b[w.node] \subseteq d[u.node]
  /\ ~ins => \A y \in b[w.node] : d[y] = b[y]

(* One turn.                                                               *)
LEMMA WalkStep ==
  ASSUME NEW w \in Walks, NEW b, NEW ins \in BOOLEAN, Walking(w, b, ins), w.parent # Nil,
         NEW h \in Side, w.tree.kid[IF ins THEN h ELSE Opp(h)][w.parent] = w.node,
         NEW v \in Trees, v.root = w.tree.root, v.kid = w.tree.kid, v.parent = w.tree.parent,
         v.size[w.parent] = N(b, w.parent),
         \A x \in Nodes \ {w.parent} : v.size[x] = w.tree.size[x]
  PROVE  \E d : Lifted(w, b, ins, Up(v, w.parent, h), d)
<1> DEFINE t == w.tree
           p == w.parent
           x == w.node
           H == b[t.root]
<1>1. Linked(t, b) /\ p \in H /\ x \in Nodes /\ p \in Nodes /\ t \in Trees
  BY SMTT(30) DEF Walking, Linked
<1>2. /\ \A n \in H : p \notin b[n] => Good(t, b, n)
      /\ \A n \in H, s \in Side : Through(t, b, p, x, n, s) =>
           Lean(N(b, t.kid[s][n]), N(b, t.kid[Opp(s)][n]), ins)
      /\ ins => \A n \in H : p \in b[n] => t.size[n] + 1 = N(b, n)
  BY Zenon DEF Walking
<1>3. \A n \in H :
           /\ n \in Keys /\ n \in Nodes /\ n # Nil /\ n \in b[n] /\ b[n] \subseteq H
           /\ \A s \in Side :
                /\ t.kid[s][n] \in Nodes /\ n \notin b[t.kid[s][n]] /\ b[t.kid[s][n]] \subseteq b[n]
                /\ t.kid[s][n] # n
                /\ b[t.kid[s][n]] \cap b[t.kid[Opp(s)][n]] = {}
                /\ t.kid[s][n] # Nil => /\ t.kid[s][n] \in H /\ t.kid[s][n] \in b[t.kid[s][n]]
                                        /\ t.kid[s][n] \in b[n] /\ t.parent[t.kid[s][n]] = n
  BY <1>1, KidFacts
<1>4. /\ \A n \in Nodes : N(b, n) \in Nat
      /\ \A n \in H, s \in Side : N(b, n) = N(b, t.kid[s][n]) + N(b, t.kid[Opp(s)][n]) + 1
  BY <1>1, CountOf
<1>5. t.kid[IF ins THEN h ELSE Opp(h)][p] = x /\ v.root = t.root /\ v.kid = t.kid
        /\ v.parent = t.parent
      /\ v.size[p] = N(b, p) /\ \A y \in Nodes \ {p} : v.size[y] = t.size[y]
  OBVIOUS
<1>6. \A n \in H : \A m \in b[n] : b[m] \subseteq b[n] /\ m \in H
  BY <1>1, Nested
<1>7. \A n \in H : \A m \in b[n] : m # n => /\ t.parent[m] \in b[n] /\ t.parent[m] \in H
                                            /\ t.parent[m] # m
                                            /\ \E s \in Side : t.kid[s][t.parent[m]] = m
  BY <1>1, ParentOf
<1>8. \A n \in H : \A m \in b[n] : n \in b[m] => m = n
  BY <1>1, Antisymmetric, ZenonT(30)
<1>9. t.size[Nil] = 0 /\ t.root \in Nodes /\ \A m \in H : t.parent[m] = Nil <=> m = t.root
  BY <1>1, TreeParts, RootOf DEF Linked
<1> HIDE DEF t, p, x, H
<1>10. Linked(v, b)
  <2>1. v.size[Nil] = 0
    BY <1>1, <1>3, <1>5, <1>9, Basics
  <2> QED BY <1>1, <1>5, <2>1, LinkedSizes
<1>11. Near(N(b, v.kid[Opp(h)][p]), N(b, v.kid[h][p]))
  <2>1. /\ N(b, t.kid[h][p]) \in Nat /\ N(b, t.kid[Opp(h)][p]) \in Nat
        /\ Opp(h) \in Side /\ Opp(Opp(h)) = h
    BY <1>1, <1>3, <1>4, Basics
  <2>2. CASE ins
    <3>1. Through(t, b, p, x, p, h)
      BY <1>5, <2>2 DEF Through
    <3>2. Bal(N(b, t.kid[h][p]) - 1, N(b, t.kid[Opp(h)][p]))
      BY <1>1, <1>2, <2>2, <3>1 DEF Lean
    <3> QED BY <1>5, <2>1, <3>2 DEF Bal, Near
  <2>3. CASE ~ins
    <3>1. Through(t, b, p, x, p, Opp(h))
      BY <1>5, <2>3 DEF Through
    <3>2. Bal(N(b, t.kid[Opp(h)][p]) + 1, N(b, t.kid[h][p]))
      BY <1>1, <1>2, <2>1, <2>3, <3>1 DEF Lean
    <3> QED BY <1>5, <2>1, <3>2 DEF Bal, Near
  <2> QED BY <2>2, <2>3, Zenon
<1>12. Heavy(v, b, p, h)
  <2>1. ASSUME NEW n \in b[p] \ {p} PROVE Good(v, b, n)
    <3>1. n \in H /\ n \in Nodes /\ p \notin b[n]
      BY <1>1, <1>3, <1>6, <1>8
    <3>2. Good(t, b, n)
      BY <1>2, <3>1
    <3> QED BY <1>5, <3>1, <3>2, Zenon DEF Good
  <2> QED BY <1>1, <1>5, <1>10, <1>11, <2>1 DEF Heavy, H
<1> DEFINE r == Balance(v, p, h)
           top == Top(v, r, p)
           u == Up(v, p, h)
<1>13. PICK d : Mended(v, b, r, d, p, top) /\ \A y \in b[v.kid[Opp(h)][p]] : d[y] = b[y]
  BY <1>12, BalanceMends
<1>14. u = [tree |-> r, node |-> top, parent |-> r.parent[top]] /\ u \in Walks
  BY <1>1, UpType DEF Up
<1>15. u.tree = r /\ u.node = top /\ u.parent = r.parent[top] /\ top \in Nodes
         /\ r.parent[top] \in Nodes
  BY <1>14 DEF Walks
<1> HIDE DEF r, top, u
<1>16. /\ Linked(r, d) /\ d[r.root] = H
       /\ top \in b[p] /\ d[top] = b[p] /\ r.parent[top] = t.parent[p]
       /\ \A n \in b[p] : Good(r, d, n)
       /\ \A n \in H \ b[p] :
            /\ d[n] = b[n] /\ r.size[n] = v.size[n]
            /\ \A s \in Side : /\ d[r.kid[s][n]] = b[t.kid[s][n]]
                               /\ r.kid[s][n] = top => t.kid[s][n] = p
       /\ \A y \in Nodes \ H :
            /\ r.parent[y] = v.parent[y] /\ r.size[y] = v.size[y]
            /\ \A s \in Side : r.kid[s][y] = t.kid[s][y]
  BY <1>5, <1>13 DEF Mended, Outside, H
<1> DEFINE q == t.parent[p]
<1>17. q \in Nodes /\ (q = Nil <=> p = t.root)
  <2>1. q \in Nodes
    BY <1>1, TreeParts
  <2>2. q = Nil <=> p = t.root
    BY <1>1, <1>9
  <2> QED BY <2>1, <2>2
<1>18. q # Nil => /\ q \in H \ b[p] /\ p \in b[q] /\ \E s \in Side : t.kid[s][q] = p
  <2> SUFFICES ASSUME q # Nil PROVE q \in H \ b[p] /\ p \in b[q] /\ \E s \in Side : t.kid[s][q] = p
    OBVIOUS
  <2>1. t.root # p /\ t.root \in H
    BY <1>1, <1>17, RootOf DEF H
  <2>2. q \in H /\ \E s \in Side : t.kid[s][q] = p
    BY <1>1, <1>7, <2>1 DEF H
  <2>3. p \in b[q] /\ p # q
    BY <1>1, <1>3, <2>2
  <2>4. q \notin b[p]
    BY <1>1, <1>8, <2>2, <2>3
  <2> QED BY <2>2, <2>3, <2>4
<1> HIDE DEF q
<1>19. /\ \A n \in H : n \in d[n] /\ d[n] \subseteq H
       /\ \A n \in H : \A m \in d[n] : d[m] \subseteq d[n]
       /\ \A n \in H, s \in Side : /\ d[r.kid[s][n]] \subseteq d[n] /\ r.kid[s][n] \in Nodes
                                   /\ r.kid[s][n] # Nil => r.kid[s][n] \in d[r.kid[s][n]]
                                      /\ r.kid[s][n] \in H
       /\ \A n \in Nodes : d[n] \subseteq Keys
       /\ d[Nil] = {}
  <2>1. /\ \A n \in H : n \in d[n] /\ d[n] \subseteq H
        /\ \A n \in H, s \in Side : /\ d[r.kid[s][n]] \subseteq d[n] /\ r.kid[s][n] \in Nodes
                                    /\ r.kid[s][n] # Nil => r.kid[s][n] \in d[r.kid[s][n]]
                                       /\ r.kid[s][n] \in H
    BY <1>16, KidFacts
  <2>2. \A n \in H : \A m \in d[n] : d[m] \subseteq d[n]
    BY <1>16, Nested, Zenon
  <2>3. d[Nil] = {} /\ \A n \in Nodes : d[n] \subseteq Keys
    BY <1>16, Zenon DEF Linked
  <2> QED BY <2>1, <2>2, <2>3, Zenon
<1>20. p \in b[p] /\ top \in H /\ H \subseteq Keys /\ Nil \notin Keys /\ H \subseteq Nodes
  BY <1>1, <1>3, <1>6, <1>16, Basics
<1>21. \A n \in H : q \in d[n] => n \notin b[p] /\ n # p /\ q # Nil /\ p \in b[n]
  <2> SUFFICES ASSUME NEW n \in H, q \in d[n] PROVE n \notin b[p] /\ n # p /\ q # Nil /\ p \in b[n]
    OBVIOUS
  <2>1. q # Nil
    BY <1>19, <1>20
  <2>2. n \notin b[p]
    <3>1. n \in b[p] => d[n] \subseteq b[p]
      BY <1>16, <1>19, <1>20
    <3> QED BY <1>18, <2>1, <3>1
  <2>3. d[n] = b[n]
    BY <1>16, <2>2
  <2>4. b[q] \subseteq b[n]
    BY <1>6, <2>3
  <2> QED BY <1>18, <1>20, <2>1, <2>2, <2>4
<1>22. ASSUME NEW n \in H \ b[p] PROVE /\ n # p /\ d[n] = b[n] /\ r.size[n] = t.size[n]
                                       /\ \A s \in Side : d[r.kid[s][n]] = b[t.kid[s][n]]
  BY <1>5, <1>16, <1>20
<1>23. ASSUME NEW n \in H, q \notin d[n] PROVE Good(r, d, n)
  <2>1. CASE n \in b[p]
    BY <1>16, <2>1
  <2>2. CASE n \notin b[p]
    <3>1. n # p /\ d[n] = b[n] /\ r.size[n] = t.size[n]
            /\ \A s \in Side : d[r.kid[s][n]] = b[t.kid[s][n]]
      BY <1>22, <2>2
    <3>2. p \notin b[n]
      <4>1. ASSUME p \in b[n] PROVE FALSE
        <5>1. t.parent[p] \in b[n]
          BY <1>7, <3>1, <4>1
        <5> QED BY <1>23, <3>1, <5>1 DEF q
      <4> QED BY <4>1
    <3>3. Good(t, b, n)
      BY <1>2, <3>2
    <3> QED BY <3>1, <3>3, Basics DEF Good, N
  <2> QED BY <2>1, <2>2
<1>24. ASSUME NEW n \in H, NEW s \in Side, Through(r, d, q, top, n, s)
       PROVE  Lean(N(d, r.kid[s][n]), N(d, r.kid[Opp(s)][n]), ins)
  <2>1. q \in d[n]
    BY <1>19, <1>24 DEF Through
  <2>2. n \notin b[p] /\ q # Nil
    BY <1>21, <2>1
  <2>3. d[r.kid[s][n]] = b[t.kid[s][n]] /\ d[r.kid[Opp(s)][n]] = b[t.kid[Opp(s)][n]]
    BY <1>22, <2>2, Basics
  <2>4. Through(t, b, p, x, n, s)
    <3>1. CASE q \in d[r.kid[s][n]]
      <4>1. q \in b[t.kid[s][n]] /\ t.kid[s][n] # Nil
        BY <1>1, <2>3, <3>1, Zenon DEF Linked
      <4>2. t.kid[s][n] \in H
        BY <1>3, <4>1
      <4>3. b[q] \subseteq b[t.kid[s][n]]
        BY <1>6, <4>1, <4>2
      <4> QED BY <1>18, <2>2, <4>3, Zenon DEF Through
    <3>2. CASE n = q /\ r.kid[s][q] = top
      <4>1. t.kid[s][n] = p
        BY <1>16, <2>2, <3>2
      <4> QED BY <1>20, <4>1 DEF Through
    <3> QED BY <1>24, <3>1, <3>2 DEF Through
  <2>5. Lean(N(b, t.kid[s][n]), N(b, t.kid[Opp(s)][n]), ins)
    BY <1>2, <2>4
  <2> QED BY <2>3, <2>5 DEF N
<1>25. ASSUME ins, NEW n \in H, q \in d[n] PROVE r.size[n] + 1 = N(d, n)
  <2>1. n \notin b[p] /\ p \in b[n]
    BY <1>21, <1>25
  <2> QED BY <1>2, <1>22, <1>25, <2>1 DEF N
<1>26. q # Nil => q \in H /\ \E s \in Side : r.kid[s][q] = top
  <2> SUFFICES ASSUME q # Nil PROVE q \in H /\ \E s \in Side : r.kid[s][q] = top
    OBVIOUS
  <2>1. PICK s \in Side : t.kid[s][q] = p
    BY <1>18
  <2>2. d[r.kid[s][q]] = d[top] /\ q \in H
    BY <1>16, <1>18, <1>22, <2>1
  <2>3. r.kid[s][q] # Nil
    BY <1>19, <1>20, <2>2
  <2>4. r.kid[s][q] \in H /\ r.kid[s][q] \in d[top] /\ top \in d[r.kid[s][q]]
    BY <1>19, <1>20, <2>2, <2>3
  <2>5. r.kid[s][q] = top
    BY <1>16, <1>20, <2>4, Antisymmetric
  <2> QED BY <2>2, <2>5
<1>27. q = Nil => top = r.root
  <2>1. top \in d[r.root] /\ r.parent[top] = q
    BY <1>16, <1>20 DEF q
  <2>2. \A m \in d[r.root] : r.parent[m] = Nil <=> m = r.root
    BY <1>16, RootOf
  <2> QED BY <2>1, <2>2
<1>28. u.tree = r /\ u.node = top /\ u.parent = q
  BY <1>15, <1>16 DEF q
<1>29. Walking(u, d, ins)
  BY <1>15, <1>16, <1>17, <1>23, <1>24, <1>25, <1>26, <1>27, <1>28 DEF Walking
<1>30. u.parent # Nil => N(d, u.parent) > N(b, p)
  <2> SUFFICES ASSUME q # Nil PROVE N(d, q) > N(b, p)
    BY <1>28
  <2>1. PICK s \in Side : t.kid[s][q] = p
    BY <1>18
  <2>2. N(b, q) = N(b, p) + N(b, t.kid[Opp(s)][q]) + 1 /\ N(b, t.kid[Opp(s)][q]) \in Nat
          /\ N(b, p) \in Nat
    <3>1. q \in H /\ Opp(s) \in Side /\ t.kid[Opp(s)][q] \in Nodes
      BY <1>3, <1>18, Basics
    <3>2. N(b, t.kid[Opp(s)][q]) \in Nat /\ N(b, p) \in Nat
      BY <1>1, <1>4, <3>1
    <3>3. N(b, q) = N(b, t.kid[s][q]) + N(b, t.kid[Opp(s)][q]) + 1
      BY <1>4, <3>1
    <3> QED BY <2>1, <3>2, <3>3, Zenon
  <2>3. N(d, q) = N(b, q)
    BY <1>18, <1>22 DEF N
  <2> QED BY <2>2, <2>3
<1>31. Frame(t, u.tree, H)
  <2>1. \A y \in Nodes \ H : v.size[y] = t.size[y]
    BY <1>1, <1>5, Zenon
  <2> QED BY <1>5, <1>16, <1>28, <2>1 DEF Frame
<1>32. b[x] \subseteq d[u.node]
  BY <1>1, <1>3, <1>5, <1>16, <1>28, Basics
<1>33. ~ins => \A y \in b[x] : d[y] = b[y]
  BY <1>5, <1>13
<1> QED BY <1>16, <1>28, <1>29, <1>30, <1>31, <1>32, <1>33, SMTT(30) DEF Lifted, u, t, p, x, H

(* A turn carries the walk one node up.                                    *)
LEMMA WalkTurn ==
  ASSUME NEW w \in Walks, NEW b, NEW ins \in BOOLEAN, Walking(w, b, ins), w.parent # Nil,
         NEW u, Raised(w, b, ins, u)
  PROVE  \E d : Lifted(w, b, ins, u, d)
<1>1. PICK h \in Side, v \in Trees :
    /\ u = Up(v, w.parent, h)
    /\ w.tree.kid[IF ins THEN h ELSE Opp(h)][w.parent] = w.node
    /\ v.root = w.tree.root /\ v.kid = w.tree.kid /\ v.parent = w.tree.parent
    /\ v.size[w.parent] = N(b, w.parent)
    /\ \A x \in Nodes \ {w.parent} : v.size[x] = w.tree.size[x]
  BY DEF Raised
<1>2. \E d : Lifted(w, b, ins, Up(v, w.parent, h), d)
  BY <1>1, WalkStep
<1> QED BY <1>1, <1>2

Sound(t, b) == Linked(t, b) /\ \A n \in b[t.root] : Good(t, b, n)

(* Where a walk can be after some turns.                                   *)
Progress(t, x, b, ins) ==
  {z \in Nat \X Walks :
     \E d : /\ Walking(z[2], d, ins) /\ d[z[2].tree.root] = b[t.root]
            /\ z[2].parent # Nil => N(d, z[2].parent) > z[1]
            /\ Frame(t, z[2].tree, b[t.root])
            /\ b[x] \subseteq d[z[2].node]
            /\ ~ins => \A y \in b[x] : d[y] = b[y]}

(* A turn after an insertion is such a turn.                               *)
LEMMA InsertTurn ==
  ASSUME NEW w \in Walks, NEW b, Walking(w, b, TRUE), w.parent # Nil
  PROVE  Raised(w, b, TRUE, InsertBody(w))
<1> DEFINE t == w.tree
           p == w.parent
           h == IF t.kid["right"][p] = w.node THEN "right" ELSE "left"
           v == [t EXCEPT !.size[p] = @ + 1]
<1>1. /\ Linked(t, b) /\ p \in b[t.root] /\ t \in Trees /\ p \in Nodes
      /\ \E s \in Side : t.kid[s][p] = w.node
      /\ \A n \in b[t.root] : p \in b[n] => t.size[n] + 1 = N(b, n)
  BY DEF Walking, Linked
<1>2. t.size[p] + 1 = N(b, p) /\ t.size[p] + 1 \in Nat
  <2>1. t.size[p] \in Nat
    BY <1>1, TreeParts
  <2>2. p \in b[p]
    BY <1>1, KidFacts
  <2> QED BY <1>1, <2>1, <2>2
<1>3. h \in Side /\ t.kid[h][p] = w.node
  BY <1>1, Basics
<1>4. InsertBody(w) = Up(v, p, h)
  BY DEF InsertBody
<1>5. v = [t EXCEPT !.size[p] = t.size[p] + 1]
  BY DEF Trees
<1>6. /\ v \in Trees /\ v.root = t.root /\ v.kid = t.kid /\ v.parent = t.parent
      /\ \A x \in Nodes : v.size[x] = IF x = p THEN t.size[p] + 1 ELSE t.size[x]
  <2> HIDE DEF v, t, p
  <2> QED BY <1>1, <1>2, <1>5, SetSize
<1> HIDE DEF h, v
<1>7. v.size[p] = N(b, p) /\ \A x \in Nodes \ {p} : v.size[x] = t.size[x]
  BY <1>1, <1>2, <1>6, Zenon
<1> QED BY <1>3, <1>4, <1>6, <1>7, Zenon DEF Raised

(* A turn after a deletion is such a turn.                                 *)
LEMMA DeleteTurn ==
  ASSUME NEW w \in Walks, NEW b, Walking(w, b, FALSE), w.parent # Nil
  PROVE  Raised(w, b, FALSE, DeleteBody(w))
<1> DEFINE t == w.tree
           p == w.parent
           h == IF t.kid["left"][p] = w.node THEN "right" ELSE "left"
           v == Weigh(t, p)
<1>1. /\ Linked(t, b) /\ p \in b[t.root] /\ t \in Trees /\ p \in Nodes
      /\ \E s \in Side : t.kid[s][p] = w.node
      /\ \A n \in b[t.root] : p \notin b[n] => Good(t, b, n)
  BY DEF Walking, Linked
<1>2. \A s \in Side : t.size[t.kid[s][p]] = N(b, t.kid[s][p]) /\ N(b, t.kid[s][p]) \in Nat
  <2> SUFFICES ASSUME NEW s \in Side
               PROVE  t.size[t.kid[s][p]] = N(b, t.kid[s][p]) /\ N(b, t.kid[s][p]) \in Nat
    OBVIOUS
  <2>1. /\ t.kid[s][p] \in Nodes /\ p \notin b[t.kid[s][p]]
        /\ t.kid[s][p] # Nil => t.kid[s][p] \in b[t.root]
    BY <1>1, KidFacts
  <2>2. t.size[Nil] = 0 /\ N(b, Nil) = 0
    <3>1. t.size[Nil] = 0
      BY <1>1 DEF Linked
    <3> QED BY <1>1, <3>1, CountOf, Zenon
  <2>3. N(b, t.kid[s][p]) \in Nat
    BY <1>1, <2>1, CountOf, Zenon
  <2> QED BY <1>1, <2>1, <2>2, <2>3 DEF Good
<1>3. N(b, p) = t.size[t.kid["left"][p]] + t.size[t.kid["right"][p]] + 1
  <2>1. N(b, p) = N(b, t.kid["left"][p]) + N(b, t.kid[Opp("left")][p]) + 1
    BY <1>1, CountOf, Basics
  <2> QED BY <1>2, <2>1, Basics DEF Opp
<1>4. h \in Side /\ t.kid[Opp(h)][p] = w.node
  BY <1>1, Basics DEF Opp
<1>5. DeleteBody(w) = Up(v, p, h)
  BY DEF DeleteBody, Shrunk
<1>6. /\ v \in Trees /\ v.root = t.root /\ v.kid = t.kid /\ v.parent = t.parent
      /\ v.size[p] = t.size[t.kid["left"][p]] + t.size[t.kid["right"][p]] + 1
      /\ \A x \in Nodes : x # p => v.size[x] = t.size[x]
  BY <1>1, Weighed
<1> HIDE DEF h, v
<1>7. v.size[p] = N(b, p) /\ \A x \in Nodes \ {p} : v.size[x] = t.size[x]
  BY <1>3, <1>6
<1> QED BY <1>4, <1>5, <1>6, <1>7, Zenon DEF Raised

(* Progress, unfolded.                                                     *)
LEMMA ProgressIs ==
  ASSUME NEW t, NEW x, NEW b, NEW ins, NEW i \in Nat, NEW w \in Walks
  PROVE  <<i, w>> \in Progress(t, x, b, ins) <=>
           \E d : /\ Walking(w, d, ins) /\ d[w.tree.root] = b[t.root]
                  /\ w.parent # Nil => N(d, w.parent) > i
                  /\ Frame(t, w.tree, b[t.root])
                  /\ b[x] \subseteq d[w.node]
                  /\ ~ins => \A y \in b[x] : d[y] = b[y]
BY DEF Progress

(* Each turn makes progress.                                               *)
LEMMA TurnProgress ==
  ASSUME NEW t \in Trees, NEW x \in Nodes, NEW b, NEW ins \in BOOLEAN,
         NEW i \in Nat, NEW w \in Walks, <<i, w>> \in Progress(t, x, b, ins)
  PROVE  <<i + 1, IF ins THEN InsertBody(w) ELSE DeleteBody(w)>> \in Progress(t, x, b, ins)
<1> DEFINE u == IF ins THEN InsertBody(w) ELSE DeleteBody(w)
<1>1. u \in Walks /\ i + 1 \in Nat
  BY BodyTypes
<1>2. PICK d : /\ Walking(w, d, ins) /\ d[w.tree.root] = b[t.root]
               /\ w.parent # Nil => N(d, w.parent) > i
               /\ Frame(t, w.tree, b[t.root])
               /\ b[x] \subseteq d[w.node]
               /\ ~ins => \A y \in b[x] : d[y] = b[y]
  BY ProgressIs
<1>3. SUFFICES \E e : /\ Walking(u, e, ins) /\ e[u.tree.root] = b[t.root]
                      /\ u.parent # Nil => N(e, u.parent) > i + 1
                      /\ Frame(t, u.tree, b[t.root])
                      /\ b[x] \subseteq e[u.node]
                      /\ ~ins => \A y \in b[x] : e[y] = b[y]
  <2> HIDE DEF u
  <2>1. <<i + 1, u>> \in Progress(t, x, b, ins)
    BY <1>1, <1>3, ProgressIs
  <2> QED BY <2>1 DEF u
<1>4. CASE w.parent = Nil
  <2>1. u = w
    BY <1>4 DEF InsertBody, DeleteBody
  <2> QED BY <1>2, <1>4, <2>1
<1>5. CASE w.parent # Nil
  <2>1. Raised(w, d, ins, u)
    <3>1. CASE ins
      <4>1. ins = TRUE /\ u = InsertBody(w)
        BY <3>1
      <4> QED BY <1>2, <1>5, <4>1, InsertTurn
    <3>2. CASE ~ins
      <4>1. ins = FALSE /\ u = DeleteBody(w)
        BY <3>2
      <4> QED BY <1>2, <1>5, <4>1, DeleteTurn
    <3> QED BY <3>1, <3>2
  <2>2. PICK e : Lifted(w, d, ins, u, e)
    <3> HIDE DEF u
    <3> QED BY <1>2, <1>5, <2>1, WalkTurn
  <2> HIDE DEF u
  <2>3. Frame(t, u.tree, b[t.root])
    BY <1>2, <2>2 DEF Frame, Lifted
  <2>4. u.parent # Nil => N(e, u.parent) > i + 1
    <3>1. /\ N(d, w.parent) \in Nat
          /\ N(e, u.parent) \in Nat
      <4>1. Linked(w.tree, d) /\ Linked(u.tree, e) /\ w.parent \in Nodes /\ u.parent \in Nodes
        BY <1>2, <2>2 DEF Walking, Lifted
      <4> QED BY <4>1, CountOf
    <3> QED BY <1>2, <1>5, <2>2, <3>1 DEF Lifted
  <2>5. b[x] \subseteq e[u.node] /\ (~ins => \A y \in b[x] : e[y] = b[y])
    BY <1>2, <2>2 DEF Lifted
  <2> QED BY <1>2, <2>2, <2>3, <2>4, <2>5 DEF Lifted
<1> QED BY <1>4, <1>5

(* MaxKey turns bring a walk to the root, and the tree is sound then.      *)
LEMMA WalkDone ==
  ASSUME NEW t \in Trees, NEW x \in Nodes, NEW p \in Nodes, NEW b, NEW ins \in BOOLEAN,
         Walking([tree |-> t, node |-> x, parent |-> p], b, ins)
  PROVE  LET r == IF ins THEN AfterInsert(t, x, p) ELSE AfterDelete(t, x, p)
         IN \E d : /\ Sound(r, d) /\ d[r.root] = b[t.root] /\ Frame(t, r, b[t.root])
                   /\ ~ins => \A y \in b[x] : d[y] = b[y]
<1> DEFINE start == [tree |-> t, node |-> x, parent |-> p]
           body == [w \in Walks |-> IF ins THEN InsertBody(w) ELSE DeleteBody(w)]
           I == Progress(t, x, b, ins)
           w == Loop(body, start)
           r == IF ins THEN AfterInsert(t, x, p) ELSE AfterDelete(t, x, p)
<1>1. r = AtRoot(w)
  BY DEF AfterInsert, AfterDelete
<1>2. start \in Walks /\ body \in [Walks -> Walks]
  BY BodyTypes DEF Walks
<1>3. <<0, start>> \in I
  <2>1. /\ Walking(start, b, ins) /\ b[start.tree.root] = b[t.root]
        /\ start.parent # Nil => N(b, start.parent) > 0
        /\ Frame(t, start.tree, b[t.root])
        /\ b[x] \subseteq b[start.node]
        /\ ~ins => \A y \in b[x] : b[y] = b[y]
    <3>1. p # Nil => N(b, p) > 0
      <4>1. p # Nil => p \in b[t.root] /\ Linked(t, b)
        BY DEF Walking
      <4>2. p # Nil => N(b, p) = N(b, t.kid["left"][p]) + N(b, t.kid[Opp("left")][p]) + 1
                       /\ N(b, t.kid["left"][p]) \in Nat /\ N(b, t.kid[Opp("left")][p]) \in Nat
        <5> SUFFICES ASSUME p # Nil
                     PROVE  N(b, p) = N(b, t.kid["left"][p]) + N(b, t.kid[Opp("left")][p]) + 1
                       /\ N(b, t.kid["left"][p]) \in Nat /\ N(b, t.kid[Opp("left")][p]) \in Nat
          OBVIOUS
        <5>1. "left" \in Side /\ Opp("left") \in Side
          BY Basics
        <5>2. t.kid["left"][p] \in Nodes /\ t.kid[Opp("left")][p] \in Nodes
              /\ N(b, p) = N(b, t.kid["left"][p]) + N(b, t.kid[Opp("left")][p]) + 1
          BY <4>1, <5>1, CountOf
        <5> QED BY <4>1, <5>2, CountOf
      <4> QED BY <4>2
    <3> QED BY <3>1 DEF Frame
  <2> QED BY <1>2, <2>1, ProgressIs
<1>4. ASSUME NEW i \in 0..(MaxKey - 1), NEW y \in Walks, <<i, y>> \in I
      PROVE  <<i + 1, body[y]>> \in I
  <2>1. i \in Nat
    OBVIOUS
  <2> QED BY <1>4, <2>1, TurnProgress
<1> HIDE DEF start, body, I
<1>5. w \in Walks /\ <<MaxKey, w>> \in I
  BY <1>2, <1>3, <1>4, LoopInduction
<1> HIDE DEF w, r
<1>6. PICK d : /\ Walking(w, d, ins) /\ d[w.tree.root] = b[t.root]
               /\ w.parent # Nil => N(d, w.parent) > MaxKey
               /\ Frame(t, w.tree, b[t.root])
               /\ ~ins => \A y \in b[x] : d[y] = b[y]
  BY <1>5 DEF I, Progress
<1>7. Linked(w.tree, d) /\ w.parent \in Nodes
  BY <1>6 DEF Walking
<1>8. w.parent = Nil
  <2>1. N(d, w.parent) \in Nat /\ N(d, w.parent) <= MaxKey
    BY <1>7, CountOf
  <2> QED BY <1>6, <2>1, SortedMapAssumption
<1>9. r = w.tree
  <2>1. w.node = w.tree.root /\ w.tree \in Trees
    BY <1>6, <1>8 DEF Walking, Linked
  <2> QED BY <1>1, <2>1, Zenon DEF AtRoot, Trees
<1>10. \A n \in d[w.tree.root] : Good(w.tree, d, n)
  <2>1. \A n \in d[w.tree.root] : Nil \notin d[n]
    <3>1. \A n \in d[w.tree.root] : d[n] \in SUBSET Keys
      BY <1>7, RootOf
    <3> QED BY <3>1, Basics
  <2> QED BY <1>6, <1>8, <2>1 DEF Walking
<1> QED BY <1>6, <1>7, <1>9, <1>10 DEF Sound, r

-----------------------------------------------------------------------------
(* Going down: find() and first().                                         *)

Toward(key, n) == IF key < n THEN "left" ELSE "right"

(* The side a key belongs to.                                              *)
LEMMA Sides ==
  /\ \A key, n \in Keys : /\ Toward(key, n) \in Side /\ (key # n => On(Toward(key, n), key, n))
                          /\ key # n => ~On(Opp(Toward(key, n)), key, n)
  /\ \A key, n \in Keys, s \in Side : ~(On(s, key, n) /\ On(Opp(s), key, n))
<1>1. ASSUME NEW key \in Keys, NEW n \in Keys
      PROVE  /\ Toward(key, n) \in Side /\ (key # n => On(Toward(key, n), key, n))
             /\ key # n => ~On(Opp(Toward(key, n)), key, n)
             /\ \A s \in Side : ~(On(s, key, n) /\ On(Opp(s), key, n))
  <2>1. key \in Nat /\ n \in Nat
    BY Basics
  <2> QED BY <2>1 DEF Toward, On, Opp, Side
<1> QED BY <1>1

(* n is on the way from the root to where the key is or belongs.           *)
Leads(t, b, key, n) ==
  /\ n \in b[t.root]
  /\ \A a \in b[t.root], s \in Side : n \in b[t.kid[s][a]] => On(s, key, a)
  /\ key \in b[t.root] => key \in b[n]

(* A step down goes towards the key.                                       *)
LEMMA LeadsOn ==
  ASSUME NEW t, NEW b, Linked(t, b), NEW key \in Keys, NEW n, Leads(t, b, key, n), key # n,
         t.kid[Toward(key, n)][n] # Nil
  PROVE  /\ Leads(t, b, key, t.kid[Toward(key, n)][n])
         /\ N(b, t.kid[Toward(key, n)][n]) < N(b, n)
<1> DEFINE s == Toward(key, n)
           k == t.kid[s][n]
           H == b[t.root]
<1>1. n \in H /\ n \in Keys
  BY RootOf DEF Leads
<1>2. s \in Side /\ On(s, key, n) /\ ~On(Opp(s), key, n) /\ Opp(s) \in Side
  BY <1>1, Sides, Basics
<1>3. /\ \A a \in H, u \in Side : n \in b[t.kid[u][a]] => On(u, key, a)
      /\ key \in H => key \in b[n]
  BY DEF Leads
<1>4. /\ k # Nil
      /\ \A a \in H, u \in Side :
           /\ \A q \in b[t.kid[u][a]] : On(u, q, a)
           /\ t.kid[u][a] # Nil => t.parent[t.kid[u][a]] = a
  BY DEF Linked
<1>5. /\ k \in H /\ k \in b[k] /\ b[n] = {n} \cup b[k] \cup b[t.kid[Opp(s)][n]] /\ t.parent[k] = n
      /\ b[k] \cap b[t.kid[Opp(s)][n]] = {}
  BY <1>1, <1>2, <1>4, KidsOf
<1>6. N(b, k) < N(b, n)
  BY <1>1, <1>2, CountOf
<1>7. \A a \in H, u \in Side : t.kid[u][a] # Nil => t.kid[u][a] \in H
  BY KidFacts
<1>8. \A a \in H : \A m \in b[a] : m # a => t.parent[m] \in b[a]
  BY ParentOf
<1>9. ASSUME NEW a \in H, NEW u \in Side, k \in b[t.kid[u][a]] PROVE On(u, key, a)
  <2>1. t.kid[u][a] # Nil
    BY <1>9 DEF Linked
  <2>2. CASE a = n
    <3>1. u = s
      BY <1>1, <1>2, <1>5, <1>9, <2>2, Basics
    <3> QED BY <1>2, <2>2, <3>1
  <2>3. CASE a # n
    <3>1. t.kid[u][a] # k
      BY <1>4, <1>5, <2>1, <2>3
    <3>2. n \in b[t.kid[u][a]]
      BY <1>5, <1>7, <1>8, <1>9, <2>1, <3>1
    <3> QED BY <1>3, <3>2
  <2> QED BY <2>2, <2>3
<1>10. key \in H => key \in b[k]
  <2>1. key \in b[t.kid[Opp(s)][n]] => On(Opp(s), key, n)
    BY <1>1, <1>2, <1>4
  <2> QED BY <1>2, <1>3, <1>5, <2>1
<1> HIDE DEF s, k, H
<1>11. Leads(t, b, key, k)
  BY <1>5, <1>9, <1>10 DEF Leads, H
<1> QED BY <1>6, <1>11 DEF s, k

(* find() returns the key's node, or the one the key would hang from.      *)
LEMMA FindIs ==
  ASSUME NEW t, NEW b, Linked(t, b), NEW key \in Keys, t.root # Nil
  PROVE  LET f == Find(t, key, t.root)
         IN /\ Leads(t, b, key, f) /\ (f = key <=> key \in b[t.root])
            /\ f # key => t.kid[Toward(key, f)][f] = Nil
<1> DEFINE body == [m \in Nodes |-> FindBody(t, key, m)]
           Done(n) == n = key \/ t.kid[Toward(key, n)][n] = Nil
           I == {z \in Nat \X Nodes : Leads(t, b, key, z[2])
                  /\ (Done(z[2]) \/ N(b, z[2]) + z[1] <= MaxKey)}
           f == Find(t, key, t.root)
<1>1. t \in Trees /\ t.root \in b[t.root] /\ t.root \in Nodes /\ key \in Nodes
  BY RootOf, Basics DEF Linked
<1>2. \A n \in Nodes : FindBody(t, key, n) = IF Done(n) THEN n ELSE t.kid[Toward(key, n)][n]
  BY DEF FindBody, Toward
<1>3. body \in [Nodes -> Nodes]
  <2>1. \A n \in Nodes : Toward(key, n) \in Side
    BY Basics DEF Toward
  <2>2. \A n \in Nodes : t.kid[Toward(key, n)][n] \in Nodes
    BY <1>1, <2>1, TreeParts
  <2> QED BY <1>2, <2>2
<1>4. <<0, t.root>> \in I
  <2>1. Leads(t, b, key, t.root)
    <3>1. ASSUME NEW a \in b[t.root], NEW s \in Side, t.root \in b[t.kid[s][a]] PROVE FALSE
      <4>1. t.kid[s][a] # Nil
        BY <3>1 DEF Linked
      <4>2. t.kid[s][a] \in b[t.root] /\ b[t.kid[s][a]] \subseteq b[a]
              /\ a \notin b[t.kid[s][a]] /\ a \in b[a]
        BY <4>1, KidFacts
      <4>3. b[t.root] \subseteq b[t.kid[s][a]]
        BY <3>1, <4>2, Nested
      <4> QED BY <4>2, <4>3
    <3> QED BY <1>1, <3>1 DEF Leads
  <2>2. N(b, t.root) + 0 <= MaxKey
    BY <1>1, CountOf
  <2> QED BY <1>1, <2>1, <2>2
<1>5. ASSUME NEW i \in 0..(MaxKey - 1), NEW n \in Nodes, <<i, n>> \in I
      PROVE  <<i + 1, body[n]>> \in I
  <2>1. body[n] \in Nodes /\ i + 1 \in Nat /\ Leads(t, b, key, n)
          /\ (Done(n) \/ N(b, n) + i <= MaxKey)
    BY <1>3, <1>5
  <2>2. CASE Done(n)
    BY <1>2, <2>1, <2>2
  <2>3. CASE ~Done(n)
    <3>1. body[n] = t.kid[Toward(key, n)][n] /\ n # key /\ t.kid[Toward(key, n)][n] # Nil
      BY <1>2, <2>3
    <3>2. Leads(t, b, key, body[n]) /\ N(b, body[n]) < N(b, n)
      BY <2>1, <3>1, LeadsOn
    <3>3. N(b, body[n]) \in Nat /\ N(b, n) \in Nat /\ MaxKey \in Nat
      BY <2>1, CountOf, Basics
    <3>4. N(b, body[n]) + (i + 1) <= MaxKey
      BY <2>1, <2>3, <3>2, <3>3
    <3> QED BY <2>1, <3>2, <3>4
  <2> QED BY <2>2, <2>3
<1> HIDE DEF body, I
<1>6. Loop(body, t.root) \in Nodes /\ <<MaxKey, Loop(body, t.root)>> \in I
  BY <1>1, <1>3, <1>4, <1>5, LoopInduction
<1>7. f \in Nodes /\ <<MaxKey, f>> \in I
  BY <1>6 DEF Find, body
<1> HIDE DEF f
<1>8. Leads(t, b, key, f) /\ (Done(f) \/ N(b, f) + MaxKey <= MaxKey)
  BY <1>7 DEF I
<1>9. f \in b[t.root] /\ f \in Keys
  BY <1>8, RootOf DEF Leads
<1>10. Done(f)
  <2>1. N(b, f) = N(b, t.kid["left"][f]) + N(b, t.kid[Opp("left")][f]) + 1
        /\ t.kid["left"][f] \in Nodes /\ t.kid[Opp("left")][f] \in Nodes
    BY <1>9, CountOf, Basics
  <2>2. N(b, t.kid["left"][f]) \in Nat /\ N(b, t.kid[Opp("left")][f]) \in Nat /\ MaxKey \in Nat
    BY <2>1, CountOf, Basics
  <2> QED BY <1>8, <2>1, <2>2
<1>11. ASSUME key \in b[t.root], f # key PROVE FALSE
  <2> DEFINE s == Toward(key, f)
  <2>1. s \in Side /\ Opp(s) \in Side /\ ~On(Opp(s), key, f)
    BY <1>9, <1>11, Sides, Basics
  <2>2. key \in b[f] /\ t.kid[s][f] = Nil
    BY <1>8, <1>10, <1>11 DEF Leads
  <2>3. b[f] = {f} \cup b[t.kid[s][f]] \cup b[t.kid[Opp(s)][f]]
    BY <1>9, <2>1, KidsOf
  <2>4. \A q \in b[t.kid[Opp(s)][f]] : On(Opp(s), q, f)
    BY <1>9, <2>1 DEF Linked
  <2>5. b[Nil] = {}
    BY DEF Linked
  <2> QED BY <1>11, <2>1, <2>2, <2>3, <2>4, <2>5
<1> QED BY <1>8, <1>9, <1>10, <1>11, Zenon DEF f

(* Below n, m leads to the smallest key.                                   *)
Leftmost(b, n, m) == m \in b[n] /\ \A k \in b[n] \ b[m] : \A j \in b[m] : j < k

(* A step to the left goes towards the smallest key.                       *)
LEMMA LeftmostOn ==
  ASSUME NEW t, NEW b, Linked(t, b), NEW n \in b[t.root], NEW m, Leftmost(b, n, m),
         t.kid["left"][m] # Nil
  PROVE  Leftmost(b, n, t.kid["left"][m]) /\ N(b, t.kid["left"][m]) < N(b, m)
<1> DEFINE l == t.kid["left"][m]
           r == t.kid["right"][m]
<1>1. m \in b[n] /\ m \in b[t.root] /\ b[m] \subseteq b[n]
  BY Nested DEF Leftmost
<1>2. "left" \in Side /\ "right" \in Side /\ Opp("left") = "right"
  BY DEF Side, Opp
<1>3. l \in b[l] /\ l \in b[m] /\ N(b, l) < N(b, m)
  BY <1>1, <1>2, KidFacts, CountOf
<1>4. b[m] = {m} \cup b[l] \cup b[r] /\ \A s \in Side : \A k \in b[t.kid[s][m]] : On(s, k, m)
  BY <1>1 DEF Linked
<1>5. \A j \in b[l] : j < m
  BY <1>2, <1>4 DEF On
<1>6. \A k \in b[r] : k > m
  BY <1>2, <1>4 DEF On
<1>7. b[l] \subseteq Nat /\ b[r] \subseteq Nat /\ m \in Nat
  <2>1. b[m] \subseteq b[t.root] /\ b[t.root] \subseteq Nat
    BY <1>1, KidFacts, RootOf, Basics
  <2> QED BY <1>1, <1>4, <2>1
<1>8. ASSUME NEW k \in b[n] \ b[l], NEW j \in b[l] PROVE j < k
  <2>1. CASE k \in b[m]
    BY <1>4, <1>5, <1>6, <1>7, <1>8, <2>1
  <2>2. CASE k \notin b[m]
    BY <1>4, <1>8, <2>2 DEF Leftmost
  <2> QED BY <2>1, <2>2
<1> QED BY <1>1, <1>3, <1>8 DEF Leftmost

(* first() returns the smallest key of a subtree.                          *)
LEMMA FirstIs ==
  ASSUME NEW t, NEW b, Linked(t, b), NEW n \in b[t.root]
  PROVE  LET f == FirstNode(t, n)
         IN f \in b[n] /\ t.kid["left"][f] = Nil /\ \A k \in b[n] : f <= k
<1> DEFINE body == [m \in Nodes |-> FirstBody(t, m)]
           Done(m) == t.kid["left"][m] = Nil
           I == {z \in Nat \X Nodes :
                   Leftmost(b, n, z[2]) /\ (Done(z[2]) \/ N(b, z[2]) + z[1] <= MaxKey)}
           f == FirstNode(t, n)
<1>1. t \in Trees /\ n \in Nodes /\ n \in b[n]
  BY KidFacts DEF Linked
<1>2. \A m \in Nodes : body[m] = IF Done(m) THEN m ELSE t.kid["left"][m]
  BY DEF FirstBody
<1>3. body \in [Nodes -> Nodes]
  <2>1. \A m \in Nodes : t.kid["left"][m] \in Nodes
    BY <1>1, TreeParts, Basics
  <2> QED BY <2>1 DEF FirstBody
<1>4. <<0, n>> \in I
  BY <1>1, CountOf DEF Leftmost
<1>5. ASSUME NEW i \in 0..(MaxKey - 1), NEW m \in Nodes, <<i, m>> \in I
      PROVE  <<i + 1, body[m]>> \in I
  <2>1. /\ body[m] \in Nodes /\ i + 1 \in Nat /\ Leftmost(b, n, m)
        /\ Done(m) \/ N(b, m) + i <= MaxKey
    BY <1>3, <1>5
  <2>2. CASE Done(m)
    BY <1>2, <2>1, <2>2
  <2>3. CASE ~Done(m)
    <3>1. body[m] = t.kid["left"][m] /\ t.kid["left"][m] # Nil
      BY <1>2, <2>3
    <3>2. Leftmost(b, n, body[m]) /\ N(b, body[m]) < N(b, m)
      BY <2>1, <3>1, LeftmostOn
    <3>3. N(b, body[m]) \in Nat /\ N(b, m) \in Nat /\ MaxKey \in Nat
      BY <2>1, CountOf, Basics
    <3>4. N(b, body[m]) + (i + 1) <= MaxKey
      BY <2>1, <2>3, <3>2, <3>3
    <3> QED BY <2>1, <3>2, <3>4
  <2> QED BY <2>2, <2>3
<1> HIDE DEF body, I
<1>6. Loop(body, n) \in Nodes /\ <<MaxKey, Loop(body, n)>> \in I
  BY <1>1, <1>3, <1>4, <1>5, LoopInduction
<1>7. f \in Nodes /\ <<MaxKey, f>> \in I
  BY <1>6 DEF FirstNode, body
<1> HIDE DEF f
<1>8. Leftmost(b, n, f) /\ (Done(f) \/ N(b, f) + MaxKey <= MaxKey)
  BY <1>7 DEF I
<1>9. f \in b[n] /\ f \in b[t.root] /\ f \in Keys
  BY <1>8, Nested, RootOf DEF Leftmost
<1>10. Done(f)
  <2>1. N(b, f) = N(b, t.kid["left"][f]) + N(b, t.kid[Opp("left")][f]) + 1
        /\ t.kid["left"][f] \in Nodes /\ t.kid[Opp("left")][f] \in Nodes
    BY <1>9, CountOf, Basics
  <2>2. N(b, t.kid["left"][f]) \in Nat /\ N(b, t.kid[Opp("left")][f]) \in Nat /\ MaxKey \in Nat
    BY <2>1, CountOf, Basics
  <2> QED BY <1>8, <2>1, <2>2
<1>11. ASSUME NEW k \in b[n] PROVE f <= k
  <2>1. b[f] = {f} \cup b[t.kid["right"][f]] /\ f \in b[f]
    BY <1>9, <1>10 DEF Linked
  <2>2. \A j \in b[t.kid["right"][f]] : j > f
    <3>1. "right" \in Side /\ "right" # "left"
      BY DEF Side
    <3> QED BY <1>9, <3>1 DEF Linked, On
  <2>3. k \in Nat /\ f \in Nat
    BY <1>9, KidFacts, RootOf, Basics
  <2>4. k \notin b[f] => f < k
    BY <1>8, <2>1 DEF Leftmost
  <2> QED BY <2>1, <2>2, <2>3, <2>4
<1> QED BY <1>9, <1>10, <1>11, Zenon DEF f

-----------------------------------------------------------------------------
(* Insertion.                                                              *)

(* key hangs on side s of f, as a leaf.                                    *)
Leafed(t, r, key, f, s) ==
  /\ r \in Trees /\ r.root = t.root
  /\ \A u \in Side, x \in Nodes :
       r.kid[u][x] = IF x = key THEN Nil ELSE IF u = s /\ x = f THEN key ELSE t.kid[u][x]
  /\ \A x \in Nodes : r.parent[x] = IF x = key THEN f ELSE t.parent[x]
  /\ \A x \in Nodes : r.size[x] = IF x = key THEN 1 ELSE t.size[x]

Grown(t, b, key, f) ==
  [n \in Nodes |-> IF n = key THEN {key}
                   ELSE IF n \in b[t.root] /\ f \in b[n] THEN b[n] \cup {key} ELSE b[n]]

(* Where a leaf belongs.                                                   *)
LeafAt(t, b, key, f, s) ==
  /\ Linked(t, b) /\ key \in Keys \ b[t.root] /\ Leads(t, b, key, f) /\ s \in Side
  /\ On(s, key, f) /\ t.kid[s][f] = Nil

GrownFacts(t, b, key, f, s, r, d) ==
  /\ d[r.root] = b[t.root] \cup {key} /\ d[key] = {key} /\ d[Nil] = {}
  /\ \A n \in b[t.root] : d[n] = IF f \in b[n] THEN b[n] \cup {key} ELSE b[n]
  /\ f \in b[t.root] /\ f \in Keys /\ f \in b[f]
  /\ r.kid[s][f] = key
  /\ \A n \in b[t.root], u \in Side :
       n # f \/ u # s =>
         /\ r.kid[u][n] = t.kid[u][n] /\ r.kid[u][n] # key
         /\ d[r.kid[u][n]] = IF f \in b[t.kid[u][n]] THEN b[t.kid[u][n]] \cup {key}
                             ELSE b[t.kid[u][n]]

(* The keys at and below each node, with the leaf.                         *)
LEMMA GrownIs ==
  ASSUME NEW t, NEW b, NEW key, NEW f, NEW s, LeafAt(t, b, key, f, s),
         NEW r, Leafed(t, r, key, f, s)
  PROVE  GrownFacts(t, b, key, f, s, r, Grown(t, b, key, f))
<1> DEFINE d == Grown(t, b, key, f)
           H == b[t.root]
<1>1. /\ Linked(t, b) /\ key \in Keys \ H /\ s \in Side /\ On(s, key, f) /\ t.kid[s][f] = Nil
      /\ f \in H /\ f \in Keys /\ f \in b[f] /\ b[Nil] = {} /\ t.root \in Nodes
  BY RootOf DEF LeafAt, Leads, Linked
<1>2. t.root # Nil /\ t.root \in H /\ H \subseteq Keys
  BY <1>1, RootOf
<1>3. /\ r.root = t.root
      /\ \A u \in Side, x \in Nodes :
           r.kid[u][x] = IF x = key THEN Nil ELSE IF u = s /\ x = f THEN key ELSE t.kid[u][x]
  BY DEF Leafed
<1>4. \A n \in Nodes : d[n] = IF n = key THEN {key}
                              ELSE IF n \in H /\ f \in b[n] THEN b[n] \cup {key} ELSE b[n]
  BY DEF Grown
<1>5. Nil \in Nodes /\ Nil \notin Keys /\ Keys \subseteq Nodes
  BY Basics
<1>6. d[Nil] = {} /\ d[key] = {key}
  BY <1>1, <1>2, <1>4, <1>5
<1>7. \A n \in H : d[n] = IF f \in b[n] THEN b[n] \cup {key} ELSE b[n]
  BY <1>1, <1>2, <1>4, <1>5
<1>8. d[r.root] = H \cup {key}
  BY <1>1, <1>2, <1>3, <1>7
<1>9. ASSUME NEW n \in H, NEW u \in Side, n # f \/ u # s
      PROVE  /\ r.kid[u][n] = t.kid[u][n] /\ r.kid[u][n] # key
             /\ d[r.kid[u][n]] = IF f \in b[t.kid[u][n]] THEN b[t.kid[u][n]] \cup {key}
                                 ELSE b[t.kid[u][n]]
  <2>1. r.kid[u][n] = t.kid[u][n]
    BY <1>1, <1>2, <1>3, <1>5, <1>9
  <2>2. t.kid[u][n] = Nil \/ t.kid[u][n] \in H
    BY <1>1, KidFacts, Zenon
  <2> QED BY <1>1, <1>5, <1>6, <1>7, <2>1, <2>2
<1>10. r.kid[s][f] = key
  BY <1>1, <1>3, <1>5
<1> HIDE DEF d, H
<1> QED BY <1>1, <1>6, <1>7, <1>8, <1>9, <1>10 DEF d, H, GrownFacts

(* The tree with the leaf is linked.                                       *)
LEMMA LeafLinked ==
  ASSUME NEW t, NEW b, NEW key, NEW f, NEW s, LeafAt(t, b, key, f, s),
         NEW r, Leafed(t, r, key, f, s)
  PROVE  Linked(r, Grown(t, b, key, f))
<1> DEFINE d == Grown(t, b, key, f)
           H == b[t.root]
<1> HIDE DEF d, H
<1>0. GrownFacts(t, b, key, f, s, r, d)
  BY GrownIs DEF d
<1>1. /\ Linked(t, b) /\ key \in Keys /\ key \notin H /\ s \in Side /\ On(s, key, f)
      /\ t.kid[s][f] = Nil /\ Leads(t, b, key, f)
  BY DEF LeafAt, H
<1>2. /\ d[r.root] = H \cup {key} /\ d[key] = {key} /\ d[Nil] = {}
      /\ \A n \in H : d[n] = IF f \in b[n] THEN b[n] \cup {key} ELSE b[n]
      /\ f \in H /\ f \in Keys /\ f \in b[f] /\ r.kid[s][f] = key
  BY <1>0 DEF GrownFacts, H
<1>3. \A n \in H, u \in Side :
        n # f \/ u # s =>
          /\ r.kid[u][n] = t.kid[u][n] /\ r.kid[u][n] # key
          /\ d[r.kid[u][n]] = IF f \in b[t.kid[u][n]] THEN b[t.kid[u][n]] \cup {key}
                              ELSE b[t.kid[u][n]]
  BY <1>0 DEF GrownFacts, H
<1>4. /\ r \in Trees /\ r.root = t.root
      /\ \A u \in Side, x \in Nodes :
           r.kid[u][x] = IF x = key THEN Nil ELSE IF u = s /\ x = f THEN key ELSE t.kid[u][x]
      /\ \A x \in Nodes : r.parent[x] = IF x = key THEN f ELSE t.parent[x]
      /\ \A x \in Nodes : r.size[x] = IF x = key THEN 1 ELSE t.size[x]
  BY DEF Leafed
<1>5. d \in [Nodes -> SUBSET Keys] /\ \A n \in Keys : n \in d[n]
  BY <1>1, Basics DEF Linked, Grown, d
<1>6. /\ Nil \in Nodes /\ Nil \notin Keys /\ Keys \subseteq Nodes /\ H \subseteq Keys
      /\ \A u, v \in Side : v = u \/ v = Opp(u)
      /\ \A u \in Side : Opp(u) \in Side /\ Opp(u) # u /\ Opp(Opp(u)) = u
  BY <1>1, RootOf, Basics DEF H
<1>7. /\ \A u \in Side : t.kid[u][Nil] = Nil
      /\ b[Nil] = {} /\ t.parent[t.root] = Nil /\ t.parent[Nil] = Nil /\ t.size[Nil] = 0
      /\ \A n \in H : b[n] \subseteq H
      /\ \A n \in H, u \in Side : \A k \in b[t.kid[u][n]] : On(u, k, n)
      /\ \A n \in H, u \in Side : t.kid[u][n] # Nil => t.parent[t.kid[u][n]] = n
      /\ \A n \in Keys \ H, u \in Side : t.kid[u][n] \in H \cup {Nil}
  BY <1>1 DEF Linked, H
<1>8. /\ \A n \in H, u \in Side : /\ b[n] = {n} \cup b[t.kid[u][n]] \cup b[t.kid[Opp(u)][n]]
                                  /\ b[t.kid[u][n]] \cap b[t.kid[Opp(u)][n]] = {}
                                  /\ n \notin b[t.kid[u][n]] /\ t.kid[u][n] \in Nodes
                                  /\ t.kid[u][n] # Nil => t.kid[u][n] \in H
  <2>1. \A n \in H, u \in Side : b[n] = {n} \cup b[t.kid[u][n]] \cup b[t.kid[Opp(u)][n]]
    BY <1>1, KidsOf DEF H
  <2>2. \A n \in H, u \in Side : /\ b[t.kid[u][n]] \cap b[t.kid[Opp(u)][n]] = {}
                                 /\ n \notin b[t.kid[u][n]] /\ t.kid[u][n] \in Nodes
                                 /\ t.kid[u][n] # Nil => t.kid[u][n] \in H
    BY <1>1, KidFacts DEF H
  <2> QED BY <2>1, <2>2, Zenon
<1>9. \A u \in Side : r.kid[u][key] = Nil
  BY <1>1, <1>4, <1>6
<1>10. ASSUME NEW n \in H \cup {key}
       PROVE  d[n] \subseteq H \cup {key}
  BY <1>2, <1>7
<1>11. ASSUME NEW n \in H, NEW u \in Side
       PROVE  d[n] = {n} \cup d[r.kid[u][n]] \cup d[r.kid[Opp(u)][n]]
  <2>1. CASE n = f
    <3>0. f \notin b[t.kid[Opp(s)][f]] /\ Opp(s) \in Side /\ Opp(s) # s
      BY <1>1, <1>2, <1>6, <1>8
    <3>1. d[r.kid[s][n]] = {key} /\ d[r.kid[Opp(s)][n]] = b[t.kid[Opp(s)][n]]
      BY <1>2, <1>3, <2>1, <3>0
    <3>2. d[n] = {n} \cup d[r.kid[s][n]] \cup d[r.kid[Opp(s)][n]]
      BY <1>1, <1>2, <1>7, <1>8, <2>1, <3>1, Zenon
    <3> QED BY <1>1, <1>6, <3>2
  <2>2. CASE n # f
    <3>1. /\ d[r.kid[u][n]] = IF f \in b[t.kid[u][n]] THEN b[t.kid[u][n]] \cup {key}
                              ELSE b[t.kid[u][n]]
          /\ d[r.kid[Opp(u)][n]] = IF f \in b[t.kid[Opp(u)][n]]
                                   THEN b[t.kid[Opp(u)][n]] \cup {key}
                                   ELSE b[t.kid[Opp(u)][n]]
      BY <1>3, <1>6, <2>2
    <3>2. d[n] = IF f \in b[n] THEN b[n] \cup {key} ELSE b[n]
      BY <1>2
    <3>3. b[n] = {n} \cup b[t.kid[u][n]] \cup b[t.kid[Opp(u)][n]]
      BY <1>8
    <3> QED BY <2>2, <3>1, <3>2, <3>3, Zenon
  <2> QED BY <2>1, <2>2
<1>12. ASSUME NEW n \in H \cup {key}
       PROVE  d[n] = {n} \cup d[r.kid["left"][n]] \cup d[r.kid["right"][n]]
  <2>1. "left" \in Side /\ "right" \in Side /\ Opp("left") = "right"
    BY DEF Side, Opp
  <2>2. CASE n = key
    BY <1>2, <1>9, <2>1, <2>2
  <2>3. CASE n # key
    BY <1>11, <2>1, <2>3
  <2> QED BY <2>2, <2>3
<1>13. ASSUME NEW n \in H \cup {key}, NEW u \in Side, NEW k \in d[r.kid[u][n]]
       PROVE  On(u, k, n)
  <2>1. CASE n = key
    BY <1>2, <1>9, <1>13, <2>1
  <2>2. CASE n = f /\ u = s
    BY <1>1, <1>2, <1>13, <2>2
  <2>3. CASE n # key /\ (n # f \/ u # s)
    <3>1. d[r.kid[u][n]] = IF f \in b[t.kid[u][n]] THEN b[t.kid[u][n]] \cup {key}
                           ELSE b[t.kid[u][n]]
      BY <1>3, <1>13, <2>3
    <3>2. CASE k \in b[t.kid[u][n]]
      BY <1>7, <1>13, <2>3, <3>2
    <3>3. CASE k = key /\ f \in b[t.kid[u][n]]
      BY <1>1, <1>13, <2>3, <3>3 DEF Leads, H
    <3> QED BY <1>13, <3>1, <3>2, <3>3
  <2> QED BY <2>1, <2>2, <2>3
<1>14. ASSUME NEW n \in H \cup {key}, NEW u \in Side, r.kid[u][n] # Nil
       PROVE  r.parent[r.kid[u][n]] = n
  <2>1. CASE n = key
    BY <1>9, <1>14, <2>1
  <2>2. CASE n = f /\ u = s
    BY <1>1, <1>2, <1>4, <1>6, <2>2
  <2>3. CASE n # key /\ (n # f \/ u # s)
    <3>1. r.kid[u][n] = t.kid[u][n] /\ r.kid[u][n] # key /\ t.kid[u][n] \in Nodes
      BY <1>3, <1>8, <1>14, <2>3
    <3> QED BY <1>4, <1>7, <1>14, <2>3, <3>1
  <2> QED BY <2>1, <2>2, <2>3
<1>15. ASSUME NEW n \in Keys \ (H \cup {key}), NEW u \in Side
       PROVE  r.kid[u][n] \in H \cup {key} \cup {Nil}
  BY <1>2, <1>4, <1>6, <1>7, <1>15
<1>16. /\ r.parent[r.root] = Nil /\ r.parent[Nil] = Nil /\ r.size[Nil] = 0
       /\ \A u \in Side : r.kid[u][Nil] = Nil
  <2>1. t.root \in Nodes /\ t.root # key
    <3>1. t.root = Nil \/ t.root \in b[t.root]
      BY <1>1, RootOf
    <3> QED BY <1>1, <1>6, <3>1 DEF H
  <2> QED BY <1>1, <1>2, <1>4, <1>6, <1>7, <2>1
<1> QED BY <1>2, <1>4, <1>5, <1>10, <1>12, <1>13, <1>14, <1>15, <1>16 DEF Linked, d

(* One key more.                                                           *)
LEMMA OneMore ==
  ASSUME NEW S \in SUBSET Keys, NEW k \in Keys, k \notin S
  PROVE  Cardinality(S \cup {k}) = Cardinality(S) + 1
<1>1. IsFiniteSet(S)
  BY KeySets
<1> QED BY <1>1, FS_AddElement

(* The walk after an insertion may start.                                  *)
LEMMA LeafWalks ==
  ASSUME NEW t, NEW b, NEW key, NEW f, NEW s, LeafAt(t, b, key, f, s), Sound(t, b),
         NEW r, Leafed(t, r, key, f, s)
  PROVE  Walking([tree |-> r, node |-> key, parent |-> f], Grown(t, b, key, f), TRUE)
<1> DEFINE d == Grown(t, b, key, f)
           H == b[t.root]
           w == [tree |-> r, node |-> key, parent |-> f]
<1> HIDE DEF d, H
<1>0. GrownFacts(t, b, key, f, s, r, d) /\ Linked(r, d)
  BY GrownIs, LeafLinked DEF d
<1>1. /\ Linked(t, b) /\ key \in Keys /\ key \notin H /\ s \in Side /\ t.kid[s][f] = Nil
      /\ \A n \in H : Good(t, b, n)
  BY DEF LeafAt, Sound, H
<1>2. /\ d[r.root] = H \cup {key} /\ d[key] = {key} /\ d[Nil] = {}
      /\ \A n \in H : d[n] = IF f \in b[n] THEN b[n] \cup {key} ELSE b[n]
      /\ f \in H /\ f \in Keys /\ f \in b[f] /\ r.kid[s][f] = key
  BY <1>0 DEF GrownFacts, H
<1>3. \A n \in H, u \in Side :
        n # f \/ u # s =>
          /\ r.kid[u][n] = t.kid[u][n] /\ r.kid[u][n] # key
          /\ d[r.kid[u][n]] = IF f \in b[t.kid[u][n]] THEN b[t.kid[u][n]] \cup {key}
                              ELSE b[t.kid[u][n]]
  BY <1>0 DEF GrownFacts, H
<1>4. /\ \A u \in Side, x \in Nodes :
           r.kid[u][x] = IF x = key THEN Nil ELSE IF u = s /\ x = f THEN key ELSE t.kid[u][x]
      /\ \A x \in Nodes : r.size[x] = IF x = key THEN 1 ELSE t.size[x]
  BY DEF Leafed
<1>6. /\ Nil \in Nodes /\ Nil \notin Keys /\ Keys \subseteq Nodes /\ H \subseteq Keys
      /\ \A u, v \in Side : v = u \/ v = Opp(u)
      /\ \A u \in Side : Opp(u) \in Side /\ Opp(u) # u /\ Opp(Opp(u)) = u
      /\ "left" \in Side /\ "right" \in Side /\ Opp("left") = "right"
  BY <1>1, RootOf, Basics DEF H, Opp
<1>7. /\ \A n \in H, u \in Side : /\ b[n] = {n} \cup b[t.kid[u][n]] \cup b[t.kid[Opp(u)][n]]
                                  /\ b[t.kid[u][n]] \cap b[t.kid[Opp(u)][n]] = {}
                                  /\ n \notin b[t.kid[u][n]] /\ t.kid[u][n] \in Nodes
                                  /\ b[t.kid[u][n]] \subseteq H
  <2>1. \A n \in H, u \in Side : b[n] = {n} \cup b[t.kid[u][n]] \cup b[t.kid[Opp(u)][n]]
    BY <1>1, KidsOf DEF H
  <2>2. \A n \in H, u \in Side : /\ b[t.kid[u][n]] \cap b[t.kid[Opp(u)][n]] = {}
                                 /\ n \notin b[t.kid[u][n]] /\ t.kid[u][n] \in Nodes
                                 /\ b[t.kid[u][n]] \subseteq b[n] /\ b[n] \subseteq H
    BY <1>1, KidFacts DEF H
  <2>3. \A n \in H, u \in Side : b[t.kid[u][n]] \subseteq H
    BY <2>2
  <2> QED BY <2>1, <2>2, <2>3, Zenon
<1>8. /\ \A n \in Nodes : N(b, n) \in Nat /\ b[n] \in SUBSET Keys
      /\ N(b, Nil) = 0
      /\ \A n \in Nodes : N(d, n) \in Nat
      /\ N(d, Nil) = 0
  BY <1>0, <1>1, CountOf
<1>9. /\ N(d, key) = 1
      /\ \A n \in H, u \in Side : n # f \/ u # s =>
           N(d, r.kid[u][n]) = N(b, t.kid[u][n]) + IF f \in b[t.kid[u][n]] THEN 1 ELSE 0
      /\ \A n \in H : f \in b[n] => N(d, n) = N(b, n) + 1
      /\ \A n \in H : f \notin b[n] => N(d, n) = N(b, n)
  <2>1. N(d, key) = 1
    <3>1. Cardinality({key}) = 1
      BY FS_Singleton
    <3> QED BY <1>2, <3>1 DEF N
  <2>2. ASSUME NEW n \in H PROVE key \notin b[n] /\ b[n] \in SUBSET Keys
    BY <1>1, <1>6, <2>2, RootOf DEF H
  <2>3. ASSUME NEW n \in H, f \in b[n] PROVE N(d, n) = N(b, n) + 1
    <3>1. Cardinality(b[n] \cup {key}) = Cardinality(b[n]) + 1
      BY <1>1, <2>2, OneMore
    <3> QED BY <1>2, <2>3, <3>1 DEF N
  <2>4. ASSUME NEW n \in H, f \notin b[n] PROVE N(d, n) = N(b, n)
    BY <1>2, <2>4 DEF N
  <2>5. ASSUME NEW n \in H, NEW u \in Side, n # f \/ u # s
        PROVE  N(d, r.kid[u][n]) = N(b, t.kid[u][n]) + IF f \in b[t.kid[u][n]] THEN 1 ELSE 0
    <3>1. key \notin b[t.kid[u][n]] /\ b[t.kid[u][n]] \in SUBSET Keys /\ N(b, t.kid[u][n]) \in Nat
      BY <1>1, <1>6, <1>7, <1>8
    <3>2. CASE f \in b[t.kid[u][n]]
      <4>1. Cardinality(b[t.kid[u][n]] \cup {key}) = Cardinality(b[t.kid[u][n]]) + 1
        BY <1>1, <3>1, OneMore
      <4> QED BY <1>3, <2>5, <3>2, <4>1 DEF N
    <3>3. CASE f \notin b[t.kid[u][n]]
      <4>1. N(d, r.kid[u][n]) = N(b, t.kid[u][n])
        BY <1>3, <2>5, <3>3 DEF N
      <4> QED BY <3>1, <3>3, <4>1
    <3> QED BY <3>2, <3>3
  <2> QED BY <2>1, <2>3, <2>4, <2>5
<1>10. ASSUME NEW n \in H \cup {key}, f \notin d[n] PROVE Good(r, d, n)
  <2>1. CASE n = key
    <3>1. r.size[key] = 1 /\ r.kid["left"][key] = Nil /\ r.kid["right"][key] = Nil
      BY <1>1, <1>4, <1>6
    <3> QED BY <1>8, <1>9, <2>1, <3>1 DEF Good, Bal
  <2>2. CASE n # key
    <3>1. n \in H /\ f \notin b[n] /\ n # f
      BY <1>2, <1>10, <2>2
    <3>2. /\ N(d, r.kid["left"][n]) = N(b, t.kid["left"][n]) + 0
          /\ N(d, r.kid["right"][n]) = N(b, t.kid["right"][n]) + 0
          /\ N(b, t.kid["left"][n]) \in Nat /\ N(b, t.kid["right"][n]) \in Nat
      BY <1>6, <1>7, <1>8, <1>9, <3>1
    <3>3. r.size[n] = t.size[n] /\ N(d, n) = N(b, n) /\ Good(t, b, n)
      BY <1>1, <1>4, <1>6, <1>9, <2>2, <3>1
    <3> QED BY <3>2, <3>3 DEF Good
  <2> QED BY <2>1, <2>2
<1>11. ASSUME NEW n \in H \cup {key}, f \in d[n] PROVE r.size[n] + 1 = N(d, n)
  <2>1. n \in H /\ f \in b[n] /\ n # key
    BY <1>1, <1>2, <1>11
  <2> QED BY <1>1, <1>4, <1>6, <1>9, <2>1 DEF Good
<1>12. ASSUME NEW n \in H \cup {key}, NEW u \in Side, Through(r, d, f, key, n, u)
       PROVE  Lean(N(d, r.kid[u][n]), N(d, r.kid[Opp(u)][n]), TRUE)
  <2>0. f \in d[r.kid[u][n]] \/ (n = f /\ r.kid[u][f] = key)
    BY <1>12 DEF Through
  <2>1. n \in H
    <3>1. n = key => r.kid[u][n] = Nil
      BY <1>1, <1>4, <1>6
    <3> QED BY <1>1, <1>2, <1>12, <2>0, <3>1
  <2>2. /\ Bal(N(b, t.kid[u][n]), N(b, t.kid[Opp(u)][n]))
        /\ N(b, t.kid[u][n]) \in Nat /\ N(b, t.kid[Opp(u)][n]) \in Nat
    BY <1>1, <1>6, <1>7, <1>8, <2>1, GoodSides
  <2>3. CASE n = f
    <3>1. u = s
      <4>1. SUFFICES ASSUME u # s PROVE FALSE
        OBVIOUS
      <4>2. r.kid[u][f] # key /\ d[r.kid[u][f]] = b[t.kid[u][f]]
        <5>1. f \notin b[t.kid[u][f]]
          BY <1>2, <1>7
        <5> QED BY <1>2, <1>3, <4>1, <5>1
      <4> QED BY <1>2, <1>7, <2>0, <2>3, <4>2
    <3>2. f \notin b[t.kid[Opp(s)][f]] /\ Opp(s) \in Side /\ Opp(s) # s
      BY <1>1, <1>2, <1>6, <1>7
    <3>3. N(d, r.kid[u][n]) = 1 /\ N(d, r.kid[Opp(u)][n]) = N(b, t.kid[Opp(u)][n]) + 0
      BY <1>1, <1>2, <1>9, <2>3, <3>1, <3>2
    <3>4. N(b, t.kid[u][n]) = 0
      BY <1>1, <1>8, <2>3, <3>1
    <3> QED BY <2>2, <3>3, <3>4 DEF Lean, Bal
  <2>4. CASE n # f
    <3>1. f \in b[t.kid[u][n]] /\ f \notin b[t.kid[Opp(u)][n]]
      <4>1. d[r.kid[u][n]] = IF f \in b[t.kid[u][n]] THEN b[t.kid[u][n]] \cup {key}
                             ELSE b[t.kid[u][n]]
        BY <1>3, <2>1, <2>4
      <4>2. f \in b[t.kid[u][n]]
        BY <1>1, <1>2, <2>0, <2>4, <4>1
      <4>3. b[t.kid[u][n]] \cap b[t.kid[Opp(u)][n]] = {}
        BY <1>7, <2>1
      <4> QED BY <4>2, <4>3
    <3>2. /\ N(d, r.kid[u][n]) = N(b, t.kid[u][n]) + 1
          /\ N(d, r.kid[Opp(u)][n]) = N(b, t.kid[Opp(u)][n]) + 0
      BY <1>6, <1>9, <2>1, <2>4, <3>1
    <3> QED BY <2>2, <3>2 DEF Lean, Bal
  <2> QED BY <2>3, <2>4
<1>13. w.tree = r /\ w.node = key /\ w.parent = f
  OBVIOUS
<1> HIDE DEF w
<1> SUFFICES Walking(w, d, TRUE)
  BY DEF w, d
<1> QED BY <1>0, <1>1, <1>2, <1>6, <1>10, <1>11, <1>12, <1>13 DEF Walking

(* r holds K, and differs from t in the nodes of F only.                   *)
Became(t, r, d, K, F) == Sound(r, d) /\ d[r.root] = K /\ Frame(t, r, F)

Fresh(t, key) == [t EXCEPT !.kid["left"][key] = Nil, !.kid["right"][key] = Nil,
                           !.parent[key] = Nil, !.size[key] = 1]

(* The assignments of a new node.                                          *)
LEMMA FreshIs ==
  ASSUME NEW t \in Trees, NEW key \in Nodes
  PROVE  /\ Fresh(t, key) \in Trees /\ Fresh(t, key).root = t.root
         /\ \A u \in Side, x \in Nodes :
              Fresh(t, key).kid[u][x] = IF x = key THEN Nil ELSE t.kid[u][x]
         /\ \A x \in Nodes : Fresh(t, key).parent[x] = IF x = key THEN Nil ELSE t.parent[x]
         /\ \A x \in Nodes : Fresh(t, key).size[x] = IF x = key THEN 1 ELSE t.size[x]
<1> DEFINE t1 == [t EXCEPT !.kid["left"][key] = Nil]
           t2 == [t1 EXCEPT !.kid["right"][key] = Nil]
           t3 == [t2 EXCEPT !.parent[key] = Nil]
           t4 == [t3 EXCEPT !.size[key] = 1]
<1>0. "left" \in Side /\ "right" \in Side /\ Nil \in Nodes /\ 1 \in Nat
      /\ Side = {"left", "right"} /\ "left" # "right"
  BY Basics
<1>1. /\ t1 \in Trees /\ t1.root = t.root /\ t1.parent = t.parent /\ t1.size = t.size
      /\ \A u \in Side, x \in Nodes :
           t1.kid[u][x] = IF u = "left" /\ x = key THEN Nil ELSE t.kid[u][x]
  BY <1>0, SetKid
<1> HIDE DEF t1
<1>2. /\ t2 \in Trees /\ t2.root = t1.root /\ t2.parent = t1.parent /\ t2.size = t1.size
      /\ \A u \in Side, x \in Nodes :
           t2.kid[u][x] = IF u = "right" /\ x = key THEN Nil ELSE t1.kid[u][x]
  BY <1>0, <1>1, SetKid
<1> HIDE DEF t2
<1>3. /\ t3 \in Trees /\ t3.root = t2.root /\ t3.kid = t2.kid /\ t3.size = t2.size
      /\ \A x \in Nodes : t3.parent[x] = IF x = key THEN Nil ELSE t2.parent[x]
  BY <1>0, <1>2, SetParent
<1> HIDE DEF t3
<1>4. /\ t4 \in Trees /\ t4.root = t3.root /\ t4.kid = t3.kid /\ t4.parent = t3.parent
      /\ \A x \in Nodes : t4.size[x] = IF x = key THEN 1 ELSE t3.size[x]
  BY <1>0, <1>3, SetSize
<1>5. Fresh(t, key) = t4
  BY DEF Fresh, t1, t2, t3, t4, Trees
<1> HIDE DEF t4
<1>6. ASSUME NEW u \in Side, NEW x \in Nodes
      PROVE  t4.kid[u][x] = IF x = key THEN Nil ELSE t.kid[u][x]
  BY <1>0, <1>1, <1>2, <1>3, <1>4
<1> QED BY <1>1, <1>2, <1>3, <1>4, <1>5, <1>6

Leaf(t, key, f, s) == [Fresh(t, key) EXCEPT !.parent[key] = f, !.kid[s][f] = key]

(* And those that hang it from its parent.                                 *)
LEMMA LeafIs ==
  ASSUME NEW t \in Trees, NEW key \in Nodes, NEW f \in Nodes, NEW s \in Side, f # key
  PROVE  Leafed(t, Leaf(t, key, f, s), key, f, s)
<1> DEFINE t0 == Fresh(t, key)
           t1 == [t0 EXCEPT !.parent[key] = f]
           t2 == [t1 EXCEPT !.kid[s][f] = key]
<1>1. /\ t0 \in Trees /\ t0.root = t.root
      /\ \A u \in Side, x \in Nodes : t0.kid[u][x] = IF x = key THEN Nil ELSE t.kid[u][x]
      /\ \A x \in Nodes : t0.parent[x] = IF x = key THEN Nil ELSE t.parent[x]
      /\ \A x \in Nodes : t0.size[x] = IF x = key THEN 1 ELSE t.size[x]
  BY FreshIs
<1> HIDE DEF t0
<1>2. /\ t1 \in Trees /\ t1.root = t0.root /\ t1.kid = t0.kid /\ t1.size = t0.size
      /\ \A x \in Nodes : t1.parent[x] = IF x = key THEN f ELSE t0.parent[x]
  BY <1>1, SetParent
<1> HIDE DEF t1
<1>3. /\ t2 \in Trees /\ t2.root = t1.root /\ t2.parent = t1.parent /\ t2.size = t1.size
      /\ \A u \in Side, x \in Nodes :
           t2.kid[u][x] = IF u = s /\ x = f THEN key ELSE t1.kid[u][x]
  BY <1>2, SetKid
<1>4. Leaf(t, key, f, s) = t2
  BY DEF Leaf, t0, t1, t2
<1> HIDE DEF t2
<1> QED BY <1>1, <1>2, <1>3, <1>4 DEF Leafed

(* The first key is inserted.                                              *)
LEMMA FirstInserted ==
  ASSUME NEW t, NEW b, Sound(t, b), t.root = Nil, NEW key \in Keys
  PROVE  LET r == [Fresh(t, key) EXCEPT !.root = key]
         IN \E d : Became(t, r, d, b[t.root] \cup {key}, b[t.root] \cup {key})
<1> DEFINE r == [Fresh(t, key) EXCEPT !.root = key]
           d == [n \in Nodes |-> IF n = key THEN {key} ELSE b[n]]
<1>1. /\ Linked(t, b) /\ t \in Trees /\ b[Nil] = {} /\ b[t.root] = {}
      /\ b \in [Nodes -> SUBSET Keys]
  BY DEF Sound, Linked
<1>2. Nil \in Nodes /\ Nil \notin Keys /\ Keys \subseteq Nodes /\ "left" \in Side
        /\ "right" \in Side
  BY Basics
<1>3. /\ Fresh(t, key) \in Trees /\ Fresh(t, key).root = t.root
      /\ \A u \in Side, x \in Nodes :
           Fresh(t, key).kid[u][x] = IF x = key THEN Nil ELSE t.kid[u][x]
      /\ \A x \in Nodes : Fresh(t, key).parent[x] = IF x = key THEN Nil ELSE t.parent[x]
      /\ \A x \in Nodes : Fresh(t, key).size[x] = IF x = key THEN 1 ELSE t.size[x]
  BY <1>1, <1>2, FreshIs
<1>4. /\ r \in Trees /\ r.root = key
      /\ \A u \in Side, x \in Nodes : r.kid[u][x] = IF x = key THEN Nil ELSE t.kid[u][x]
      /\ \A x \in Nodes : r.parent[x] = IF x = key THEN Nil ELSE t.parent[x]
      /\ \A x \in Nodes : r.size[x] = IF x = key THEN 1 ELSE t.size[x]
  BY <1>2, <1>3, SetRoot
<1>5. d \in [Nodes -> SUBSET Keys] /\ d[Nil] = {} /\ d[key] = {key} /\ \A n \in Keys : n \in d[n]
  BY <1>1, <1>2 DEF Linked
<1> HIDE DEF r, d
<1>6. d[r.root] = {key}
  BY <1>4, <1>5
<1>7. Linked(r, d)
  <2>1. \A u \in Side : r.kid[u][key] = Nil
    BY <1>2, <1>4
  <2>2. r.parent[r.root] = Nil /\ r.parent[Nil] = Nil /\ r.size[Nil] = 0
        /\ \A u \in Side : r.kid[u][Nil] = Nil
    BY <1>1, <1>2, <1>4 DEF Linked
  <2>3. \A n \in Keys \ {key}, u \in Side : r.kid[u][n] \in {key} \cup {Nil}
    BY <1>1, <1>2, <1>4 DEF Linked
  <2> QED BY <1>2, <1>4, <1>5, <1>6, <2>1, <2>2, <2>3 DEF Linked
<1>8. Good(r, d, key)
  <2>1. N(d, key) = 1 /\ N(d, Nil) = 0
    BY <1>5, <1>7, CountOf, FS_Singleton DEF N
  <2>2. r.size[key] = 1 /\ r.kid["left"][key] = Nil /\ r.kid["right"][key] = Nil
    BY <1>2, <1>4
  <2> QED BY <2>1, <2>2 DEF Good, Bal
<1>9. Frame(t, r, b[t.root] \cup {key})
  BY <1>4 DEF Frame
<1>10. Became(t, r, d, b[t.root] \cup {key}, b[t.root] \cup {key})
  BY <1>1, <1>6, <1>7, <1>8, <1>9 DEF Became, Sound
<1> QED BY <1>10 DEF r

(* A new key is inserted below the node that find() returned.              *)
LEMMA LeafInserted ==
  ASSUME NEW t, NEW b, Sound(t, b), NEW key \in Keys, key \notin b[t.root], t.root # Nil
  PROVE  LET f == Find(t, key, t.root)
             r == AfterInsert(Leaf(t, key, f, Toward(key, f)), key, f)
         IN \E d : Became(t, r, d, b[t.root] \cup {key}, b[t.root] \cup {key})
<1> DEFINE f == Find(t, key, t.root)
           s == Toward(key, f)
           v == Leaf(t, key, f, s)
           g == Grown(t, b, key, f)
           r == AfterInsert(v, key, f)
           K == b[t.root] \cup {key}
<1>1. Linked(t, b) /\ t \in Trees
  BY DEF Sound, Linked
<1>2. /\ Leads(t, b, key, f) /\ (f = key <=> key \in b[t.root])
      /\ f # key => t.kid[Toward(key, f)][f] = Nil
  BY <1>1, FindIs
<1> HIDE DEF f
<1>3. f \in b[t.root] /\ f \in Keys /\ f # key
  BY <1>1, <1>2, RootOf DEF Leads
<1>4. s \in Side /\ On(s, key, f) /\ f \in Nodes /\ key \in Nodes
  BY <1>3, Sides, Basics
<1>5. LeafAt(t, b, key, f, s)
  BY <1>1, <1>2, <1>3, <1>4 DEF LeafAt
<1> HIDE DEF s
<1>6. Leafed(t, v, key, f, s)
  BY <1>1, <1>3, <1>4, LeafIs
<1> HIDE DEF v
<1>7. Walking([tree |-> v, node |-> key, parent |-> f], g, TRUE) /\ g[v.root] = K
  <2>1. GrownFacts(t, b, key, f, s, v, g)
    BY <1>5, <1>6, GrownIs
  <2>2. Walking([tree |-> v, node |-> key, parent |-> f], g, TRUE)
    BY <1>5, <1>6, LeafWalks
  <2> QED BY <2>1, <2>2 DEF GrownFacts
<1> HIDE DEF g
<1>8. v \in Trees
  BY <1>6 DEF Leafed
<1>9. PICK d : Sound(r, d) /\ d[r.root] = g[v.root] /\ Frame(v, r, g[v.root])
  BY <1>4, <1>7, <1>8, WalkDone
<1> HIDE DEF r
<1>10. Frame(t, r, K)
  <2>1. \A x \in Nodes \ K : /\ v.parent[x] = t.parent[x] /\ v.size[x] = t.size[x]
                             /\ \A u \in Side : v.kid[u][x] = t.kid[u][x]
    BY <1>3, <1>6 DEF Leafed
  <2>2. \A x \in Nodes \ K : /\ r.parent[x] = v.parent[x] /\ r.size[x] = v.size[x]
                             /\ \A u \in Side : r.kid[u][x] = v.kid[u][x]
    BY <1>7, <1>9 DEF Frame
  <2> HIDE DEF K
  <2> QED BY <2>1, <2>2 DEF Frame
<1>11. Became(t, r, d, K, K)
  BY <1>7, <1>9, <1>10 DEF Became
<1> QED BY <1>11 DEF r, v, s, f

(* InsertNode adds the key, and the tree is sound as before.               *)
LEMMA Inserted ==
  ASSUME NEW t, NEW b, Sound(t, b), NEW key \in Keys
  PROVE  \E d : Became(t, InsertNode(t, key), d, b[t.root] \cup {key}, b[t.root] \cup {key})
<1> DEFINE f == Find(t, key, t.root)
<1>1. Linked(t, b)
  BY DEF Sound
<1>2. InsertNode(t, key) =
        IF t.root = Nil THEN [Fresh(t, key) EXCEPT !.root = key]
        ELSE IF f = key THEN t
        ELSE AfterInsert(Leaf(t, key, f, Toward(key, f)), key, f)
  BY DEF InsertNode, Fresh, Leaf, Toward
<1>3. t.root # Nil => (f = key <=> key \in b[t.root])
  BY <1>1, FindIs
<1>4. CASE t.root = Nil
  BY <1>2, <1>4, FirstInserted
<1>5. CASE t.root # Nil /\ f = key
  <2>1. b[t.root] \cup {key} = b[t.root] /\ InsertNode(t, key) = t
    BY <1>2, <1>3, <1>5
  <2>2. Became(t, t, b, b[t.root], b[t.root])
    BY DEF Became, Frame
  <2> QED BY <2>1, <2>2
<1>6. CASE t.root # Nil /\ f # key
  <2>1. InsertNode(t, key) = AfterInsert(Leaf(t, key, f, Toward(key, f)), key, f)
    BY <1>2, <1>6
  <2> QED BY <1>3, <1>6, <2>1, LeafInserted
<1> QED BY <1>4, <1>5, <1>6

-----------------------------------------------------------------------------
(* Deletion of a node with one child, or none.                             *)

(* Subtrees that share a node are nested.                                  *)
LEMMA Comparable ==
  ASSUME NEW t, NEW b, Linked(t, b), NEW x \in b[t.root], NEW k \in b[t.root],
         b[k] \cap b[x] # {}
  PROVE  x \in b[k] \/ k \in b[x]
<1> DEFINE T == {n \in b[t.root] : b[n] \cap b[x] # {} /\ x \notin b[n] /\ n \notin b[x]}
<1>1. SUFFICES ASSUME T # {} PROVE FALSE
  OBVIOUS
<1>2. T \in SUBSET b[t.root]
  OBVIOUS
<1>3. PICK n \in T : \A s \in Side : t.kid[s][n] \notin T
  <2> HIDE DEF T
  <2> QED BY <1>1, <1>2, FromLeaves
<1>4. n \in b[t.root] /\ b[n] \cap b[x] # {} /\ x \notin b[n] /\ n \notin b[x]
  OBVIOUS
<1>5. PICK m : m \in b[n] /\ m \in b[x]
  BY <1>4
<1>6. PICK s \in Side : m \in b[t.kid[s][n]]
  <2>1. b[n] = {n} \cup b[t.kid["left"][n]] \cup b[t.kid["right"][n]]
    BY <1>4, KidsOf
  <2> QED BY <1>4, <1>5, <2>1, Basics
<1>7. t.kid[s][n] # Nil
  BY <1>6 DEF Linked
<1>8. t.kid[s][n] \in b[t.root] /\ t.kid[s][n] \in b[n] /\ t.parent[t.kid[s][n]] = n
      /\ b[t.kid[s][n]] \subseteq b[n]
  BY <1>4, <1>7, KidFacts
<1>9. t.kid[s][n] \in b[x]
  BY <1>3, <1>4, <1>5, <1>6, <1>8
<1>10. n \in b[x]
  BY <1>4, <1>8, <1>9, ParentOf
<1> QED BY <1>4, <1>10

(* The side of its parent on which x hangs.                                *)
Hangs(t, x) == IF x = t.kid["left"][t.parent[x]] THEN "left" ELSE "right"

(* A node hangs from its parent, and from no other.                        *)
LEMMA HangsAt ==
  ASSUME NEW t, NEW b, Linked(t, b), NEW x \in b[t.root], x # t.root
  PROVE  /\ Hangs(t, x) \in Side /\ t.kid[Hangs(t, x)][t.parent[x]] = x
         /\ t.parent[x] \in b[t.root] /\ t.parent[x] # x
         /\ \A n \in b[t.root], u \in Side :
              t.kid[u][n] = x <=> n = t.parent[x] /\ u = Hangs(t, x)
<1> DEFINE p == t.parent[x]
           s == Hangs(t, x)
<1>1. x \in b[x] /\ x # Nil
  BY KidFacts
<1>2. p \in b[t.root] /\ p # x /\ \E u \in Side : t.kid[u][p] = x
  <2>1. t.root # Nil
    BY RootOf
  <2>2. t.root \in b[t.root]
    BY <2>1, RootOf
  <2> QED BY <2>2, ParentOf
<1>3. s \in Side /\ t.kid[s][p] = x
  BY <1>2 DEF Hangs, Side
<1>4. \A n \in b[t.root], u \in Side : t.kid[u][n] = x => n = p
  BY <1>1, KidFacts
<1>5. ASSUME NEW u \in Side, t.kid[u][p] = x PROVE u = s
  <2>1. u = s \/ u = Opp(s)
    BY <1>3, Basics
  <2>2. b[t.kid[s][p]] \cap b[t.kid[Opp(s)][p]] = {}
    BY <1>2, <1>3, KidFacts
  <2> QED BY <1>1, <1>3, <1>5, <2>1, <2>2
<1> HIDE DEF s, p
<1> QED BY <1>2, <1>3, <1>4, <1>5 DEF s, p

(* No pointers are left in the nodes that are not held.                    *)
Clean(t, b) == \A n \in Keys \ b[t.root], s \in Side : t.kid[s][n] = Nil

(* x is taken out of the tree, and its child c, its only one, takes its    *)
(* place.                                                                  *)
Bypassed(t, r, x, c) ==
  /\ r \in Trees /\ r.root = (IF x = t.root THEN c ELSE t.root) /\ r.size = t.size
  /\ \A u \in Side, n \in Nodes :
       r.kid[u][n] = IF x # t.root /\ u = Hangs(t, x) /\ n = t.parent[x] THEN c ELSE t.kid[u][n]
  /\ \A n \in Nodes : r.parent[n] = IF n = c /\ c # Nil THEN t.parent[x] ELSE t.parent[n]

(* The assignments that take x out.                                        *)
LEMMA BypassIs ==
  ASSUME NEW t \in Trees, NEW x \in Nodes, NEW c \in Nodes, x # c
  PROVE  Bypassed(t, Replace(Reparent(t, c, t.parent[x]), x, c), x, c)
<1> DEFINE v == Reparent(t, c, t.parent[x])
           p == v.parent[x]
           s == IF x = v.kid["left"][p] THEN "left" ELSE "right"
           r == Replace(v, x, c)
<1>1. t.parent[x] \in Nodes
  BY TreeParts
<1>2. /\ v \in Trees /\ v.root = t.root /\ v.kid = t.kid /\ v.size = t.size
      /\ \A n \in Nodes : v.parent[n] = IF n = c /\ c # Nil THEN t.parent[x] ELSE t.parent[n]
  BY <1>1, Reparented
<1> HIDE DEF v
<1>3. p = t.parent[x] /\ s = Hangs(t, x)
  BY <1>2 DEF Hangs
<1>4. /\ r \in Trees /\ r.parent = v.parent /\ r.size = v.size
      /\ r.root = IF x = v.root THEN c ELSE v.root
      /\ \A u \in Side, n \in Nodes :
           r.kid[u][n] = IF x # v.root /\ u = s /\ n = p THEN c ELSE v.kid[u][n]
  BY <1>2, Replaced
<1> HIDE DEF r, p, s
<1>5. Bypassed(t, r, x, c)
  BY <1>2, <1>3, <1>4 DEF Bypassed
<1> QED BY <1>5 DEF r, v

(* What is below a node without x.                                         *)
Less(b, H, x) == [n \in Nodes |-> IF n \in H \ {x} THEN b[n] \ {x} ELSE b[n]]

(* c is the only child of x, if it has any.                                *)
OnlyKid(t, b, x, c) ==
  /\ Linked(t, b) /\ Clean(t, b) /\ x \in b[t.root] /\ \E s \in Side : t.kid[s][x] = c
     /\ t.kid[Opp(s)][x] = Nil

(* A node with one child at most.                                          *)
LEMMA OnlyFacts ==
  ASSUME NEW t, NEW b, NEW x, NEW c, OnlyKid(t, b, x, c)
  PROVE  /\ c \in Nodes /\ c # x /\ b[x] \ {x} = b[c]
         /\ c # Nil => c \in b[t.root] /\ t.parent[c] = x /\ c # t.root
         /\ \A u \in Side : t.kid[u][x] = Nil \/ t.kid[u][x] = c
         /\ \A n \in b[c] : x \notin b[n]
<1>1. Linked(t, b) /\ x \in b[t.root] /\ b[Nil] = {}
  BY DEF OnlyKid, Linked
<1>2. PICK s \in Side : t.kid[s][x] = c /\ t.kid[Opp(s)][x] = Nil
  BY DEF OnlyKid
<1>3. /\ c \in Nodes /\ c # x /\ x \notin b[c]
      /\ c # Nil => c \in b[t.root] /\ t.parent[c] = x
      /\ x # Nil
  BY <1>1, <1>2, KidFacts
<1>4. b[x] = {x} \cup b[c] \cup b[Nil]
  BY <1>1, <1>2, KidsOf
<1>5. c # Nil => c # t.root
  BY <1>1, <1>3, RootOf
<1>6. \A u \in Side : t.kid[u][x] = Nil \/ t.kid[u][x] = c
  BY <1>2, Basics
<1>7. ASSUME NEW n \in b[c], x \in b[n] PROVE FALSE
  <2>1. c # Nil
    BY <1>1, <1>7
  <2>2. b[n] \subseteq b[c]
    BY <1>1, <1>3, <1>7, <2>1, Nested
  <2> QED BY <1>3, <1>7, <2>2
<1> QED BY <1>1, <1>3, <1>4, <1>5, <1>6, <1>7

LessFacts(t, b, r, d, x, c) ==
  /\ d[r.root] = b[t.root] \ {x} /\ d[Nil] = {}
  /\ \A n \in b[t.root] \ {x} : d[n] = b[n] \ {x}
  /\ \A n \in b[t.root] \ {x}, u \in Side : d[r.kid[u][n]] = b[t.kid[u][n]] \ {x}
  /\ \A n \in b[c] : d[n] = b[n]

(* The keys at and below each node, without x.                             *)
LEMMA LessIs ==
  ASSUME NEW t, NEW b, NEW x, NEW c, OnlyKid(t, b, x, c), NEW r, Bypassed(t, r, x, c)
  PROVE  LessFacts(t, b, r, Less(b, b[t.root], x), x, c)
<1> DEFINE H == b[t.root]
           d == Less(b, b[t.root], x)
<1>1. Linked(t, b) /\ x \in H /\ b[Nil] = {}
  BY DEF OnlyKid, Linked
<1>2. /\ c \in Nodes /\ c # x /\ b[x] \ {x} = b[c]
      /\ c # Nil => c \in H /\ t.parent[c] = x /\ c # t.root
      /\ \A n \in b[c] : x \notin b[n]
  BY OnlyFacts
<1>3. /\ r.root = (IF x = t.root THEN c ELSE t.root)
      /\ \A u \in Side, n \in Nodes :
           r.kid[u][n] = IF x # t.root /\ u = Hangs(t, x) /\ n = t.parent[x] THEN c
                         ELSE t.kid[u][n]
  BY DEF Bypassed
<1>4. \A n \in Nodes : d[n] = IF n \in H \ {x} THEN b[n] \ {x} ELSE b[n]
  BY DEF Less
<1>5. /\ Nil \in Nodes /\ H \subseteq Nodes /\ Nil \notin H /\ b[c] \subseteq H /\ x \in b[x]
      /\ \A n \in H, u \in Side : t.kid[u][n] = Nil \/ t.kid[u][n] \in H
      /\ t.root \in H
  <2>1. H \subseteq Nodes /\ Nil \notin H /\ x \in b[x] /\ b[x] \subseteq H
    BY <1>1, KidFacts
  <2>2. t.root \in H
    BY <1>1, RootOf
  <2>3. b[c] \subseteq H
    BY <1>2, <2>1
  <2>4. \A n \in H, u \in Side : t.kid[u][n] = Nil \/ t.kid[u][n] \in H
    BY <1>1, KidFacts
  <2> QED BY <2>1, <2>2, <2>3, <2>4, Basics
<1> HIDE DEF d, H
<1>6. d[Nil] = {} /\ \A n \in H \ {x} : d[n] = b[n] \ {x}
  BY <1>1, <1>4, <1>5
<1>7. ASSUME NEW n \in b[c] PROVE d[n] = b[n]
  <2>1. n \in H \ {x} /\ x \notin b[n]
    BY <1>2, <1>5, <1>7
  <2>2. d[n] = b[n] \ {x}
    BY <1>6, <2>1
  <2> QED BY <2>1, <2>2
<1>8. d[c] = b[c]
  <2>1. c = Nil \/ c \in b[c]
    BY <1>1, <1>2, KidFacts DEF H
  <2> QED BY <1>1, <1>6, <1>7, <2>1
<1>9. d[r.root] = H \ {x}
  <2>1. CASE x = t.root
    BY <1>2, <1>3, <1>8, <2>1 DEF H
  <2>2. CASE x # t.root
    BY <1>3, <1>5, <1>6, <2>2 DEF H
  <2> QED BY <2>1, <2>2
<1>10. ASSUME NEW n \in H \ {x}, NEW u \in Side PROVE d[r.kid[u][n]] = b[t.kid[u][n]] \ {x}
  <2>1. CASE x # t.root /\ u = Hangs(t, x) /\ n = t.parent[x]
    <3>1. t.kid[u][n] = x
      BY <1>1, <2>1, HangsAt DEF H
    <3>2. r.kid[u][n] = c
      BY <1>3, <1>5, <2>1
    <3> QED BY <1>2, <1>8, <3>1, <3>2
  <2>2. CASE ~(x # t.root /\ u = Hangs(t, x) /\ n = t.parent[x])
    <3>1. r.kid[u][n] = t.kid[u][n]
      BY <1>3, <1>5, <2>2
    <3>2. t.kid[u][n] # x
      <4>1. CASE x = t.root
        <5>1. t.parent[t.root] = Nil
          BY <1>1 DEF Linked
        <5>2. t.kid[u][n] # Nil => t.parent[t.kid[u][n]] = n
          BY <1>1, KidFacts DEF H
        <5> QED BY <1>1, <1>5, <4>1, <5>1, <5>2
      <4>2. CASE x # t.root
        <5>1. \A m \in H, v \in Side : t.kid[v][m] = x <=> m = t.parent[x] /\ v = Hangs(t, x)
          BY <1>1, <4>2, HangsAt DEF H
        <5> QED BY <2>2, <4>2, <5>1
      <4> QED BY <4>1, <4>2
    <3> QED BY <1>1, <1>5, <1>6, <3>1, <3>2
  <2> QED BY <2>1, <2>2
<1> QED BY <1>6, <1>7, <1>9, <1>10 DEF LessFacts, d, H

(* The tree without x is linked.                                           *)
LEMMA BypassLinked ==
  ASSUME NEW t, NEW b, NEW x, NEW c, OnlyKid(t, b, x, c), NEW r, Bypassed(t, r, x, c)
  PROVE  Linked(r, Less(b, b[t.root], x))
<1> DEFINE H == b[t.root]
           d == Less(b, b[t.root], x)
<1> HIDE DEF H, d
<1>0. LessFacts(t, b, r, d, x, c)
  BY LessIs DEF d
<1>1. /\ Linked(t, b) /\ Clean(t, b) /\ x \in H /\ x \in Keys /\ x # Nil /\ H \subseteq Keys
         /\ x \in b[x]
  <2>1. Linked(t, b) /\ Clean(t, b) /\ x \in H
    BY DEF OnlyKid, H
  <2>2. H \subseteq Keys
    BY <2>1, RootOf DEF H
  <2> QED BY <2>1, <2>2, KidFacts, Basics DEF H
<1>2. /\ c \in Nodes /\ c # x /\ b[x] \ {x} = b[c]
      /\ c # Nil => c \in H /\ t.parent[c] = x /\ c # t.root
      /\ \A u \in Side : t.kid[u][x] = Nil \/ t.kid[u][x] = c
  BY OnlyFacts DEF H
<1>3. /\ r \in Trees /\ r.root = (IF x = t.root THEN c ELSE t.root) /\ r.size = t.size
      /\ \A u \in Side, n \in Nodes :
           r.kid[u][n] = IF x # t.root /\ u = Hangs(t, x) /\ n = t.parent[x] THEN c
                         ELSE t.kid[u][n]
      /\ \A n \in Nodes : r.parent[n] = IF n = c /\ c # Nil THEN t.parent[x] ELSE t.parent[n]
  BY DEF Bypassed
<1>4. /\ d[r.root] = H \ {x} /\ d[Nil] = {}
      /\ \A n \in H \ {x} : d[n] = b[n] \ {x}
      /\ \A n \in H \ {x}, u \in Side : d[r.kid[u][n]] = b[t.kid[u][n]] \ {x}
  BY <1>0 DEF LessFacts, H
<1>5. /\ Nil \in Nodes /\ Nil \notin Keys /\ Keys \subseteq Nodes
      /\ \A u \in Side : Opp(u) \in Side /\ "left" \in Side /\ "right" \in Side
  BY Basics
<1>6. /\ b \in [Nodes -> SUBSET Keys] /\ b[Nil] = {} /\ \A n \in Keys : n \in b[n]
      /\ \A n \in H : b[n] \subseteq H
      /\ \A n \in H : b[n] = {n} \cup b[t.kid["left"][n]] \cup b[t.kid["right"][n]]
      /\ \A n \in H, s \in Side : \A k \in b[t.kid[s][n]] : On(s, k, n)
      /\ t.parent[t.root] = Nil
      /\ \A s \in Side : t.kid[s][Nil] = Nil
      /\ t.parent[Nil] = Nil /\ t.size[Nil] = 0
  BY <1>1 DEF Linked, H
<1>7. d \in [Nodes -> SUBSET Keys] /\ \A n \in Keys : n \in d[n]
  <2>1. \A n \in Nodes : d[n] = IF n \in H \ {x} THEN b[n] \ {x} ELSE b[n]
    BY DEF d, Less, H
  <2>2. d = [n \in Nodes |-> d[n]]
    BY DEF d, Less
  <2>3. ASSUME NEW n \in Nodes PROVE d[n] \in SUBSET Keys
    <3>1. b[n] \in SUBSET Keys
      BY <1>6
    <3>2. d[n] = b[n] \ {x} \/ d[n] = b[n]
      BY <2>1
    <3> QED BY <3>1, <3>2
  <2>4. ASSUME NEW n \in Keys PROVE n \in d[n]
    <3>1. n \in b[n] /\ n \in Nodes
      BY <1>5, <1>6
    <3>2. d[n] = IF n \in H \ {x} THEN b[n] \ {x} ELSE b[n]
      BY <2>1, <3>1
    <3> QED BY <3>1, <3>2
  <2> QED BY <2>2, <2>3, <2>4
<1>8. \A n \in H \ {x} : d[n] \subseteq H \ {x}
  BY <1>4, <1>6
<1>9. ASSUME NEW n \in H \ {x}
      PROVE  d[n] = {n} \cup d[r.kid["left"][n]] \cup d[r.kid["right"][n]]
  <2>1. b[n] = {n} \cup b[t.kid["left"][n]] \cup b[t.kid["right"][n]] /\ n # x
    BY <1>6
  <2>2. /\ d[n] = b[n] \ {x} /\ d[r.kid["left"][n]] = b[t.kid["left"][n]] \ {x}
        /\ d[r.kid["right"][n]] = b[t.kid["right"][n]] \ {x}
    <3>1. "left" \in Side /\ "right" \in Side
      BY Basics
    <3>2. d[n] = b[n] \ {x} /\ \A u \in Side : d[r.kid[u][n]] = b[t.kid[u][n]] \ {x}
      BY <1>4
    <3> QED BY <3>1, <3>2
  <2> QED BY <2>1, <2>2
<1>10. \A n \in H \ {x}, s \in Side : \A k \in d[r.kid[s][n]] : On(s, k, n)
  BY <1>4, <1>6
<1>11. x # t.root => /\ t.parent[x] \in H /\ t.parent[x] # x
  BY <1>1, HangsAt DEF H
<1>12. ASSUME NEW n \in H \ {x}, NEW u \in Side, r.kid[u][n] # Nil
       PROVE  r.parent[r.kid[u][n]] = n
  <2>1. CASE x # t.root /\ u = Hangs(t, x) /\ n = t.parent[x]
    <3>1. r.kid[u][n] = c
      BY <1>1, <1>3, <1>5, <2>1
    <3> QED BY <1>2, <1>3, <1>12, <2>1, <3>1
  <2>2. CASE ~(x # t.root /\ u = Hangs(t, x) /\ n = t.parent[x])
    <3>1. r.kid[u][n] = t.kid[u][n]
      BY <1>1, <1>3, <1>5, <2>2
    <3>2. t.kid[u][n] \in Nodes /\ t.parent[t.kid[u][n]] = n
      BY <1>1, <1>12, <3>1, KidFacts DEF H
    <3>3. t.kid[u][n] = c => c = Nil
      BY <1>2, <3>2
    <3> QED BY <1>3, <3>1, <3>2, <3>3
  <2> QED BY <2>1, <2>2
<1>13. ASSUME NEW n \in Keys \ (H \ {x}), NEW u \in Side
       PROVE  r.kid[u][n] \in (H \ {x}) \cup {Nil}
  <2>1. r.kid[u][n] = t.kid[u][n]
    BY <1>1, <1>3, <1>5, <1>11, <1>13
  <2>2. CASE n = x
    BY <1>2, <2>1, <2>2
  <2>3. CASE n # x
    BY <1>1, <1>13, <2>1, <2>3 DEF Clean, H
  <2> QED BY <2>2, <2>3
<1>14. r.parent[r.root] = Nil
  <2>1. CASE x = t.root
    <3>1. t.parent[x] = Nil
      BY <1>6, <2>1
    <3>2. r.root = c
      BY <1>3, <2>1
    <3>3. r.parent[c] = IF c # Nil THEN t.parent[x] ELSE t.parent[c]
      BY <1>2, <1>3
    <3> QED BY <1>6, <3>1, <3>2, <3>3
  <2>2. CASE x # t.root
    <3>1. t.root \in Nodes
      BY <1>1, RootOf
    <3> QED BY <1>2, <1>3, <1>6, <2>2, <3>1
  <2> QED BY <2>1, <2>2
<1>15. /\ r.parent[Nil] = Nil /\ r.size[Nil] = 0 /\ \A u \in Side : r.kid[u][Nil] = Nil
  <2>1. x # t.root => t.parent[x] # Nil
    BY <1>1, <1>5, <1>11
  <2> QED BY <1>3, <1>5, <1>6, <2>1
<1> QED BY <1>3, <1>4, <1>7, <1>8, <1>9, <1>10, <1>12, <1>13, <1>14, <1>15 DEF Linked, d

(* One key fewer.                                                          *)
LEMMA OneFewer ==
  ASSUME NEW S \in SUBSET Keys, NEW k \in S
  PROVE  Cardinality(S \ {k}) + 1 = Cardinality(S) /\ Cardinality(S \ {k}) \in Nat
<1>1. IsFiniteSet(S) /\ Cardinality(S) \in Nat /\ Cardinality(S \ {k}) \in Nat
  <2>1. S \ {k} \in SUBSET Keys
    OBVIOUS
  <2> QED BY <2>1, KeySets
<1>2. Cardinality(S \ {k}) = Cardinality(S) - 1
  BY <1>1, FS_RemoveElement
<1> QED BY <1>1, <1>2

(* The sides of a node that were good, after y is taken out of one of      *)
(* them.                                                                   *)
LEMMA LeanBy ==
  ASSUME NEW t, NEW b, Linked(t, b), NEW m \in b[t.root], Good(t, b, m), NEW u \in Side,
         NEW y \in b[t.kid[u][m]], NEW d, NEW k, NEW o,
         d[k] = b[t.kid[u][m]] \ {y}, d[o] = b[t.kid[Opp(u)][m]] \ {y}
  PROVE  Lean(N(d, k), N(d, o), FALSE)
<1> DEFINE A == b[t.kid[u][m]]
           B == b[t.kid[Opp(u)][m]]
<1>1. /\ t.kid[u][m] \in Nodes /\ t.kid[Opp(u)][m] \in Nodes
      /\ A \cap B = {}
  BY KidFacts, Basics
<1>2. A \in SUBSET Keys /\ B \in SUBSET Keys
  BY <1>1 DEF Linked
<1>3. Cardinality(A) \in Nat /\ Cardinality(B) \in Nat
  BY <1>2, KeySets
<1>4. Bal(Cardinality(A), Cardinality(B))
  <2>1. N(b, t.kid["left"][m]) \in Nat /\ N(b, t.kid["right"][m]) \in Nat
    BY CountOf, Basics
  <2>2. Bal(N(b, t.kid[u][m]), N(b, t.kid[Opp(u)][m]))
    BY <2>1, GoodSides
  <2> QED BY <2>2 DEF N
<1>5. y \in A
  OBVIOUS
<1>6. d[k] = A \ {y} /\ d[o] = B
  BY <1>1
<1> HIDE DEF A, B
<1>7. Cardinality(A \ {y}) + 1 = Cardinality(A)
  BY <1>2, <1>5, OneFewer
<1>8. N(d, k) + 1 = Cardinality(A) /\ N(d, o) = Cardinality(B)
  BY <1>6, <1>7 DEF N
<1> QED BY <1>4, <1>8 DEF Lean

(* Neither side of a node that has no kids is heavy.                       *)
LEMMA LeanLeaf ==
  ASSUME NEW d, NEW k, NEW o, d[k] = {}, d[o] = {}
  PROVE  Lean(N(d, k), N(d, o), FALSE)
<1>1. N(d, k) = 0 /\ N(d, o) = 0
  BY FS_EmptySet DEF N
<1> QED BY <1>1 DEF Lean, Bal

(* The walk after such a deletion may start.                               *)
LEMMA BypassWalks ==
  ASSUME NEW t, NEW b, NEW x, NEW c, OnlyKid(t, b, x, c), Sound(t, b),
         NEW r, Bypassed(t, r, x, c)
  PROVE  Walking([tree |-> r, node |-> c, parent |-> t.parent[x]], Less(b, b[t.root], x), FALSE)
<1> DEFINE H == b[t.root]
           d == Less(b, b[t.root], x)
           p == t.parent[x]
           w == [tree |-> r, node |-> c, parent |-> p]
<1> HIDE DEF H, d, p
<1>0. LessFacts(t, b, r, d, x, c) /\ Linked(r, d)
  BY LessIs, BypassLinked DEF d
<1>1. /\ Linked(t, b) /\ x \in H /\ x \in b[x] /\ H \subseteq Nodes /\ b[x] \subseteq H
      /\ x \in Nodes /\ Nil \notin H /\ \A n \in H : Good(t, b, n)
  <2>1. Linked(t, b) /\ x \in H /\ \A n \in H : Good(t, b, n)
    BY DEF OnlyKid, Sound, H
  <2> QED BY <2>1, KidFacts DEF H
<1>2. /\ c \in Nodes /\ c # x /\ b[x] \ {x} = b[c]
      /\ c # Nil => c \in H /\ t.parent[c] = x
  BY OnlyFacts DEF H
<1>3. /\ r.root = (IF x = t.root THEN c ELSE t.root) /\ r.size = t.size
      /\ \A u \in Side, n \in Nodes :
           r.kid[u][n] = IF x # t.root /\ u = Hangs(t, x) /\ n = p THEN c ELSE t.kid[u][n]
  BY DEF Bypassed, p
<1>4. /\ d[r.root] = H \ {x} /\ d[Nil] = {}
      /\ \A n \in H \ {x} : d[n] = b[n] \ {x}
      /\ \A n \in H \ {x}, u \in Side : d[r.kid[u][n]] = b[t.kid[u][n]] \ {x}
  BY <1>0 DEF LessFacts, H
<1>5. /\ p \in Nodes /\ (p = Nil <=> x = t.root)
      /\ x # t.root => /\ p \in H \ {x} /\ Hangs(t, x) \in Side /\ t.kid[Hangs(t, x)][p] = x
  <2>1. p = Nil <=> x = t.root
    BY <1>1, RootOf DEF p, H
  <2>2. x # t.root => /\ p \in H \ {x} /\ Hangs(t, x) \in Side /\ t.kid[Hangs(t, x)][p] = x
    BY <1>1, HangsAt DEF p, H
  <2>3. p \in Nodes
    BY <1>1, <2>1, <2>2, Basics
  <2> QED BY <2>1, <2>2, <2>3
<1>6. /\ \A u \in Side : Opp(u) \in Side /\ "left" \in Side /\ "right" \in Side
      /\ \A u, v \in Side : v = u \/ v = Opp(u)
      /\ \A u \in Side : Opp(Opp(u)) = u
  BY Basics
<1>7. ASSUME NEW n \in H \ {x}, p \notin d[n] PROVE Good(r, d, n)
  <2>1. x \notin b[n]
    <3>1. SUFFICES ASSUME x \in b[n] PROVE FALSE
      OBVIOUS
    <3>2. p \in b[n] /\ p # Nil /\ p # x
      BY <1>1, <3>1, ParentOf DEF p, H
    <3> QED BY <1>4, <1>7, <3>2
  <2>2. \A u \in Side : b[t.kid[u][n]] \subseteq b[n]
    BY <1>1, KidFacts DEF H
  <2>3. d[n] = b[n] /\ \A u \in Side : d[r.kid[u][n]] = b[t.kid[u][n]]
    <3>1. d[n] = b[n] \ {x} /\ \A u \in Side : d[r.kid[u][n]] = b[t.kid[u][n]] \ {x}
      BY <1>4
    <3>2. b[n] \ {x} = b[n] /\ \A u \in Side : b[t.kid[u][n]] \ {x} = b[t.kid[u][n]]
      BY <2>1, <2>2
    <3> QED BY <3>1, <3>2
  <2>4. Good(t, b, n)
    BY <1>1
  <2>5. /\ N(d, n) = N(b, n) /\ N(d, r.kid["left"][n]) = N(b, t.kid["left"][n])
        /\ N(d, r.kid["right"][n]) = N(b, t.kid["right"][n])
    <3>1. /\ d[r.kid["left"][n]] = b[t.kid["left"][n]]
          /\ d[r.kid["right"][n]] = b[t.kid["right"][n]]
      BY <2>3, Basics
    <3> QED BY <2>3, <3>1 DEF N
  <2> QED BY <1>3, <2>4, <2>5 DEF Good
<1>8. ASSUME NEW n \in H \ {x}, NEW u \in Side, Through(r, d, p, c, n, u)
      PROVE  Lean(N(d, r.kid[u][n]), N(d, r.kid[Opp(u)][n]), FALSE)
  <2>1. d[r.kid[u][n]] = b[t.kid[u][n]] \ {x} /\ d[r.kid[Opp(u)][n]] = b[t.kid[Opp(u)][n]] \ {x}
    BY <1>4, <1>6
  <2>2. CASE x \in b[t.kid[u][n]]
    BY <1>1, <2>1, <2>2, LeanBy DEF H
  <2>3. CASE x \notin b[t.kid[u][n]]
    <3>1. p \notin d[r.kid[u][n]]
      <4>1. SUFFICES ASSUME p \in b[t.kid[u][n]], p # x PROVE FALSE
        BY <2>1
      <4>2. t.kid[u][n] # Nil
        BY <1>1, <4>1 DEF Linked
      <4>3. t.kid[u][n] \in H /\ b[t.kid[u][n]] \subseteq H
        BY <1>1, <4>2, KidFacts DEF H
      <4>4. p # Nil
        BY <1>1, <4>1, <4>3
      <4>5. x \in b[p]
        <5>1. p \in H /\ t.kid[Hangs(t, x)][p] = x /\ Hangs(t, x) \in Side /\ x # Nil
          BY <1>1, <1>5, <4>4
        <5> QED BY <1>1, <5>1, KidFacts DEF H
      <4>6. b[p] \subseteq b[t.kid[u][n]]
        BY <1>1, <4>1, <4>3, Nested DEF H
      <4> QED BY <2>3, <4>5, <4>6
    <3>2. n = p /\ r.kid[u][p] = c
      BY <1>8, <3>1 DEF Through
    <3>3. x # t.root
      BY <1>1, <1>5, <3>2
    <3>4. u # Hangs(t, x)
      BY <1>1, <1>5, <2>3, <3>2, <3>3
    <3>5. c = Nil
      <4>1. t.kid[u][n] = c
        BY <1>3, <1>5, <3>2, <3>4
      <4>2. c # Nil => t.parent[c] = n
        BY <1>1, <4>1, KidFacts DEF H
      <4> QED BY <1>2, <4>2
    <3>6. t.kid[Opp(u)][n] = x
      BY <1>5, <1>6, <3>2, <3>3, <3>4
    <3>7. d[r.kid[u][n]] = {} /\ d[r.kid[Opp(u)][n]] = {}
      <4>1. r.kid[u][n] = Nil
        BY <3>2, <3>5
      <4>2. b[t.kid[Opp(u)][n]] \ {x} = b[Nil]
        BY <1>2, <3>5, <3>6
      <4>3. b[Nil] = {}
        BY <1>1 DEF Linked
      <4> QED BY <1>4, <2>1, <4>1, <4>2, <4>3
    <3> QED BY <3>7, LeanLeaf
  <2> QED BY <2>2, <2>3
<1>9. p = Nil => c = r.root
  BY <1>3, <1>5
<1>10. p # Nil => p \in H \ {x} /\ \E s \in Side : r.kid[s][p] = c
  BY <1>3, <1>5
<1>11. w.tree = r /\ w.node = c /\ w.parent = p
  OBVIOUS
<1> HIDE DEF w
<1> SUFFICES Walking(w, d, FALSE)
  BY DEF w, d, p
<1> QED BY <1>0, <1>2, <1>4, <1>5, <1>7, <1>8, <1>9, <1>10, <1>11 DEF Walking

(* Where a walk starts after a deletion.                                   *)
Starting(t, x, p, b) == Walking([tree |-> t, node |-> x, parent |-> p], b, FALSE)

(* And it ends with a sound tree.                                          *)
LEMMA DeleteDone ==
  ASSUME NEW t \in Trees, NEW x \in Nodes, NEW p \in Nodes, NEW b, Starting(t, x, p, b)
  PROVE  \E d : /\ Sound(AfterDelete(t, x, p), d) /\ d[AfterDelete(t, x, p).root] = b[t.root]
                /\ Frame(t, AfterDelete(t, x, p), b[t.root]) /\ \A y \in b[x] : d[y] = b[y]
<1>1. \A ins \in BOOLEAN :
        Walking([tree |-> t, node |-> x, parent |-> p], b, ins) =>
          LET r == IF ins THEN AfterInsert(t, x, p) ELSE AfterDelete(t, x, p)
          IN \E d : /\ Sound(r, d) /\ d[r.root] = b[t.root] /\ Frame(t, r, b[t.root])
                    /\ ~ins => \A y \in b[x] : d[y] = b[y]
  BY WalkDone
<1>2. \A ins \in BOOLEAN :
        ~ins /\ Walking([tree |-> t, node |-> x, parent |-> p], b, ins) =>
          \E d : /\ Sound(AfterDelete(t, x, p), d) /\ d[AfterDelete(t, x, p).root] = b[t.root]
                 /\ Frame(t, AfterDelete(t, x, p), b[t.root]) /\ \A y \in b[x] : d[y] = b[y]
  BY <1>1
<1> QED BY <1>2 DEF Starting

(* The code for a node x whose only child is c.                            *)
Without(t, x, c) == AfterDelete(Replace(Reparent(t, c, t.parent[x]), x, c), c, t.parent[x])

(* Below c nothing has changed.                                            *)
Same(d, b, c) == \A y \in b[c] : d[y] = b[y]

(* A node with one child at most is deleted.                               *)
LEMMA OnlyDeleted ==
  ASSUME NEW t, NEW b, NEW x, NEW c, OnlyKid(t, b, x, c), Sound(t, b)
  PROVE  \E d : /\ Became(t, Without(t, x, c), d, b[t.root] \ {x}, b[t.root] \ {x})
                /\ Same(d, b, c)
<1> DEFINE v == Replace(Reparent(t, c, t.parent[x]), x, c)
           p == t.parent[x]
           r == AfterDelete(v, c, p)
           g == Less(b, b[t.root], x)
           K == b[t.root] \ {x}
<1>1. /\ Linked(t, b) /\ x \in b[t.root] /\ t \in Trees
  BY DEF OnlyKid, Linked
<1>2. c \in Nodes /\ c # x /\ x \in Nodes /\ p \in Nodes
      /\ (c # Nil => c \in b[t.root])
      /\ (x # t.root => p \in K)
  <2>1. x # t.root => p \in b[t.root] /\ p # x
    BY <1>1, HangsAt
  <2> QED BY <1>1, <2>1, OnlyFacts, KidFacts, TreeParts
<1>3. Bypassed(t, v, x, c)
  BY <1>1, <1>2, BypassIs
<1> HIDE DEF v
<1>4. Walking([tree |-> v, node |-> c, parent |-> p], g, FALSE) /\ LessFacts(t, b, v, g, x, c)
  BY <1>3, BypassWalks, LessIs
<1> HIDE DEF g
<1>5. g[v.root] = K /\ \A y \in b[c] : g[y] = b[y]
  BY <1>4 DEF LessFacts
<1>6. g[c] = b[c]
  <2>1. CASE c = Nil
    BY <1>1, <1>4, <2>1 DEF LessFacts, Linked
  <2>2. CASE c # Nil
    <3>1. c \in b[c]
      BY <1>1, <1>2, <2>2, KidFacts
    <3> QED BY <1>5, <3>1
  <2> QED BY <2>1, <2>2
<1>7. v \in Trees
  BY <1>3 DEF Bypassed
<1>8. PICK d : /\ Sound(r, d) /\ d[r.root] = g[v.root] /\ Frame(v, r, g[v.root])
               /\ \A y \in g[c] : d[y] = g[y]
  <2>1. Starting(v, c, p, g)
    BY <1>4 DEF Starting
  <2>2. c \in Nodes /\ p \in Nodes
    BY <1>2
  <2> HIDE DEF p, K
  <2>3. \E d : /\ Sound(AfterDelete(v, c, p), d) /\ d[AfterDelete(v, c, p).root] = g[v.root]
               /\ Frame(v, AfterDelete(v, c, p), g[v.root]) /\ \A y \in g[c] : d[y] = g[y]
    BY <1>7, <2>1, <2>2, DeleteDone
  <2> QED BY <2>3
<1> HIDE DEF r
<1>9. Frame(t, r, K)
  <2>1. \A n \in Nodes \ K : /\ v.parent[n] = t.parent[n] /\ v.size[n] = t.size[n]
                             /\ \A u \in Side : v.kid[u][n] = t.kid[u][n]
    BY <1>2, <1>3 DEF Bypassed
  <2>2. \A n \in Nodes \ K : /\ r.parent[n] = v.parent[n] /\ r.size[n] = v.size[n]
                             /\ \A u \in Side : r.kid[u][n] = v.kid[u][n]
    BY <1>5, <1>8 DEF Frame
  <2> HIDE DEF K
  <2> QED BY <2>1, <2>2 DEF Frame
<1>10. Became(t, r, d, K, K) /\ \A y \in b[c] : d[y] = b[y]
  BY <1>5, <1>6, <1>8, <1>9 DEF Became
<1> QED BY <1>10 DEF r, v, Without, Same

-----------------------------------------------------------------------------
(* Deletion of a node with two children: the next key takes its place.     *)

(* x has two children, and y is the first key on its right.                *)
Swapped(t, b, x, y) ==
  /\ Linked(t, b) /\ Clean(t, b) /\ x \in b[t.root]
  /\ t.kid["left"][x] # Nil /\ t.kid["right"][x] # Nil
  /\ y \in b[t.kid["right"][x]] /\ t.kid["left"][y] = Nil
  /\ \A k \in b[t.kid["right"][x]] : y <= k

SwapFacts(t, b, x, y, L, R, c, a) ==
  /\ t.kid["left"][x] = L /\ t.kid["right"][x] = R /\ t.kid["right"][y] = c /\ t.parent[y] = a
  /\ x \in Keys /\ y \in Keys /\ y # x /\ x < y /\ y \in b[t.root] /\ y \in b[x] /\ x \in b[x]
  /\ L \in b[t.root] /\ R \in b[t.root] /\ L \in b[L] /\ R \in b[R]
  /\ L # y /\ L # x /\ R # x /\ L # R /\ t.parent[L] = x /\ t.parent[R] = x
  /\ x \notin b[L] /\ x \notin b[R] /\ b[L] \cap b[R] = {} /\ b[x] = {x} \cup b[L] \cup b[R]
  /\ a \in b[x] /\ a # y /\ (a = x <=> y = R)
  /\ a # x => /\ a \in b[R] /\ t.kid["left"][a] = y
              /\ \A u \in Side : t.kid[u][a] = y => u = "left"
  /\ c \in Nodes /\ c # y /\ c # x /\ c # L /\ (a # x => c # R) /\ b[y] = {y} \cup b[c]
     /\ y \notin b[c]
  /\ c # Nil => c \in b[t.root] /\ t.parent[c] = y /\ c \in b[R]
  /\ b[c] \subseteq b[R] /\ b[y] \subseteq b[R]
  /\ \A u \in Side, n \in b[t.root] : t.kid[u][n] = y => n = a

(* Where the nodes of a swap are.                                          *)
LEMMA SwapIs ==
  ASSUME NEW t, NEW b, NEW x, NEW y, Swapped(t, b, x, y)
  PROVE  SwapFacts(t, b, x, y, t.kid["left"][x], t.kid["right"][x], t.kid["right"][y], t.parent[y])
<1> DEFINE H == b[t.root]
           L == t.kid["left"][x]
           R == t.kid["right"][x]
           c == t.kid["right"][y]
           a == t.parent[y]
<1>0. "left" \in Side /\ "right" \in Side /\ Opp("left") = "right" /\ Opp("right") = "left"
      /\ "left" # "right"
      /\ \A u \in Side : u = "left" \/ u = "right"
  BY Basics DEF Opp, Side
<1>1. /\ Linked(t, b) /\ x \in H /\ L # Nil /\ R # Nil /\ y \in b[R] /\ t.kid["left"][y] = Nil
      /\ \A k \in b[R] : y <= k
  BY DEF Swapped
<1>2. /\ x \in Keys /\ x \in b[x] /\ x # Nil
      /\ L \in H /\ L \in b[L] /\ L # x /\ t.parent[L] = x /\ x \notin b[L] /\ b[L] \subseteq b[x]
      /\ R \in H /\ R \in b[R] /\ R # x /\ t.parent[R] = x /\ x \notin b[R] /\ b[R] \subseteq b[x]
      /\ b[L] \cap b[R] = {} /\ b[x] \subseteq H
  <2>1. \A n \in H :
           /\ n \in Keys /\ n \in Nodes /\ n # Nil /\ n \in b[n] /\ b[n] \subseteq b[t.root]
           /\ \A s \in Side :
                /\ t.kid[s][n] \in Nodes /\ n \notin b[t.kid[s][n]] /\ b[t.kid[s][n]] \subseteq b[n]
                /\ t.kid[s][n] # n
                /\ b[t.kid[s][n]] \cap b[t.kid[Opp(s)][n]] = {}
                /\ t.kid[s][n] # Nil => /\ t.kid[s][n] \in b[t.root]
                                           /\ t.kid[s][n] \in b[t.kid[s][n]]
                                        /\ t.kid[s][n] \in b[n] /\ t.parent[t.kid[s][n]] = n
    BY <1>1, KidFacts
  <2>2. x \in Keys /\ x \in b[x] /\ x # Nil /\ b[x] \subseteq H
    BY <1>1, <2>1
  <2>3. L \in H /\ L \in b[L] /\ L # x /\ t.parent[L] = x /\ x \notin b[L] /\ b[L] \subseteq b[x]
    BY <1>0, <1>1, <2>1
  <2>4. R \in H /\ R \in b[R] /\ R # x /\ t.parent[R] = x /\ x \notin b[R] /\ b[R] \subseteq b[x]
    BY <1>0, <1>1, <2>1
  <2>5. b[L] \cap b[R] = {}
    <3>1. b[t.kid["left"][x]] \cap b[t.kid[Opp("left")][x]] = {}
      BY <1>0, <1>1, <2>1
    <3> QED BY <1>0, <3>1
  <2> QED BY <2>2, <2>3, <2>4, <2>5
<1>3. b[x] = {x} \cup b[L] \cup b[R]
  BY <1>1 DEF Linked
<1>4. y \in H /\ y \in Keys /\ y \in b[x] /\ y # x /\ b[y] \subseteq b[R] /\ y # Nil
  <2>1. y \in H /\ b[y] \subseteq b[R]
    BY <1>1, <1>2, Nested
  <2> QED BY <1>1, <1>2, <2>1, KidFacts
<1>5. x < y
  <2>1. On("right", y, x)
    BY <1>0, <1>1 DEF Linked
  <2> QED BY <1>0, <1>2, <1>4, <2>1, Basics DEF On
<1>6. /\ c \in Nodes /\ y \notin b[c] /\ b[c] \subseteq b[y] /\ c # y
      /\ c # Nil => c \in H /\ c \in b[c] /\ t.parent[c] = y
  BY <1>0, <1>1, <1>4, KidFacts
<1>7. b[y] = {y} \cup b[c]
  <2>1. b[y] = {y} \cup b[t.kid["left"][y]] \cup b[c] /\ b[Nil] = {}
    BY <1>1, <1>4 DEF Linked
  <2> QED BY <1>1, <2>1
<1>8. b[c] \subseteq b[R] /\ (c # Nil => c \in b[R])
  BY <1>4, <1>6, Zenon
<1>9. L # y /\ L # R
  BY <1>1, <1>2
<1>10. c # x /\ c # L
  <2>1. CASE c = Nil
    BY <1>1, <1>2, <2>1, Zenon
  <2>2. CASE c # Nil
    BY <1>2, <1>8, <2>2, Zenon
  <2> QED BY <2>1, <2>2, Zenon
<1>11. y = R => a = x
  BY <1>2, Zenon
<1>12. ASSUME y # R
       PROVE  /\ a \in b[R] /\ a # x /\ t.kid["left"][a] = y /\ c # R
              /\ \A u \in Side : t.kid[u][a] = y => u = "left"
  <2>1. a \in b[R] /\ a \in H /\ \E s \in Side : t.kid[s][a] = y
    BY <1>1, <1>2, <1>12, ParentOf
  <2>2. t.kid["right"][a] # y
    <3>1. SUFFICES ASSUME t.kid["right"][a] = y PROVE FALSE
      OBVIOUS
    <3>2. y \in b[t.kid["right"][a]]
      BY <1>1, <1>4, <3>1, KidFacts
    <3>3. On("right", y, a)
      BY <1>0, <1>1, <2>1, <3>2 DEF Linked
    <3>4. y > a /\ y \in Nat /\ a \in Nat
      <4>1. a \in Keys
        BY <1>1, <2>1, KidFacts
      <4> QED BY <1>0, <1>4, <3>3, <4>1, Basics, Zenon DEF On
    <3> QED BY <1>1, <2>1, <3>4
  <2>3. c # R
    <3>1. SUFFICES ASSUME c = R PROVE FALSE
      OBVIOUS
    <3> QED BY <1>1, <1>6, <3>1
  <2> QED BY <1>0, <1>2, <2>1, <2>2, <2>3, Zenon
<1>13. a \in b[x] /\ a # y
  <2>1. CASE y = R
    BY <1>2, <1>11, <2>1, Zenon
  <2>2. CASE y # R
    BY <1>1, <1>2, <1>12, <2>2, ParentOf
  <2> QED BY <2>1, <2>2, Zenon
<1>14. \A u \in Side, n \in H : t.kid[u][n] = y => n = a
  <2> SUFFICES ASSUME NEW u \in Side, NEW n \in H, t.kid[u][n] = y PROVE n = a
    OBVIOUS
  <2>1. t.kid[u][n] # Nil => t.parent[t.kid[u][n]] = n
    BY <1>1, KidFacts
  <2> QED BY <1>1, <1>4, <2>1
<1>16. t.kid["left"][x] = L /\ t.kid["right"][x] = R /\ t.kid["right"][y] = c /\ t.parent[y] = a
  OBVIOUS
<1> HIDE DEF H, L, R, c, a
<1>15. SwapFacts(t, b, x, y, L, R, c, a)
  BY <1>2, <1>3, <1>4, <1>5, <1>6, <1>7, <1>8, <1>9, <1>10, <1>11, <1>12, <1>13, <1>14, <1>16
  DEF SwapFacts, H
<1> QED BY <1>15 DEF L, R, c, a

(* y, whose parent is a and whose child is c, takes the place of x.        *)
Seated(t, x, y, L, R, c, a) ==
  LET t1 == [t EXCEPT !.kid["left"][y] = L, !.parent[L] = y]
      t2 == Replace(t1, x, y)
      t3 == IF a = x THEN t2
            ELSE [Reparent(t2, c, a) EXCEPT
                    !.kid["left"][a] = c, !.kid["right"][y] = R, !.parent[R] = y]
  IN [t3 EXCEPT !.parent[y] = t.parent[x]]

SeatedIs(t, r, x, y, L, R, c, a) ==
  /\ r \in Trees /\ r.root = (IF x = t.root THEN y ELSE t.root) /\ r.size = t.size
  /\ r.kid["left"][y] = L /\ r.kid["right"][y] = (IF a = x THEN t.kid["right"][y] ELSE R)
  /\ \A u \in Side, n \in Nodes : n # y =>
       r.kid[u][n] = IF a # x /\ n = a /\ u = "left" THEN c
                     ELSE IF x # t.root /\ u = Hangs(t, x) /\ n = t.parent[x] THEN y
                     ELSE t.kid[u][n]
  /\ \A n \in Nodes :
       r.parent[n] = IF n = y THEN t.parent[x]
                     ELSE IF n = L THEN y
                     ELSE IF a # x /\ n = R THEN y
                     ELSE IF a # x /\ n = c /\ c # Nil THEN a
                     ELSE t.parent[n]

(* The assignments of a swap.                                              *)
LEMMA SeatIs ==
  ASSUME NEW t \in Trees, NEW x \in Nodes, NEW y \in Nodes, NEW L \in Nodes,
         NEW R \in Nodes, NEW c \in Nodes, NEW a \in Nodes,
         L # x, y # x, L # y, t.parent[x] # y, a # y, c # L
  PROVE  SeatedIs(t, Seated(t, x, y, L, R, c, a), x, y, L, R, c, a)
<1> DEFINE t0 == [t EXCEPT !.kid["left"][y] = L]
           t1 == [t EXCEPT !.kid["left"][y] = L, !.parent[L] = y]
           p == t1.parent[x]
           s == IF x = t1.kid["left"][p] THEN "left" ELSE "right"
           t2 == Replace(t1, x, y)
           ta == Reparent(t2, c, a)
           tb == [ta EXCEPT !.kid["left"][a] = c]
           tc == [tb EXCEPT !.kid["right"][y] = R]
           td == [ta EXCEPT !.kid["left"][a] = c, !.kid["right"][y] = R, !.parent[R] = y]
           t3 == IF a = x THEN t2 ELSE td
           r == [t3 EXCEPT !.parent[y] = t.parent[x]]
<1>0. /\ "left" \in Side /\ "right" \in Side /\ "left" # "right"
      /\ t.parent[x] \in Nodes
      /\ \A u \in Side : u = "left" \/ u = "right"
  <2>1. "left" \in Side /\ "right" \in Side /\ "left" # "right"
        /\ \A u \in Side : u = "left" \/ u = "right"
    BY DEF Side
  <2> QED BY <2>1, TreeParts
<1>1. /\ t0 \in Trees /\ t0.root = t.root /\ t0.parent = t.parent /\ t0.size = t.size
      /\ \A u \in Side, n \in Nodes :
           t0.kid[u][n] = IF u = "left" /\ n = y THEN L ELSE t.kid[u][n]
  BY <1>0, SetKid
<1>2a. t1 = [t0 EXCEPT !.parent[L] = y]
  BY DEF t0, t1, Trees
<1>11. Seated(t, x, y, L, R, c, a) = r
  BY DEF Seated, t1, t2, ta, td, t3, r
<1> HIDE DEF t0, t1
<1>2. /\ t1 \in Trees /\ t1.root = t.root /\ t1.kid = t0.kid /\ t1.size = t.size
      /\ \A n \in Nodes : t1.parent[n] = IF n = L THEN y ELSE t.parent[n]
  BY <1>0, <1>1, <1>2a, SetParent
<1>3. p = t.parent[x] /\ s = Hangs(t, x)
  BY <1>0, <1>1, <1>2 DEF Hangs
<1>4. /\ t2 \in Trees /\ t2.parent = t1.parent /\ t2.size = t1.size
      /\ t2.root = IF x = t1.root THEN y ELSE t1.root
      /\ \A u \in Side, n \in Nodes :
           t2.kid[u][n] = IF x # t1.root /\ u = s /\ n = p THEN y ELSE t1.kid[u][n]
  BY <1>2, Replaced
<1> HIDE DEF t2, p, s
<1>5. /\ ta \in Trees /\ ta.root = t2.root /\ ta.kid = t2.kid /\ ta.size = t2.size
      /\ \A n \in Nodes : ta.parent[n] = IF n = c /\ c # Nil THEN a ELSE t2.parent[n]
  <2>1. t2 \in Trees
    BY <1>4
  <2> QED BY <2>1, Reparented
<1>6. /\ tb \in Trees /\ tb.root = ta.root /\ tb.parent = ta.parent /\ tb.size = ta.size
      /\ \A u \in Side, n \in Nodes :
           tb.kid[u][n] = IF u = "left" /\ n = a THEN c ELSE ta.kid[u][n]
  <2>1. KidSet(ta, tb, "left", a, c)
    BY <1>0, <1>5, KidIsSet, Zenon
  <2> QED BY <2>1, Zenon DEF KidSet
<1>7. /\ tc \in Trees /\ tc.root = tb.root /\ tc.parent = tb.parent /\ tc.size = tb.size
      /\ \A u \in Side, n \in Nodes :
           tc.kid[u][n] = IF u = "right" /\ n = y THEN R ELSE tb.kid[u][n]
  <2>1. KidSet(tb, tc, "right", y, R)
    BY <1>0, <1>6, KidIsSet, Zenon
  <2> QED BY <2>1, Zenon DEF KidSet
<1>8a. td = [tc EXCEPT !.parent[R] = y]
  BY <1>5 DEF tb, tc, td, Trees
<1> HIDE DEF tb, tc, td
<1>8. /\ td \in Trees /\ td.root = tc.root /\ td.kid = tc.kid /\ td.size = tc.size
      /\ \A n \in Nodes : td.parent[n] = IF n = R THEN y ELSE tc.parent[n]
  BY <1>0, <1>7, <1>8a, SetParent
<1>9. t3 \in Trees
  BY <1>4, <1>8
<1>10. /\ r \in Trees /\ r.root = t3.root /\ r.kid = t3.kid /\ r.size = t3.size
       /\ \A n \in Nodes : r.parent[n] = IF n = y THEN t.parent[x] ELSE t3.parent[n]
  <2> HIDE DEF t3
  <2> QED BY <1>0, <1>9, SetParent
<1> HIDE DEF r, t3
<1>12. r.root = (IF x = t.root THEN y ELSE t.root) /\ r.size = t.size
  BY <1>2, <1>4, <1>5, <1>6, <1>7, <1>8, <1>10 DEF t3
<1>13. ASSUME NEW u \in Side, NEW n \in Nodes, n # y
       PROVE  r.kid[u][n] = IF a # x /\ n = a /\ u = "left" THEN c
                            ELSE IF x # t.root /\ u = Hangs(t, x) /\ n = t.parent[x] THEN y
                            ELSE t.kid[u][n]
  <2>1. t2.kid[u][n] = IF x # t.root /\ u = Hangs(t, x) /\ n = t.parent[x] THEN y
                       ELSE t.kid[u][n]
    BY <1>1, <1>2, <1>3, <1>4, <1>13
  <2>2. td.kid[u][n] = IF u = "left" /\ n = a THEN c ELSE t2.kid[u][n]
    BY <1>5, <1>6, <1>7, <1>8, <1>13
  <2> QED BY <1>10, <2>1, <2>2 DEF t3
<1>14. r.kid["left"][y] = L /\ r.kid["right"][y] = (IF a = x THEN t.kid["right"][y] ELSE R)
  <2>1. t2.kid["left"][y] = L /\ t2.kid["right"][y] = t.kid["right"][y]
    BY <1>0, <1>1, <1>2, <1>3, <1>4
  <2>2. td.kid["left"][y] = L /\ td.kid["right"][y] = R
    BY <1>0, <1>5, <1>6, <1>7, <1>8, <2>1
  <2> QED BY <1>10, <2>1, <2>2 DEF t3
<1>15. ASSUME NEW n \in Nodes
       PROVE  r.parent[n] = IF n = y THEN t.parent[x]
                            ELSE IF n = L THEN y
                            ELSE IF a # x /\ n = R THEN y
                            ELSE IF a # x /\ n = c /\ c # Nil THEN a
                            ELSE t.parent[n]
  <2>1. t2.parent[n] = IF n = L THEN y ELSE t.parent[n]
    BY <1>2, <1>4
  <2>2. td.parent[n] = IF n = R THEN y ELSE IF n = c /\ c # Nil THEN a ELSE t2.parent[n]
    BY <1>5, <1>6, <1>7, <1>8
  <2> QED BY <1>10, <2>1, <2>2 DEF t3
<1> QED BY <1>10, <1>11, <1>12, <1>13, <1>14, <1>15 DEF SeatedIs

(* What is below a node without x, when y is where x was.                  *)
Shift(b, H, x, y) ==
  [n \in Nodes |-> IF n = y THEN b[x] \ {x}
                   ELSE IF n \in b[x] \ {x} THEN b[n] \ {y}
                   ELSE IF n \in H \ {x} THEN b[n] \ {x} ELSE b[n]]

(* The node that n stands for, and the one that n's subtree has lost.      *)
Was(x, y, n) == IF n = y THEN x ELSE n
Lost(b, x, y, n) == IF n \in b[x] THEN y ELSE x

ShiftFacts(t, b, r, d, x, y) ==
  /\ d[r.root] = b[t.root] \ {x} /\ d[Nil] = {} /\ d[y] = b[x] \ {x}
  /\ \A n \in b[x] \ {x, y} : d[n] = b[n] \ {y}
  /\ \A n \in b[t.root] \ b[x] : d[n] = b[n] \ {x}
  /\ \A n \in b[t.root] \ {x}, u \in Side :
       d[r.kid[u][n]] = b[t.kid[u][Was(x, y, n)]] \ {Lost(b, x, y, n)}

(* The keys at and below each node after a swap.                           *)
LEMMA ShiftIs ==
  ASSUME NEW t, NEW b, NEW x, NEW y, NEW L, NEW R, NEW c, NEW a, Swapped(t, b, x, y),
         SwapFacts(t, b, x, y, L, R, c, a), NEW r, SeatedIs(t, r, x, y, L, R, c, a)
  PROVE  ShiftFacts(t, b, r, Shift(b, b[t.root], x, y), x, y)
<1> DEFINE H == b[t.root]
           d == Shift(b, b[t.root], x, y)
<1> HIDE DEF H
<1>1. /\ Linked(t, b) /\ x \in H /\ b[Nil] = {}
      /\ H \subseteq Keys /\ Keys \subseteq Nodes /\ Nil \in Nodes /\ Nil \notin H
         /\ b[x] \subseteq H
      /\ "left" \in Side /\ "right" \in Side /\ \A u \in Side : u = "left" \/ u = "right"
  <2>1. Linked(t, b) /\ x \in H
    BY DEF Swapped, H
  <2>2. H \subseteq Keys
    BY <2>1, RootOf DEF H
  <2>3. b[Nil] = {} /\ b[x] \subseteq H
    BY <2>1 DEF Linked, H
  <2>4. "left" \in Side /\ "right" \in Side /\ \A u \in Side : u = "left" \/ u = "right"
    BY DEF Side
  <2> QED BY <2>1, <2>2, <2>3, <2>4, Basics
<1>2. /\ t.kid["left"][x] = L /\ t.kid["right"][x] = R /\ t.kid["right"][y] = c
      /\ y # x /\ y \in H /\ y \in b[x] /\ x \in b[x] /\ L \in H /\ R \in H
      /\ L \in b[L] /\ R \in b[R]
      /\ L # y /\ L # x /\ R # x /\ L # R
      /\ x \notin b[L] /\ x \notin b[R] /\ b[L] \cap b[R] = {} /\ b[x] = {x} \cup b[L] \cup b[R]
      /\ a \in b[x] /\ a # y /\ (a = x <=> y = R)
      /\ a # x => a \in b[R] /\ t.kid["left"][a] = y
         /\ \A u \in Side : t.kid[u][a] = y => u = "left"
      /\ c \in Nodes /\ c # y /\ c # x /\ b[y] = {y} \cup b[c] /\ y \notin b[c]
      /\ c # Nil => c \in H /\ c \in b[R]
      /\ b[c] \subseteq b[R]
      /\ \A u \in Side, n \in H : t.kid[u][n] = y => n = a
  BY DEF SwapFacts, H
<1>3. /\ r.root = (IF x = t.root THEN y ELSE t.root)
      /\ r.kid["left"][y] = L /\ r.kid["right"][y] = (IF a = x THEN c ELSE R)
      /\ \A u \in Side, n \in Nodes : n # y =>
           r.kid[u][n] = IF a # x /\ n = a /\ u = "left" THEN c
                         ELSE IF x # t.root /\ u = Hangs(t, x) /\ n = t.parent[x] THEN y
                         ELSE t.kid[u][n]
  BY <1>2 DEF SeatedIs
<1>4. \A n \in Nodes : d[n] = IF n = y THEN b[x] \ {x}
                              ELSE IF n \in b[x] \ {x} THEN b[n] \ {y}
                              ELSE IF n \in H \ {x} THEN b[n] \ {x} ELSE b[n]
  BY DEF Shift, H
<1> HIDE DEF d
<1>5. d[y] = b[x] \ {x}
  BY <1>1, <1>2, <1>4
<1>6. \A n \in b[x] \ {x, y} : d[n] = b[n] \ {y}
  BY <1>1, <1>2, <1>4
<1>7. \A n \in H \ b[x] : d[n] = b[n] \ {x}
  <2> SUFFICES ASSUME NEW n \in H \ b[x] PROVE d[n] = b[n] \ {x}
    OBVIOUS
  <2>1. n \in Nodes /\ n # y /\ n # x
    BY <1>1, <1>2
  <2> QED BY <1>4, <2>1
<1>8. d[Nil] = {}
  BY <1>1, <1>2, <1>4
<1>9. d[r.root] = H \ {x}
  <2>1. CASE x = t.root
    BY <1>3, <1>5, <2>1 DEF H
  <2>2. CASE x # t.root
    <3>1. t.root \in H /\ t.root \notin b[x]
      <4>1. t.root \in H
        BY <1>1, RootOf DEF H
      <4>2. t.root \in b[x] => t.root = x
        BY <1>1, <4>1, Antisymmetric DEF H
      <4> QED BY <2>2, <4>1, <4>2
    <3> QED BY <1>3, <1>7, <2>2, <3>1 DEF H
  <2> QED BY <2>1, <2>2
<1>10. d[c] = b[c]
  <2>1. c = Nil => d[c] = b[c]
    BY <1>1, <1>8
  <2>2. c # Nil => d[c] = b[c]
    <3>1. c # Nil => c \in b[x] \ {x, y}
      BY <1>2
    <3>2. b[c] \ {y} = b[c]
      BY <1>2
    <3> QED BY <1>6, <3>1, <3>2
  <2> QED BY <2>1, <2>2
<1>11. ASSUME NEW u \in Side
       PROVE  d[r.kid[u][y]] = b[t.kid[u][x]] \ {y}
  <2>1. d[L] = b[L] \ {y}
    BY <1>2, <1>6
  <2>2. a = x => d[c] = b[R] \ {y}
    BY <1>2, <1>10
  <2>3. a # x => d[R] = b[R] \ {y}
    BY <1>2, <1>6
  <2>4. CASE u = "left"
    BY <1>2, <1>3, <2>1, <2>4
  <2>5. CASE u = "right"
    BY <1>2, <1>3, <2>2, <2>3, <2>5
  <2> QED BY <1>1, <2>4, <2>5
<1>12. ASSUME NEW n \in b[x] \ {x, y}, NEW u \in Side
       PROVE  d[r.kid[u][n]] = b[t.kid[u][n]] \ {y}
  <2>0. n \in H /\ n \in Nodes /\ x \notin b[n]
    <3>1. n \in H /\ n \in Nodes
      BY <1>1
    <3>2. x \notin b[n]
      BY <1>1, <1>12, <3>1, Antisymmetric DEF H
    <3> QED BY <3>1, <3>2
  <2>1. CASE a # x /\ n = a /\ u = "left"
    <3>1. r.kid[u][n] = c /\ t.kid[u][n] = y
      BY <1>2, <1>3, <2>0, <2>1
    <3> QED BY <1>2, <1>10, <3>1
  <2>2. CASE ~(a # x /\ n = a /\ u = "left")
    <3>1. ~(x # t.root /\ u = Hangs(t, x) /\ n = t.parent[x])
      <4>1. SUFFICES ASSUME x # t.root, n = t.parent[x] PROVE FALSE
        OBVIOUS
      <4>2. t.kid[Hangs(t, x)][n] = x /\ Hangs(t, x) \in Side
        BY <1>1, <4>1, HangsAt DEF H
      <4>3. x # Nil
        BY <1>1
      <4>4. x \in b[n]
        BY <1>1, <2>0, <4>2, <4>3, KidFacts DEF H
      <4> QED BY <2>0, <4>4
    <3>2. r.kid[u][n] = t.kid[u][n]
      BY <1>3, <1>12, <2>0, <2>2, <3>1
    <3>3. t.kid[u][n] # y
      BY <1>1, <1>2, <1>12, <2>0, <2>2
    <3>4. t.kid[u][n] = Nil \/ (t.kid[u][n] \in b[n] /\ t.kid[u][n] \in H)
      BY <1>1, <2>0, KidFacts DEF H
    <3>5. CASE t.kid[u][n] = Nil
      BY <1>1, <1>8, <3>2, <3>5
    <3>6. CASE t.kid[u][n] # Nil
      <4>1. b[n] \subseteq b[x]
        BY <1>1, <1>12, Nested DEF H
      <4>2. t.kid[u][n] \in b[x] \ {x, y}
        BY <2>0, <3>3, <3>4, <3>6, <4>1
      <4> QED BY <1>6, <3>2, <4>2
    <3> QED BY <3>5, <3>6
  <2> QED BY <2>1, <2>2
<1>13. ASSUME NEW n \in H \ b[x], NEW u \in Side
       PROVE  d[r.kid[u][n]] = b[t.kid[u][n]] \ {x}
  <2>0. n \in Nodes /\ n # y /\ n # a
    BY <1>1, <1>2, <1>13
  <2>1. CASE x # t.root /\ u = Hangs(t, x) /\ n = t.parent[x]
    <3>1. r.kid[u][n] = y
      BY <1>3, <2>0, <2>1
    <3>2. t.kid[u][n] = x
      BY <1>1, <2>1, HangsAt DEF H
    <3> QED BY <1>5, <3>1, <3>2
  <2>2. CASE ~(x # t.root /\ u = Hangs(t, x) /\ n = t.parent[x])
    <3>1. r.kid[u][n] = t.kid[u][n]
      BY <1>3, <2>0, <2>2
    <3>2. t.kid[u][n] = Nil \/ (t.kid[u][n] \in H /\ t.parent[t.kid[u][n]] = n)
      BY <1>1, KidFacts DEF H
    <3>3. CASE t.kid[u][n] = Nil
      BY <1>1, <1>8, <3>1, <3>3
    <3>4. CASE t.kid[u][n] # Nil
      <4>1. t.kid[u][n] # x
        <5>1. CASE x = t.root
          <6>1. t.parent[t.root] = Nil /\ n # Nil
            BY <1>1 DEF Linked
          <6> QED BY <3>2, <3>4, <5>1, <6>1
        <5>2. CASE x # t.root
          <6>1. \A m \in H, v \in Side : t.kid[v][m] = x <=> m = t.parent[x] /\ v = Hangs(t, x)
            BY <1>1, <5>2, HangsAt DEF H
          <6> QED BY <2>2, <5>2, <6>1
        <5> QED BY <5>1, <5>2
      <4>2. t.kid[u][n] \notin b[x]
        <5>1. SUFFICES ASSUME t.kid[u][n] \in b[x] PROVE FALSE
          OBVIOUS
        <5>2. t.parent[t.kid[u][n]] \in b[x]
          BY <1>1, <4>1, <5>1, ParentOf DEF H
        <5> QED BY <1>13, <3>2, <3>4, <5>2
      <4> QED BY <1>7, <3>1, <3>2, <3>4, <4>2
    <3> QED BY <3>3, <3>4
  <2> QED BY <2>1, <2>2
<1>14. ASSUME NEW n \in H \ {x}, NEW u \in Side
       PROVE  d[r.kid[u][n]] = b[t.kid[u][Was(x, y, n)]] \ {Lost(b, x, y, n)}
  <2>1. CASE n = y
    <3>1. Was(x, y, n) = x /\ Lost(b, x, y, n) = y
      BY <1>2, <2>1 DEF Was, Lost
    <3> QED BY <1>11, <2>1, <3>1
  <2>2. CASE n # y /\ n \in b[x]
    <3>1. Was(x, y, n) = n /\ Lost(b, x, y, n) = y
      BY <2>2 DEF Was, Lost
    <3>2. n \in b[x] \ {x, y}
      BY <1>14, <2>2
    <3> QED BY <1>12, <3>1, <3>2
  <2>3. CASE n # y /\ n \notin b[x]
    <3>1. Was(x, y, n) = n /\ Lost(b, x, y, n) = x
      BY <2>3, Zenon DEF Was, Lost
    <3> QED BY <1>13, <1>14, <2>3, <3>1
  <2> QED BY <2>1, <2>2, <2>3
<1> QED BY <1>5, <1>6, <1>7, <1>8, <1>9, <1>14 DEF ShiftFacts, d, H

(* A swap with all that is known of it.                                    *)
Swap(t, b, x, y, L, R, c, a, r) ==
  /\ Swapped(t, b, x, y) /\ SwapFacts(t, b, x, y, L, R, c, a) /\ SeatedIs(t, r, x, y, L, R, c, a)

(* The tree after a swap is linked.                                        *)
LEMMA ShiftLinked ==
  ASSUME NEW t, NEW b, NEW x, NEW y, NEW L, NEW R, NEW c, NEW a, NEW r,
         Swap(t, b, x, y, L, R, c, a, r)
  PROVE  Linked(r, Shift(b, b[t.root], x, y))
<1> DEFINE H == b[t.root]
           d == Shift(b, b[t.root], x, y)
<1> HIDE DEF H, d
<1>0. ShiftFacts(t, b, r, d, x, y)
  BY ShiftIs DEF Swap, d
<1>1. /\ Linked(t, b) /\ Clean(t, b) /\ x \in H /\ H \subseteq Keys /\ b[x] \subseteq H
  <2>1. Linked(t, b) /\ Clean(t, b) /\ x \in H
    BY DEF Swap, Swapped, H
  <2> QED BY <2>1, RootOf, KidFacts DEF H
<1>2. /\ t.kid["left"][x] = L /\ t.kid["right"][x] = R
      /\ y # x /\ y \in H /\ y \in b[x] /\ x \in b[x] /\ L \in H /\ R \in H /\ x < y
      /\ L \in b[L] /\ R \in b[R]
      /\ L # y /\ L # x /\ R # x /\ L # R /\ t.parent[L] = x /\ t.parent[R] = x
      /\ x \notin b[L] /\ x \notin b[R] /\ b[x] = {x} \cup b[L] \cup b[R]
      /\ a \in b[x] /\ a # y /\ (a = x <=> y = R)
      /\ a # x => t.kid["left"][a] = y /\ \A u \in Side : t.kid[u][a] = y => u = "left"
      /\ c \in Nodes /\ c # y /\ c # x /\ c # L /\ (a # x => c # R)
      /\ c # Nil => c \in H /\ t.parent[c] = y
      /\ \A u \in Side, n \in H : t.kid[u][n] = y => n = a
      /\ t.kid["right"][y] = c
  BY DEF SwapFacts, Swap, H
<1>3. /\ r \in Trees /\ r.root = (IF x = t.root THEN y ELSE t.root) /\ r.size = t.size
      /\ r.kid["left"][y] = L /\ r.kid["right"][y] = (IF a = x THEN c ELSE R)
      /\ \A u \in Side, n \in Nodes : n # y =>
           r.kid[u][n] = IF a # x /\ n = a /\ u = "left" THEN c
                         ELSE IF x # t.root /\ u = Hangs(t, x) /\ n = t.parent[x] THEN y
                         ELSE t.kid[u][n]
      /\ \A n \in Nodes :
           r.parent[n] = IF n = y THEN t.parent[x]
                         ELSE IF n = L THEN y
                         ELSE IF a # x /\ n = R THEN y
                         ELSE IF a # x /\ n = c /\ c # Nil THEN a
                         ELSE t.parent[n]
  BY <1>2 DEF SeatedIs, Swap
<1>4. /\ d[r.root] = H \ {x} /\ d[Nil] = {} /\ d[y] = b[x] \ {x}
      /\ \A n \in b[x] \ {x, y} : d[n] = b[n] \ {y}
      /\ \A n \in H \ b[x] : d[n] = b[n] \ {x}
      /\ \A n \in H \ {x}, u \in Side :
           d[r.kid[u][n]] = b[t.kid[u][Was(x, y, n)]] \ {Lost(b, x, y, n)}
  BY <1>0 DEF ShiftFacts, H
<1>5. /\ Nil \in Nodes /\ Nil \notin Keys /\ Keys \subseteq Nodes /\ Keys \subseteq Nat
      /\ "left" \in Side /\ "right" \in Side /\ "right" # "left"
      /\ \A u \in Side : u = "left" \/ u = "right"
  BY Basics DEF Side
<1>6. /\ b \in [Nodes -> SUBSET Keys] /\ b[Nil] = {} /\ \A n \in Keys : n \in b[n]
      /\ \A n \in H : b[n] \subseteq H
      /\ \A n \in H : b[n] = {n} \cup b[t.kid["left"][n]] \cup b[t.kid["right"][n]]
      /\ \A n \in H, s \in Side : \A k \in b[t.kid[s][n]] : On(s, k, n)
      /\ t.parent[t.root] = Nil
      /\ \A s \in Side : t.kid[s][Nil] = Nil
      /\ t.parent[Nil] = Nil /\ t.size[Nil] = 0
  BY <1>1 DEF Linked, H
<1>7. d \in [Nodes -> SUBSET Keys] /\ \A n \in Keys : n \in d[n]
  <2>1. \A n \in Nodes : d[n] = IF n = y THEN b[x] \ {x}
                                ELSE IF n \in b[x] \ {x} THEN b[n] \ {y}
                                ELSE IF n \in H \ {x} THEN b[n] \ {x} ELSE b[n]
    BY DEF d, Shift, H
  <2>2. d = [n \in Nodes |-> d[n]]
    BY DEF d, Shift
  <2>3. ASSUME NEW n \in Nodes PROVE d[n] \in SUBSET Keys
    <3>1. b[n] \in SUBSET Keys /\ b[x] \in SUBSET Keys
      BY <1>1, <1>6
    <3>2. d[n] = b[n] \ {x} \/ d[n] = b[n] \ {y} \/ d[n] = b[x] \ {x} \/ d[n] = b[n]
      BY <2>1
    <3> QED BY <3>1, <3>2
  <2>4. ASSUME NEW n \in Keys PROVE n \in d[n]
    <3>1. n \in b[n] /\ n \in Nodes
      BY <1>5, <1>6
    <3>2. d[n] = IF n = y THEN b[x] \ {x}
                 ELSE IF n \in b[x] \ {x} THEN b[n] \ {y}
                 ELSE IF n \in H \ {x} THEN b[n] \ {x} ELSE b[n]
      BY <2>1, <3>1
    <3>3. y \in b[x] /\ y # x
      BY <1>2
    <3> QED BY <3>1, <3>2, <3>3
  <2> QED BY <2>2, <2>3, <2>4
<1>8. ASSUME NEW n \in H \ {x}
      PROVE  /\ d[n] \subseteq H \ {x}
             /\ d[n] = {n} \cup d[r.kid["left"][n]] \cup d[r.kid["right"][n]]
  <2>0. /\ d[r.kid["left"][n]] = b[t.kid["left"][Was(x, y, n)]] \ {Lost(b, x, y, n)}
        /\ d[r.kid["right"][n]] = b[t.kid["right"][Was(x, y, n)]] \ {Lost(b, x, y, n)}
    BY <1>4, <1>5
  <2>1. CASE n = y
    <3>1. Was(x, y, n) = x /\ Lost(b, x, y, n) = y
      BY <1>2, <2>1 DEF Was, Lost
    <3>2. d[n] = b[x] \ {x}
      BY <1>4, <2>1
    <3>3. d[r.kid["left"][n]] = b[L] \ {y} /\ d[r.kid["right"][n]] = b[R] \ {y}
      BY <1>2, <2>0, <3>1, Zenon
    <3> QED BY <1>1, <1>2, <2>1, <3>2, <3>3
  <2>2. CASE n # y /\ n \in b[x]
    <3>1. Was(x, y, n) = n /\ Lost(b, x, y, n) = y
      BY <2>2 DEF Was, Lost
    <3>2. d[n] = b[n] \ {y}
      BY <1>4, <1>8, <2>2
    <3>3. b[n] = {n} \cup b[t.kid["left"][n]] \cup b[t.kid["right"][n]] /\ b[n] \subseteq H
      BY <1>6
    <3>4. x \notin b[n]
      BY <1>1, <1>8, <2>2, Antisymmetric DEF H
    <3> QED BY <2>0, <2>2, <3>1, <3>2, <3>3, <3>4
  <2>3. CASE n \notin b[x]
    <3>1. Was(x, y, n) = n /\ Lost(b, x, y, n) = x
      BY <1>2, <2>3 DEF Was, Lost
    <3>2. d[n] = b[n] \ {x}
      BY <1>4, <1>8, <2>3
    <3>3. b[n] = {n} \cup b[t.kid["left"][n]] \cup b[t.kid["right"][n]] /\ b[n] \subseteq H
      BY <1>6
    <3> QED BY <1>8, <2>0, <3>1, <3>2, <3>3
  <2> QED BY <2>1, <2>2, <2>3
<1>10. ASSUME NEW n \in H \ {x}, NEW s \in Side, NEW k \in d[r.kid[s][n]] PROVE On(s, k, n)
  <2>0. k \in b[t.kid[s][Was(x, y, n)]] /\ k # Lost(b, x, y, n)
    BY <1>4, <1>10
  <2>1. CASE n = y
    <3>1. Was(x, y, n) = x /\ Lost(b, x, y, n) = y
      BY <1>2, <2>1 DEF Was, Lost
    <3>2. k \in b[t.kid[s][x]] /\ k # y
      BY <2>0, <3>1
    <3>3. On(s, k, x)
      BY <1>1, <1>6, <3>2
    <3>4. k \in Nat /\ x \in Nat /\ y \in Nat
      <4>1. k \in b[x]
        BY <1>2, <1>5, <3>2
      <4> QED BY <1>1, <1>2, <1>5, <4>1
    <3>5. CASE s = "left"
      BY <1>2, <2>1, <3>3, <3>4, <3>5 DEF On
    <3>6. CASE s = "right"
      <4>1. k \in b[R]
        BY <1>2, <3>2, <3>6
      <4>2. y <= k
        BY <1>2, <4>1 DEF Swap, Swapped
      <4> QED BY <1>5, <2>1, <3>2, <3>4, <3>6, <4>2 DEF On
    <3> QED BY <1>5, <3>5, <3>6
  <2>2. CASE n # y
    <3>1. Was(x, y, n) = n
      BY <2>2 DEF Was
    <3> QED BY <1>6, <2>0, <3>1
  <2> QED BY <2>1, <2>2
<1>11. /\ x # t.root => t.parent[x] \in H /\ t.parent[x] # x
       /\ t.parent[x] # y
  <2>1. x # t.root => t.parent[x] \in H /\ t.parent[x] # x
    BY <1>1, HangsAt DEF H
  <2>2. t.parent[x] # y
    <3>1. SUFFICES ASSUME t.parent[x] = y PROVE FALSE
      OBVIOUS
    <3>2. x # t.root
      BY <1>1, <1>2, <1>5, <1>6, <3>1
    <3>3. t.kid[Hangs(t, x)][y] = x /\ Hangs(t, x) \in Side
      BY <1>1, <3>1, <3>2, HangsAt DEF H
    <3>4. x # Nil
      BY <1>1, <1>5
    <3>5. x \in b[y]
      BY <1>1, <1>2, <3>3, <3>4, KidFacts DEF H
    <3> QED BY <1>1, <1>2, <3>5, Antisymmetric DEF H
  <2> QED BY <2>1, <2>2
<1>12. ASSUME NEW n \in H \ {x}, NEW u \in Side, r.kid[u][n] # Nil
       PROVE  r.parent[r.kid[u][n]] = n
  <2>0. y \in Nodes /\ L \in Nodes /\ R \in Nodes /\ n \in Nodes
    BY <1>1, <1>2, <1>5
  <2>1. CASE n = y
    <3>1. CASE u = "left"
      BY <1>2, <1>3, <2>0, <2>1, <3>1
    <3>2. CASE u = "right" /\ a = x
      BY <1>2, <1>3, <1>12, <2>1, <3>2
    <3>3. CASE u = "right" /\ a # x
      <4>1. R # y
        BY <1>2, <3>3
      <4> QED BY <1>2, <1>3, <2>0, <2>1, <3>3, <4>1
    <3> QED BY <1>5, <3>1, <3>2, <3>3
  <2>2. CASE n # y /\ a # x /\ n = a /\ u = "left"
    <3>1. r.kid[u][n] = c
      BY <1>3, <2>0, <2>2
    <3> QED BY <1>2, <1>3, <1>12, <2>2, <3>1
  <2>3. CASE n # y /\ ~(a # x /\ n = a /\ u = "left")
             /\ x # t.root /\ u = Hangs(t, x) /\ n = t.parent[x]
    BY <1>3, <2>0, <2>3
  <2>4. CASE n # y /\ ~(a # x /\ n = a /\ u = "left")
             /\ ~(x # t.root /\ u = Hangs(t, x) /\ n = t.parent[x])
    <3>1. r.kid[u][n] = t.kid[u][n]
      BY <1>3, <2>0, <2>4
    <3>2. t.kid[u][n] \in Nodes /\ t.parent[t.kid[u][n]] = n
      BY <1>1, <1>12, <3>1, KidFacts DEF H
    <3>3. t.kid[u][n] # y
      <4>1. t.kid[u][n] = y => n = a
        BY <1>2
      <4> QED BY <1>2, <1>12, <2>4, <4>1
    <3>4. t.kid[u][n] # L /\ t.kid[u][n] # R
      BY <1>2, <1>12, <3>2
    <3>5. t.kid[u][n] = c => c = Nil
      BY <1>2, <2>4, <3>2
    <3> QED BY <1>3, <3>1, <3>2, <3>3, <3>4, <3>5
  <2> QED BY <2>1, <2>2, <2>3, <2>4
<1>13. ASSUME NEW n \in Keys \ (H \ {x}), NEW u \in Side
       PROVE  r.kid[u][n] \in (H \ {x}) \cup {Nil}
  <2>1. CASE n = x
    <3>1. r.kid[u][x] = t.kid[u][x]
      BY <1>1, <1>2, <1>3, <1>5, <1>11
    <3> QED BY <1>2, <1>5, <2>1, <3>1
  <2>2. CASE n # x
    <3>1. n \notin H /\ n \in Nodes /\ n # a /\ n # y
      BY <1>1, <1>2, <1>5, <1>13, <2>2
    <3>2. r.kid[u][n] = t.kid[u][n]
      BY <1>3, <1>11, <3>1
    <3> QED BY <1>1, <1>13, <3>1, <3>2 DEF Clean, H
  <2> QED BY <2>1, <2>2
<1>14. r.parent[r.root] = Nil
  <2>1. CASE x = t.root
    <3>1. y \in Nodes /\ r.root = y /\ t.parent[x] = Nil
      BY <1>1, <1>2, <1>3, <1>5, <1>6, <2>1
    <3>2. r.parent[y] = t.parent[x]
      BY <1>3, <3>1
    <3> QED BY <3>1, <3>2
  <2>2. CASE x # t.root
    <3>1. t.root \in Nodes /\ t.root # L /\ t.root # R /\ (c # Nil => t.root # c)
      <4>1. t.root \in Nodes /\ x # Nil /\ y # Nil
        BY <1>1, <1>2, <1>5, RootOf
      <4> QED BY <1>2, <1>6, <4>1
    <3>2. t.root # y
      <4>1. SUFFICES ASSUME t.root = y PROVE FALSE
        OBVIOUS
      <4>2. b[y] = H /\ x \in b[y]
        BY <1>1, <4>1 DEF H
      <4> QED BY <1>1, <1>2, <4>2, Antisymmetric DEF H
    <3> QED BY <1>3, <1>6, <2>2, <3>1, <3>2
  <2> QED BY <2>1, <2>2
<1>15. /\ r.parent[Nil] = Nil /\ r.size[Nil] = 0 /\ \A u \in Side : r.kid[u][Nil] = Nil
  <2>1. x # t.root => t.parent[x] # Nil
    BY <1>1, <1>5, <1>11
  <2>2. Nil # y /\ Nil # L /\ Nil # R /\ Nil # a
    BY <1>1, <1>2, <1>5
  <2> QED BY <1>3, <1>5, <1>6, <2>1, <2>2
<1> QED BY <1>3, <1>4, <1>7, <1>8, <1>10, <1>12, <1>13, <1>14, <1>15 DEF Linked, d

(* Where the walk after a swap starts.                                     *)
Above(x, y, a) == IF a = x THEN y ELSE a

(* The walk after a swap may start.                                        *)
LEMMA ShiftWalks ==
  ASSUME NEW t, NEW b, NEW x, NEW y, NEW L, NEW R, NEW c, NEW a, NEW r,
         Swap(t, b, x, y, L, R, c, a, r), Sound(t, b)
  PROVE  Starting(r, c, Above(x, y, a), Shift(b, b[t.root], x, y))
<1> DEFINE H == b[t.root]
           d == Shift(b, b[t.root], x, y)
           q == Above(x, y, a)
           w == [tree |-> r, node |-> c, parent |-> q]
<1> HIDE DEF H, d, q
<1>0. ShiftFacts(t, b, r, d, x, y) /\ Linked(r, d)
  BY ShiftIs, ShiftLinked DEF Swap, d
<1>1. /\ Linked(t, b) /\ x \in H /\ H \subseteq Keys /\ b[x] \subseteq H
      /\ \A n \in H : Good(t, b, n)
      /\ b[Nil] = {} /\ Nil \notin H /\ H \subseteq Nodes
  <2>1. Linked(t, b) /\ x \in H /\ \A n \in H : Good(t, b, n)
    BY DEF Swap, Swapped, Sound, H
  <2>2. H \subseteq Keys
    BY <2>1, RootOf DEF H
  <2>3. b[Nil] = {}
    BY <2>1 DEF Linked
  <2> QED BY <2>1, <2>2, <2>3, KidFacts, Basics DEF H
<1>2. /\ t.kid["left"][x] = L /\ t.kid["right"][x] = R
      /\ y # x /\ y \in H /\ y \in b[x] /\ x \in b[x] /\ L \in H /\ R \in H
      /\ L \in b[L] /\ R \in b[R] /\ y \in b[R]
      /\ b[L] \cap b[R] = {} /\ b[x] = {x} \cup b[L] \cup b[R]
      /\ a \in b[x] /\ a # y /\ (a = x <=> y = R)
      /\ a # x => /\ a \in b[R] /\ t.kid["left"][a] = y
      /\ c \in Nodes /\ c # L
      /\ c # Nil => c \in H /\ t.parent[c] = y
      /\ b[y] = {y} \cup b[c] /\ y \notin b[c] /\ b[c] \subseteq b[R]
      /\ t.kid["right"][y] = c /\ t.parent[y] = a
  <2>1. t.parent[y] = a
    BY DEF Swap, SwapFacts
  <2> QED BY <2>1 DEF SwapFacts, Swap, Swapped, H
<1>3. /\ r.size = t.size
      /\ r.kid["left"][y] = L /\ r.kid["right"][y] = (IF a = x THEN c ELSE R)
      /\ \A u \in Side, n \in Nodes : n # y =>
           r.kid[u][n] = IF a # x /\ n = a /\ u = "left" THEN c
                         ELSE IF x # t.root /\ u = Hangs(t, x) /\ n = t.parent[x] THEN y
                         ELSE t.kid[u][n]
  BY <1>2 DEF SeatedIs, Swap
<1>4. /\ d[r.root] = H \ {x} /\ d[Nil] = {} /\ d[y] = b[x] \ {x}
      /\ \A n \in b[x] \ {x, y} : d[n] = b[n] \ {y}
      /\ \A n \in H \ b[x] : d[n] = b[n] \ {x}
      /\ \A n \in H \ {x}, u \in Side :
           d[r.kid[u][n]] = b[t.kid[u][Was(x, y, n)]] \ {Lost(b, x, y, n)}
  BY <1>0 DEF ShiftFacts, H
<1>5. /\ "left" \in Side /\ "right" \in Side /\ "right" # "left"
      /\ Opp("left") = "right" /\ Opp("right") = "left"
      /\ \A u \in Side : Opp(u) \in Side
      /\ \A u \in Side : u = "left" \/ u = "right"
  BY Basics DEF Side, Opp
<1>6. /\ q \in H \ {x} /\ q \in b[x] /\ q # Nil /\ q \in Nodes /\ q \in b[R]
         /\ q = (IF a = x THEN y ELSE a)
      /\ \E s \in Side : r.kid[s][q] = c
  <2>1. q = IF a = x THEN y ELSE a
    BY DEF q, Above
  <2>2. CASE a = x
    BY <1>1, <1>2, <1>3, <1>5, <2>1, <2>2
  <2>3. CASE a # x
    <3>1. q = a /\ a \in Nodes /\ a # Nil /\ a \in H
      BY <1>1, <1>2, <2>1, <2>3
    <3>2. r.kid["left"][a] = c
      BY <1>2, <1>3, <1>5, <2>3, <3>1
    <3> QED BY <1>2, <1>5, <2>3, <3>1, <3>2
  <2> QED BY <2>1, <2>2, <2>3
<1>7. ASSUME NEW n \in H \ {x}, q \notin d[n] PROVE Good(r, d, n)
  <2>1. n # y
    BY <1>4, <1>6, <1>7
  <2>2. Lost(b, x, y, n) \notin b[n]
    <3>1. CASE n \in b[x]
      <4>1. SUFFICES ASSUME y \in b[n] PROVE FALSE
        BY <3>1 DEF Lost
      <4>2. a \in b[n]
        BY <1>1, <1>2, <2>1, <4>1, ParentOf DEF H
      <4>3. x \notin b[n]
        BY <1>1, <1>7, <3>1, Antisymmetric DEF H
      <4>4. q = a
        BY <1>6, <4>2, <4>3
      <4>5. d[n] = b[n] \ {y}
        BY <1>4, <1>7, <2>1, <3>1
      <4> QED BY <1>2, <1>7, <4>2, <4>4, <4>5
    <3>2. CASE n \notin b[x]
      <4>1. SUFFICES ASSUME x \in b[n] PROVE FALSE
        BY <3>2 DEF Lost
      <4>2. b[x] \subseteq b[n]
        BY <1>1, <4>1, Nested DEF H
      <4>3. d[n] = b[n] \ {x}
        BY <1>4, <1>7, <3>2
      <4> QED BY <1>6, <1>7, <4>2, <4>3
    <3> QED BY <3>1, <3>2
  <2>3. d[n] = b[n]
    <3>1. d[n] = b[n] \ {Lost(b, x, y, n)}
      BY <1>4, <1>7, <2>1 DEF Lost
    <3> QED BY <2>2, <3>1
  <2>4. ASSUME NEW u \in Side PROVE d[r.kid[u][n]] = b[t.kid[u][n]]
    <3>1. b[t.kid[u][n]] \subseteq b[n]
      BY <1>1, KidFacts DEF H
    <3>2. d[r.kid[u][n]] = b[t.kid[u][Was(x, y, n)]] \ {Lost(b, x, y, n)}
      BY <1>4
    <3>3. Was(x, y, n) = n
      BY <2>1 DEF Was
    <3> QED BY <2>2, <3>1, <3>2, <3>3
  <2>5. /\ N(d, n) = N(b, n) /\ N(d, r.kid["left"][n]) = N(b, t.kid["left"][n])
        /\ N(d, r.kid["right"][n]) = N(b, t.kid["right"][n])
    <3>1. /\ d[r.kid["left"][n]] = b[t.kid["left"][n]]
          /\ d[r.kid["right"][n]] = b[t.kid["right"][n]]
      BY <1>5, <2>4
    <3> QED BY <2>3, <3>1 DEF N
  <2>6. Good(t, b, n)
    BY <1>1
  <2> QED BY <1>3, <2>5, <2>6 DEF Good
<1>8. ASSUME NEW n \in H \ {x}, NEW u \in Side, Through(r, d, q, c, n, u)
      PROVE  Lean(N(d, r.kid[u][n]), N(d, r.kid[Opp(u)][n]), FALSE)
  <2> DEFINE m == Was(x, y, n)
             e == Lost(b, x, y, n)
  <2>1. d[r.kid[u][n]] = b[t.kid[u][m]] \ {e} /\ d[r.kid[Opp(u)][n]] = b[t.kid[Opp(u)][m]] \ {e}
    BY <1>4, <1>5
  <2>2. m \in H
    BY <1>1 DEF Was
  <2>3. q \in d[r.kid[u][n]] \/ (n = q /\ r.kid[u][q] = c)
    BY <1>8 DEF Through
  <2>4. CASE e \in b[t.kid[u][m]]
    <3> HIDE DEF m, e
    <3>1. Good(t, b, m)
      BY <1>1, <2>2
    <3> QED BY <1>1, <2>1, <2>2, <2>4, <3>1, LeanBy DEF H
  <2>5. CASE e \notin b[t.kid[u][m]]
    <3>1. CASE n = y
      <4>1. m = x /\ e = y
        BY <1>2, <3>1 DEF Was, Lost
      <4>2. u = "left"
        BY <1>2, <1>5, <2>5, <4>1
      <4>3. q \notin d[r.kid[u][n]]
        BY <1>2, <1>6, <2>1, <4>1, <4>2
      <4> QED BY <1>2, <1>3, <2>3, <3>1, <4>2, <4>3
    <3>2. CASE n # y /\ n \in b[x]
      <4>1. m = n /\ e = y
        BY <3>2 DEF Was, Lost
      <4>2. q \notin d[r.kid[u][n]]
        <5>1. SUFFICES ASSUME q \in b[t.kid[u][n]], q # y PROVE FALSE
          BY <2>1, <4>1
        <5>2. q = a /\ a # x
          BY <1>6, <5>1
        <5>3. t.kid[u][n] # Nil
          BY <1>1, <5>1
        <5>4. t.kid[u][n] \in H
          BY <1>1, <5>3, KidFacts DEF H
        <5>5. b[a] \subseteq b[t.kid[u][n]]
          BY <1>1, <5>1, <5>2, <5>4, Nested DEF H
        <5>6. y \in b[a]
          <6>1. a \in H /\ y # Nil
            BY <1>1, <1>2
          <6> QED BY <1>1, <1>2, <1>5, <5>2, <6>1, KidFacts DEF H
        <5> QED BY <2>5, <4>1, <5>5, <5>6
      <4>3. n = q /\ r.kid[u][q] = c /\ n = a /\ a # x
        BY <1>6, <2>3, <3>2, <4>2
      <4>4. u = "right"
        <5>1. SUFFICES ASSUME u = "left" PROVE FALSE
          BY <1>5
        <5>2. t.kid[u][n] = y /\ y # Nil
          BY <1>1, <1>2, <4>3, <5>1
        <5>3. y \in b[t.kid[u][n]]
          BY <1>1, <1>2, <5>2, KidFacts DEF H
        <5> QED BY <2>5, <4>1, <5>3
      <4>5. r.kid[u][n] = t.kid[u][n]
        <5>1. ~(x # t.root /\ u = Hangs(t, x) /\ n = t.parent[x])
          <6>1. SUFFICES ASSUME x # t.root, u = Hangs(t, x), n = t.parent[x] PROVE FALSE
            OBVIOUS
          <6>2. t.kid[u][n] = x /\ x # Nil
            BY <1>1, <6>1, HangsAt DEF H
          <6>3. x \in b[n]
            BY <1>1, <6>2, KidFacts DEF H
          <6> QED BY <1>1, <1>8, <3>2, <6>3, Antisymmetric DEF H
        <5> QED BY <1>1, <1>3, <1>5, <3>2, <4>4, <5>1
      <4>6. c = Nil
        <5>1. c # Nil => t.parent[c] = n
          BY <1>1, <4>3, <4>5, KidFacts DEF H
        <5> QED BY <1>2, <3>2, <5>1
      <4>7. t.kid[Opp(u)][n] = y
        BY <1>2, <1>5, <4>3, <4>4
      <4>8. b[y] \ {y} = {}
        BY <1>1, <1>2, <4>6
      <4>9. d[r.kid[u][n]] = {} /\ d[r.kid[Opp(u)][n]] = {}
        BY <1>4, <2>1, <4>1, <4>3, <4>6, <4>7, <4>8
      <4> QED BY <4>9, LeanLeaf
    <3>3. CASE n \notin b[x]
      <4>1. m = n /\ e = x
        BY <1>2, <3>3 DEF Was, Lost
      <4>2. n # q
        BY <1>6, <3>3
      <4>3. q \in b[t.kid[u][n]]
        BY <2>1, <2>3, <4>1, <4>2
      <4>4. t.kid[u][n] # Nil
        BY <1>1, <4>3
      <4>5. t.kid[u][n] \in H /\ t.parent[t.kid[u][n]] = n
        BY <1>1, <4>4, KidFacts DEF H
      <4>6. t.kid[u][n] \in b[x]
        <5>1. b[t.kid[u][n]] \cap b[x] # {}
          BY <1>6, <4>3
        <5> QED BY <1>1, <2>5, <4>1, <4>5, <5>1, Comparable DEF H
      <4>7. t.kid[u][n] # x
        <5>1. \A k \in H : k \in b[k]
          BY <1>1, KidFacts DEF H
        <5> QED BY <1>1, <2>5, <4>1, <5>1
      <4>8. n \in b[x]
        BY <1>1, <4>5, <4>6, <4>7, ParentOf DEF H
      <4> QED BY <3>3, <4>8
    <3> QED BY <3>1, <3>2, <3>3
  <2> QED BY <2>4, <2>5
<1>11. w.tree = r /\ w.node = c /\ w.parent = q
  OBVIOUS
<1> HIDE DEF w
<1> SUFFICES Walking(w, d, FALSE)
  BY DEF w, d, q, Starting
<1>12. /\ q \in d[r.root] /\ q \in Nodes /\ q # Nil /\ c \in Nodes
       /\ \E s \in Side : r.kid[s][q] = c
  BY <1>2, <1>4, <1>6
<1>13. \A n \in d[r.root] : q \notin d[n] => Good(r, d, n)
  BY <1>4, <1>7
<1>14. \A n \in d[r.root], s \in Side : Through(r, d, q, c, n, s) =>
         Lean(N(d, r.kid[s][n]), N(d, r.kid[Opp(s)][n]), FALSE)
  BY <1>4, <1>8
<1> QED BY <1>0, <1>11, <1>12, <1>13, <1>14 DEF Walking

(* A node with two children is deleted.                                    *)
LEMMA SwapDeleted ==
  ASSUME NEW t, NEW b, NEW x, NEW y, NEW L, NEW R, NEW c, NEW a, NEW r,
         Swap(t, b, x, y, L, R, c, a, r), Sound(t, b)
  PROVE  \E d : Became(t, AfterDelete(r, c, Above(x, y, a)), d, b[t.root] \ {x}, b[t.root] \ {x})
<1> DEFINE H == b[t.root]
           K == H \ {x}
           q == Above(x, y, a)
           g == Shift(b, H, x, y)
           v == AfterDelete(r, c, q)
<1>1. /\ Linked(t, b) /\ x \in H /\ b[x] \subseteq H /\ x \in Nodes
  <2>1. Linked(t, b) /\ x \in H
    BY DEF Swap, Swapped
  <2> QED BY <2>1, KidFacts
<1>2. /\ y \in K /\ a \in H /\ L \in K /\ R \in K /\ c \in Nodes /\ c # x
      /\ c # Nil => c \in K
  BY <1>1 DEF SwapFacts, Swap
<1>3. /\ r \in Trees /\ r.size = t.size
      /\ \A u \in Side : r.kid[u][y] = IF u = "left" THEN L ELSE IF a = x THEN c ELSE R
      /\ \A u \in Side, n \in Nodes : n # y =>
           r.kid[u][n] = IF a # x /\ n = a /\ u = "left" THEN c
                         ELSE IF x # t.root /\ u = Hangs(t, x) /\ n = t.parent[x] THEN y
                         ELSE t.kid[u][n]
      /\ \A n \in Nodes :
           r.parent[n] = IF n = y THEN t.parent[x]
                         ELSE IF n = L THEN y
                         ELSE IF a # x /\ n = R THEN y
                         ELSE IF a # x /\ n = c /\ c # Nil THEN a
                         ELSE t.parent[n]
  BY DEF SeatedIs, Swap, SwapFacts, Side
<1>4. Starting(r, c, q, g) /\ g[r.root] = K
  <2>1. ShiftFacts(t, b, r, g, x, y)
    BY ShiftIs DEF Swap
  <2>2. Starting(r, c, q, g)
    BY ShiftWalks
  <2> QED BY <2>1, <2>2 DEF ShiftFacts
<1>5. q \in Nodes
  <2>1. y \in Nodes /\ a \in Nodes
    BY <1>1, <1>2, KidFacts
  <2> QED BY <2>1 DEF Above
<1> HIDE DEF g, q, K
<1>6. \E d : /\ Sound(AfterDelete(r, c, q), d) /\ d[AfterDelete(r, c, q).root] = g[r.root]
             /\ Frame(r, AfterDelete(r, c, q), g[r.root]) /\ \A z \in g[c] : d[z] = g[z]
  BY <1>2, <1>3, <1>4, <1>5, DeleteDone
<1>7. PICK d : Sound(v, d) /\ d[v.root] = K /\ Frame(r, v, K)
  BY <1>4, <1>6
<1> HIDE DEF v
<1>8. \A n \in Nodes \ K : /\ r.parent[n] = t.parent[n] /\ r.size[n] = t.size[n]
                           /\ \A u \in Side : r.kid[u][n] = t.kid[u][n]
  <2>1. x # t.root => t.parent[x] \in K
    BY <1>1, HangsAt DEF K
  <2>2. a # x => a \in K
    BY <1>2 DEF K
  <2> QED BY <1>2, <1>3, <2>1, <2>2
<1>9. Frame(t, v, K)
  BY <1>7, <1>8 DEF Frame
<1>10. Became(t, v, d, K, K)
  BY <1>7, <1>9 DEF Became
<1> QED BY <1>10 DEF v, K, q

(* DeleteNode takes the key out, and the tree is sound as before; it       *)
(* leaves alone the pointers of the deleted node and, without a left       *)
(* child, its right subtree.                                               *)
LEMMA Deleted ==
  ASSUME NEW t, NEW b, Sound(t, b), Clean(t, b), NEW x \in b[t.root]
  PROVE  \E d : /\ Became(t, DeleteNode(t, x), d, b[t.root] \ {x}, b[t.root] \ {x})
                /\ t.kid["left"][x] = Nil => Same(d, b, t.kid["right"][x])
<1> DEFINE L == t.kid["left"][x]
           R == t.kid["right"][x]
           c == IF L = Nil THEN R ELSE L
           v == DeleteNode(t, x)
           K == b[t.root] \ {x}
<1>1. Linked(t, b) /\ t \in Trees /\ x \in Nodes
      /\ "left" \in Side /\ "right" \in Side /\ Opp("left") = "right" /\ Opp("right") = "left"
      /\ Kids(t, x) = {L, R}
  BY KidFacts DEF Sound, Linked, Side, Opp, Kids
<1>2. CASE L = Nil \/ R = Nil
  <2>1. OnlyKid(t, b, x, c)
    BY <1>1, <1>2 DEF OnlyKid
  <2>2. v = Without(t, x, c)
    BY <1>1, <1>2 DEF DeleteNode, Without
  <2> HIDE DEF v
  <2>3. \E d : Became(t, v, d, K, K) /\ Same(d, b, c)
    <3> HIDE DEF c
    <3>1. \E d : /\ Became(t, Without(t, x, c), d, b[t.root] \ {x}, b[t.root] \ {x})
                 /\ Same(d, b, c)
      BY <2>1, OnlyDeleted
    <3> QED BY <2>2, <3>1
  <2> QED BY <2>3 DEF v
<1>3. CASE L # Nil /\ R # Nil
  <2> DEFINE y == FirstNode(t, R)
             e == t.kid["right"][y]
             a == t.parent[y]
             r == Seated(t, x, y, L, R, e, a)
  <2>1. y \in b[R] /\ t.kid["left"][y] = Nil /\ \A k \in b[R] : y <= k
    <3>1. R \in b[t.root]
      BY <1>1, <1>3, KidFacts, Zenon
    <3> HIDE DEF R
    <3> QED BY <1>1, <3>1, FirstIs
  <2>2. v = AfterDelete(r, e, Above(x, y, a))
    <3>1. v = ReplaceByNext(t, x)
      BY <1>1, <1>3 DEF DeleteNode
    <3>2. ReplaceByNext(t, x) = AfterDelete(r, e, Above(x, y, a))
      BY DEF ReplaceByNext, Seated, Above
    <3> QED BY <3>1, <3>2
  <2> HIDE DEF v, y
  <2>3. Swapped(t, b, x, y)
    BY <1>1, <1>3, <2>1 DEF Swapped
  <2>4. SwapFacts(t, b, x, y, L, R, e, a)
    BY <2>3, SwapIs
  <2> HIDE DEF L, R, e, a
  <2>5. /\ L \in Nodes /\ R \in Nodes /\ e \in Nodes /\ a \in Nodes /\ y \in Nodes
        /\ L # x /\ y # x /\ L # y /\ a # y /\ e # L /\ L # Nil /\ R # Nil
    <3>1. /\ L \in b[t.root] /\ R \in b[t.root] /\ y \in b[t.root] /\ e \in Nodes
          /\ L # x /\ y # x /\ L # y /\ a # y /\ e # L /\ a \in b[x] /\ b[x] \subseteq b[t.root]
      BY <1>1, <2>4, KidFacts DEF SwapFacts
    <3> QED BY <1>1, <1>3, <3>1, KidFacts
  <2>6. t.parent[x] # y
    <3>1. SUFFICES ASSUME t.parent[x] = y PROVE FALSE
      OBVIOUS
    <3>2. y \in b[t.root] /\ y \in b[x] /\ y # Nil /\ x # Nil
      BY <1>1, <2>4, KidFacts DEF SwapFacts
    <3>3. x # t.root
      BY <1>1, <3>1, <3>2 DEF Linked
    <3>4. t.kid[Hangs(t, x)][y] = x /\ Hangs(t, x) \in Side
      BY <1>1, <3>1, <3>3, HangsAt
    <3>5. x \in b[y]
      BY <1>1, <3>2, <3>4, KidFacts
    <3> QED BY <1>1, <2>5, <3>2, <3>5, Antisymmetric
  <2>7. SeatedIs(t, r, x, y, L, R, e, a)
    BY <1>1, <2>5, <2>6, SeatIs
  <2> HIDE DEF r
  <2>8. Swap(t, b, x, y, L, R, e, a, r)
    BY <2>3, <2>4, <2>7 DEF Swap
  <2>9. \E d : Became(t, v, d, K, K)
    BY <2>2, <2>8, SwapDeleted
  <2> QED BY <1>3, <2>9 DEF v, L
<1> QED BY <1>2, <1>3, Zenon

-----------------------------------------------------------------------------
(* What a subtree holds.                                                   *)

(* A key outside a subtree is smaller than all of it, or larger.           *)
Beside(b, k, n) == (\A j \in b[n] : j < k) \/ (\A j \in b[n] : k < j)

(* The keys of a subtree are neighbours.                                   *)
LEMMA Interval ==
  ASSUME NEW t, NEW b, Linked(t, b), NEW n \in b[t.root], NEW k \in b[t.root], k \notin b[n]
  PROVE  Beside(b, k, n)
<1> DEFINE T == {m \in b[t.root] : \E q, z \in b[m] : z \notin b[q] /\ ~Beside(b, z, q)}
<1>0. \A m \in b[t.root] :
        /\ m \in Nat /\ b[m] \subseteq Nat /\ b[m] \subseteq b[t.root] /\ m \in b[m]
        /\ \A u \in Side : \A j \in b[t.kid[u][m]] : On(u, j, m)
        /\ \A u \in Side : t.kid[u][m] # Nil => t.kid[u][m] \in b[t.root]
        /\ b[m] = {m} \cup b[t.kid["left"][m]] \cup b[t.kid["right"][m]]
  <2>1. b[t.root] \subseteq Nat
    BY RootOf, Basics
  <2> QED BY <2>1, KidFacts DEF Linked
<1>1. T = {}
  <2>1. SUFFICES ASSUME T # {} PROVE FALSE
    OBVIOUS
  <2>2. T \in SUBSET b[t.root]
    OBVIOUS
  <2>3. PICK m \in T : \A s \in Side : t.kid[s][m] \notin T
    <3> HIDE DEF T
    <3> QED BY <2>1, <2>2, FromLeaves
  <2>4. PICK q \in b[m], z \in b[m] : z \notin b[q] /\ ~Beside(b, z, q)
    OBVIOUS
  <2>5. m \in b[t.root] /\ q \in b[t.root] /\ z \in b[t.root]
    BY <1>0, <2>4
  <2>6. q # m
    BY <2>4
  <2>7. PICK s \in Side : q \in b[t.kid[s][m]]
    BY <1>0, <2>4, <2>5, <2>6, Basics
  <2>8. t.kid[s][m] # Nil
    BY <2>7 DEF Linked
  <2>9. t.kid[s][m] \in b[t.root] /\ b[q] \subseteq b[t.kid[s][m]]
    BY <1>0, <2>5, <2>7, <2>8, Nested
  <2>10. \A j \in b[q] : On(s, j, m) /\ j \in Nat
    BY <1>0, <2>5, <2>9
  <2>11. z \notin b[t.kid[s][m]]
    <3>1. t.kid[s][m] \notin T
      BY <2>3, Zenon
    <3> QED BY <2>4, <2>7, <2>9, <3>1
  <2>12. z = m \/ On(Opp(s), z, m)
    <3>1. b[m] = {m} \cup b[t.kid[s][m]] \cup b[t.kid[Opp(s)][m]] /\ Opp(s) \in Side
      BY <2>5, KidsOf, Basics
    <3> QED BY <1>0, <2>4, <2>5, <2>11, <3>1, Zenon
  <2>13. m \in Nat /\ z \in Nat
    BY <1>0, <2>5
  <2>14. CASE s = "left"
    BY <2>4, <2>10, <2>12, <2>13, <2>14 DEF On, Opp, Beside
  <2>15. CASE s = "right"
    BY <2>4, <2>10, <2>12, <2>13, <2>15 DEF On, Opp, Beside
  <2> QED BY <2>14, <2>15, Basics
<1>2. t.root \in b[t.root]
  BY RootOf
<1> QED BY <1>1, <1>2

(* b is what the property's recursive definition computes.                 *)
LEMMA BelowIs ==
  ASSUME NEW t, NEW b, Linked(t, b)
  PROVE  /\ \A n \in b[t.root] : Below(t, n) = b[n]
         /\ Below(t, Nil) = {} /\ Below(t, t.root) = b[t.root]
<1> DEFINE Eq(h) == h = [m \in Nodes |->
                           IF m = Nil THEN {}
                           ELSE {m} \cup h[t.kid["left"][m]] \cup h[t.kid["right"][m]]]
           f == CHOOSE h : Eq(h)
           g == [m \in Nodes |->
                   IF m = Nil THEN {} ELSE {m} \cup b[t.kid["left"][m]] \cup b[t.kid["right"][m]]]
<1>0. /\ "left" \in Side /\ "right" \in Side /\ Nodes = Keys \cup {Nil} /\ Nil \notin Keys
      /\ b[t.root] \subseteq Keys /\ t.root \in Nodes
  BY RootOf, Basics
<1>1. /\ \A n \in Keys, s \in Side : t.kid[s][n] \in b[t.root] \cup {Nil}
      /\ \A n \in b[t.root] : b[n] = {n} \cup b[t.kid["left"][n]] \cup b[t.kid["right"][n]]
      /\ b[Nil] = {}
  BY KidFacts DEF Linked
<1>2. \A n \in b[t.root] \cup {Nil} : g[n] = b[n]
  BY <1>0, <1>1
<1>3. Eq(g)
  <2>1. \A m \in Keys : /\ g[t.kid["left"][m]] = b[t.kid["left"][m]]
                        /\ g[t.kid["right"][m]] = b[t.kid["right"][m]]
    BY <1>0, <1>1, <1>2, Zenon
  <2>2. \A m \in Nodes :
          g[m] = IF m = Nil THEN {} ELSE {m} \cup b[t.kid["left"][m]] \cup b[t.kid["right"][m]]
    OBVIOUS
  <2>3. g = [m \in Nodes |-> g[m]]
    OBVIOUS
  <2> HIDE DEF g
  <2>4. ASSUME NEW m \in Nodes
        PROVE  g[m] = IF m = Nil THEN {}
                      ELSE {m} \cup g[t.kid["left"][m]] \cup g[t.kid["right"][m]]
    BY <1>0, <2>1, <2>2
  <2>5. [m \in Nodes |-> g[m]] =
          [m \in Nodes |-> IF m = Nil THEN {}
                           ELSE {m} \cup g[t.kid["left"][m]] \cup g[t.kid["right"][m]]]
    BY <2>4
  <2> QED BY <2>3, <2>5
<1>4. Eq(f)
  <2> HIDE DEF Eq
  <2> QED BY <1>3
<1>5. \A n \in Nodes : Below(t, n) = f[n]
  BY Zenon DEF Below
<1> HIDE DEF f, g
<1>6. \A m \in Nodes : f[m] = IF m = Nil THEN {}
                              ELSE {m} \cup f[t.kid["left"][m]] \cup f[t.kid["right"][m]]
  BY <1>4, Zenon
<1> HIDE DEF Eq
<1>7. f[Nil] = {}
  BY <1>0, <1>6
<1>8. \A n \in b[t.root] : f[n] = b[n]
  <2> DEFINE T == {n \in b[t.root] : f[n] # b[n]}
  <2>1. SUFFICES ASSUME T # {} PROVE FALSE
    OBVIOUS
  <2>2. T \in SUBSET b[t.root]
    OBVIOUS
  <2>3. PICK n \in T : \A s \in Side : t.kid[s][n] \notin T
    <3> HIDE DEF T
    <3> QED BY <2>1, <2>2, FromLeaves
  <2>4. n \in b[t.root] /\ n \in Keys /\ n \in Nodes /\ n # Nil /\ f[n] # b[n]
    BY <1>0
  <2>5. ASSUME NEW s \in Side PROVE f[t.kid[s][n]] = b[t.kid[s][n]]
    <3>1. t.kid[s][n] \in b[t.root] \cup {Nil} /\ t.kid[s][n] \notin T
      BY <1>1, <2>3, <2>4
    <3> QED BY <1>1, <1>7, <3>1
  <2>6. f[n] = {n} \cup f[t.kid["left"][n]] \cup f[t.kid["right"][n]]
    BY <1>6, <2>4
  <2>7. f[t.kid["left"][n]] = b[t.kid["left"][n]] /\ f[t.kid["right"][n]] = b[t.kid["right"][n]]
    BY <1>0, <2>5
  <2> QED BY <1>1, <2>4, <2>6, <2>7
<1>9. t.root = Nil \/ t.root \in b[t.root]
  BY RootOf
<1> QED BY <1>0, <1>1, <1>5, <1>7, <1>8, <1>9

-----------------------------------------------------------------------------
(* pick().                                                                 *)

(* How far pick() has come: below the node are the keys held from min to   *)
(* hi, all before min are held, and there is a gap unless every turn was   *)
(* to the right.                                                           *)
Picking(H, b, p, hi) ==
  /\ p.min > 0 /\ hi \in Nat /\ hi <= MaxKey
  /\ \A k \in Keys : k < p.min => k \in H
  /\ p.node = Nil \/ p.node \in H
  /\ \A k \in Keys : k \in b[p.node] <=> k \in H /\ p.min <= k /\ k <= hi
  /\ N(b, p.node) + p.min < hi + 1 \/ (hi = MaxKey /\ p.id = p.min)
  /\ p.id = p.min \/ p.id = hi

(* How many numbers an interval holds, and when it is full.                *)
LEMMA Counted ==
  ASSUME NEW S \in SUBSET Nat, NEW lo \in Nat \ {0}, NEW hi \in Nat,
         \A k \in S : lo <= k /\ k <= hi, lo <= hi + 1
  PROVE  /\ Cardinality(S) \in Nat /\ Cardinality(S) + lo <= hi + 1
         /\ Cardinality(S) + lo = hi + 1 => \A k \in Nat : lo <= k /\ k <= hi => k \in S
<1>1. IsFiniteSet(lo..hi) /\ Cardinality(lo..hi) = hi + 1 - lo
  <2>1. IsFiniteSet(lo..hi) /\ Cardinality(lo..hi) = IF lo > hi THEN 0 ELSE hi - lo + 1
    BY FS_Interval
  <2> QED BY <2>1
<1>2. S \subseteq lo..hi
  OBVIOUS
<1>3. /\ IsFiniteSet(S) /\ Cardinality(S) <= Cardinality(lo..hi)
      /\ Cardinality(S) = Cardinality(lo..hi) => S = lo..hi
  BY <1>1, <1>2, FS_Subset
<1>4. Cardinality(S) \in Nat
  BY <1>3, FS_CardinalityType
<1> QED BY <1>1, <1>3, <1>4

(* A turn of pick() has the type of its variables.                         *)
LEMMA PickTypes ==
  ASSUME NEW t \in Trees, NEW p \in Picks
  PROVE  PickBody(t, p) \in Picks
<1>1. p.node \in Nodes /\ p.min \in Nat /\ p.id \in Nat
  BY DEF Picks
<1>2. /\ t.kid["left"][p.node] \in Nodes /\ t.kid["right"][p.node] \in Nodes
  BY <1>1, TreeParts, Basics
<1>3. t.size[t.kid["left"][p.node]] \in Nat
  BY <1>2, TreeParts
<1>4. p.node # Nil => p.node - 1 \in Nat /\ p.node + 1 \in Nat
  <2>1. p.node \in Nat /\ Nil = 0
    BY <1>1, SortedMapAssumption DEF Nodes, Keys, Nil
  <2> QED BY <2>1
<1>5. RankAfter(t, p.node, p.min) \in Nat
  BY <1>1, <1>3 DEF RankAfter
<1> QED BY <1>1, <1>2, <1>4, <1>5 DEF PickBody, Picks

(* A turn of pick() goes down, and knows as much of the subtree.           *)
LEMMA PickTurn ==
  ASSUME NEW t, NEW b, Sound(t, b), NEW p \in Picks, p.node # Nil,
         NEW hi, Picking(b[t.root], b, p, hi)
  PROVE  /\ \E h : Picking(b[t.root], b, PickBody(t, p), h)
         /\ N(b, PickBody(t, p).node) < N(b, p.node)
<1> DEFINE H == b[t.root]
           n == p.node
           l == t.kid["left"][n]
           r == t.kid["right"][n]
           q == PickBody(t, p)
<1>1. /\ Linked(t, b) /\ \A m \in H : Good(t, b, m)
      /\ MaxKey \in Nat /\ Keys = 1..MaxKey /\ p.min \in Nat /\ hi \in Nat
      /\ "left" \in Side /\ "right" \in Side /\ "left" # "right"
      /\ Opp("left") = "right" /\ Opp("right") = "left"
  BY Basics DEF Sound, Picks, Keys, Picking, Opp
<1> HIDE DEF H
<1>2. n \in H /\ n \in Keys /\ n \in Nodes /\ n \in b[n] /\ H \subseteq Keys
  <2>1. n \in H
    BY DEF Picking, H
  <2> QED BY <1>1, <2>1, KidFacts, RootOf DEF H
<1>3. /\ p.min > 0 /\ hi <= MaxKey
      /\ \A k \in Keys : k < p.min => k \in H
      /\ \A k \in Keys : k \in b[n] <=> k \in H /\ p.min <= k /\ k <= hi
      /\ N(b, n) + p.min < hi + 1 \/ (hi = MaxKey /\ p.id = p.min)
  BY DEF Picking, H
<1>4. /\ l \in Nodes /\ r \in Nodes
      /\ N(b, n) = N(b, l) + N(b, r) + 1 /\ N(b, l) < N(b, n) /\ N(b, r) < N(b, n)
      /\ N(b, l) \in Nat /\ N(b, r) \in Nat
  <2>1. \A m \in b[t.root], s \in Side :
          /\ t.kid[s][m] \in Nodes /\ N(b, m) = N(b, t.kid[s][m]) + N(b, t.kid[Opp(s)][m]) + 1
          /\ N(b, t.kid[s][m]) < N(b, m)
    BY <1>1, CountOf
  <2>2. l \in Nodes /\ r \in Nodes
        /\ N(b, n) = N(b, l) + N(b, r) + 1 /\ N(b, l) < N(b, n) /\ N(b, r) < N(b, n)
    BY <1>1, <1>2, <2>1 DEF H
  <2> QED BY <1>1, <2>2, CountOf
<1>5. t.size[l] = N(b, l)
  <2>1. l = Nil \/ l \in H
    BY <1>1, <1>2, KidFacts DEF H
  <2>2. t.size[Nil] = 0 /\ N(b, Nil) = 0
    <3>1. N(b, Nil) = 0
      BY <1>1, CountOf
    <3> QED BY <1>1, <3>1 DEF Linked
  <2> QED BY <1>1, <2>1, <2>2 DEF Good
<1>6. /\ l = Nil \/ l \in H
      /\ r = Nil \/ r \in H
  BY <1>1, <1>2, KidFacts DEF H
<1>7. /\ b[n] = {n} \cup b[l] \cup b[r]
      /\ \A k \in b[l] : k < n
      /\ \A k \in b[r] : k > n
      /\ b[l] \subseteq Keys /\ b[r] \subseteq Keys
  <2>1. b[n] = {n} \cup b[l] \cup b[r] /\ \A s \in Side : \A k \in b[t.kid[s][n]] : On(s, k, n)
    BY <1>1, <1>2 DEF Linked, H
  <2>2. b[n] \subseteq Keys
    BY <1>1, <1>2 DEF Linked
  <2> QED BY <1>1, <2>1, <2>2 DEF On
<1>8. p.min <= n /\ n <= hi /\ n \in Nat
  BY <1>1, <1>2, <1>3
<1> HIDE DEF l, r, n
<1>9. /\ \A k \in Keys : k \in b[l] <=> k \in H /\ p.min <= k /\ k <= n - 1
      /\ \A k \in Keys : k \in b[r] <=> k \in H /\ n + 1 <= k /\ k <= hi
  BY <1>1, <1>3, <1>7, <1>8
<1>10. q = IF N(b, l) + p.min < n THEN [node |-> l, min |-> p.min, id |-> n - 1]
           ELSE [node |-> r, min |-> p.min + N(b, l) + 1, id |-> n + 1]
  <2>1. n # Nil
    BY <1>2, Basics
  <2>2. p.node = n /\ l = t.kid["left"][n] /\ r = t.kid["right"][n]
    BY DEF n, l, r
  <2>3. q = IF t.size[l] + p.min < n THEN [node |-> l, min |-> p.min, id |-> n - 1]
            ELSE [node |-> r, min |-> p.min + t.size[l] + 1, id |-> n + 1]
    BY <2>1, <2>2 DEF PickBody, RankAfter
  <2> QED BY <1>5, <2>3
<1> HIDE DEF q
<1>11. CASE N(b, l) + p.min < n
  <2>1. q.node = l /\ q.min = p.min /\ q.id = n - 1
    BY <1>10, <1>11
  <2>2. /\ q.min > 0 /\ n - 1 \in Nat /\ n - 1 <= MaxKey
    BY <1>1, <1>2, <1>3, <1>8, <2>1
  <2>3. N(b, l) + p.min < (n - 1) + 1
    BY <1>4, <1>8, <1>11
  <2>4. Picking(H, b, q, n - 1)
    BY <1>3, <1>6, <1>9, <2>1, <2>2, <2>3 DEF Picking
  <2> QED BY <1>4, <2>1, <2>4 DEF q, H, n
<1>12. CASE ~(N(b, l) + p.min < n)
  <2>1. q.node = r /\ q.min = p.min + N(b, l) + 1 /\ q.id = n + 1
    BY <1>10, <1>12
  <2>2. /\ N(b, l) + p.min = n
        /\ \A k \in Nat : p.min <= k /\ k <= n - 1 => k \in b[l]
    <3>1. b[l] \in SUBSET Nat /\ p.min \in Nat \ {0} /\ n - 1 \in Nat /\ p.min <= (n - 1) + 1
          /\ \A k \in b[l] : p.min <= k /\ k <= n - 1
      BY <1>1, <1>2, <1>3, <1>7, <1>8, <1>9
    <3>2. /\ Cardinality(b[l]) \in Nat /\ Cardinality(b[l]) + p.min <= (n - 1) + 1
          /\ Cardinality(b[l]) + p.min = (n - 1) + 1 =>
               \A k \in Nat : p.min <= k /\ k <= n - 1 => k \in b[l]
      <4> DEFINE S == b[l]
                 j == n - 1
      <4>1. S \in SUBSET Nat /\ p.min \in Nat \ {0} /\ j \in Nat /\ p.min <= j + 1
            /\ \A k \in S : p.min <= k /\ k <= j
        BY <3>1
      <4> HIDE DEF S, j
      <4>2. /\ Cardinality(S) \in Nat /\ Cardinality(S) + p.min <= j + 1
            /\ Cardinality(S) + p.min = j + 1 =>
                 \A k \in Nat : p.min <= k /\ k <= j => k \in S
        BY <4>1, Counted
      <4> QED BY <4>2 DEF S, j
    <3> QED BY <1>1, <1>8, <1>12, <3>2 DEF N
  <2>3. q.min = n + 1
    BY <1>1, <1>4, <1>8, <2>1, <2>2
  <2>4. ASSUME NEW k \in Keys, k < q.min PROVE k \in H
    <3>1. CASE k < p.min
      BY <1>3, <3>1
    <3>2. CASE k = n
      BY <1>2, <3>2
    <3>3. CASE p.min <= k /\ k # n
      <4>1. k \in b[l]
        BY <1>1, <1>8, <2>2, <2>3, <2>4, <3>3
      <4> QED BY <1>9, <4>1
    <3> QED BY <1>1, <3>1, <3>2, <3>3
  <2>5. N(b, r) + q.min < hi + 1 \/ (hi = MaxKey /\ q.id = q.min)
    <3>1. N(b, n) + p.min = N(b, r) + q.min
      BY <1>1, <1>4, <1>8, <2>2, <2>3
    <3> QED BY <1>3, <2>1, <2>3, <3>1
  <2>6. Picking(H, b, q, hi)
    BY <1>1, <1>3, <1>6, <1>8, <1>9, <2>1, <2>3, <2>4, <2>5 DEF Picking
  <2> QED BY <1>4, <2>1, <2>6 DEF q, H, n
<1> QED BY <1>11, <1>12

(* pick() returns a free id, and one of 1..MaxKey when there is any.       *)
LEMMA PickIs ==
  ASSUME NEW t, NEW b, Sound(t, b)
  PROVE  /\ Pick(t) \in Nat \ ({0} \cup b[t.root])
         /\ b[t.root] # Keys => Pick(t) \in Keys
<1> DEFINE body == [p \in Picks |-> PickBody(t, p)]
           start == [node |-> t.root, min |-> 1, id |-> 1]
           H == b[t.root]
           I == {z \in Nat \X Picks :
                   /\ \E hi : Picking(H, b, z[2], hi)
                   /\ z[2].node = Nil \/ N(b, z[2].node) + z[1] <= MaxKey}
           w == Loop(body, start)
<1>1. t \in Trees /\ Linked(t, b) /\ MaxKey \in Nat /\ MaxKey > 0 /\ Keys = 1..MaxKey
  BY Basics DEF Sound, Linked, Keys
<1>2. start \in Picks /\ body \in [Picks -> Picks]
  BY <1>1, PickTypes, TreeParts DEF Picks
<1>3. <<0, start>> \in I
  <2>1. /\ N(b, t.root) \in Nat /\ N(b, t.root) <= MaxKey /\ H \subseteq Keys
        /\ t.root = Nil \/ t.root \in H
    BY <1>1, CountOf, RootOf
  <2>2. Picking(H, b, start, MaxKey)
    BY <1>1, <2>1 DEF Picking
  <2> QED BY <1>2, <2>1, <2>2
<1>4. ASSUME NEW i \in 0..(MaxKey - 1), NEW p \in Picks, <<i, p>> \in I
      PROVE  <<i + 1, body[p]>> \in I
  <2>1. PICK hi : Picking(H, b, p, hi)
    BY <1>4
  <2>2. p.node = Nil \/ N(b, p.node) + i <= MaxKey
    BY <1>4
  <2>3. body[p] \in Picks /\ i \in Nat /\ i + 1 \in Nat /\ body[p] = PickBody(t, p)
    BY <1>2
  <2>4. CASE p.node = Nil
    <3>1. body[p] = p
      BY <2>3, <2>4 DEF PickBody
    <3> QED BY <2>1, <2>3, <2>4, <3>1
  <2>5. CASE p.node # Nil
    <3>1. /\ \E h : Picking(H, b, body[p], h)
          /\ N(b, body[p].node) < N(b, p.node)
      BY <2>1, <2>3, <2>5, PickTurn
    <3>2. N(b, body[p].node) \in Nat /\ N(b, p.node) \in Nat
      <4>1. body[p].node \in Nodes /\ p.node \in Nodes
        BY <2>3 DEF Picks
      <4> HIDE DEF body
      <4> QED BY <1>1, <4>1, CountOf
    <3>3. N(b, body[p].node) + (i + 1) <= MaxKey
      BY <1>1, <2>2, <2>3, <2>5, <3>1, <3>2
    <3> QED BY <2>3, <3>1, <3>3
  <2> QED BY <2>4, <2>5
<1> HIDE DEF body, start, I
<1>5. w \in Picks /\ <<MaxKey, w>> \in I
  BY <1>2, <1>3, <1>4, LoopInduction
<1>6. Pick(t) = w.id
  BY DEF Pick, body, start
<1> HIDE DEF w
<1>7. PICK hi : Picking(H, b, w, hi)
  BY <1>5 DEF I
<1>8. w.node = Nil
  <2>1. w.node = Nil \/ N(b, w.node) + MaxKey <= MaxKey
    BY <1>5 DEF I
  <2>2. w.node # Nil => N(b, w.node) > 0
    <3> SUFFICES ASSUME w.node # Nil PROVE N(b, w.node) > 0
      OBVIOUS
    <3>1. w.node \in b[t.root] /\ "left" \in Side
      BY <1>7, Basics DEF Picking
    <3>2. N(b, t.kid["left"][w.node]) < N(b, w.node) /\ t.kid["left"][w.node] \in Nodes
          /\ w.node \in Nodes
      BY <1>1, <3>1, CountOf
    <3> QED BY <1>1, <3>2, CountOf
  <2>3. N(b, w.node) \in Nat
    BY <1>1, <1>5, CountOf DEF Picks
  <2> QED BY <1>1, <2>1, <2>2, <2>3
<1>9. b[w.node] = {} /\ N(b, w.node) = 0
  <2>1. b[Nil] = {}
    BY <1>1 DEF Linked
  <2>2. N(b, Nil) = 0
    BY <1>1, CountOf
  <2> QED BY <1>8, <2>1, <2>2
<1>10. w.min \in Nat /\ w.id \in Nat /\ H \subseteq Keys
  BY <1>1, <1>5, RootOf DEF Picks
<1>11. /\ w.min > 0 /\ hi \in Nat /\ hi <= MaxKey
       /\ \A k \in Keys : k < w.min => k \in H
       /\ \A k \in Keys : ~(k \in H /\ w.min <= k /\ k <= hi)
       /\ w.min < hi + 1 \/ (hi = MaxKey /\ w.id = w.min)
       /\ w.id = w.min \/ w.id = hi
  <2>1. \A k \in Keys : k \in b[w.node] <=> k \in H /\ w.min <= k /\ k <= hi
    BY <1>7 DEF Picking
  <2>2. N(b, w.node) + w.min = w.min
    BY <1>9, <1>10
  <2> QED BY <1>7, <1>9, <2>1, <2>2 DEF Picking
<1> HIDE DEF H
<1>12. CASE w.min < hi + 1
  <2>1. w.id \in Keys /\ w.id \notin H
    BY <1>1, <1>10, <1>11, <1>12
  <2> QED BY <1>1, <1>6, <2>1 DEF H
<1>13. CASE ~(w.min < hi + 1)
  <2>1. hi = MaxKey /\ w.id = w.min /\ w.min > MaxKey
    BY <1>1, <1>10, <1>11, <1>13
  <2>2. w.id \notin Keys /\ w.id # 0
    BY <1>1, <1>10, <2>1
  <2>3. H = Keys
    <3>1. \A k \in Keys : k < w.min
      BY <1>1, <1>10, <2>1
    <3> QED BY <1>10, <1>11, <3>1
  <2> QED BY <1>6, <1>10, <2>2, <2>3 DEF H
<1> QED BY <1>12, <1>13

-----------------------------------------------------------------------------
(* What every operation leaves behind, and the iterator that deletes       *)
(* behind itself.                                                          *)

(* Nothing is left in a node.                                              *)
Blank(t, n) ==
  t.kid["left"][n] = Nil /\ t.kid["right"][n] = Nil /\ t.parent[n] = Nil /\ t.size[n] = 0

(* What every operation leaves behind: c is the node that the iterator     *)
(* still has.                                                              *)
Tidy(t, b, c) ==
  /\ Sound(t, b) /\ \A n \in Nodes : t.size[n] <= MaxKey
  /\ \A n \in Keys \ b[t.root] : n # c => Blank(t, n)

Least(S, n) == n \in S /\ \A k \in S : n <= k

(* The assignments of Forget.                                              *)
LEMMA ForgetIs ==
  ASSUME NEW t \in Trees, NEW n \in Nodes
  PROVE  /\ Forget(t, n) \in Trees /\ Forget(t, n).root = t.root
         /\ \A s \in Side, m \in Nodes :
              Forget(t, n).kid[s][m] = IF m = n THEN Nil ELSE t.kid[s][m]
         /\ \A m \in Nodes : Forget(t, n).parent[m] = IF m = n THEN Nil ELSE t.parent[m]
         /\ \A m \in Nodes : Forget(t, n).size[m] = IF m = n THEN 0 ELSE t.size[m]
<1> DEFINE t1 == [t EXCEPT !.kid["left"][n] = Nil]
           t2 == [t1 EXCEPT !.kid["right"][n] = Nil]
           t3 == [t2 EXCEPT !.parent[n] = Nil]
           r == [t3 EXCEPT !.size[n] = 0]
<1>0. "left" \in Side /\ "right" \in Side /\ Nil \in Nodes /\ 0 \in Nat /\ Side = {"left", "right"}
  BY Basics
<1>1. /\ t1 \in Trees /\ t1.root = t.root /\ t1.parent = t.parent /\ t1.size = t.size
      /\ \A u \in Side, x \in Nodes :
           t1.kid[u][x] = IF u = "left" /\ x = n THEN Nil ELSE t.kid[u][x]
  BY <1>0, SetKid
<1>2. Forget(t, n) = r
  BY <1>0 DEF Forget, Trees
<1> HIDE DEF t1
<1>3. /\ t2 \in Trees /\ t2.root = t1.root /\ t2.parent = t1.parent /\ t2.size = t1.size
      /\ \A u \in Side, x \in Nodes :
           t2.kid[u][x] = IF u = "right" /\ x = n THEN Nil ELSE t1.kid[u][x]
  BY <1>0, <1>1, SetKid
<1> HIDE DEF t2
<1>4. /\ t3 \in Trees /\ t3.root = t2.root /\ t3.kid = t2.kid /\ t3.size = t2.size
      /\ \A x \in Nodes : t3.parent[x] = IF x = n THEN Nil ELSE t2.parent[x]
  BY <1>0, <1>3, SetParent
<1> HIDE DEF t3
<1>5. /\ r \in Trees /\ r.root = t3.root /\ r.kid = t3.kid /\ r.parent = t3.parent
      /\ \A x \in Nodes : r.size[x] = IF x = n THEN 0 ELSE t3.size[x]
  BY <1>0, <1>4, SetSize
<1> HIDE DEF r
<1> QED BY <1>0, <1>1, <1>2, <1>3, <1>4, <1>5

(* Forgetting a node that is not held leaves the tree linked.              *)
LEMMA ForgetLinked ==
  ASSUME NEW t, NEW b, Linked(t, b), NEW n \in Nodes \ b[t.root]
  PROVE  Linked(Forget(t, n), b)
<1> DEFINE r == Forget(t, n)
<1>1. /\ t \in Trees /\ Nodes = Keys \cup {Nil} /\ Nil \notin Keys /\ t.root \in Nodes
      /\ b[t.root] \subseteq Keys
      /\ \A m \in b[t.root], s \in Side : t.kid[s][m] # n \/ t.kid[s][m] = Nil
  <2>1. t \in Trees
    BY DEF Linked
  <2>2. \A m \in b[t.root], s \in Side : t.kid[s][m] # n \/ t.kid[s][m] = Nil
    BY KidFacts
  <2> QED BY <2>1, <2>2, RootOf, Basics
<1>2. /\ r \in Trees /\ r.root = t.root
      /\ \A s \in Side, m \in Nodes : r.kid[s][m] = IF m = n THEN Nil ELSE t.kid[s][m]
      /\ \A m \in Nodes : r.parent[m] = IF m = n THEN Nil ELSE t.parent[m]
      /\ \A m \in Nodes : r.size[m] = IF m = n THEN 0 ELSE t.size[m]
  BY <1>1, ForgetIs
<1> HIDE DEF r
<1>3. /\ \A m \in b[t.root], s \in Side : r.kid[s][m] = t.kid[s][m]
      /\ \A m \in b[t.root], s \in Side :
           t.kid[s][m] # Nil => r.parent[t.kid[s][m]] = t.parent[t.kid[s][m]]
  BY <1>1, <1>2, KidFacts
<1>4. /\ r.parent[t.root] = Nil /\ r.parent[Nil] = Nil /\ r.size[Nil] = 0
      /\ \A s \in Side : r.kid[s][Nil] = Nil
  BY <1>1, <1>2 DEF Linked, Nil
<1>5. \A m \in Keys \ b[t.root], s \in Side : r.kid[s][m] \in b[t.root] \cup {Nil}
  BY <1>1, <1>2 DEF Linked
<1>6. \A m \in b[t.root] : b[m] = {m} \cup b[r.kid["left"][m]] \cup b[r.kid["right"][m]]
  BY <1>3, Basics DEF Linked
<1>7. \A m \in b[t.root], s \in Side : r.kid[s][m] # Nil => r.parent[r.kid[s][m]] = m
  BY <1>3 DEF Linked
<1>8. \A m \in b[t.root], s \in Side : \A k \in b[r.kid[s][m]] : On(s, k, m)
  BY <1>3 DEF Linked
<1>9. Linked(r, b)
  BY <1>1, <1>2, <1>4, <1>5, <1>6, <1>7, <1>8 DEF Linked
<1> QED BY <1>9 DEF r

(* And tidy: nothing is left in any node that is not held.                 *)
LEMMA Forgotten ==
  ASSUME NEW t, NEW b, NEW n \in Nodes, n \notin b[t.root], Tidy(t, b, n)
  PROVE  Tidy(Forget(t, n), b, Nil)
<1> DEFINE r == Forget(t, n)
<1>1. Linked(t, b) /\ t \in Trees /\ MaxKey \in Nat
  BY Basics DEF Tidy, Sound, Linked
<1>2. Linked(r, b)
  BY <1>1, ForgetLinked
<1>3. /\ r \in Trees /\ r.root = t.root
      /\ \A s \in Side, m \in Nodes : r.kid[s][m] = IF m = n THEN Nil ELSE t.kid[s][m]
      /\ \A m \in Nodes : r.parent[m] = IF m = n THEN Nil ELSE t.parent[m]
      /\ \A m \in Nodes : r.size[m] = IF m = n THEN 0 ELSE t.size[m]
  BY <1>1, ForgetIs
<1> HIDE DEF r
<1>4. ASSUME NEW m \in b[t.root] PROVE Good(r, b, m)
  <2>1. m \in Nodes /\ m # n /\ Good(t, b, m) /\ "left" \in Side /\ "right" \in Side
    BY <1>1, RootOf, Basics DEF Tidy, Sound
  <2>2. /\ r.size[m] = t.size[m] /\ r.kid["left"][m] = t.kid["left"][m]
        /\ r.kid["right"][m] = t.kid["right"][m]
    BY <1>3, <2>1
  <2> QED BY <2>1, <2>2 DEF Good
<1>5. \A m \in Nodes : r.size[m] <= MaxKey
  BY <1>1, <1>3 DEF Tidy
<1>6. ASSUME NEW m \in Keys \ b[t.root] PROVE Blank(r, m)
  <2>1. m \in Nodes /\ "left" \in Side /\ "right" \in Side
    BY Basics
  <2>2. m = n \/ Blank(t, m)
    BY <1>6 DEF Tidy
  <2> QED BY <1>3, <2>1, <2>2 DEF Blank
<1>7. Tidy(r, b, Nil)
  BY <1>2, <1>3, <1>4, <1>5, <1>6 DEF Tidy, Sound
<1> QED BY <1>7, Zenon DEF r

(* An operation that leaves alone what it does not hold leaves the map     *)
(* tidy.                                                                   *)
LEMMA StaysTidy ==
  ASSUME NEW t, NEW b, Tidy(t, b, Nil), NEW r, NEW d, NEW K, Became(t, r, d, K, K), NEW c,
         \A k \in b[t.root] : k \in K \/ k = c
  PROVE  Tidy(r, d, c)
<1>1. Sound(r, d) /\ Linked(r, d) /\ d[r.root] = K /\ Frame(t, r, K) /\ Nodes = Keys \cup {Nil}
      /\ Nil \notin Keys /\ "left" \in Side /\ "right" \in Side
  BY Basics DEF Became, Sound
<1>2. ASSUME NEW n \in Nodes PROVE r.size[n] <= MaxKey
  <2>1. CASE n \in K
    <3>1. r.size[n] = N(d, n)
      BY <1>1, <2>1 DEF Sound, Good
    <3> QED BY <1>1, <3>1, CountOf
  <2>2. CASE n \notin K
    BY <1>1, <2>2 DEF Frame, Tidy
  <2> QED BY <2>1, <2>2
<1>3. ASSUME NEW n \in Keys \ d[r.root], n # c PROVE Blank(r, n)
  <2>1. n \in Nodes \ K /\ n # Nil /\ n \in Keys \ b[t.root]
    BY <1>1, <1>3
  <2>2. Blank(t, n)
    BY <2>1 DEF Tidy
  <2> QED BY <1>1, <2>1, <2>2 DEF Blank, Frame
<1> QED BY <1>1, <1>2, <1>3 DEF Tidy

(* What the iterator can still find from a node that has been deleted: the *)
(* least that is held.                                                     *)
Passed(t, b, c) ==
  /\ c \in Keys /\ c \notin b[t.root] /\ \A k \in b[t.root] : c < k
  /\ t.kid["right"][c] # Nil =>
       t.kid["right"][c] \in b[t.root] /\ \E m \in b[t.kid["right"][c]] : Least(b[t.root], m)
  /\ t.kid["right"][c] = Nil /\ t.parent[c] # Nil => Least(b[t.root], t.parent[c])
  /\ t.kid["right"][c] = Nil /\ t.parent[c] = Nil => b[t.root] = {}

(* The least of the keys has no left child.                                *)
LEMMA LeastKid ==
  ASSUME NEW t, NEW b, Linked(t, b), NEW n, Least(b[t.root], n)
  PROVE  t.kid["left"][n] = Nil
<1> SUFFICES ASSUME t.kid["left"][n] # Nil PROVE FALSE
  OBVIOUS
<1> DEFINE l == t.kid["left"][n]
<1>1. n \in b[t.root] /\ "left" \in Side
  BY Basics DEF Least
<1>2. l \in b[t.root] /\ l \in b[l]
  BY <1>1, KidFacts
<1>3. On("left", l, n)
  BY <1>1, <1>2 DEF Linked
<1>4. n <= l /\ l < n
  BY <1>2, <1>3 DEF Least, On
<1>5. n \in Nat /\ l \in Nat
  BY <1>1, <1>2, RootOf, Basics
<1> QED BY <1>4, <1>5

(* The loop stays where its body stays.                                    *)
LEMMA LoopStays ==
  ASSUME NEW S, NEW body \in [S -> S], NEW start \in S, body[start] = start
  PROVE  Loop(body, start) = start
<1> DEFINE I == {z \in Nat \X S : z[2] = start}
<1>0. MaxKey \in Nat
  BY Basics
<1>1. <<0, start>> \in I
  OBVIOUS
<1>2. \A i \in 0..(MaxKey - 1) : \A w \in S : <<i, w>> \in I => <<i + 1, body[w]>> \in I
  OBVIOUS
<1>3. <<MaxKey, Loop(body, start)>> \in I
  <2> HIDE DEF I
  <2> QED BY <1>1, <1>2, LoopInduction
<1> QED BY <1>3

(* The way up ends at once when the node is no right child any more.       *)
LEMMA AscendStays ==
  ASSUME NEW t, NEW b, Linked(t, b), NEW c \in Keys, c \notin b[t.root],
         t.parent[c] = Nil \/ t.parent[c] \in b[t.root]
  PROVE  Ascend(t, c) = t.parent[c]
<1> DEFINE S == [node : Nodes, parent : Nodes]
           body == [w \in S |-> AscendBody(t, w)]
           start == [node |-> c, parent |-> t.parent[c]]
<1>1. t \in Trees /\ c \in Nodes /\ c # Nil /\ "right" \in Side
  BY Basics DEF Linked
<1>2. start \in S
  BY <1>1, TreeParts
<1>3. body \in [S -> S]
  <2> SUFFICES ASSUME NEW w \in S PROVE AscendBody(t, w) \in S
    OBVIOUS
  <2>1. w.parent \in Nodes /\ t.parent[w.parent] \in Nodes
    BY <1>1, TreeParts
  <2> QED BY <2>1 DEF AscendBody
<1>4. t.parent[c] # Nil => t.kid["right"][t.parent[c]] # c
  <2> SUFFICES ASSUME t.parent[c] # Nil PROVE t.kid["right"][t.parent[c]] # c
    OBVIOUS
  <2>1. t.kid["right"][t.parent[c]] = Nil \/ t.kid["right"][t.parent[c]] \in b[t.root]
    BY <1>1, KidFacts
  <2> QED BY <1>1, <2>1
<1>5. body[start] = start
  BY <1>2, <1>4 DEF AscendBody
<1>6. Ascend(t, c) = Loop(body, start).parent
  BY DEF Ascend
<1> HIDE DEF body, S
<1>7. Loop(body, start) = start
  BY <1>2, <1>3, <1>5, LoopStays
<1> QED BY <1>6, <1>7

(* The iterator goes to the least key held, or finds that there is none.   *)
LEMMA UpcomingIs ==
  ASSUME NEW t, NEW b, Linked(t, b), NEW c,
         (c = Nil /\ t.root # Nil) \/ Passed(t, b, c)
  PROVE  /\ Upcoming(t, c) # Nil => Least(b[t.root], Upcoming(t, c))
         /\ Upcoming(t, c) = Nil => b[t.root] = {}
<1>0. b[t.root] \subseteq Keys /\ Nil \notin Keys /\ Keys \subseteq Nat
      /\ (t.root # Nil => t.root \in b[t.root])
  BY RootOf, Basics
<1>1. CASE c = Nil /\ t.root # Nil
  <2>1. Upcoming(t, c) = FirstNode(t, t.root)
    BY <1>1 DEF Upcoming
  <2>2. t.root \in b[t.root]
    BY <1>0, <1>1
  <2>3. Least(b[t.root], FirstNode(t, t.root))
    BY <2>2, FirstIs DEF Least
  <2> QED BY <1>0, <2>1, <2>3 DEF Least
<1>2. CASE Passed(t, b, c)
  <2> DEFINE R == t.kid["right"][c]
             p == t.parent[c]
  <2>1. c \in Keys /\ c # Nil /\ c \notin b[t.root]
    BY <1>0, <1>2 DEF Passed
  <2>2. Upcoming(t, c) = IF R # Nil THEN FirstNode(t, R) ELSE Ascend(t, c)
    BY <2>1 DEF Upcoming, NextNode
  <2>3. CASE R # Nil
    <3>1. R \in b[t.root]
      BY <1>2, <2>3 DEF Passed
    <3>2. PICK m \in b[R] : Least(b[t.root], m)
      BY <1>2, <2>3 DEF Passed
    <3>3. FirstNode(t, R) \in b[R] /\ \A k \in b[R] : FirstNode(t, R) <= k
      BY <3>1, FirstIs
    <3>4. b[R] \subseteq b[t.root]
      BY <3>1, KidFacts
    <3>5. FirstNode(t, R) <= m
      BY <3>2, <3>3
    <3>6. m \in Nat /\ FirstNode(t, R) \in Nat /\ FirstNode(t, R) \in b[t.root]
      BY <1>0, <3>2, <3>3, <3>4
    <3>7. \A k \in b[t.root] : FirstNode(t, R) <= k
      BY <1>0, <3>2, <3>5, <3>6 DEF Least
    <3> QED BY <1>0, <2>2, <2>3, <3>6, <3>7 DEF Least
  <2>4. CASE R = Nil
    <3>1. p = Nil \/ p \in b[t.root]
      BY <1>2, <2>4 DEF Passed, Least
    <3>2. Ascend(t, c) = p
      BY <2>1, <3>1, AscendStays
    <3> QED BY <1>2, <2>2, <2>4, <3>2 DEF Passed
  <2> QED BY <2>3, <2>4
<1> QED BY <1>1, <1>2

(* Where the rest hangs when x, the least of the keys, has no left child.  *)
LEMMA RestRight ==
  ASSUME NEW t, NEW b, Linked(t, b), NEW x, Least(b[t.root], x)
  PROVE  LET R == t.kid["right"][x]
             p == t.parent[x]
         IN /\ x \in Keys /\ R \in Nodes /\ x \notin b[R] /\ b[x] = {x} \cup b[R]
            /\ R # Nil => /\ R \in b[t.root] \ {x} /\ R \in b[R]
                          /\ \A k \in b[t.root] \ {x} : k \in b[R] \/ \A j \in b[R] : j < k
            /\ R = Nil /\ p = Nil => b[t.root] = {x}
            /\ R = Nil /\ p # Nil => p \in b[t.root] \ {x} /\ \A k \in b[t.root] \ {x} : p <= k
<1> DEFINE R == t.kid["right"][x]
           p == t.parent[x]
           H == b[t.root]
<1>1. /\ x \in H /\ "left" \in Side /\ "right" \in Side /\ Opp("left") = "right"
      /\ H \subseteq Keys /\ Keys \subseteq Nat /\ Nil \notin Keys
      /\ \A k \in H : x <= k
  BY RootOf, Basics DEF Least, Opp
<1>2. t.kid["left"][x] = Nil /\ b[Nil] = {}
  <2>1. t.kid["left"][x] = Nil
    BY LeastKid
  <2> QED BY <2>1 DEF Linked
<1>3. R \in Nodes /\ x \notin b[R] /\ (R # Nil => R \in H \ {x} /\ R \in b[R])
  BY <1>1, KidFacts
<1>4. b[x] = {x} \cup b[R]
  <2>1. b[x] = {x} \cup b[t.kid["left"][x]] \cup b[t.kid["right"][x]]
    BY <1>1 DEF Linked
  <2> QED BY <1>2, <2>1
<1>5. ASSUME NEW k \in H, k \notin b[x] PROVE \A j \in b[x] : j < k
  <2>1. Beside(b, k, x)
    BY <1>1, <1>5, Interval
  <2>2. x \in b[x] /\ x <= k /\ k \in Nat /\ x \in Nat
    BY <1>1, <1>4, <1>5
  <2> QED BY <2>1, <2>2 DEF Beside
<1>6. ASSUME NEW k \in H \ {x} PROVE k \in b[R] \/ \A j \in b[R] : j < k
  BY <1>4, <1>5, <1>6
<1>7. ASSUME R = Nil, p = Nil PROVE H = {x}
  <2>1. x = t.root
    BY <1>1, <1>7, RootOf
  <2> QED BY <1>2, <1>4, <1>7, <2>1
<1>8. ASSUME R = Nil, p # Nil PROVE p \in H \ {x} /\ \A k \in H \ {x} : p <= k
  <2>1. x # t.root
    BY <1>1, <1>8, RootOf
  <2>2. /\ p \in H /\ p # x /\ Hangs(t, x) \in Side /\ t.kid[Hangs(t, x)][p] = x
    BY <1>1, <2>1, HangsAt
  <2>3. x \in b[x] /\ b[x] = {x}
    BY <1>2, <1>4, <1>8
  <2>4. p \in Nat /\ x \in Nat /\ x <= p
    BY <1>1, <2>2
  <2>5. On(Hangs(t, x), x, p)
    BY <2>2, <2>3 DEF Linked
  <2>6. t.kid["left"][p] = x
    BY <2>2, <2>4, <2>5, Basics DEF On
  <2>7. /\ b[p] = {p} \cup {x} \cup b[t.kid["right"][p]]
        /\ \A k \in b[t.kid["right"][p]] : k > p
    <3>1. /\ b[p] = {p} \cup b[t.kid["left"][p]] \cup b[t.kid["right"][p]]
          /\ \A k \in b[t.kid["right"][p]] : On("right", k, p)
      BY <1>1, <2>2 DEF Linked
    <3> QED BY <2>3, <2>6, <3>1, Zenon DEF On
  <2>8. ASSUME NEW k \in H \ {x} PROVE p <= k
    <3>1. CASE k \in b[p]
      <4>1. k = p \/ k \in b[t.kid["right"][p]]
        BY <2>7, <2>8, <3>1, Zenon
      <4>2. k = p \/ k > p
        BY <2>7, <4>1
      <4>3. k \in Nat
        BY <1>1
      <4> QED BY <2>4, <4>2, <4>3
    <3>2. CASE k \notin b[p]
      <4>1. Beside(b, k, p)
        BY <1>1, <2>2, <3>2, Interval
      <4>2. x \in b[p] /\ p \in b[p] /\ x <= k /\ k \in Nat
        BY <1>1, <2>7
      <4> QED BY <2>4, <4>1, <4>2 DEF Beside
    <3> QED BY <3>1, <3>2
  <2> QED BY <2>2, <2>8
<1> QED BY <1>1, <1>3, <1>4, <1>6, <1>7, <1>8

(* The least of the keys is deleted: the iterator can go on.               *)
LEMMA LeastDeleted ==
  ASSUME NEW t, NEW b, Tidy(t, b, Nil), NEW x, Least(b[t.root], x)
  PROVE  \E d : /\ Tidy(DeleteNode(t, x), d, x) /\ Passed(DeleteNode(t, x), d, x)
                /\ d[DeleteNode(t, x).root] = b[t.root] \ {x}
<1> DEFINE R == t.kid["right"][x]
           p == t.parent[x]
           H == b[t.root]
           r == DeleteNode(t, x)
<1>1. Sound(t, b) /\ Linked(t, b) /\ x \in H /\ H \subseteq Keys /\ Keys \subseteq Nat /\ x \in Nat
      /\ Keys \subseteq Nodes /\ Nil \notin Keys /\ "right" \in Side
  BY RootOf, Basics DEF Tidy, Sound, Least
<1>2. Clean(t, b)
  <2>1. \A n \in Keys \ b[t.root] : Blank(t, n)
    BY <1>1 DEF Tidy
  <2> QED BY <2>1, Basics DEF Clean, Blank
<1>3. PICK d : Became(t, r, d, H \ {x}, H \ {x}) /\ Same(d, b, R)
  <2>1. t.kid["left"][x] = Nil
    BY <1>1, LeastKid
  <2> QED BY <1>1, <1>2, <2>1, Deleted
<1>4. Tidy(r, d, x)
  <2>1. \A k \in b[t.root] : k \in H \ {x} \/ k = x
    OBVIOUS
  <2> HIDE DEF H, r
  <2> QED BY <1>3, <2>1, StaysTidy
<1>5. d[r.root] = H \ {x} /\ r.kid["right"][x] = R /\ r.parent[x] = p
  <2>1. Frame(t, r, H \ {x}) /\ d[r.root] = H \ {x}
    BY <1>3 DEF Became
  <2>2. x \in Nodes \ (H \ {x})
    BY <1>1
  <2> QED BY <1>1, <2>1, <2>2 DEF Frame
<1>6. /\ x \in Keys /\ R \in Nodes /\ x \notin b[R] /\ b[x] = {x} \cup b[R]
      /\ R # Nil => /\ R \in H \ {x} /\ R \in b[R]
                    /\ \A k \in H \ {x} : k \in b[R] \/ \A j \in b[R] : j < k
      /\ R = Nil /\ p = Nil => H = {x}
      /\ R = Nil /\ p # Nil => p \in H \ {x} /\ \A k \in H \ {x} : p <= k
  BY <1>1, RestRight
<1>7. \A k \in H \ {x} : x < k
  <2> SUFFICES ASSUME NEW k \in H \ {x} PROVE x < k
    OBVIOUS
  <2>1. x <= k
    BY DEF Least
  <2>2. k \in Nat
    BY <1>1
  <2> QED BY <1>1, <2>1, <2>2
<1>8. ASSUME R # Nil PROVE R \in H \ {x} /\ \E m \in d[R] : Least(H \ {x}, m)
  <2>1. R \in H /\ R \in b[R] /\ d[R] = b[R] /\ b[R] \subseteq H
    BY <1>1, <1>3, <1>6, <1>8, KidFacts DEF Same
  <2>2. PICK m \in b[R] : \A k \in b[R] : m <= k
    <3>1. b[R] \in SUBSET Nat /\ b[R] # {}
      BY <1>1, <2>1
    <3> HIDE DEF R
    <3> QED BY <3>1, LeastOf
  <2>3. m \in H \ {x} /\ m \in Nat
    BY <1>1, <1>6, <2>1, <2>2
  <2>4. \A k \in H \ {x} : m <= k
    <3> SUFFICES ASSUME NEW k \in H \ {x} PROVE m <= k
      OBVIOUS
    <3>1. k \in Nat /\ (k \in b[R] \/ m < k)
      BY <1>1, <1>6, <1>8, <2>2
    <3> QED BY <2>2, <2>3, <3>1
  <2> QED BY <1>6, <1>8, <2>1, <2>2, <2>3, <2>4 DEF Least
<1> HIDE DEF r, R, p, H
<1>9. Passed(r, d, x)
  BY <1>5, <1>6, <1>7, <1>8 DEF Passed, Least
<1> QED BY <1>4, <1>5, <1>9 DEF r, H

-----------------------------------------------------------------------------
(* The invariant of the map.                                               *)

(* What every state satisfies, b being the keys at and below each node.    *)
Scanning(t, b, c, on) ==
  /\ Tidy(t, b, c)
  /\ c # Nil => Passed(t, b, c)
  /\ on = "off" => c = Nil
  /\ on = "on" /\ c = Nil => t.root # Nil

Inv ==
  /\ cursor \in Nodes /\ scan \in {"off", "on"}
  /\ \E b : Scanning(tree, b, cursor, scan)

(* The empty map.                                                          *)
LEMMA InitInv == Init => Inv
<1> SUFFICES ASSUME Init PROVE Inv
  OBVIOUS
<1> DEFINE b == [n \in Nodes |-> IF n = Nil THEN {} ELSE {n}]
<1>0. /\ tree = Empty /\ cursor = Nil /\ scan = "off" /\ MaxKey \in Nat
      /\ Nil \in Nodes /\ Nodes = Keys \cup {Nil} /\ Nil \notin Keys /\ 0 \in Nat
      /\ "left" \in Side /\ "right" \in Side
  BY Basics DEF Init
<1>1. /\ tree \in Trees /\ tree.root = Nil
      /\ \A s \in Side, n \in Nodes : tree.kid[s][n] = Nil
      /\ \A n \in Nodes : tree.parent[n] = Nil /\ tree.size[n] = 0
  BY <1>0 DEF Empty, Trees
<1>2. b \in [Nodes -> SUBSET Keys] /\ b[Nil] = {} /\ \A n \in Keys : n \in b[n]
  BY <1>0
<1> HIDE DEF b
<1>3. Linked(tree, b)
  BY <1>0, <1>1, <1>2 DEF Linked, Nil
<1>4. Tidy(tree, b, cursor)
  BY <1>0, <1>1, <1>2, <1>3 DEF Tidy, Sound, Blank
<1> QED BY <1>0, <1>4 DEF Inv, Scanning

(* The keys held, in every state.                                          *)
LEMMA HeldIs ==
  ASSUME NEW b, Scanning(tree, b, cursor, scan)
  PROVE  Linked(tree, b) /\ Sound(tree, b) /\ Held = b[tree.root]
<1>1. Linked(tree, b) /\ Sound(tree, b)
  BY DEF Scanning, Tidy, Sound
<1> QED BY <1>1, BelowIs DEF Held

(* contains() finds what is held.                                          *)
LEMMA ContainsIs ==
  ASSUME NEW t, NEW b, Linked(t, b), NEW key \in Keys
  PROVE  Contains(t, key) <=> key \in b[t.root]
<1>1. t.root = Nil => b[t.root] = {}
  BY RootOf
<1>2. t.root # Nil => (Find(t, key, t.root) = key <=> key \in b[t.root])
  BY FindIs
<1> QED BY <1>1, <1>2 DEF Contains

(* set() keeps the invariant.                                              *)
LEMMA SetInv ==
  ASSUME Inv, NEW key \in Keys, Set(key)
  PROVE  Inv'
<1>1. PICK b : Scanning(tree, b, cursor, scan)
  BY DEF Inv
<1>2. /\ scan = "off" /\ tree' = InsertNode(tree, key) /\ cursor' = cursor /\ scan' = scan
      /\ cursor = Nil /\ Tidy(tree, b, Nil) /\ Sound(tree, b)
  BY <1>1 DEF Set, Scanning, Tidy
<1> DEFINE K == b[tree.root] \cup {key}
<1>3. PICK d : Became(tree, InsertNode(tree, key), d, K, K)
  BY <1>2, Inserted
<1>4. Tidy(InsertNode(tree, key), d, Nil)
  <2>1. \A k \in b[tree.root] : k \in K \/ k = Nil
    OBVIOUS
  <2> HIDE DEF K
  <2> QED BY <1>2, <1>3, <2>1, StaysTidy
<1>5. Scanning(tree', d, cursor', scan')
  BY <1>2, <1>4 DEF Scanning
<1> QED BY <1>2, <1>5, Basics DEF Inv

(* delete() keeps the invariant.                                           *)
LEMMA DeleteInv ==
  ASSUME Inv, NEW key \in Keys, Delete(key)
  PROVE  Inv'
<1>1. PICK b : Scanning(tree, b, cursor, scan)
  BY DEF Inv
<1> DEFINE r == DeleteNode(tree, key)
           K == b[tree.root] \ {key}
<1>2. /\ scan = "off" /\ Contains(tree, key) /\ tree' = Forget(r, key)
      /\ cursor' = cursor /\ scan' = scan
      /\ cursor = Nil /\ Tidy(tree, b, Nil) /\ Sound(tree, b) /\ Linked(tree, b)
  BY <1>1 DEF Delete, Scanning, Tidy, Sound
<1>3. key \in b[tree.root]
  BY <1>2, ContainsIs
<1>4. Clean(tree, b)
  <2>1. \A n \in Keys \ b[tree.root] : Blank(tree, n)
    BY <1>2, Basics DEF Tidy
  <2> QED BY <2>1, Basics DEF Clean, Blank
<1>5. PICK d : Became(tree, r, d, K, K)
  BY <1>2, <1>3, <1>4, Deleted
<1>6. Tidy(r, d, key)
  <2>1. \A k \in b[tree.root] : k \in K \/ k = key
    OBVIOUS
  <2> HIDE DEF K, r
  <2> QED BY <1>2, <1>5, <2>1, StaysTidy
<1>7. key \in Nodes /\ key \notin d[r.root]
  BY <1>5, Basics DEF Became
<1> HIDE DEF r, K
<1>8. Tidy(Forget(r, key), d, Nil)
  BY <1>6, <1>7, Forgotten
<1>9. Scanning(tree', d, cursor', scan')
  BY <1>2, <1>8 DEF Scanning
<1> QED BY <1>2, <1>9, Basics DEF Inv

(* What the iterator returns next, and what it finds when it is done.      *)
LEMMA NextKey ==
  ASSUME NEW b, Scanning(tree, b, cursor, scan), scan = "on"
  PROVE  /\ Upcoming(tree, cursor) # Nil => Least(b[tree.root], Upcoming(tree, cursor))
         /\ Upcoming(tree, cursor) = Nil => b[tree.root] = {}
<1>1. Linked(tree, b) /\ ((cursor = Nil /\ tree.root # Nil) \/ Passed(tree, b, cursor))
  BY HeldIs DEF Scanning
<1> QED BY <1>1, UpcomingIs

(* The iterator leaves a deleted node.                                     *)
LEMMA CursorForgotten ==
  ASSUME NEW b, Scanning(tree, b, cursor, scan), cursor \in Nodes
  PROVE  /\ Tidy(Forget(tree, cursor), b, Nil) /\ Forget(tree, cursor).root = tree.root
<1>1. Tidy(tree, b, cursor) /\ Linked(tree, b) /\ tree \in Trees
  BY DEF Scanning, Tidy, Sound, Linked
<1>2. cursor \notin b[tree.root]
  <2>1. cursor = Nil => cursor \notin b[tree.root]
    <3>1. b[tree.root] \subseteq Keys /\ Nil \notin Keys
      BY <1>1, RootOf, Basics
    <3> QED BY <3>1
  <2> QED BY <2>1 DEF Scanning, Passed
<1> QED BY <1>1, <1>2, Forgotten, ForgetIs

(* A step of the iteration and the deletion that follows keep the          *)
(* invariant.                                                              *)
LEMMA ScanStepInv ==
  ASSUME Inv, ScanStep
  PROVE  Inv'
<1>1. PICK b : Scanning(tree, b, cursor, scan)
  BY DEF Inv
<1> DEFINE next == Upcoming(tree, cursor)
           t == Forget(tree, cursor)
<1>2. /\ scan = "on" /\ next # Nil /\ cursor' = next /\ scan' = scan
      /\ tree' = IF Contains(t, next) THEN DeleteNode(t, next) ELSE t
  BY DEF ScanStep
<1>3. Least(b[tree.root], next)
  BY <1>1, <1>2, NextKey
<1>4. Tidy(t, b, Nil) /\ t.root = tree.root /\ Linked(t, b)
  BY <1>1, CursorForgotten DEF Inv, Tidy, Sound
<1> HIDE DEF t, next
<1>5. next \in b[t.root] /\ next \in Keys /\ next \in Nodes /\ Least(b[t.root], next)
  <2>1. next \in b[t.root] /\ Least(b[t.root], next)
    BY <1>3, <1>4 DEF Least
  <2> QED BY <1>4, <2>1, RootOf, Basics
<1>6. tree' = DeleteNode(t, next)
  BY <1>2, <1>4, <1>5, ContainsIs
<1>7. PICK d : Tidy(DeleteNode(t, next), d, next) /\ Passed(DeleteNode(t, next), d, next)
  BY <1>4, <1>5, LeastDeleted
<1>8. Scanning(tree', d, cursor', scan')
  BY <1>2, <1>6, <1>7 DEF Scanning
<1> QED BY <1>2, <1>5, <1>8 DEF Inv

(* The end of the iteration keeps the invariant.                           *)
LEMMA EndScanInv ==
  ASSUME Inv, EndScan
  PROVE  Inv'
<1>1. PICK b : Scanning(tree, b, cursor, scan)
  BY DEF Inv
<1>2. scan' = "off" /\ cursor' = Nil /\ tree' = Forget(tree, cursor)
  BY DEF EndScan
<1>3. Tidy(tree', b, Nil)
  BY <1>1, <1>2, CursorForgotten DEF Inv
<1>4. Scanning(tree', b, cursor', scan')
  BY <1>2, <1>3 DEF Scanning
<1> QED BY <1>2, <1>4, Basics DEF Inv

(* Its beginning keeps the invariant.                                      *)
LEMMA StartScanInv ==
  ASSUME Inv, StartScan
  PROVE  Inv'
<1>1. PICK b : Scanning(tree, b, cursor, scan)
  BY DEF Inv
<1>2. /\ scan = "off" /\ tree.root # Nil /\ scan' = "on" /\ cursor' = Nil /\ tree' = tree
      /\ cursor = Nil
  BY <1>1 DEF StartScan, Scanning
<1>3. Scanning(tree', b, cursor', scan')
  BY <1>1, <1>2 DEF Scanning
<1> QED BY <1>2, <1>3, Basics DEF Inv

(* Every step keeps the invariant.                                         *)
LEMMA NextInv == Inv /\ [Next]_vars => Inv'
<1> SUFFICES ASSUME Inv, [Next]_vars PROVE Inv'
  OBVIOUS
<1>1. ASSUME NEW key \in Keys, Set(key) PROVE Inv'
  BY <1>1, SetInv
<1>2. ASSUME NEW key \in Keys, Delete(key) PROVE Inv'
  BY <1>2, DeleteInv
<1>3. CASE StartScan
  BY <1>3, StartScanInv
<1>4. CASE ScanStep
  BY <1>4, ScanStepInv
<1>5. CASE EndScan
  BY <1>5, EndScanInv
<1>6. CASE UNCHANGED vars
  BY <1>6 DEF vars, Inv
<1> QED BY <1>1, <1>2, <1>3, <1>4, <1>5, <1>6 DEF Next

(* The invariant holds in every state, for every number of keys.           *)
THEOREM Invariance == Spec => []Inv
<1>1. Init => Inv
  BY InitInv
<1>2. Inv /\ [Next]_vars => Inv'
  BY NextInv
<1> QED BY <1>1, <1>2, PTL DEF Spec

(* The invariant says that the tree is in order.                           *)
LEMMA InvWellFormed == Inv => WellFormed
<1> SUFFICES ASSUME Inv PROVE WellFormed
  OBVIOUS
<1>1. PICK b : Scanning(tree, b, cursor, scan)
  BY DEF Inv
<1>2. Linked(tree, b) /\ Sound(tree, b) /\ Held = b[tree.root]
  BY <1>1, HeldIs
<1>3. /\ tree \in Trees /\ \A n \in Nodes : tree.size[n] <= MaxKey
      /\ MaxKey \in Nat /\ "left" \in Side /\ "right" \in Side /\ Nil \in Nodes
  BY <1>1, <1>2, Basics DEF Scanning, Tidy, Linked
<1>4. TypeOK
  <2>1. /\ tree.root \in Nodes /\ tree.parent \in [Nodes -> Nodes]
        /\ tree.kid \in [Side -> [Nodes -> Nodes]] /\ tree.size \in [Nodes -> Nat]
    BY <1>3 DEF Trees
  <2>2. tree.size \in [Nodes -> 0..MaxKey]
    BY <1>3, <2>1
  <2> QED BY <2>1, <2>2 DEF TypeOK, Inv
<1>5. \A n \in b[tree.root] :
        /\ tree.kid["left"][n] \in b[tree.root] \cup {Nil}
        /\ tree.kid["right"][n] \in b[tree.root] \cup {Nil}
        /\ \A k \in b[tree.kid["left"][n]] : k < n
        /\ \A k \in b[tree.kid["right"][n]] : k > n
        /\ \A s \in Side : tree.kid[s][n] # Nil => tree.parent[tree.kid[s][n]] = n
  <2> SUFFICES ASSUME NEW n \in b[tree.root]
               PROVE  /\ tree.kid["left"][n] \in b[tree.root] \cup {Nil}
                      /\ tree.kid["right"][n] \in b[tree.root] \cup {Nil}
                      /\ \A k \in b[tree.kid["left"][n]] : k < n
                      /\ \A k \in b[tree.kid["right"][n]] : k > n
                      /\ \A s \in Side : tree.kid[s][n] # Nil => tree.parent[tree.kid[s][n]] = n
    OBVIOUS
  <2>1. \A s \in Side : /\ tree.kid[s][n] \in b[tree.root] \cup {Nil}
                        /\ tree.kid[s][n] # Nil => tree.parent[tree.kid[s][n]] = n
    BY <1>2, KidFacts
  <2>2. \A s \in Side : \A k \in b[tree.kid[s][n]] : On(s, k, n)
    BY <1>2 DEF Linked
  <2>3. /\ \A k \in b[tree.kid["left"][n]] : On("left", k, n)
        /\ \A k \in b[tree.kid["right"][n]] : On("right", k, n)
    BY <1>3, <2>2
  <2> QED BY <1>3, <2>1, <2>3 DEF On
<1>6. /\ \A n \in b[tree.root] : Below(tree, n) = b[n]
      /\ Below(tree, Nil) = {} /\ b[Nil] = {}
  BY <1>2, BelowIs DEF Linked
<1>7. /\ tree.parent[tree.root] = Nil /\ Kids(tree, Nil) = {Nil}
      /\ tree.parent[Nil] = Nil /\ tree.size[Nil] = 0
  BY <1>2, <1>3 DEF Linked, Kids
<1>8. SearchTree
  <2>1. ASSUME NEW n \in Held
        PROVE  /\ \A k \in Below(tree, tree.kid["left"][n]) : k < n
               /\ \A k \in Below(tree, tree.kid["right"][n]) : k > n
               /\ tree.size[n] = Cardinality(Below(tree, n))
               /\ \A kid \in Kids(tree, n) \ {Nil} : tree.parent[kid] = n
    <3>1. n \in b[tree.root] /\ tree.size[n] = Cardinality(b[n])
      BY <1>2 DEF Sound, Good, N
    <3>2. /\ Below(tree, tree.kid["left"][n]) = b[tree.kid["left"][n]]
          /\ Below(tree, tree.kid["right"][n]) = b[tree.kid["right"][n]]
          /\ Below(tree, n) = b[n]
      BY <1>5, <1>6, <3>1
    <3>3. \A kid \in Kids(tree, n) \ {Nil} : tree.parent[kid] = n
      BY <1>5, <3>1 DEF Kids
    <3> QED BY <1>5, <3>1, <3>2, <3>3
  <2> QED BY <1>7, <2>1 DEF SearchTree
<1>9. Balanced
  <2> SUFFICES ASSUME NEW n \in b[tree.root]
               PROVE  /\ ~Unbalanced(tree, tree.kid["left"][n], tree.kid["right"][n])
                      /\ ~Unbalanced(tree, tree.kid["right"][n], tree.kid["left"][n])
    BY <1>2 DEF Balanced
  <2>1. \A m \in b[tree.root] \cup {Nil} : tree.size[m] = N(b, m) /\ N(b, m) \in Nat
    <3>1. N(b, Nil) = 0 /\ \A m \in Nodes : N(b, m) \in Nat
      BY <1>2, CountOf
    <3>2. b[tree.root] \subseteq Nodes
      BY <1>2, RootOf, Basics
    <3> QED BY <1>2, <1>7, <3>1, <3>2 DEF Sound, Good
  <2>2. Bal(N(b, tree.kid["left"][n]), N(b, tree.kid["right"][n]))
    BY <1>2 DEF Sound, Good
  <2> QED BY <1>5, <2>1, <2>2 DEF Unbalanced, Bal, Delta
<1> QED BY <1>4, <1>8, <1>9 DEF WellFormed

(* After any operations, an iteration that deletes included, the tree is a *)
(* balanced search tree with true sizes and true parents, and the shared   *)
(* NIL node was never written to.                                          *)
THEOREM MapWellFormed == Spec => []WellFormed
BY Invariance, InvWellFormed, PTL

(* pick() in a state of the invariant.                                     *)
LEMMA InvPickFree == Inv => PickFree
<1> SUFFICES ASSUME Inv PROVE PickFree
  OBVIOUS
<1>1. PICK b : Scanning(tree, b, cursor, scan)
  BY DEF Inv
<1>2. Sound(tree, b) /\ Held = b[tree.root]
  BY <1>1, HeldIs
<1> QED BY <1>2, PickIs DEF PickFree

(* pick() never returns an id that is taken, nor one beyond the limit      *)
(* while an id is free.                                                    *)
THEOREM FreeIdPicked == Spec => []PickFree
BY Invariance, InvPickFree, PTL

(* The iteration from a state of the invariant.                            *)
LEMMA StepMeets ==
  ASSUME Inv
  PROVE  /\ ScanStep => cursor' \in Held /\ cursor' > cursor
         /\ EndScan => Held = {}
<1>1. PICK b : Scanning(tree, b, cursor, scan)
  BY DEF Inv
<1>2. Linked(tree, b) /\ Held = b[tree.root]
  BY <1>1, HeldIs
<1>3. ASSUME ScanStep PROVE cursor' \in Held /\ cursor' > cursor
  <2>1. scan = "on" /\ cursor' = Upcoming(tree, cursor) /\ cursor' # Nil
    BY <1>3 DEF ScanStep
  <2>2. Least(b[tree.root], cursor')
    BY <1>1, <2>1, NextKey
  <2>3. cursor' \in Keys
    BY <1>2, <2>2, RootOf DEF Least
  <2>4. cursor = Nil \/ \A k \in b[tree.root] : cursor < k
    BY <1>1 DEF Scanning, Passed
  <2>5. cursor \in Nodes /\ cursor \in Nat /\ cursor' \in Nat /\ Nil = 0 /\ cursor' # 0
    BY <2>1, <2>3, Basics DEF Inv, Nil
  <2> QED BY <1>2, <2>2, <2>4, <2>5 DEF Least
<1>4. ASSUME EndScan PROVE Held = {}
  <2>1. scan = "on" /\ Upcoming(tree, cursor) = Nil
    BY <1>4 DEF EndScan
  <2> QED BY <1>1, <1>2, <2>1, NextKey
<1> QED BY <1>3, <1>4

(* _reset clears every channel that is leased, once and in the order of    *)
(* the ids, though it deletes each entry under the iterator.               *)
THEOREM EachMet == Spec => ScanMeetsEach
<1>1. Inv => [/\ ScanStep => cursor' \in Held /\ cursor' > cursor
              /\ EndScan => Held = {}]_vars
  BY StepMeets
<1> QED BY <1>1, Invariance, PTL DEF ScanMeetsEach
=============================================================================
