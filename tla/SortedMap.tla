----------------------------- MODULE SortedMap -----------------------------
(***************************************************************************)
(* The weight-balanced tree that holds the leased channels by their id     *)
(* (src/src/SortedMap.ts), node by node, with the pointers to the parent   *)
(* that iteration follows, and its use by Connection._reset, which deletes *)
(* the entry the iterator has just returned.                               *)
(*                                                                         *)
(* A node is named by its key, Nil is the shared NIL node.  The node that  *)
(* the iterator has keeps its pointers after its deletion; those of other  *)
(* deleted nodes, which nothing can reach, are forgotten.  What the code   *)
(* writes twice, once for each side, is written once here.  Its loops are  *)
(* bodies that are repeated, not recursive operators.                      *)
(***************************************************************************)
EXTENDS Naturals, FiniteSets

CONSTANT MaxKey    \* bound: the keys are 1..MaxKey

ASSUME SortedMapAssumption == MaxKey \in Nat \ {0}

VARIABLES
  tree,    \* the root and for each node its children, its parent and its size
  cursor,  \* the node that the iterator of _reset has returned last
  scan     \* "off", or the iteration is "on"

vars == <<tree, cursor, scan>>

Nil == 0
Keys == 1..MaxKey
Nodes == Keys \cup {Nil}
Side == {"left", "right"}
Opp(side) == IF side = "left" THEN "right" ELSE "left"

Trees == [root : Nodes, kid : [Side -> [Nodes -> Nodes]], parent : [Nodes -> Nodes],
          size : [Nodes -> Nat]]

Empty ==
  [root |-> Nil, kid |-> [s \in Side |-> [n \in Nodes |-> Nil]],
   parent |-> [n \in Nodes |-> Nil], size |-> [n \in Nodes |-> 0]]

Kids(t, n) == {t.kid[s][n] : s \in Side}
Weigh(t, n) == [t EXCEPT !.size[n] = t.size[t.kid["left"][n]] + t.size[t.kid["right"][n]] + 1]

(* "don't attempt to modify NIL"                                           *)
Reparent(t, n, p) == IF n = Nil THEN t ELSE [t EXCEPT !.parent[n] = p]

(* Hang new where old hangs: at the root, or on its side of old's parent.  *)
Replace(t, old, new) ==
  IF old = t.root THEN [t EXCEPT !.root = new]
  ELSE LET s == IF old = t.kid["left"][t.parent[old]] THEN "left" ELSE "right"
       IN [t EXCEPT !.kid[s][t.parent[old]] = new]

-----------------------------------------------------------------------------
(* Rotations.  The node goes down to the given side, its child comes up.   *)

Rotate(t, n, side) ==
  LET child == t.kid[Opp(side)][n]
      t1 == Reparent([t EXCEPT !.kid[Opp(side)][n] = t.kid[side][child]],
                     t.kid[side][child], n)
      t2 == Replace([t1 EXCEPT !.parent[child] = t.parent[n]], n, child)
      t3 == [t2 EXCEPT !.parent[n] = child, !.kid[side][child] = n,
                       !.size[child] = t.size[n]]
  IN Weigh(t3, n)

Delta == 3
Gamma == 2
Unbalanced(t, a, b) == Delta * (t.size[a] + 1) < t.size[b] + 1
(* Mutant: always a single rotation.                                       *)
AlwaysSingle(t, a, b) == TRUE
Single(t, a, b) == t.size[a] + 1 < Gamma * (t.size[b] + 1)

(* The heavy side of n may have become too heavy: rotate it up.            *)
Balance(t, n, heavy) ==
  LET child == t.kid[heavy][n]
  IN IF ~Unbalanced(t, t.kid[Opp(heavy)][n], child) THEN t
     ELSE IF Single(t, t.kid[Opp(heavy)][child], t.kid[heavy][child])
       THEN Rotate(t, n, Opp(heavy))
       ELSE Rotate(Rotate(t, child, heavy), n, Opp(heavy))

(* The top of what Balance has made of the subtree of n.                   *)
Top(old, new, n) == IF new = old THEN n ELSE new.parent[n]

-----------------------------------------------------------------------------
(* A loop goes along a path of the tree, so MaxKey times are enough; a body *)
(* leaves alone what has come to the end.                                  *)
Loop(body, start) ==
  LET at[i \in 0..MaxKey] == IF i = 0 THEN start ELSE body[at[i - 1]] IN at[MaxKey]

(* The last node on the way from n to the key: its own, or a leaf's.       *)
FindBody(t, key, n) ==
  LET kid == t.kid[IF key < n THEN "left" ELSE "right"][n]
  IN IF key = n \/ kid = Nil THEN n ELSE kid
Find(t, key, n) == Loop([m \in Nodes |-> FindBody(t, key, m)], n)
Contains(t, key) == t.root # Nil /\ Find(t, key, t.root) = key

FirstBody(t, n) == IF t.kid["left"][n] = Nil THEN n ELSE t.kid["left"][n]
FirstNode(t, n) == Loop([m \in Nodes |-> FirstBody(t, m)], n)

(* Walk back to the root after the subtree of node has changed: its parent *)
(* has been weighed again, and may be too heavy on one side.               *)
Walks == [tree : Trees, node : Nodes, parent : Nodes]
Up(weighed, parent, heavy) ==
  LET new == Balance(weighed, parent, heavy)
      top == Top(weighed, new, parent)
  IN [tree |-> new, node |-> top, parent |-> new.parent[top]]
AtRoot(w) == [w.tree EXCEPT !.root = w.node]

(* A leaf was added.                                                       *)
InsertBody(w) ==
  IF w.parent = Nil THEN w
  ELSE Up([w.tree EXCEPT !.size[w.parent] = @ + 1], w.parent,
          IF w.tree.kid["right"][w.parent] = w.node THEN "right" ELSE "left")
AfterInsert(t, node, parent) ==
  AtRoot(Loop([w \in Walks |-> InsertBody(w)], [tree |-> t, node |-> node, parent |-> parent]))

InsertNode(t, key) ==
  LET fresh == [t EXCEPT !.kid["left"][key] = Nil, !.kid["right"][key] = Nil,
                         !.parent[key] = Nil, !.size[key] = 1]
      parent == Find(t, key, t.root)
      side == IF key < parent THEN "left" ELSE "right"
  IN IF t.root = Nil THEN [fresh EXCEPT !.root = key]
     ELSE IF parent = key THEN t
     ELSE AfterInsert([fresh EXCEPT !.parent[key] = parent, !.kid[side][parent] = key],
                      key, parent)

(* A node was taken out below parent.                                      *)
Shrunk(t, n) == Weigh(t, n)
DeleteBody(w) ==
  IF w.parent = Nil THEN w
  ELSE Up(Shrunk(w.tree, w.parent), w.parent,
          IF w.tree.kid["left"][w.parent] = w.node THEN "right" ELSE "left")
AfterDelete(t, node, parent) ==
  AtRoot(Loop([w \in Walks |-> DeleteBody(w)], [tree |-> t, node |-> node, parent |-> parent]))

(* A node with two children gives its place to the next key.               *)
ReplaceByNext(t, node) ==
  LET right == t.kid["right"][node]
      next == FirstNode(t, right)
      child == t.kid["right"][next]
      above == t.parent[next]
      t1 == [t EXCEPT !.kid["left"][next] = t.kid["left"][node],
                      !.parent[t.kid["left"][node]] = next]
      t2 == Replace(t1, node, next)
      t3 == IF above = node THEN t2
            ELSE [Reparent(t2, child, above) EXCEPT
                    !.kid["left"][above] = child,
                    !.kid["right"][next] = right, !.parent[right] = next]
      t4 == [t3 EXCEPT !.parent[next] = t.parent[node]]
  IN AfterDelete(t4, child, IF above = node THEN next ELSE above)

DeleteNode(t, node) ==
  LET child == IF t.kid["left"][node] = Nil THEN t.kid["right"][node]
               ELSE t.kid["left"][node]
  IN IF Nil \notin Kids(t, node) THEN ReplaceByNext(t, node)
     ELSE AfterDelete(Replace(Reparent(t, child, t.parent[node]), node, child),
                      child, t.parent[node])

-----------------------------------------------------------------------------
(* pick(): a missing key, found by comparing keys with ranks.              *)
(* Mutant: the keys on the left are not counted.                           *)
RankAlone(t, n, min) == min + 1
RankAfter(t, n, min) == min + t.size[t.kid["left"][n]] + 1

Picks == [node : Nodes, min : Nat, id : Nat]
PickBody(t, p) ==
  LET low == t.size[t.kid["left"][p.node]] + p.min < p.node
  IN IF p.node = Nil THEN p
     ELSE IF low
       THEN [node |-> t.kid["left"][p.node], min |-> p.min, id |-> p.node - 1]
       ELSE [node |-> t.kid["right"][p.node], min |-> RankAfter(t, p.node, p.min),
             id |-> p.node + 1]
Pick(t) ==
  Loop([p \in Picks |-> PickBody(t, p)], [node |-> t.root, min |-> 1, id |-> 1]).id

-----------------------------------------------------------------------------
(* The iterator: the next node, found from the last one it returned.       *)

AscendBody(t, w) ==
  IF w.parent # Nil /\ w.node = t.kid["right"][w.parent]
    THEN [node |-> w.parent, parent |-> t.parent[w.parent]] ELSE w
Ascend(t, n) ==
  Loop([w \in [node : Nodes, parent : Nodes] |-> AscendBody(t, w)],
       [node |-> n, parent |-> t.parent[n]]).parent

NextNode(t, n) ==
  IF t.kid["right"][n] # Nil THEN FirstNode(t, t.kid["right"][n]) ELSE Ascend(t, n)

(* Mutant: the parent is returned before what is on the right.             *)
UpFirst(t, n) == IF n = Nil THEN FirstNode(t, t.root) ELSE Ascend(t, n)
(* The node that next() returns after n.                                   *)
Upcoming(t, n) == IF n = Nil THEN FirstNode(t, t.root) ELSE NextNode(t, n)

(* A deleted node that nothing refers to.                                  *)
Forget(t, n) ==
  [t EXCEPT !.kid["left"][n] = Nil, !.kid["right"][n] = Nil, !.parent[n] = Nil, !.size[n] = 0]

-----------------------------------------------------------------------------
Init == tree = Empty /\ cursor = Nil /\ scan = "off"

Set(key) ==
  /\ scan = "off" /\ tree' = InsertNode(tree, key)
  /\ UNCHANGED <<cursor, scan>>

Delete(key) ==
  /\ scan = "off" /\ Contains(tree, key)
  /\ tree' = Forget(DeleteNode(tree, key), key)
  /\ UNCHANGED <<cursor, scan>>

(* _reset: each channel is cleared and deletes its own entry.              *)
StartScan ==
  /\ scan = "off" /\ tree.root # Nil
  /\ scan' = "on" /\ cursor' = Nil /\ UNCHANGED tree

ScanStep ==
  LET next == Upcoming(tree, cursor)
  IN /\ scan = "on" /\ next # Nil
     /\ cursor' = next
     /\ tree' = LET t == Forget(tree, cursor)
                IN IF Contains(t, next) THEN DeleteNode(t, next) ELSE t
     /\ UNCHANGED scan

(* The iterator is done.                                                   *)
EndScan ==
  /\ scan = "on" /\ Upcoming(tree, cursor) = Nil
  /\ scan' = "off" /\ cursor' = Nil /\ tree' = Forget(tree, cursor)

Next == (\E key \in Keys : Set(key) \/ Delete(key)) \/ StartScan \/ ScanStep \/ EndScan
Spec == Init /\ [][Next]_vars

-----------------------------------------------------------------------------
(* The type of every variable.                                             *)
TypeOK ==
  /\ tree.root \in Nodes /\ tree.parent \in [Nodes -> Nodes]
  /\ tree.kid \in [Side -> [Nodes -> Nodes]] /\ tree.size \in [Nodes -> 0..MaxKey]
  /\ cursor \in Nodes /\ scan \in {"off", "on"}

(* The keys at and below a node.                                           *)
Below(t, n) ==
  LET below[m \in Nodes] ==
        IF m = Nil THEN {} ELSE {m} \cup below[t.kid["left"][m]] \cup below[t.kid["right"][m]]
  IN below[n]
Held == Below(tree, tree.root)

(* After any operations, rotations in any order included: keys on the left *)
(* are smaller, keys on the right larger, sizes count, parents point back, *)
(* and the shared NIL node was never written to ("NIL nodes are            *)
(* immutable").                                                            *)
SearchTree ==
  /\ \A n \in Held :
       /\ \A k \in Below(tree, tree.kid["left"][n]) : k < n
       /\ \A k \in Below(tree, tree.kid["right"][n]) : k > n
       /\ tree.size[n] = Cardinality(Below(tree, n))
       /\ \A kid \in Kids(tree, n) \ {Nil} : tree.parent[kid] = n
  /\ tree.parent[tree.root] = Nil
  /\ Kids(tree, Nil) = {Nil} /\ tree.parent[Nil] = Nil /\ tree.size[Nil] = 0

(* No node is too heavy on one side: every operation takes O(log n).       *)
Balanced ==
  \A n \in Held :
    LET l == tree.kid["left"][n]  r == tree.kid["right"][n]
    IN ~Unbalanced(tree, l, r) /\ ~Unbalanced(tree, r, l)

(* What every operation must leave behind for the next.                    *)
WellFormed == TypeOK /\ SearchTree /\ Balanced

(* pick() returns a free id, and one beyond the limit only when every id   *)
(* is taken: acquire() then throws "maximum number of AMQP Channels".      *)
PickFree ==
  /\ Pick(tree) \in Nat \ ({0} \cup Held)
  /\ Held # Keys => Pick(tree) \in Keys

(* _reset clears every channel once, though each entry is deleted under    *)
(* the iterator: each step returns a channel that is still leased, in the  *)
(* order of the ids, and when it is done nothing is left.                  *)
ScanMeetsEach ==
  [][/\ ScanStep => cursor' \in Held /\ cursor' > cursor
     /\ EndScan => Held = {}]_vars
=============================================================================
