----------------------------- MODULE Containers -----------------------------
(***************************************************************************)
(* src/util/qd_hash.h and src/util/qd_rbtree.h: the string map on its      *)
(* chains, and the red-black tree.                                         *)
(*                                                                         *)
(* Each key of the map has a node of its own; pprev is the pointer that    *)
(* leads to a node, the head of a bucket or the next field of a node.      *)
(* MapHash stands for qd_hash_string masked with the size of the table.    *)
(*                                                                         *)
(* A node of the tree is its key, 0 is NULL; a tree is a record            *)
(* [root, parent, left, right, color].  The code's mirrored halves are one *)
(* definition here, for a side d and the other one.                        *)
(***************************************************************************)
EXTENDS Integers, FiniteSets

CONSTANTS MapKeys, MapValues, MapBuckets, MapHash, NoNode

VARIABLES
  ptr,      \* every pointer to a node: <<"first", bucket>> and <<"next", key>>
  pprev,    \* per node, NoNode when it is not linked
  value, mapCount,
  contents  \* history: the map as a function

hmVars == <<ptr, pprev, value, mapCount, contents>>

First(b) == <<"first", b>>
NextOf(k) == <<"next", k>>
Pointers == {First(b) : b \in MapBuckets} \cup {NextOf(k) : k \in MapKeys}

HMInit == /\ ptr = [p \in Pointers |-> NoNode]
          /\ pprev = [k \in MapKeys |-> NoNode]
          /\ value = [k \in MapKeys |-> NoNode]
          /\ mapCount = 0 /\ contents = [k \in {} |-> NoNode]

\* qd_hlist_for_each_entry over a bucket
MapChain(b) ==
  LET reach[n \in 0 .. Cardinality(MapKeys)] ==
        IF n = 0 THEN {ptr[First(b)]}
        ELSE reach[n - 1] \cup {ptr[NextOf(k)] : k \in reach[n - 1] \ {NoNode}}
  IN reach[Cardinality(MapKeys)] \ {NoNode}

Found(k) == k \in MapChain(MapHash[k])

\* Defect: the old first node keeps its pprev.
AddHeadUnlinked(k, h) ==
  /\ ptr' = [ptr EXCEPT ![NextOf(k)] = ptr[h], ![h] = k]
  /\ pprev' = [pprev EXCEPT ![k] = h]

\* qd_hlist_add_head
AddHead(k, h) ==
  /\ ptr' = [ptr EXCEPT ![NextOf(k)] = ptr[h], ![h] = k]
  /\ pprev' = [x \in MapKeys |-> IF x = k THEN h
                                 ELSE IF x = ptr[h] THEN NextOf(k) ELSE pprev[x]]

\* qd_hlist_del
Del(k) ==
  /\ ptr' = [ptr EXCEPT ![pprev[k]] = ptr[NextOf(k)], ![NextOf(k)] = NoNode]
  /\ pprev' = [x \in MapKeys |-> IF x = k THEN NoNode
                                 ELSE IF x = ptr[NextOf(k)] THEN pprev[k] ELSE pprev[x]]

\* qd_hashmap_put: an existing entry gets the new value; malloc may fail.
Put(k, v) ==
  \/ /\ Found(k) /\ value' = [value EXCEPT ![k] = v]
     /\ contents' = [contents EXCEPT ![k] = v]
     /\ UNCHANGED <<ptr, pprev, mapCount>>
  \/ /\ ~Found(k) /\ AddHead(k, First(MapHash[k]))
     /\ value' = [value EXCEPT ![k] = v] /\ mapCount' = mapCount + 1
     /\ contents' = [x \in DOMAIN contents \cup {k} |-> IF x = k THEN v ELSE contents[x]]

\* qd_hashmap_remove
MapRemove(k) ==
  /\ Found(k) /\ Del(k) /\ mapCount' = mapCount - 1
  /\ contents' = [x \in DOMAIN contents \ {k} |-> contents[x]]
  /\ value' = [value EXCEPT ![k] = NoNode]

HMNext == \E k \in MapKeys : MapRemove(k) \/ \E v \in MapValues : Put(k, v)

-----------------------------------------------------------------------------

\* The table is the map it stands for: get finds exactly the keys that were put
\* and not removed, with their last value, and size counts them.
MapExact ==
  /\ mapCount = Cardinality(DOMAIN contents)
  /\ \A k \in MapKeys : Found(k) <=> k \in DOMAIN contents
  /\ \A k \in DOMAIN contents : value[k] = contents[k] /\ ptr[pprev[k]] = k

-----------------------------------------------------------------------------
(* The tree *)

CONSTANT MaxKey

VARIABLES tree, keys   \* the tree, and what was inserted and not erased

TreeKeys == 1 .. MaxKey
NULL  == 0
RED   == 0
BLACK == 1

Other(d)        == IF d = "left" THEN "right" ELSE "left"
Set(T, f, n, v) == [T EXCEPT ![f][n] = v]
Paint(T, n, c)  == Set(T, "color", n, c)
IsBlack(T, n)   == n = NULL \/ T.color[n] = BLACK

\* The pointer that leads to `old` leads to `new` now.
Relink(T, p, old, new) ==
  IF p = NULL THEN [T EXCEPT !.root = new]
  ELSE Set(T, IF T.left[p] = old THEN "left" ELSE "right", p, new)

Adopt(T, child, p) == IF child = NULL THEN T ELSE Set(T, "parent", child, p)

\* __qd_rb_rotate_left for d = "left", __qd_rb_rotate_right for d = "right"
RotateTree(T, n, d) ==
  LET c  == T[Other(d)][n]
      T1 == Adopt(Set(T, Other(d), n, T[d][c]), T[d][c], n)
      T2 == Set(Set(T1, d, c, n), "parent", c, T.parent[n])
  IN Set(Relink(T2, T.parent[n], n, c), "parent", n, c)

Side(T, n, p) == IF T.left[p] = n THEN "left" ELSE "right"

\* qd_rb_insert_fixup
RECURSIVE InsertFixup(_, _)
InsertFixup(T, n) ==
  LET p == T.parent[n] IN
  IF p = NULL \/ T.color[p] = BLACK THEN Paint(T, T.root, BLACK)
  ELSE LET g == T.parent[p]
           d == Side(T, p, g)
           u == T[Other(d)][g]
           inner == n = T[Other(d)][p]
           T1 == IF inner THEN RotateTree(T, p, d) ELSE T
           n1 == IF inner THEN p ELSE n
           p1 == T1.parent[n1]
       IN IF ~IsBlack(T, u)
          THEN InsertFixup(Paint(Paint(Paint(T, u, BLACK), p, BLACK), g, RED), g)
          ELSE InsertFixup(RotateTree(Paint(Paint(T1, p1, BLACK), g, RED), g, Other(d)), n1)

\* __qd_rb_erase_fixup
RECURSIVE EraseFixup(_, _, _)
EraseFixup(T, n, p) ==
  IF ~IsBlack(T, n) \/ n = T.root
  THEN IF n = NULL THEN T ELSE Paint(T, n, BLACK)
  ELSE
    LET d  == Side(T, n, p)
        o  == Other(d)
        s0 == T[o][p]
        T1 == IF IsBlack(T, s0) THEN T
              ELSE RotateTree(Paint(Paint(T, s0, BLACK), p, RED), p, d)
        s1 == T1[o][p]
        near == T1[d][s1]
        T2 == IF ~IsBlack(T1, T1[o][s1]) THEN T1
              ELSE RotateTree(Paint(IF near = NULL THEN T1 ELSE Paint(T1, near, BLACK), s1, RED), s1, o)
        s2 == T2[o][p]
        far == T2[o][s2]
        T3 == Paint(Paint(T2, s2, T2.color[p]), p, BLACK)
        T4 == RotateTree(IF far = NULL THEN T3 ELSE Paint(T3, far, BLACK), p, d)
    IN IF IsBlack(T1, T1.left[s1]) /\ IsBlack(T1, T1.right[s1])
       THEN EraseFixup(Paint(T1, s1, RED), p, T1.parent[p])
       ELSE Paint(T4, T4.root, BLACK)

RECURSIVE Leftmost(_, _)
Leftmost(T, n) == IF T.left[n] = NULL THEN n ELSE Leftmost(T, T.left[n])

\* qd_rb_erase
Erase(T, n) ==
  IF T.left[n] # NULL /\ T.right[n] # NULL
  THEN LET m  == Leftmost(T, T.right[n])
           c  == T.right[m]
           p  == IF T.parent[m] = n THEN m ELSE T.parent[m]
           T1 == Relink(T, T.parent[n], n, m)
           T2 == IF T.parent[m] = n THEN T1
                 ELSE LET A == Set(Adopt(T1, c, p), "left", p, c)
                      IN Set(Set(A, "right", m, T.right[n]), "parent", T.right[n], m)
           T3 == Paint(Set(T2, "parent", m, T.parent[n]), m, T.color[n])
           T4 == Set(Set(T3, "left", m, T.left[n]), "parent", T.left[n], m)
       IN IF T.color[m] = BLACK THEN EraseFixup(T4, c, p) ELSE T4
  ELSE LET c  == IF T.left[n] = NULL THEN T.right[n] ELSE T.left[n]
           p  == T.parent[n]
           T1 == Relink(Adopt(T, c, p), p, n, c)
       IN IF T.color[n] = BLACK THEN EraseFixup(T1, c, p) ELSE T1

\* The way down that a caller of qd_rb_link_node takes.
RECURSIVE Descend(_, _, _)
Descend(T, n, key) ==
  LET d == IF key < n THEN "left" ELSE "right"
  IN IF T[d][n] = NULL THEN <<n, d>> ELSE Descend(T, T[d][n], key)

\* qd_rb_link_node
LinkNode(T, n) ==
  LET at == Descend(T, T.root, n)
      p  == IF T.root = NULL THEN NULL ELSE at[1]
      T1 == Paint(Set(Set(Set(T, "parent", n, p), "left", n, NULL), "right", n, NULL), n, RED)
  IN IF p = NULL THEN [T1 EXCEPT !.root = n] ELSE Set(T1, at[2], p, n)

\* qd_rb_next, and qd_rb_prev for the other side
RECURSIVE Climb(_, _, _)
Climb(T, n, d) == LET p == T.parent[n]
                  IN IF p = NULL \/ n # T[d][p] THEN p ELSE Climb(T, p, d)
RECURSIVE Deepest(_, _, _)
Deepest(T, n, d) == IF T[d][n] = NULL THEN n ELSE Deepest(T, T[d][n], d)
Neighbour(T, n, d) ==
  IF T[d][n] # NULL THEN Deepest(T, T[d][n], Other(d)) ELSE Climb(T, n, d)

-----------------------------------------------------------------------------

RBInit == /\ keys = {}
          /\ tree = [root |-> NULL, parent |-> [k \in TreeKeys |-> NULL],
                     left |-> [k \in TreeKeys |-> NULL], right |-> [k \in TreeKeys |-> NULL],
                     color |-> [k \in TreeKeys |-> RED]]

Insert(k) == /\ k \notin keys /\ keys' = keys \cup {k}
             /\ tree' = InsertFixup(LinkNode(tree, k), k)

\* qd_rb_init_node, so that an erased node has no old pointers
Forget(T, k) ==
  Paint(Set(Set(Set(T, "parent", k, NULL), "left", k, NULL), "right", k, NULL), k, RED)

Delete(k) == /\ k \in keys /\ keys' = keys \ {k}
             /\ tree' = Forget(Erase(tree, k), k)

RBNext == \E k \in TreeKeys : Insert(k) \/ Delete(k)
RBSpec == RBInit /\ [][RBNext]_<<tree, keys>>

-----------------------------------------------------------------------------

RECURSIVE BlackHeight(_)
BlackHeight(n) ==
  IF n = NULL THEN 1
  ELSE LET l == BlackHeight(tree.left[n])
           r == BlackHeight(tree.right[n])
       IN IF l # r \/ l = 0 THEN 0 ELSE l + tree.color[n]

\* After every insertion and removal the root is black, no red node has a red
\* child, and every path has the same number of black nodes.
Balanced ==
  /\ IsBlack(tree, tree.root)
  /\ BlackHeight(tree.root) > 0
  /\ \A n \in keys : tree.color[n] = RED =>
       IsBlack(tree, tree.left[n]) /\ IsBlack(tree, tree.right[n])

\* qd_rb_first and qd_rb_next visit exactly the keys, in order; qd_rb_prev
\* goes back the same way.
InOrder ==
  LET next(k) == LET S == {x \in keys : x > k}
                 IN IF S = {} THEN NULL ELSE CHOOSE x \in S : \A y \in S : x <= y
      prev(k) == LET S == {x \in keys : x < k}
                 IN IF S = {} THEN NULL ELSE CHOOSE x \in S : \A y \in S : x >= y
  IN /\ keys = {} <=> tree.root = NULL
     /\ keys # {} => Leftmost(tree, tree.root) = next(0)
     /\ \A k \in keys : /\ Neighbour(tree, k, "right") = next(k)
                        /\ Neighbour(tree, k, "left") = prev(k)

\* Map and tree stay what their callers take them for.
ContainersExact == MapExact /\ Balanced /\ InOrder
=============================================================================
