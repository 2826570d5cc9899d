-------------------------------- MODULE Bdd --------------------------------
(***************************************************************************)
(* Multi-terminal binary decision diagrams of square images, as bdd.c of   *)
(* hw1 builds, evaluates, serializes and transforms them.                  *)
(*                                                                         *)
(* A table is the part of the program's memory that the operations share:  *)
(* the node table, whose first NumLeaves indices stand for pixel values,   *)
(* and the open-addressed hash map that makes each node unique.  It is     *)
(* threaded through the operations, each of which returns the new table    *)
(* with its result.  The recursion is the code's, over the diagram.        *)
(* A serial number is written as itself: its four bytes, and the letter of *)
(* a level, are read back by the inverse of the code that writes them.     *)
(***************************************************************************)
EXTENDS Naturals, Sequences, FiniteSets

CONSTANTS NumLeaves,  \* BDD_NUM_LEAVES: pixel values are 0 .. NumLeaves - 1
          HashSize,   \* BDD_HASH_SIZE
          Special     \* the level given to the root of a one-pixel-value image

ASSUME LeavesAssumption == NumLeaves \in Nat /\ NumLeaves >= 2
ASSUME HashAssumption == HashSize \in Nat \ {0}

Pixels == 0 .. NumLeaves - 1
White == NumLeaves - 1
IsLeaf(ix) == ix < NumLeaves

NULL == 0  \* an empty entry of the hash map: no node has the index of a leaf
N(level, left, right) == [level |-> level, left |-> left, right |-> right]
Result(t, ix) == [table |-> t, ix |-> ix]

EmptyTable == [nodes |-> <<>>, hash |-> [s \in 0 .. HashSize - 1 |-> NULL]]
Node(t, ix) == t.nodes[ix - NumLeaves + 1]
FreeNode(t) == NumLeaves + Len(t.nodes)  \* free_node_counter
HashFunction(left, right, level) == (left + right + level) % HashSize

Least(S) == CHOOSE x \in S : \A y \in S : x <= y

\* mutant: a node with equal children is built
LookupKeepsEqual(t, level, left, right) ==
  LET n == N(level, left, right)
      known == {ix \in NumLeaves .. FreeNode(t) - 1 : Node(t, ix) = n}
  IN IF known # {} THEN Result(t, Least(known))
     ELSE Result([t EXCEPT !.nodes = Append(@, n)], FreeNode(t))

\* bdd_lookup: equal children need no node; else linear probing from the hash
\* finds the node or the first empty entry, where a new one is inserted
Lookup(t, level, left, right) ==
  LET n == N(level, left, right)
      slot(i) == (HashFunction(left, right, level) + i) % HashSize
      stops == {i \in 0 .. HashSize - 1 :
                  t.hash[slot(i)] = NULL \/ Node(t, t.hash[slot(i)]) = n}
      at == slot(Least(stops))
  IN IF left = right THEN Result(t, left)
     ELSE IF stops = {} THEN Result(t, 0)
     ELSE IF t.hash[at] = NULL
     THEN Result([nodes |-> Append(t.nodes, n),
                  hash |-> [t.hash EXCEPT ![at] = FreeNode(t)]], FreeNode(t))
     ELSE Result(t, t.hash[at])

\* the root handed to the caller: a leaf becomes a node of its own
RootOf(r) == [table |-> r.table,
              node |-> IF IsLeaf(r.ix) THEN N(Special, r.ix, r.ix)
                       ELSE Node(r.table, r.ix)]

-----------------------------------------------------------------------------
(* bdd_min_level, bdd_from_raster, bdd_to_raster *)

MinLevel(w, h) == 2 * Least({k \in 0 .. w + h : w <= 2^k /\ h <= 2^k})

\* a pixel of the enclosing square: those outside the image are 0
PixelAt(img, row, col) ==
  IF row < img.h /\ col < img.w THEN img.raster[row][col] ELSE 0

RECURSIVE SplitRow(_, _, _, _, _, _, _), SplitCol(_, _, _, _, _, _, _)
SplitRow(t, img, row, col, width, height, level) ==
  LET mid == height \div 2
      left == SplitCol(t, img, row, col, width, mid, level - 1)
      right == SplitCol(left.table, img, row + mid, col, width, mid, level - 1)
  IN IF width = 1 /\ height = 1 THEN Result(t, PixelAt(img, row, col))
     ELSE Lookup(right.table, level, left.ix, right.ix)
SplitCol(t, img, row, col, width, height, level) ==
  LET mid == width \div 2
      left == SplitRow(t, img, row, col, mid, height, level - 1)
      right == SplitRow(left.table, img, row, col + mid, mid, height, level - 1)
  IN IF width = 1 /\ height = 1 THEN Result(t, PixelAt(img, row, col))
     ELSE Lookup(right.table, level, left.ix, right.ix)

FromRaster(img) ==
  LET level == MinLevel(img.w, img.h)
      side == 2^(level \div 2)
  IN RootOf(SplitRow(EmptyTable, img, 0, 0, side, side, level))

\* x & mask is nonzero, for a mask of one bit or none
Masked(x, mask) == mask # 0 /\ (x \div mask) % 2 = 1

\* mask >> n, and the masks after the levels from the parent's to the child's
Shifted(mask, n) == mask \div 2^n
Half(n) == n \div 2
HalfUp(n) == (n + 1) \div 2

\* helper_recursion_bdd_apply2: even levels split rows, odd ones columns; a
\* skipped level shifts its mask without looking at it
RECURSIVE ApplyFrom(_, _, _, _, _, _)
ApplyFrom(t, node, r, c, maskR, maskC) ==
  LET even == node.level % 2 = 0
      right == IF even THEN Masked(r, maskR) ELSE Masked(c, maskC)
      child == IF right THEN node.right ELSE node.left
      next == Node(t, child)
      diff == node.level - next.level
  IN IF node.level = 1 \/ IsLeaf(child) THEN child
     ELSE IF even
     THEN ApplyFrom(t, next, r, c, Shifted(maskR, HalfUp(diff)), Shifted(maskC, Half(diff)))
     ELSE ApplyFrom(t, next, r, c, Shifted(maskR, Half(diff)), Shifted(maskC, HalfUp(diff)))

\* mutant: the masks start one bit too high
InitialMaskTwice(count) == 2^count
\* the highest row and column bit below the level of the root
InitialMask(count) == IF count = 0 THEN 0 ELSE 2^(count - 1)
Apply(t, node, r, c) ==
  ApplyFrom(t, node, r, c, InitialMask(Half(node.level)), InitialMask(HalfUp(node.level)))

ToRaster(t, node, w, h) ==
  [r \in 0 .. h - 1 |-> [c \in 0 .. w - 1 |->
     IF node.level = Special THEN node.left ELSE Apply(t, node, r, c)]]

-----------------------------------------------------------------------------
(* bdd_serialize, bdd_deserialize: one item per node, children first; the   *)
(* item of a leaf has level 0 and its pixel value as both children          *)

\* where a node was written: its serial number, 0 before
Serial(s, ix) == IF ix \in DOMAIN s.map THEN s.map[ix] ELSE 0
Written(s, ix, item) ==
  [s EXCEPT !.map = [i \in DOMAIN @ \cup {ix} |->
                       IF i = ix THEN Len(s.out) + 1 ELSE @[i]],
            !.out = Append(@, item)]

RECURSIVE SerializeFrom(_, _)
SerializeFrom(s, n) ==
  LET found == Lookup(s.table, n.level, n.left, n.right)
      child(u, ix) == SerializeFrom(u, IF IsLeaf(ix) THEN N(0, ix, ix)
                                       ELSE Node(u.table, ix))
      both == child(child([s EXCEPT !.table = found.table], n.left), n.right)
  IN IF n.level = 0
     THEN IF Serial(s, n.left) # 0 THEN s ELSE Written(s, n.left, n)
     ELSE IF Serial(s, found.ix) # 0 THEN s
     ELSE Written(both, found.ix,
                  N(n.level, Serial(both, n.left), Serial(both, n.right)))

NoSerials == [i \in {} |-> 0]
Serialize(root) ==
  IF root.node.level = Special THEN <<N(0, root.node.left, root.node.left)>>
  ELSE SerializeFrom([table |-> root.table, map |-> NoSerials, out |-> <<>>],
                     root.node).out

\* d[k] has the table after the first k items and the index of each of them
Deserialize(items) ==
  LET d[k \in 0 .. Len(items)] ==
        LET p == d[k - 1]
            i == items[k]
            l == Lookup(p.table, i.level, p.ixs[i.left], p.ixs[i.right])
        IN IF k = 0 THEN [table |-> EmptyTable, ixs |-> <<>>]
           ELSE IF i.level = 0 THEN [p EXCEPT !.ixs = Append(@, i.left)]
           ELSE [table |-> l.table, ixs |-> Append(p.ixs, l.ix)]
      last == d[Len(items)]
  IN RootOf(Result(last.table, last.ixs[Len(items)]))

-----------------------------------------------------------------------------
(* bdd_map, bdd_rotate, bdd_zoom *)

RECURSIVE MapFrom(_, _, _)
MapFrom(t, ix, f) ==
  LET n == Node(t, ix)
      left == MapFrom(t, n.left, f)
      right == MapFrom(left.table, n.right, f)
  IN IF IsLeaf(ix) THEN Result(t, f[ix])
     ELSE Lookup(right.table, n.level, left.ix, right.ix)

\* the index of a node that is in the table
IndexOf(root) ==
  CHOOSE ix \in NumLeaves .. FreeNode(root.table) - 1 : Node(root.table, ix) = root.node

Map(root, f) == RootOf(MapFrom(root.table, IndexOf(root), f))

\* the four quarters, turned, then put together turned
RECURSIVE RotateFrom(_, _, _, _, _, _)
RotateFrom(t, root, r, c, width, level) ==
  LET half == width \div 2
      quarter(u, row, col) == RotateFrom(u, root, row, col, half, level - 2)
      topLeft == quarter(t, r, c)
      topRight == quarter(topLeft.table, r, c + half)
      botLeft == quarter(topRight.table, r + half, c)
      botRight == quarter(botLeft.table, r + half, c + half)
      top == Lookup(botRight.table, level - 1, topRight.ix, botRight.ix)
      bot == Lookup(top.table, level - 1, topLeft.ix, botLeft.ix)
  IN IF width = 1 THEN Result(t, Apply(t, root, r, c))
     ELSE Lookup(bot.table, level, top.ix, bot.ix)

\* the node at the index, even if it is that of a leaf, whose entry is unused
Rotate(root, level) ==
  LET r == RotateFrom(root.table, root.node, 0, 0, 2^(level \div 2), level)
  IN [table |-> r.table,
      node |-> IF IsLeaf(r.ix) THEN N(0, 0, 0) ELSE Node(r.table, r.ix)]

RECURSIVE ZoomInFrom(_, _, _)
ZoomInFrom(t, ix, k) ==
  LET n == Node(t, ix)
      left == ZoomInFrom(t, n.left, k)
      right == ZoomInFrom(left.table, n.right, k)
  IN IF IsLeaf(ix) THEN Result(t, ix)
     ELSE Lookup(right.table, n.level + 2 * k, left.ix, right.ix)

\* a node that covers no more than one new pixel is white, as it is not black
RECURSIVE ZoomOutFrom(_, _, _)
ZoomOutFrom(t, ix, k) ==
  LET n == Node(t, ix)
      left == ZoomOutFrom(t, n.left, k)
      right == ZoomOutFrom(left.table, n.right, k)
  IN IF IsLeaf(ix) THEN Result(t, IF ix # 0 THEN White ELSE 0)
     ELSE IF 2 * k >= n.level THEN Result(t, White)
     ELSE Lookup(right.table, n.level - 2 * k, left.ix, right.ix)

ZoomIn(root, k) == RootOf(ZoomInFrom(root.table, IndexOf(root), k))
ZoomOut(root, k) == RootOf(ZoomOutFrom(root.table, IndexOf(root), k))
=============================================================================
