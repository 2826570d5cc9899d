-------------------------------- MODULE Birp --------------------------------
(***************************************************************************)
(* The birp program of hw1 (birp.c): each step is one run of it, which     *)
(* reads an image file, converts or transforms it through a diagram built  *)
(* in tables that start empty, and writes the file the next run reads.  A  *)
(* run that fails writes no file and is no step.                           *)
(***************************************************************************)
EXTENDS Bdd

CONSTANTS LevelsMax,    \* BDD_LEVELS_MAX
          RasterMax,    \* RASTER_SIZE_MAX
          Images,       \* the raster files at the start (bound)
          Thresholds, Factors  \* parameters of -t, of -z and -Z (bound)

VARIABLE file  \* [kind, w, h, ...]: a pgm file and its raster, or a birp
               \* file and its items

Pgm(w, h, raster) == [kind |-> "pgm", w |-> w, h |-> h, raster |-> raster]
\* img_write_birp
WriteBirp(root, w, h) ==
  file' = [kind |-> "birp", w |-> w, h |-> h, items |-> Serialize(root)]

Init == file \in Images

PgmToBirp ==
  /\ file.kind = "pgm"
  /\ WriteBirp(FromRaster(file), file.w, file.h)

\* img_read_birp
Root == Deserialize(file.items)

BirpToPgm ==
  /\ file.kind = "birp" /\ file.w * file.h <= RasterMax
  /\ file' = Pgm(file.w, file.h, ToRaster(Root.table, Root.node, file.w, file.h))

Identity == file.kind = "birp" /\ WriteBirp(Root, file.w, file.h)

\* negateOperation, thresholdOperation; a root of one value is mapped by itself
MapBirp(f) ==
  LET node == N(Special, f[Root.node.left], f[Root.node.left])
  IN /\ file.kind = "birp"
     /\ WriteBirp(IF Root.node.level = Special THEN [Root EXCEPT !.node = node]
                  ELSE Map(Root, f), file.w, file.h)
Negate == MapBirp([p \in Pixels |-> White - p])
Threshold(t) == MapBirp([p \in Pixels |-> IF p >= t THEN White ELSE 0])

\* the level is checked against the image's; a root of one value stays
Level == MinLevel(file.w, file.h)
ZoomedIn(k) ==
  /\ file.kind = "birp" /\ 2 * k + Level <= LevelsMax
  /\ WriteBirp(IF Root.node.level = Special THEN Root ELSE ZoomIn(Root, k),
               file.w * 2^k, file.h * 2^k)

Ceiling(n, d) == IF n % d = 0 THEN n \div d ELSE n \div d + 1
ZoomedOut(k) ==
  /\ file.kind = "birp" /\ Level >= 2 * k
  /\ WriteBirp(IF Root.node.level = Special THEN Root ELSE ZoomOut(Root, k),
               Ceiling(file.w, 2^k), Ceiling(file.h, 2^k))

\* the whole square is turned, so the image gets its size
Side == 2^(Level \div 2)
Rotated ==
  /\ file.kind = "birp"
  /\ WriteBirp(IF Root.node.level = Special THEN Root ELSE Rotate(Root, Level),
               Side, Side)

Next ==
  \/ PgmToBirp \/ BirpToPgm \/ Identity \/ Negate \/ Rotated
  \/ \E t \in Thresholds : Threshold(t)
  \/ \E k \in Factors : ZoomedIn(k) \/ ZoomedOut(k)

Spec == Init /\ [][Next]_file

-----------------------------------------------------------------------------
(* Correctness *)

\* A file is a raster of its size, or items that name earlier items.
TypeOK ==
  /\ file.w \in Nat \ {0} /\ file.h \in Nat \ {0}
  /\ \/ /\ file.kind = "pgm"
        /\ file.raster \in [0 .. file.h - 1 -> [0 .. file.w - 1 -> Pixels]]
     \/ /\ file.kind = "birp" /\ file.items # <<>>
        /\ \A k \in DOMAIN file.items :
             LET i == file.items[k]
             IN \/ i.level = 0 /\ i.left = i.right /\ i.left \in Pixels
                \/ i.level \in 1 .. LevelsMax /\ {i.left, i.right} \subseteq 1 .. k - 1

\* the children of item i and, of them, the one that position p of a square
\* lies in: at level l, the item covers a block of the square with 2^l pixels
Items == file.items
Branch(i, r, c) ==
  LET l == Items[i].level
      bit == IF l % 2 = 0 THEN (r \div 2^(l \div 2 - 1)) % 2
             ELSE (c \div 2^((l - 1) \div 2)) % 2
  IN IF bit = 0 THEN Items[i].left ELSE Items[i].right
ValueAt(r, c) ==
  LET value[i \in DOMAIN Items] ==
        IF Items[i].level = 0 THEN Items[i].left ELSE value[Branch(i, r, c)]
  IN value[Len(Items)]

\* the picture a file is a file of
Denoted ==
  [w |-> file.w, h |-> file.h,
   pix |-> [r \in 0 .. Side - 1 |-> [c \in 0 .. Side - 1 |->
              IF file.kind = "birp" THEN ValueAt(r, c) ELSE PixelAt(file, r, c)]]]

\* Each run of the program does to the picture its file denotes what the
\* documentation says of the option, pixel by pixel.
P == INSTANCE Picture WITH picture <- Denoted, MaxSide <- 2^(LevelsMax \div 2)
TransformsThePicture == P!Spec

\* A birp file is a reduced ordered diagram: no item occurs twice, none has
\* equal children, levels fall towards the leaves, and every item but the
\* last is a child of a later one.  bdd_lookup and the serial numbers are
\* there to ensure it, whichever transformation wrote the file.
FileReduced ==
  /\ TypeOK
  /\ file.kind = "birp" =>
       /\ \A i, j \in DOMAIN Items : Items[i] = Items[j] => i = j
       /\ \A i \in DOMAIN Items : Items[i].level > 0 =>
            /\ Items[i].left # Items[i].right
            /\ \A j \in {Items[i].left, Items[i].right} : Items[j].level < Items[i].level
       /\ \A i \in 1 .. Len(Items) - 1 : \E j \in i + 1 .. Len(Items) :
            Items[j].level > 0 /\ i \in {Items[j].left, Items[j].right}
=============================================================================
