------------------------------ MODULE Picture ------------------------------
(***************************************************************************)
(* What birp does to an image, in terms of pixels (hw1/doc/README.md): the *)
(* w by h image in the smallest square with a power of two as its side.    *)
(***************************************************************************)
EXTENDS Naturals

CONSTANTS White, MaxSide, Thresholds, Factors

VARIABLE picture  \* [w, h, pix], pix a function of rows and columns

Coordinates(side) == 0 .. side - 1
SideOf(w, h) == 2^(CHOOSE k \in 0 .. w + h :
                     /\ w <= 2^k /\ h <= 2^k
                     /\ k = 0 \/ 2^(k - 1) < w \/ 2^(k - 1) < h)
Square(w, h, Pix(_, _)) ==
  [w |-> w, h |-> h,
   pix |-> [r \in Coordinates(SideOf(w, h)) |->
             [c \in Coordinates(SideOf(w, h)) |-> Pix(r, c)]]]

W == picture.w
H == picture.h
Pix(r, c) == picture.pix[r][c]
Side == SideOf(W, H)

\* a raster file keeps the image, and not what is around it
Crop == picture' = Square(W, H, LAMBDA r, c : IF r < H /\ c < W THEN Pix(r, c) ELSE 0)
Negate == picture' = Square(W, H, LAMBDA r, c : White - Pix(r, c))
Threshold(p) == picture' = Square(W, H, LAMBDA r, c : IF Pix(r, c) >= p THEN White ELSE 0)

\* counterclockwise: the first row of the new square is the last column
Rotate == picture' = Square(Side, Side, LAMBDA r, c : Pix(c, Side - 1 - r))

ZoomIn(k) ==
  /\ Side * 2^k <= MaxSide
  /\ picture' = Square(W * 2^k, H * 2^k, LAMBDA r, c : Pix(r \div 2^k, c \div 2^k))

\* a block of pixels is black when it is all black; else it is white, but an
\* image of one value keeps it
Ceiling(n, d) == (n + d - 1) \div d
OneValue == \A r, c \in Coordinates(Side) : Pix(r, c) = Pix(0, 0)
ZoomOut(k) ==
  /\ 2^k <= Side
  /\ picture' = Square(Ceiling(W, 2^k), Ceiling(H, 2^k), LAMBDA r, c :
       IF OneValue THEN Pix(0, 0)
       ELSE IF \A i, j \in Coordinates(2^k) : Pix(r * 2^k + i, c * 2^k + j) = 0 THEN 0
       ELSE White)

Next ==
  \/ Crop \/ Negate \/ Rotate
  \/ \E p \in Thresholds : Threshold(p)
  \/ \E k \in Factors : ZoomIn(k) \/ ZoomOut(k)
Spec == [][Next]_picture
=============================================================================
