----------------------------- MODULE HeapProofs -----------------------------
(***************************************************************************)
(* Proofs about the heap allocator of Heap.tla, for every number and size  *)
(* of pages, every number of free lists, and all clients and sizes.        *)
(*                                                                         *)
(* A heap in order (Good) comes with the set B of the rows where its       *)
(* blocks begin: they tile the heap from row 2 to the epilogue (Tiling),   *)
(* with the bits and footers that tell a block what its neighbours are,    *)
(* and the lists hold the free ones, each once and where it belongs        *)
(* (Listed).  That B is a witness and no walk keeps recursion out of the   *)
(* proof that each operation keeps the order; only at the end are the      *)
(* blocks of B shown to be those that walking the headers finds.           *)
(*                                                                         *)
(* A library call turns a heap in order into one, and leaves every block   *)
(* it was not given word for word as it was (Becomes): this is shown for   *)
(* the memory and the lists apart, as the replacing of one region of the   *)
(* tiling by new blocks (Retiled, Relisted), and then for sf_free,         *)
(* sf_malloc, sf_realloc and sf_memalign.  The inductive invariant         *)
(* (Clients) adds who holds which block, and that the words a client has   *)
(* written are still there.  All six properties of the heap follow from    *)
(* it, the refinement of Allocator.tla included.                           *)
(***************************************************************************)
EXTENDS Heap, SequenceTheorems, FiniteSetTheorems, WellFoundedInduction, TLAPS

USE DEF NULL

-----------------------------------------------------------------------------
(* Lemmas about numbers and sequences                                        *)

\* A nonempty set of numbers has a least element, which is what Least picks.
LEMMA LeastOf ==
  ASSUME NEW S, S \subseteq Nat, S # {}
  PROVE  Least(S) \in S /\ \A y \in S : Least(S) <= y
<1>1. IsWellFoundedOn(OpToRel(<, Nat), Nat)
  BY NatLessThanWellFounded
<1>2. PICK x \in S : \A y \in S : ~(<<y, x>> \in OpToRel(<, Nat))
  BY <1>1, WFMin
<1>3. \A y \in S : ~(y < x)
  BY <1>2 DEF OpToRel
<1>4. \A y \in S : x <= y
  BY <1>3
<1> QED  BY <1>4 DEF Least

\* Among k numbers in a row there is a multiple of k.
LEMMA MultipleOf ==
  ASSUME NEW k \in Nat \ {0}, NEW x \in Nat
  PROVE  \E c \in x .. x + k - 1 : c % k = 0
<1>1. PICK q, r : q = (x + k - 1) \div k /\ r = (x + k - 1) % k
  OBVIOUS
<1>2. q \in Nat /\ r \in 0 .. k - 1 /\ x + k - 1 = k * q + r
  BY <1>1
<1>3. (k * q) % k = 0
  BY <1>2
<1>4. k * q \in x .. x + k - 1
  BY <1>2
<1> QED  BY <1>3, <1>4

\* What stands in a sequence, and that it stands there once.
Elems(s) == {s[k] : k \in DOMAIN s}
Once(s) == \A j, k \in DOMAIN s : s[j] = s[k] => j = k

\* Unlinking a block leaves the others.
LEMMA Unlinked ==
  ASSUME NEW s \in Seq(Nat), NEW b \in Nat, Once(s)
  PROVE  /\ Unlink(s, b) \in Seq(Nat) /\ Once(Unlink(s, b))
         /\ Elems(Unlink(s, b)) = Elems(s) \ {b}
<1>1. CASE ~\E k \in DOMAIN s : s[k] = b
  <2>1. Unlink(s, b) = s
    BY <1>1 DEF Unlink
  <2>2. b \notin Elems(s)
    BY <1>1 DEF Elems
  <2> QED  BY <2>1, <2>2
<1>2. CASE \E k \in DOMAIN s : s[k] = b
  <2>1. PICK k : k = (CHOOSE j \in DOMAIN s : s[j] = b)
    OBVIOUS
  <2>0. PICK N : N = Len(s)
    OBVIOUS
  <2>2. k \in 1 .. N /\ N \in Nat /\ s[k] = b /\ DOMAIN s = 1 .. N
    BY <1>2, <2>0, <2>1
  <2>3. PICK u, v, r : u = SubSeq(s, 1, k - 1) /\ v = SubSeq(s, k + 1, N) /\ r = u \o v
    OBVIOUS
  <2>4. Unlink(s, b) = r
    BY <1>2, <2>0, <2>1, <2>3 DEF Unlink, RemoveAt
  <2>t. \A i \in 1 .. N : s[i] \in Nat
    BY <2>2
  <2>5. /\ u \in Seq(Nat) /\ Len(u) = k - 1
        /\ \A i \in 1 .. k - 1 : u[i] = s[i]
    <3>1. 1 \in Int /\ k - 1 \in Int /\ \A i \in 1 .. k - 1 : s[i] \in Nat
      BY <2>2, <2>t
    <3>2. /\ u \in Seq(Nat) /\ Len(u) = IF 1 <= k - 1 THEN k - 1 - 1 + 1 ELSE 0
          /\ \A i \in 1 .. k - 1 - 1 + 1 : u[i] = s[1 + i - 1]
      BY <2>3, <3>1, SubSeqProperties
    <3>3. Len(u) = k - 1
      BY <2>2, <3>2
    <3>4. \A i \in 1 .. k - 1 : i \in 1 .. k - 1 - 1 + 1 /\ 1 + i - 1 = i
      BY <2>2
    <3> QED  BY <3>2, <3>3, <3>4
  <2>6. /\ v \in Seq(Nat) /\ Len(v) = N - k
        /\ \A i \in 1 .. N - k : v[i] = s[k + i]
    <3>1. N \in Int /\ k + 1 \in Int /\ \A i \in k + 1 .. N : s[i] \in Nat
      BY <2>2, <2>t
    <3>2. /\ v \in Seq(Nat) /\ Len(v) = IF k + 1 <= N THEN N - (k + 1) + 1 ELSE 0
          /\ \A i \in 1 .. N - (k + 1) + 1 : v[i] = s[k + 1 + i - 1]
      BY <2>3, <3>1, SubSeqProperties
    <3>3. Len(v) = N - k
      BY <2>2, <3>2
    <3>4. \A i \in 1 .. N - k : i \in 1 .. N - (k + 1) + 1 /\ k + 1 + i - 1 = k + i
      BY <2>2
    <3> QED  BY <3>2, <3>3, <3>4
  <2>7. /\ r \in Seq(Nat) /\ Len(r) = N - 1 /\ DOMAIN r = 1 .. N - 1
        /\ \A i \in 1 .. N - 1 : (i < k => r[i] = s[i]) /\ (i >= k => r[i] = s[i + 1])
    <3>1. r \in Seq(Nat) /\ Len(r) = Len(u) + Len(v)
          /\ \A i \in 1 .. Len(u) + Len(v) : r[i] = IF i <= Len(u) THEN u[i] ELSE v[i - Len(u)]
      BY <2>3, <2>5, <2>6, ConcatProperties
    <3>2. Len(r) = N - 1 /\ DOMAIN r = 1 .. N - 1
      BY <2>2, <2>5, <2>6, <3>1
    <3>3. \A i \in 1 .. N - 1 : r[i] = IF i <= k - 1 THEN u[i] ELSE v[i - (k - 1)]
      BY <2>2, <2>5, <2>6, <3>1
    <3>4. ASSUME NEW i \in 1 .. N - 1, i < k  PROVE r[i] = s[i]
      <4>1. i <= k - 1 /\ i \in 1 .. k - 1
        BY <2>2, <3>4
      <4> QED  BY <2>5, <3>3, <4>1
    <3>5. ASSUME NEW i \in 1 .. N - 1, i >= k  PROVE r[i] = s[i + 1]
      <4>1. i - (k - 1) \in 1 .. N - k /\ k + (i - (k - 1)) = i + 1 /\ ~(i <= k - 1)
        BY <2>2, <3>5
      <4> QED  BY <2>6, <3>3, <4>1
    <3> QED  BY <3>1, <3>2, <3>4, <3>5
  <2>s. \A h \in 1 .. N - 1 : \E x \in DOMAIN s :
          r[h] = s[x] /\ ((h < k /\ x = h) \/ (h >= k /\ x = h + 1))
    <3>1. ASSUME NEW h \in 1 .. N - 1, h < k
          PROVE  \E x \in DOMAIN s : r[h] = s[x] /\ h < k /\ x = h
      <4>1. h \in DOMAIN s
        BY <2>2
      <4>2. r[h] = s[h]
        BY <2>7, <3>1
      <4> QED  BY <3>1, <4>1, <4>2
    <3>2. ASSUME NEW h \in 1 .. N - 1, h >= k
          PROVE  \E x \in DOMAIN s : r[h] = s[x] /\ h >= k /\ x = h + 1
      <4>1. h + 1 \in DOMAIN s
        BY <2>2
      <4>2. r[h] = s[h + 1]
        BY <2>7, <3>2
      <4> QED  BY <3>2, <4>1, <4>2
    <3>3. \A h \in 1 .. N - 1 : h < k \/ h >= k
      BY <2>2
    <3> QED  BY <3>1, <3>2, <3>3
  <2>8. Once(r)
    <3>1. SUFFICES ASSUME NEW i \in DOMAIN r, NEW j \in DOMAIN r, r[i] = r[j]  PROVE i = j
      BY DEF Once
    <3>2. \A h \in DOMAIN r : \E x \in DOMAIN s :
            r[h] = s[x] /\ ((h < k /\ x = h) \/ (h >= k /\ x = h + 1))
      BY <2>7, <2>s
    <3>3. PICK x \in DOMAIN s : r[i] = s[x] /\ ((i < k /\ x = i) \/ (i >= k /\ x = i + 1))
      BY <3>2
    <3>4. PICK y \in DOMAIN s : r[j] = s[y] /\ ((j < k /\ y = j) \/ (j >= k /\ y = j + 1))
      BY <3>2
    <3>5. x = y
      BY <3>1, <3>3, <3>4 DEF Once
    <3>6. i \in Nat /\ j \in Nat
      BY <2>7
    <3> QED  BY <2>2, <3>3, <3>4, <3>5, <3>6
  <2>9. Elems(r) = Elems(s) \ {b}
    <3>1. ASSUME NEW i \in DOMAIN r  PROVE r[i] \in Elems(s) \ {b}
      <4>1. PICK x \in DOMAIN s : r[i] = s[x] /\ ((i < k /\ x = i) \/ (i >= k /\ x = i + 1))
        BY <2>7, <2>s
      <4>2. x # k
        BY <2>2, <2>7, <4>1
      <4> QED  BY <2>2, <4>1, <4>2 DEF Once, Elems
    <3>2. ASSUME NEW x \in DOMAIN s, s[x] # b  PROVE s[x] \in Elems(r)
      <4>1. x # k /\ x \in Nat
        BY <2>2, <3>2
      <4>2. CASE x < k
        <5>1. x \in 1 .. N - 1 /\ r[x] = s[x]
          BY <2>2, <2>7, <4>2
        <5> QED  BY <2>7, <5>1 DEF Elems
      <4>3. CASE x > k
        <5>1. x - 1 \in 1 .. N - 1 /\ x - 1 >= k /\ (x - 1) + 1 = x
          BY <2>2, <4>3
        <5>2. r[x - 1] = s[x]
          BY <2>7, <5>1
        <5> QED  BY <2>7, <5>1, <5>2 DEF Elems
      <4> QED  BY <2>2, <4>1, <4>2, <4>3
    <3> QED  BY <3>1, <3>2 DEF Elems
  <2> QED  BY <2>4, <2>7, <2>8, <2>9
<1> QED  BY <1>1, <1>2

\* Linking a block in front.
LEMMA Linked ==
  ASSUME NEW s \in Seq(Nat), NEW b \in Nat, Once(s), b \notin Elems(s)
  PROVE  /\ <<b>> \o s \in Seq(Nat) /\ Once(<<b>> \o s)
         /\ Elems(<<b>> \o s) = Elems(s) \cup {b}
<1>1. PICK r : r = <<b>> \o s
  OBVIOUS
<1>2. /\ r \in Seq(Nat) /\ Len(r) = Len(s) + 1 /\ DOMAIN r = 1 .. Len(s) + 1
      /\ Len(s) \in Nat /\ DOMAIN s = 1 .. Len(s)
      /\ r[1] = b /\ \A i \in 1 .. Len(s) : r[i + 1] = s[i]
  <2>1. <<b>> \in Seq(Nat) /\ Len(<<b>>) = 1 /\ <<b>>[1] = b
    OBVIOUS
  <2>2. r \in Seq(Nat) /\ Len(r) = 1 + Len(s)
        /\ \A i \in 1 .. 1 + Len(s) : r[i] = IF i <= 1 THEN <<b>>[i] ELSE s[i - 1]
    BY <1>1, <2>1, ConcatProperties
  <2>3. Len(s) \in Nat /\ DOMAIN s = 1 .. Len(s) /\ DOMAIN r = 1 .. Len(s) + 1
    BY <2>2
  <2>4. r[1] = b
    BY <2>1, <2>2, <2>3
  <2>5. \A i \in 1 .. Len(s) : r[i + 1] = s[i]
    BY SMTT(30), <2>2, <2>3
  <2> QED  BY <2>2, <2>3, <2>4, <2>5
<1>3. Once(r)
  <2>1. SUFFICES ASSUME NEW i \in DOMAIN r, NEW j \in DOMAIN r, r[i] = r[j]  PROVE i = j
    BY DEF Once
  <2>2. \A k \in 1 .. Len(s) : s[k] # b
    BY <1>2 DEF Elems
  <2>3. i = 1 \/ (i - 1 \in 1 .. Len(s) /\ r[i] = s[i - 1])
    BY <1>2
  <2>4. j = 1 \/ (j - 1 \in 1 .. Len(s) /\ r[j] = s[j - 1])
    BY <1>2
  <2>5. CASE i # 1 /\ j # 1
    <3>1. i - 1 = j - 1
      BY <1>2, <2>1, <2>3, <2>4, <2>5 DEF Once
    <3> QED  BY <1>2, <3>1
  <2> QED  BY <1>2, <2>1, <2>2, <2>3, <2>4, <2>5
<1>4. Elems(r) = Elems(s) \cup {b}
  <2>1. ASSUME NEW i \in DOMAIN r  PROVE r[i] \in Elems(s) \cup {b}
    <3>1. i = 1 \/ (i - 1 \in 1 .. Len(s) /\ r[i] = s[i - 1])
      BY <1>2
    <3> QED  BY <1>2, <3>1 DEF Elems
  <2>2. ASSUME NEW i \in DOMAIN s  PROVE s[i] \in Elems(r)
    <3>1. i + 1 \in DOMAIN r /\ r[i + 1] = s[i]
      BY <1>2
    <3> QED  BY <3>1 DEF Elems
  <2>3. b \in Elems(r)
    BY <1>2 DEF Elems
  <2> QED  BY <2>1, <2>2, <2>3 DEF Elems
<1> QED  BY <1>1, <1>2, <1>3, <1>4

-----------------------------------------------------------------------------
(* Blocks: how a set of rows tiles the heap                                  *)

\* The row at which the block after b begins.
After(m, b) == b + m[2 * b].size

\* What the header of b says, among the blocks B.
BlockAt(m, B, b) ==
  /\ After(m, b) \in B /\ m[2 * b].size >= 2
  /\ \A c \in B : c <= b \/ After(m, b) <= c
  /\ m[2 * After(m, b)].pal = m[2 * b].alloc
  /\ ~m[2 * b].alloc => /\ m[2 * After(m, b) - 1] = m[2 * b]
                        /\ m[2 * After(m, b)].alloc

\* B are the blocks of the memory m with the epilogue in row end.
Tiling(m, end, B) ==
  /\ B \subseteq 2 .. end /\ 2 \in B /\ end \in B
  /\ m[4].pal /\ m[2 * end].size = 0 /\ m[2 * end].alloc
  /\ \A b \in B \ {end} : BlockAt(m, B, b)
  /\ \A c \in B \ {2} : \E p \in B \ {end} : After(m, p) = c

\* The rows from s to e are tiled anew, by the blocks N: what is before and
\* behind them stays, but for the pal bit of e, or e is a new epilogue.
Retiled(m, n, end, new, B, N, s, e) ==
  /\ s \in B /\ e \in Nat /\ s < e
  /\ \A w \in 0 .. 2 * s - 1 : n[w] = m[w]
  /\ \A w \in 2 * e + 1 .. 2 * end : n[w] = m[w]
  /\ \/ /\ new = end /\ e \in B
        /\ n[2 * e].size = m[2 * e].size /\ n[2 * e].alloc = m[2 * e].alloc
        /\ m[2 * e].alloc \/ n[2 * e] = m[2 * e]
     \/ new = e /\ end <= e /\ n[2 * e].size = 0 /\ n[2 * e].alloc
  /\ N \subseteq s .. e - 1 /\ s \in N
  /\ \A b \in N : BlockAt(n, N \cup {e}, b)
  /\ \A c \in N \cup {e} : c # s => \E p \in N : After(n, p) = c
  /\ n[2 * s].pal = m[2 * s].pal /\ (n[2 * s].alloc \/ m[2 * s].pal)

Around(B, N, s, e, new) == {b \in B : b < s} \cup N \cup {b \in B : b >= e} \cup {new}

Sized(m, end) == \A b \in 0 .. end : m[2 * b].size \in Nat

\* No block reaches over the beginning of another.
LEMMA NoOverlap ==
  ASSUME NEW end \in Nat, NEW m, NEW B, Tiling(m, end, B), Sized(m, end),
         NEW b \in B, NEW c \in B, b < c
  PROVE  After(m, b) <= c /\ b # end /\ After(m, b) \in B /\ b < After(m, b)
<1>1. b \in 2 .. end /\ c \in 2 .. end /\ b # end
  BY DEF Tiling
<1>2. BlockAt(m, B, b)
  BY <1>1 DEF Tiling
<1>3. m[2 * b].size \in Nat /\ m[2 * b].size >= 2 /\ (c <= b \/ After(m, b) <= c) /\ After(m, b) \in B
  BY <1>1, <1>2 DEF BlockAt, Sized
<1> QED  BY <1>1, <1>3 DEF After

\* Blocks before the region stay blocks.
LEMMA BlocksBefore ==
  ASSUME NEW end \in Nat, NEW new \in Nat, NEW m, NEW n, NEW B, NEW N, NEW s, NEW e,
         Tiling(m, end, B), Sized(m, end), Retiled(m, n, end, new, B, N, s, e),
         NEW b \in B, b < s
  PROVE  BlockAt(n, Around(B, N, s, e, new), b) /\ After(n, b) = After(m, b) /\ After(m, b) <= s
<1>1. /\ s \in 2 .. end /\ b \in 2 .. end /\ e \in Nat /\ s < e /\ b # end /\ new >= s
      /\ m[2 * b].size \in Nat
  BY DEF Retiled, Tiling, Sized
<1>2. PICK a : a = After(m, b)
  OBVIOUS
<1>3. a \in B /\ a <= s /\ b < a /\ a \in Nat
  BY <1>1, <1>2, NoOverlap DEF Retiled, After
<1>4. n[2 * b] = m[2 * b]
  <2>1. 2 * b \in 0 .. 2 * s - 1
    BY <1>1
  <2> QED  BY <2>1 DEF Retiled
<1>5. After(n, b) = a
  BY <1>2, <1>4 DEF After
<1>6. n[2 * a - 1] = m[2 * a - 1]
  <2>1. 2 * a - 1 \in 0 .. 2 * s - 1
    BY <1>1, <1>3
  <2> QED  BY <2>1 DEF Retiled
<1>7. BlockAt(m, B, b)
  BY <1>1 DEF Tiling
<1>8. n[2 * a].pal = m[2 * a].pal /\ (m[2 * a].alloc => n[2 * a].alloc \/ m[2 * a].pal)
  <2>1. CASE a = s
    BY <2>1 DEF Retiled
  <2>2. CASE a # s
    <3>1. 2 * a \in 0 .. 2 * s - 1
      BY <1>1, <1>3, <2>2
    <3> QED  BY <3>1 DEF Retiled
  <2> QED  BY <2>1, <2>2
<1>9. a \in Around(B, N, s, e, new)
  BY <1>1, <1>3 DEF Around, Retiled
<1>10. \A c \in Around(B, N, s, e, new) : c <= b \/ a <= c
  <2>1. \A c \in B : c <= b \/ a <= c
    BY <1>2, <1>7 DEF BlockAt
  <2>2. \A c \in N : a <= c
    BY <1>1, <1>3 DEF Retiled
  <2>3. a <= new
    BY <1>1, <1>3
  <2> QED  BY <2>1, <2>2, <2>3 DEF Around
<1> QED
  BY <1>2, <1>3, <1>4, <1>5, <1>6, <1>7, <1>8, <1>9, <1>10 DEF BlockAt

\* The new blocks are blocks.
LEMMA BlocksWithin ==
  ASSUME NEW end \in Nat, NEW new \in Nat, NEW m, NEW n, NEW B, NEW N, NEW s, NEW e,
         Tiling(m, end, B), Sized(n, new), Retiled(m, n, end, new, B, N, s, e),
         NEW b \in N
  PROVE  BlockAt(n, Around(B, N, s, e, new), b)
<1>1. /\ s \in 2 .. end /\ e \in Nat /\ b \in s .. e - 1 /\ new >= e
      /\ (e \in B \/ e = new) /\ B \subseteq 2 .. end /\ N \subseteq s .. e - 1
  BY DEF Retiled, Tiling
<1>2. BlockAt(n, N \cup {e}, b)
  BY DEF Retiled
<1>3. e \in Around(B, N, s, e, new)
  BY <1>1 DEF Around
<1>4. After(n, b) \in Around(B, N, s, e, new) /\ After(n, b) <= e
  <2>1. b < e
    BY <1>1
  <2>2. e <= b \/ After(n, b) <= e
    BY <1>2 DEF BlockAt
  <2> QED  BY <1>1, <1>2, <1>3, <2>1, <2>2 DEF BlockAt, Around
<1>5. \A c \in Around(B, N, s, e, new) : c <= b \/ After(n, b) <= c
  <2>1. \A c \in N : c <= b \/ After(n, b) <= c
    BY <1>2 DEF BlockAt
  <2>2. \A c \in B : c < s => c <= b
    BY <1>1
  <2>3. After(n, b) \in Nat
    <3>1. b \in 0 .. new
      BY <1>1
    <3>2. n[2 * b].size \in Nat
      BY <3>1 DEF Sized
    <3> QED  BY <1>1, <3>2 DEF After
  <2>4. \A c \in B : c >= e => After(n, b) <= c
    BY <1>1, <1>4, <2>3
  <2>5. After(n, b) <= new
    BY <1>1, <1>4, <2>3
  <2> QED  BY <2>1, <2>2, <2>4, <2>5 DEF Around
<1> QED  BY <1>2, <1>4, <1>5 DEF BlockAt

\* Blocks behind the region stay blocks.
LEMMA BlocksBehind ==
  ASSUME NEW end \in Nat, NEW new \in Nat, NEW m, NEW n, NEW B, NEW N, NEW s, NEW e,
         Tiling(m, end, B), Sized(m, end), Retiled(m, n, end, new, B, N, s, e),
         NEW b \in B, b >= e, b # new
  PROVE  /\ BlockAt(n, Around(B, N, s, e, new), b) /\ After(n, b) = After(m, b)
         /\ After(m, b) > e /\ b # end /\ new = end /\ e \in B
<1>1. /\ s \in 2 .. end /\ e \in Nat /\ s < e /\ b \in 2 .. end
      /\ B \subseteq 2 .. end /\ N \subseteq s .. e - 1
  BY DEF Retiled, Tiling
<1>2. /\ new = end /\ e \in B /\ b # end
      /\ n[2 * e].size = m[2 * e].size /\ n[2 * e].alloc = m[2 * e].alloc
      /\ m[2 * e].alloc \/ n[2 * e] = m[2 * e]
  BY <1>1 DEF Retiled
<1>3. BlockAt(m, B, b)
  BY <1>2 DEF Tiling
<1>4. PICK a : a = After(m, b)
  OBVIOUS
<1>5. a \in B /\ a > b /\ a \in 2 .. end
  <2>1. m[2 * b].size \in Nat /\ m[2 * b].size >= 2
    BY <1>1, <1>3 DEF Sized, BlockAt
  <2>2. a \in B
    BY <1>3, <1>4 DEF BlockAt
  <2> QED  BY <1>1, <1>4, <2>1, <2>2 DEF After
<1>6. n[2 * b].size = m[2 * b].size /\ n[2 * b].alloc = m[2 * b].alloc
      /\ (m[2 * b].alloc \/ n[2 * b] = m[2 * b])
  <2>1. CASE b = e
    BY <1>2, <2>1
  <2>2. CASE b # e
    <3>1. 2 * b \in 2 * e + 1 .. 2 * end
      BY <1>1, <2>2
    <3> QED  BY <3>1 DEF Retiled
  <2> QED  BY <2>1, <2>2
<1>7. n[2 * a] = m[2 * a] /\ n[2 * a - 1] = m[2 * a - 1]
  <2>1. 2 * a \in 2 * e + 1 .. 2 * end /\ 2 * a - 1 \in 2 * e + 1 .. 2 * end
    BY <1>1, <1>5
  <2> QED  BY <2>1 DEF Retiled
<1>8. After(n, b) = a
  BY <1>4, <1>6 DEF After
<1>9. a > e
  BY <1>1, <1>5
<1>10. a \in Around(B, N, s, e, new)
  BY <1>1, <1>5, <1>9 DEF Around
<1>11. \A c \in Around(B, N, s, e, new) : c <= b \/ a <= c
  <2>1. \A c \in B : c <= b \/ a <= c
    BY <1>3, <1>4 DEF BlockAt
  <2>2. \A c \in N : c <= b
    BY <1>1
  <2>3. new \in B
    BY <1>2 DEF Tiling
  <2> QED  BY <2>1, <2>2, <2>3 DEF Around
<1>12. BlockAt(n, Around(B, N, s, e, new), b)
  BY <1>3, <1>4, <1>6, <1>7, <1>8, <1>10, <1>11 DEF BlockAt
<1> QED  BY <1>2, <1>4, <1>8, <1>9, <1>12

\* Tiling a region anew gives a tiling.
LEMMA Retile ==
  ASSUME NEW end \in Nat, NEW new \in Nat, NEW m, NEW n, NEW B, NEW N, NEW s, NEW e,
         Tiling(m, end, B), Sized(m, end), Sized(n, new), Retiled(m, n, end, new, B, N, s, e)
  PROVE  Tiling(n, new, Around(B, N, s, e, new))
<1> DEFINE C == Around(B, N, s, e, new)
<1>1. /\ s \in 2 .. end /\ s \in B /\ e \in Nat /\ s < e /\ new >= e /\ B \subseteq 2 .. end
      /\ N \subseteq s .. e - 1 /\ s \in N /\ 2 \in B /\ end \in B /\ (e \in B \/ e = new)
      /\ (new = end \/ new = e)
  BY DEF Retiled, Tiling
<1>2. C \subseteq 2 .. new /\ 2 \in C /\ new \in C
  <2>1. \A b \in B : b < s => b \in 2 .. new
    BY <1>1
  <2>2. N \subseteq 2 .. new
    BY <1>1
  <2>3. \A b \in B : b >= e => b \in 2 .. new
    BY <1>1 DEF Retiled
  <2>4. 2 < s \/ 2 = s
    BY <1>1
  <2>5. new \in 2 .. new
    BY <1>1
  <2>6. C \subseteq 2 .. new
    BY <2>1, <2>2, <2>3, <2>5 DEF Around
  <2>7. 2 \in C
    BY <1>1, <2>4 DEF Around
  <2>8. new \in C
    BY DEF Around
  <2> QED  BY <2>6, <2>7, <2>8
<1>3. n[4].pal
  <2>1. m[4].pal
    BY DEF Tiling
  <2>2. CASE s = 2
    BY <2>1, <2>2 DEF Retiled
  <2>3. CASE s # 2
    <3>1. 4 \in 0 .. 2 * s - 1
      BY <1>1, <2>3
    <3> QED  BY <2>1, <3>1 DEF Retiled
  <2> QED  BY <2>2, <2>3
<1>4. n[2 * new].size = 0 /\ n[2 * new].alloc
  <2>1. CASE new = e
    BY <2>1 DEF Retiled, Tiling
  <2>2. CASE new # e
    <3>1. new = end /\ 2 * end \in 2 * e + 1 .. 2 * end
      BY <1>1, <2>2
    <3> QED  BY <3>1 DEF Retiled, Tiling
  <2> QED  BY <2>1, <2>2
<1>5. \A b \in C \ {new} : BlockAt(n, C, b)
  <2>1. \A b \in B : b < s => BlockAt(n, C, b)
    BY BlocksBefore
  <2>2. \A b \in N : BlockAt(n, C, b)
    BY BlocksWithin
  <2>3. \A b \in B : b >= e /\ b # new => BlockAt(n, C, b)
    BY BlocksBehind
  <2> QED  BY <2>1, <2>2, <2>3 DEF Around
<1>6. ASSUME NEW c \in C, c # 2  PROVE \E p \in C \ {new} : After(n, p) = c
  <2>1. CASE c \in B /\ c <= s
    <3>1. PICK p \in B \ {end} : After(m, p) = c
      BY <1>6, <2>1 DEF Tiling
    <3>2. p < s
      <4>1. p \in 2 .. end /\ m[2 * p].size >= 2 /\ m[2 * p].size \in Nat
        BY <1>1, <3>1 DEF Tiling, BlockAt, Sized
      <4> QED  BY <1>1, <2>1, <3>1, <4>1 DEF After
    <3>3. After(n, p) = c
      BY <3>1, <3>2, BlocksBefore
    <3> QED  BY <1>1, <3>2, <3>3 DEF Around
  <2>2. CASE c \in N \cup {e} /\ c # s
    <3>1. PICK p \in N : After(n, p) = c
      BY <2>2 DEF Retiled
    <3> QED  BY <1>1, <3>1 DEF Around
  <2>3. CASE c \in B /\ c > e
    <3>1. PICK p \in B \ {end} : After(m, p) = c
      BY <1>6, <2>3 DEF Tiling
    <3>2. new = end /\ e \in B
      BY <1>1, <2>3 DEF Retiled
    <3>3. p \in Nat /\ p >= e
      <4>1. p \in Nat
        BY <1>1, <3>1
      <4>2. p < e => After(m, p) <= e
        BY <3>1, <3>2, NoOverlap
      <4> QED  BY <1>1, <2>3, <3>1, <4>1, <4>2
    <3>4. After(n, p) = c
      BY <3>1, <3>2, <3>3, BlocksBehind
    <3> QED  BY <3>1, <3>2, <3>3, <3>4 DEF Around
  <2>4. c \in Nat /\ (c = new => c \in N \cup {e} \/ c \in B)
    BY <1>1, <1>2
  <2> QED  BY <1>1, <1>6, <2>1, <2>2, <2>3, <2>4 DEF Around
<1> QED  BY <1>2, <1>3, <1>4, <1>5, <1>6 DEF Tiling

\* The blocks before and behind the region say what they said.
LEMMA SameHeaders ==
  ASSUME NEW end \in Nat, NEW new \in Nat, NEW m, NEW n, NEW B, NEW N, NEW s, NEW e,
         Tiling(m, end, B), Sized(m, end), Retiled(m, n, end, new, B, N, s, e),
         NEW b \in B, b < s \/ (b >= e /\ b # new)
  PROVE  /\ n[2 * b].size = m[2 * b].size /\ n[2 * b].alloc = m[2 * b].alloc
         /\ b # end /\ After(n, b) = After(m, b)
         /\ \A w \in 2 * b + 1 .. 2 * After(m, b) - 1 : n[w] = m[w]
<1>1. /\ s \in 2 .. end /\ e \in Nat /\ s < e /\ b \in 2 .. end
  BY DEF Retiled, Tiling
<1>2. CASE b < s
  <2>1. 2 * b \in 0 .. 2 * s - 1
    BY <1>1, <1>2
  <2>2. n[2 * b] = m[2 * b]
    BY <2>1 DEF Retiled
  <2>3. After(n, b) = After(m, b) /\ After(m, b) <= s /\ b # end
    BY <1>1, <1>2, BlocksBefore
  <2>4. After(m, b) \in Nat
    BY <1>1 DEF Sized, After
  <2>5. \A w \in 2 * b + 1 .. 2 * After(m, b) - 1 : w \in 0 .. 2 * s - 1
    BY <1>1, <2>3, <2>4
  <2> QED  BY <2>2, <2>3, <2>5 DEF Retiled
<1>3. CASE b >= e /\ b # new
  <2>1. After(n, b) = After(m, b) /\ b # end /\ new = end /\ e \in B
    BY <1>3, BlocksBehind
  <2>2. n[2 * b].size = m[2 * b].size /\ n[2 * b].alloc = m[2 * b].alloc
    <3>1. CASE b = e
      BY <2>1, <3>1 DEF Retiled
    <3>2. CASE b # e
      <4>1. 2 * b \in 2 * e + 1 .. 2 * end
        BY <1>1, <1>3, <3>2
      <4> QED  BY <4>1 DEF Retiled
    <3> QED  BY <3>1, <3>2
  <2>3. After(m, b) \in 2 .. end
    <3>1. BlockAt(m, B, b) /\ B \subseteq 2 .. end
      BY <2>1 DEF Tiling
    <3> QED  BY <3>1 DEF BlockAt
  <2>4. \A w \in 2 * b + 1 .. 2 * After(m, b) - 1 : w \in 2 * e + 1 .. 2 * end
    BY <1>1, <1>3, <2>3
  <2> QED  BY <2>1, <2>2, <2>4 DEF Retiled
<1> QED  BY <1>2, <1>3

-----------------------------------------------------------------------------
(* The allocated blocks and the free lists                                   *)

Allocs(m, end, B) == {b \in B \ {end} : m[2 * b].alloc}
Frees(m, end, B) == {b \in B \ {end} : ~m[2 * b].alloc}

\* The list a free block is in.
Home(m, end, b) == IF After(m, b) = end THEN Wild ELSE ComputeMemoryIndex(m[2 * b].size)

\* Each free block is in its list once, and nothing else is.
Listed(m, end, B, L) ==
  \A l \in 0 .. Wild :
    /\ L[l] \in Seq(Nat) /\ Once(L[l])
    /\ Elems(L[l]) = {b \in Frees(m, end, B) : Home(m, end, b) = l}

\* What becomes of the lists when a region is tiled anew.
Relisted(n, new, L, K, N, s, e) ==
  \A l \in 0 .. Wild :
    /\ K[l] \in Seq(Nat) /\ Once(K[l])
    /\ Elems(K[l]) = {b \in Elems(L[l]) : b < s \/ b >= e}
                       \cup {b \in N : ~n[2 * b].alloc /\ Home(n, new, b) = l}

\* The lists are then those of the new tiling.
LEMMA Relist ==
  ASSUME NEW end \in Nat, NEW new \in Nat, NEW m, NEW n, NEW B, NEW N, NEW s, NEW e, NEW L, NEW K,
         Tiling(m, end, B), Sized(m, end), Retiled(m, n, end, new, B, N, s, e),
         s = end => m[2 * end].pal,
         Listed(m, end, B, L), Relisted(n, new, L, K, N, s, e)
  PROVE  Listed(n, new, Around(B, N, s, e, new), K)
<1> DEFINE C == Around(B, N, s, e, new)
<1>1. /\ s \in 2 .. end /\ s \in B /\ e \in Nat /\ s < e /\ new >= e /\ B \subseteq 2 .. end
      /\ N \subseteq s .. e - 1 /\ (new = end \/ new = e) /\ end <= new
  BY DEF Retiled, Tiling
<1>2. ASSUME NEW b \in B, b < s \/ (b >= e /\ b # new)
      PROVE  /\ n[2 * b].alloc = m[2 * b].alloc /\ b # end
             /\ ~m[2 * b].alloc => Home(n, new, b) = Home(m, end, b)
  <2>1. /\ n[2 * b].size = m[2 * b].size /\ n[2 * b].alloc = m[2 * b].alloc
        /\ b # end /\ After(n, b) = After(m, b)
    BY <1>2, SameHeaders
  <2>2. CASE b >= e /\ b # new
    BY <2>1, <2>2, BlocksBehind DEF Home
  <2>3. CASE b < s /\ ~m[2 * b].alloc
    <3>1. After(m, b) <= s
      BY <2>3, BlocksBefore
    <3>2. After(m, b) # new
      <4>1. After(m, b) \in Nat
        BY <1>1 DEF After, Sized
      <4> QED  BY <1>1, <3>1, <4>1
    <3>3. After(m, b) # end
      <4>1. BlockAt(m, B, b)
        BY <2>1 DEF Tiling
      <4>2. m[2 * After(m, b)].pal = FALSE
        BY <2>3, <4>1 DEF BlockAt, Tiling
      <4>3. After(m, b) = end => s = end
        BY <1>1, <3>1
      <4> QED  BY <4>2, <4>3
    <3> QED  BY <2>1, <3>2, <3>3 DEF Home
  <2> QED  BY <1>2, <2>1, <2>2, <2>3
<1>3. ASSUME NEW l \in 0 .. Wild
      PROVE  Elems(K[l]) = {b \in Frees(n, new, C) : Home(n, new, b) = l}
  <2>1. Elems(K[l]) = {b \in Elems(L[l]) : b < s \/ b >= e}
                        \cup {b \in N : ~n[2 * b].alloc /\ Home(n, new, b) = l}
    BY DEF Relisted
  <2>2. Elems(L[l]) = {b \in Frees(m, end, B) : Home(m, end, b) = l}
    BY DEF Listed
  <2>3. ASSUME NEW b \in Elems(K[l])
        PROVE  b \in Frees(n, new, C) /\ Home(n, new, b) = l
    <3>1. CASE b \in N
      <4>1. ~n[2 * b].alloc /\ Home(n, new, b) = l
        <5>1. CASE b \in Elems(L[l]) /\ (b < s \/ b >= e)
          BY <1>1, <3>1, <5>1
        <5> QED  BY <2>1, <2>3, <5>1
      <4>2. b \in C /\ b # new
        BY <1>1, <3>1 DEF Around
      <4> QED  BY <4>1, <4>2 DEF Frees
    <3>2. CASE b \notin N
      <4>1. b \in B \ {end} /\ ~m[2 * b].alloc /\ Home(m, end, b) = l /\ (b < s \/ b >= e)
        BY <2>1, <2>2, <2>3, <3>2 DEF Frees
      <4>2. b # new
        <5>1. b \in 2 .. end
          BY <1>1, <4>1
        <5> QED  BY <1>1, <4>1, <5>1
      <4>3. b \in C
        BY <4>1 DEF Around
      <4> QED  BY <1>2, <4>1, <4>2, <4>3 DEF Frees
    <3> QED  BY <3>1, <3>2
  <2>4. ASSUME NEW b \in Frees(n, new, C), Home(n, new, b) = l
        PROVE  b \in Elems(K[l])
    <3>1. b \in C /\ b # new /\ ~n[2 * b].alloc
      BY DEF Frees
    <3>2. CASE b \in N
      BY <2>1, <2>4, <3>1, <3>2
    <3>3. CASE b \notin N
      <4>1. b \in B /\ (b < s \/ (b >= e /\ b # new))
        BY <3>1, <3>3 DEF Around
      <4>2. b # end /\ ~m[2 * b].alloc /\ Home(m, end, b) = l
        BY <1>2, <2>4, <3>1, <4>1
      <4>3. b \in Elems(L[l])
        BY <2>2, <4>1, <4>2 DEF Frees
      <4> QED  BY <2>1, <4>1, <4>3
    <3> QED  BY <3>2, <3>3
  <2> QED  BY <2>3, <2>4
<1> QED  BY <1>3 DEF Listed, Relisted

\* What a client that holds b may rely on.
Kept(m, n, b) ==
  /\ n[2 * b].size = m[2 * b].size
  /\ \A w \in 2 * b + 1 .. 2 * After(m, b) - 1 : n[w] = m[w]

\* Outside the region the allocated blocks stay, with all that is in them.
LEMMA Reallocs ==
  ASSUME NEW end \in Nat, NEW new \in Nat, NEW m, NEW n, NEW B, NEW N, NEW s, NEW e,
         Tiling(m, end, B), Sized(m, end), Retiled(m, n, end, new, B, N, s, e)
  PROVE  /\ Allocs(n, new, Around(B, N, s, e, new))
              = {b \in Allocs(m, end, B) : b < s \/ b >= e} \cup {b \in N : n[2 * b].alloc}
         /\ \A b \in Allocs(m, end, B) : b < s \/ b >= e => Kept(m, n, b)
<1>1. /\ s \in 2 .. end /\ e \in Nat /\ s < e /\ new >= e /\ B \subseteq 2 .. end
      /\ N \subseteq s .. e - 1 /\ (new = end \/ new = e) /\ end <= new
  BY DEF Retiled, Tiling
<1>2. ASSUME NEW b \in B, b < s \/ (b >= e /\ b # new)
      PROVE  n[2 * b].alloc = m[2 * b].alloc /\ b # end /\ Kept(m, n, b)
  BY <1>2, SameHeaders DEF Kept
<1>3. ASSUME NEW b \in B, b # end, b >= e  PROVE b # new
  <2>1. b \in 2 .. end /\ e \in Nat /\ new \in Nat /\ end \in Nat /\ (new = end \/ new = e)
    BY <1>1
  <2>2. CASE new = end
    BY <1>3, <2>2
  <2>3. CASE new = e /\ end <= new
    BY <1>3, <2>1, <2>3
  <2> QED  BY <1>1, <2>1, <2>2, <2>3
<1>4. ASSUME NEW b \in N  PROVE b # new /\ ~(b < s) /\ ~(b >= e)
  BY <1>1
<1>5. \A b : b \in Allocs(n, new, Around(B, N, s, e, new)) =>
               \/ b \in Allocs(m, end, B) /\ (b < s \/ b >= e)
               \/ b \in N /\ n[2 * b].alloc
  BY <1>2 DEF Allocs, Around
<1>6. \A b \in Allocs(m, end, B) : b < s \/ b >= e =>
               b \in Allocs(n, new, Around(B, N, s, e, new)) /\ Kept(m, n, b)
  <2>1. ASSUME NEW b \in Allocs(m, end, B), b < s \/ b >= e
        PROVE  b \in Allocs(n, new, Around(B, N, s, e, new)) /\ Kept(m, n, b)
    <3>1. b \in B /\ b # end /\ m[2 * b].alloc
      BY DEF Allocs
    <3>2. b < s => b # new
      BY <1>1, <3>1
    <3>3. b # new
      BY <1>3, <2>1, <3>1, <3>2
    <3>4. n[2 * b].alloc = m[2 * b].alloc /\ Kept(m, n, b)
      BY <1>2, <2>1, <3>1, <3>3
    <3> QED  BY <2>1, <3>1, <3>3, <3>4 DEF Allocs, Around
  <2> QED  BY <2>1
<1>7. \A b \in N : n[2 * b].alloc => b \in Allocs(n, new, Around(B, N, s, e, new))
  BY <1>4 DEF Allocs, Around
<1> QED  BY <1>5, <1>6, <1>7

\* The blocks N fill the rows from s to e.
Pieces(n, N, s, e) ==
  /\ N \subseteq s .. e - 1 /\ s \in N
  /\ \A b \in N : BlockAt(n, N \cup {e}, b)
  /\ \A c \in N \cup {e} : c # s => \E p \in N : After(n, p) = c

\* Regions of one, two or three blocks.
LEMMA OneBlock ==
  ASSUME NEW n, NEW s \in Nat, NEW e \in Nat, s + 2 <= e,
         n[2 * s].size = e - s, n[2 * e].pal = n[2 * s].alloc,
         ~n[2 * s].alloc => n[2 * e - 1] = n[2 * s] /\ n[2 * e].alloc
  PROVE  Pieces(n, {s}, s, e)
<1>1. After(n, s) = e
  BY DEF After
<1>2. /\ \A b \in {s} : BlockAt(n, {s} \cup {e}, b)
      /\ \A c \in {s} \cup {e} : c # s => \E p \in {s} : After(n, p) = c
      /\ {s} \subseteq s .. e - 1
  BY <1>1 DEF BlockAt
<1> QED  BY <1>2 DEF Pieces

\* Two blocks side by side fill a region, the first of them in use.
LEMMA TwoBlocks ==
  ASSUME NEW n, NEW s \in Nat, NEW t \in Nat, NEW e \in Nat, s + 2 <= t, t + 2 <= e,
         n[2 * s].size = t - s, n[2 * s].alloc, n[2 * t].pal = n[2 * s].alloc, n[2 * t].size = e - t,
         n[2 * e].pal = n[2 * t].alloc,
         ~n[2 * t].alloc => n[2 * e - 1] = n[2 * t] /\ n[2 * e].alloc
  PROVE  Pieces(n, {s, t}, s, e)
<1>1. After(n, s) = t /\ After(n, t) = e
  BY DEF After
<1>2. BlockAt(n, {s, t} \cup {e}, s)
  <2>1. \A c \in {s, t} \cup {e} : c <= s \/ t <= c
    OBVIOUS
  <2>2. t \in {s, t} \cup {e} /\ t - s >= 2
    OBVIOUS
  <2> QED  BY <1>1, <2>1, <2>2 DEF BlockAt
<1>3. BlockAt(n, {s, t} \cup {e}, t)
  <2>1. \A c \in {s, t} \cup {e} : c <= t \/ e <= c
    OBVIOUS
  <2>2. e \in {s, t} \cup {e} /\ e - t >= 2
    OBVIOUS
  <2> QED  BY <1>1, <2>1, <2>2 DEF BlockAt
<1>4. {s, t} \subseteq s .. e - 1
  OBVIOUS
<1>5. \A c \in {s, t} \cup {e} : c # s => \E p \in {s, t} : After(n, p) = c
  BY <1>1
<1> QED  BY <1>2, <1>3, <1>4, <1>5 DEF Pieces

\* Three blocks in use side by side fill a region.
LEMMA ThreeBlocks ==
  ASSUME NEW n, NEW s \in Nat, NEW t \in Nat, NEW u \in Nat, NEW e \in Nat,
         s + 2 <= t, t + 2 <= u, u + 2 <= e,
         n[2 * s].size = t - s, n[2 * s].alloc, n[2 * t].pal = n[2 * s].alloc,
         n[2 * t].size = u - t, n[2 * t].alloc, n[2 * u].pal = n[2 * t].alloc,
         n[2 * u].size = e - u, n[2 * u].alloc, n[2 * e].pal = n[2 * u].alloc
  PROVE  Pieces(n, {s, t, u}, s, e)
<1>1. After(n, s) = t /\ After(n, t) = u /\ After(n, u) = e
  BY DEF After
<1>2. BlockAt(n, {s, t, u} \cup {e}, s)
  <2>1. \A c \in {s, t, u} \cup {e} : c <= s \/ t <= c
    OBVIOUS
  <2>2. t \in {s, t, u} \cup {e} /\ t - s >= 2
    OBVIOUS
  <2> QED  BY <1>1, <2>1, <2>2 DEF BlockAt
<1>3. BlockAt(n, {s, t, u} \cup {e}, t)
  <2>1. \A c \in {s, t, u} \cup {e} : c <= t \/ u <= c
    OBVIOUS
  <2>2. u \in {s, t, u} \cup {e} /\ u - t >= 2
    OBVIOUS
  <2> QED  BY <1>1, <2>1, <2>2 DEF BlockAt
<1>4. BlockAt(n, {s, t, u} \cup {e}, u)
  <2>1. \A c \in {s, t, u} \cup {e} : c <= u \/ e <= c
    OBVIOUS
  <2>2. e \in {s, t, u} \cup {e} /\ e - u >= 2
    OBVIOUS
  <2> QED  BY <1>1, <2>1, <2>2 DEF BlockAt
<1>5. {s, t, u} \subseteq s .. e - 1
  OBVIOUS
<1>6. \A c \in {s, t, u} \cup {e} : c # s => \E p \in {s, t, u} : After(n, p) = c
  BY <1>1
<1> QED  BY <1>2, <1>3, <1>4, <1>5, <1>6 DEF Pieces

-----------------------------------------------------------------------------
(* The heap as a whole, and what the small operators do to it                *)

Rows == PageRows * MaxPages
Words == WordsOf(MaxPages)
Word == [size : 0 .. Rows, alloc : BOOLEAN, pal : BOOLEAN, id : Ids \cup {NoId}]
Heaps == [mem : [Words -> Word], pages : 0 .. MaxPages, lists : [0 .. Wild -> Seq(Nat)],
          aborted : BOOLEAN]

\* How large it is.
LEMMA Bounds ==
  /\ Rows \in Nat /\ Rows >= 5 /\ Words = 0 .. 2 * Rows - 2
  /\ Wild \in Nat /\ Wild >= 1
  /\ \A p \in 1 .. MaxPages : PageRows * p - 1 \in 4 .. Rows - 1
<1>1. PageRows \in Nat /\ PageRows >= 5 /\ MaxPages \in Nat /\ MaxPages >= 1
  BY PageAssumption, MaxPagesAssumption
<1>2. ASSUME NEW p \in 1 .. MaxPages  PROVE PageRows * p \in 5 .. PageRows * MaxPages
  <2>1. PICK x : x = PageRows * p
    OBVIOUS
  <2>2. PICK y \in Nat : y = MaxPages - p
    BY <1>1
  <2>3. PageRows * MaxPages = PageRows * p + PageRows * y
    BY <1>1, <2>2
  <2>4. PageRows * y \in Nat /\ PageRows * p \in Nat
    BY <1>1
  <2>5. PageRows * p >= PageRows
    BY <1>1
  <2> QED  BY <1>1, <2>3, <2>4, <2>5
<1>3. Rows \in Nat /\ Rows >= 5
  BY <1>1, <1>2 DEF Rows
<1>4. 2 * PageRows * MaxPages = 2 * Rows
  BY <1>1 DEF Rows
<1>5. Words = 0 .. 2 * Rows - 2
  BY <1>4 DEF Words, WordsOf
<1>6. Wild \in Nat /\ Wild >= 1
  BY NumListsAssumption DEF Wild
<1>7. \A p \in 1 .. MaxPages : PageRows * p - 1 \in 4 .. Rows - 1
  BY <1>2, <1>3 DEF Rows
<1> QED  BY <1>3, <1>5, <1>6, <1>7

\* Only the memory, or only the lists, are changed.
OnlyMemory(h, g) == g \in Heaps /\ g.pages = h.pages /\ g.lists = h.lists /\ g.aborted = h.aborted
OnlyLists(h, g) == g \in Heaps /\ g.pages = h.pages /\ g.mem = h.mem /\ g.aborted = h.aborted

\* What memory m becomes n by: all words but those from i to j stay.
SameBut(m, n, i, j) == \A w \in Words : w < i \/ w > j => n[w] = m[w]

\* A header or footer is a word.
LEMMA TagIsWord ==
  ASSUME NEW size \in 0 .. Rows, NEW al \in BOOLEAN, NEW pal \in BOOLEAN
  PROVE  /\ Tag(size, al, pal) \in Word /\ Data(NoId) \in Word
         /\ Tag(size, al, pal).size = size /\ Tag(size, al, pal).alloc = al
         /\ Tag(size, al, pal).pal = pal
<1>1. 0 \in 0 .. Rows
  BY Bounds
<1> QED  BY <1>1 DEF Tag, Data, Word

\* Writing a header writes one word.
LEMMA SetHeaderDoes ==
  ASSUME NEW h \in Heaps, NEW b \in Nat, b < Rows, NEW size \in 0 .. Rows,
         NEW al \in BOOLEAN, NEW pal \in BOOLEAN,
         NEW g, g = SetHeader(h, b, size, al, pal)
  PROVE  /\ OnlyMemory(h, g) /\ SameBut(h.mem, g.mem, 2 * b, 2 * b)
         /\ g.mem[2 * b] = Tag(size, al, pal)
<1>1. 2 * b \in Words /\ Tag(size, al, pal) \in Word
  BY Bounds, TagIsWord
<1>2. h.mem \in [Words -> Word]
  BY DEF Heaps
<1>3. g = [h EXCEPT !.mem = [h.mem EXCEPT ![2 * b] = Tag(size, al, pal)]]
  BY DEF SetHeader
<1>4. PICK n : n = [h.mem EXCEPT ![2 * b] = Tag(size, al, pal)]
  OBVIOUS
<1>5. n \in [Words -> Word] /\ n[2 * b] = Tag(size, al, pal)
      /\ \A w \in Words : w # 2 * b => n[w] = h.mem[w]
  BY <1>1, <1>2, <1>4
<1>6. OnlyMemory(h, g) /\ g.mem = n
  BY <1>3, <1>4, <1>5 DEF Heaps, OnlyMemory
<1>7. SameBut(h.mem, n, 2 * b, 2 * b)
  BY <1>5, Bounds DEF SameBut
<1> QED  BY <1>5, <1>6, <1>7

\* Setting a pal bit touches nothing else.
LEMMA SetPalDoes ==
  ASSUME NEW h \in Heaps, NEW b \in Nat, b < Rows, NEW pal \in BOOLEAN,
         NEW g, g = SetPal(h, b, pal)
  PROVE  /\ OnlyMemory(h, g) /\ SameBut(h.mem, g.mem, 2 * b, 2 * b)
         /\ g.mem[2 * b].size = h.mem[2 * b].size /\ g.mem[2 * b].alloc = h.mem[2 * b].alloc
         /\ g.mem[2 * b].pal = pal
         /\ h.mem[2 * b].pal = pal => g.mem[2 * b] = h.mem[2 * b]
<1>1. 2 * b \in Words /\ h.mem \in [Words -> Word]
  BY Bounds DEF Heaps
<1>2. PICK v : v = [h.mem[2 * b] EXCEPT !.pal = pal]
  OBVIOUS
<1>3. h.mem[2 * b] \in Word
  BY <1>1
<1>4. /\ v \in Word /\ v.size = h.mem[2 * b].size /\ v.alloc = h.mem[2 * b].alloc /\ v.pal = pal
      /\ h.mem[2 * b].pal = pal => v = h.mem[2 * b]
  BY <1>2, <1>3 DEF Word
<1>5. g = [h EXCEPT !.mem = [h.mem EXCEPT ![2 * b] = v]]
  BY <1>2 DEF SetPal
<1>6. PICK n : n = [h.mem EXCEPT ![2 * b] = v]
  OBVIOUS
<1>7. n \in [Words -> Word] /\ n[2 * b] = v
      /\ \A w \in Words : w # 2 * b => n[w] = h.mem[w]
  BY <1>1, <1>4, <1>6
<1>8. OnlyMemory(h, g) /\ g.mem = n
  BY <1>5, <1>6, <1>7 DEF Heaps, OnlyMemory
<1>9. SameBut(h.mem, n, 2 * b, 2 * b)
  BY <1>7, Bounds DEF SameBut
<1> QED  BY <1>4, <1>7, <1>8, <1>9

\* The bit of the block itself (sf_malloc, when it takes a block whole).
LEMMA MarkDoes ==
  ASSUME NEW h \in Heaps, NEW b \in Nat, b < Rows,
         NEW g, g = [h EXCEPT !.mem[2 * b].alloc = TRUE]
  PROVE  /\ OnlyMemory(h, g) /\ SameBut(h.mem, g.mem, 2 * b, 2 * b)
         /\ g.mem[2 * b].size = h.mem[2 * b].size /\ g.mem[2 * b].pal = h.mem[2 * b].pal
         /\ g.mem[2 * b].alloc
<1>1. 2 * b \in Words /\ h.mem \in [Words -> Word]
  BY Bounds DEF Heaps
<1>2. PICK v : v = [h.mem[2 * b] EXCEPT !.alloc = TRUE]
  OBVIOUS
<1>3. h.mem[2 * b] \in Word
  BY <1>1
<1>4. v \in Word /\ v.size = h.mem[2 * b].size /\ v.pal = h.mem[2 * b].pal /\ v.alloc = TRUE
  BY <1>2, <1>3 DEF Word
<1>5. g = [h EXCEPT !.mem = [h.mem EXCEPT ![2 * b] = v]]
  BY <1>2
<1>6. PICK n : n = [h.mem EXCEPT ![2 * b] = v]
  OBVIOUS
<1>7. n \in [Words -> Word] /\ n[2 * b] = v
      /\ \A w \in Words : w # 2 * b => n[w] = h.mem[w]
  BY <1>1, <1>4, <1>6
<1>8. OnlyMemory(h, g) /\ g.mem = n
  BY <1>5, <1>6, <1>7 DEF Heaps, OnlyMemory
<1>9. SameBut(h.mem, n, 2 * b, 2 * b)
  BY <1>7, Bounds DEF SameBut
<1> QED  BY <1>4, <1>7, <1>8, <1>9

\* What nobody may read of a block is inside that block.
LEMMA ClearDoes ==
  ASSUME NEW h \in Heaps, NEW b \in Nat, NEW size \in Nat,
         NEW g, g = Clear(h, b, size)
  PROVE  OnlyMemory(h, g) /\ SameBut(h.mem, g.mem, 2 * b + 1, 2 * (b + size) - 1)
<1>1. h.mem \in [Words -> Word] /\ Data(NoId) \in Word
  BY Bounds DEF Heaps, Data, Word
<1>2. PICK n : n = [w \in DOMAIN h.mem |->
                      IF w \in 2 * b + 1 .. 2 * (b + size) - 1 THEN Data(NoId) ELSE h.mem[w]]
  OBVIOUS
<1>3. n \in [Words -> Word]
  BY <1>1, <1>2
<1>4. SameBut(h.mem, n, 2 * b + 1, 2 * (b + size) - 1)
  <2>1. ASSUME NEW w \in Words, w < 2 * b + 1 \/ w > 2 * (b + size) - 1
        PROVE  w \notin 2 * b + 1 .. 2 * (b + size) - 1
    BY <2>1, Bounds
  <2> QED  BY <1>1, <1>2, <2>1 DEF SameBut
<1>5. g = [h EXCEPT !.mem = n]
  BY <1>2 DEF Clear
<1> QED  BY <1>3, <1>4, <1>5 DEF Heaps, OnlyMemory

\* A free block has a footer, and nothing is changed outside.
FreeSet(h, g, b, size, pal) ==
  /\ OnlyMemory(h, g) /\ SameBut(h.mem, g.mem, 2 * b, 2 * (b + size) - 1)
  /\ g.mem[2 * b] = Tag(size, FALSE, pal) /\ g.mem[2 * (b + size) - 1] = Tag(size, FALSE, pal)

\* A block made free has a header and a footer, and nothing outside changes.
LEMMA SetFreeDoes ==
  ASSUME NEW h \in Heaps, NEW b \in Nat, NEW size \in Nat, size >= 2, b + size < Rows,
         NEW pal \in BOOLEAN, NEW g, g = SetFree(h, b, size, pal)
  PROVE  FreeSet(h, g, b, size, pal)
<1>1. PICK f, x, y, t : /\ f = Clear(h, b, size) /\ t = Tag(size, FALSE, pal)
                        /\ x = 2 * b /\ y = 2 * (b + size) - 1
  OBVIOUS
<1>2. OnlyMemory(h, f) /\ SameBut(h.mem, f.mem, 2 * b + 1, 2 * (b + size) - 1)
  BY <1>1, ClearDoes
<1>3. x \in Words /\ y \in Words /\ x # y /\ x < y
  BY <1>1, Bounds
<1>4. t \in Word
  <2>1. size \in 0 .. Rows
    BY Bounds
  <2> QED  BY <1>1, <2>1, TagIsWord
<1>5. f.mem \in [Words -> Word]
  BY <1>2 DEF OnlyMemory, Heaps
<1>6. PICK n : n = [f.mem EXCEPT ![x] = t, ![y] = t]
  OBVIOUS
<1>7. n \in [Words -> Word] /\ n[x] = t /\ n[y] = t
      /\ \A w \in Words : w # x /\ w # y => n[w] = f.mem[w]
  BY <1>3, <1>4, <1>5, <1>6
<1>8. g = [f EXCEPT !.mem = n]
  <2>1. f \in Heaps
    BY <1>2 DEF OnlyMemory
  <2>2. g = [f EXCEPT !.mem[x] = t, !.mem[y] = t]
    BY <1>1 DEF SetFree
  <2> QED  BY <1>6, <2>1, <2>2 DEF Heaps
<1>9. OnlyMemory(h, g) /\ g.mem = n
  BY <1>2, <1>7, <1>8 DEF OnlyMemory, Heaps
<1>10. SameBut(h.mem, n, 2 * b, 2 * (b + size) - 1)
  <2>1. ASSUME NEW w \in Words, w < 2 * b \/ w > 2 * (b + size) - 1
        PROVE  n[w] = h.mem[w]
    <3>1. w # x /\ w # y /\ (w < 2 * b + 1 \/ w > 2 * (b + size) - 1)
      BY <1>1, <2>1, Bounds
    <3>2. f.mem[w] = h.mem[w]
      BY <1>2, <3>1 DEF SameBut
    <3> QED  BY <1>7, <3>1, <3>2
  <2> QED  BY <2>1 DEF SameBut
<1> QED  BY <1>1, <1>7, <1>9, <1>10 DEF FreeSet

\* Every list has a block once.
OnceEach(h) == \A l \in 0 .. Wild : Once(h.lists[l])

\* A block cut is in no list.
LEMMA CutDoes ==
  ASSUME NEW h \in Heaps, OnceEach(h), NEW b \in Nat, NEW g, g = Cut(h, b)
  PROVE  /\ OnlyLists(h, g) /\ OnceEach(g)
         /\ \A l \in 0 .. Wild : Elems(g.lists[l]) = Elems(h.lists[l]) \ {b}
<1>1. h.lists \in [0 .. Wild -> Seq(Nat)]
  BY DEF Heaps
<1>2. PICK k : k = [l \in DOMAIN h.lists |-> Unlink(h.lists[l], b)]
  OBVIOUS
<1>3. ASSUME NEW l \in 0 .. Wild
      PROVE  k[l] \in Seq(Nat) /\ Once(k[l]) /\ Elems(k[l]) = Elems(h.lists[l]) \ {b}
  <2>1. h.lists[l] \in Seq(Nat) /\ Once(h.lists[l])
    BY <1>1 DEF OnceEach
  <2>2. k[l] = Unlink(h.lists[l], b)
    BY <1>1, <1>2
  <2> QED  BY <2>1, <2>2, Unlinked
<1>4. k \in [0 .. Wild -> Seq(Nat)]
  BY <1>1, <1>2, <1>3
<1>5. g = [h EXCEPT !.lists = k]
  BY <1>2 DEF Cut
<1>6. OnlyLists(h, g) /\ g.lists = k
  BY <1>4, <1>5 DEF OnlyLists, Heaps
<1> QED  BY <1>3, <1>6 DEF OnceEach

\* A block pushed is in that list, and the other lists stay.
LEMMA PushDoes ==
  ASSUME NEW h \in Heaps, OnceEach(h), NEW l \in 0 .. Wild, NEW b \in Nat,
         b \notin Elems(h.lists[l]), NEW g, g = Push(h, l, b)
  PROVE  /\ OnlyLists(h, g) /\ OnceEach(g)
         /\ Elems(g.lists[l]) = Elems(h.lists[l]) \cup {b}
         /\ \A j \in 0 .. Wild : j # l => g.lists[j] = h.lists[j]
<1>1. h.lists \in [0 .. Wild -> Seq(Nat)]
  BY DEF Heaps
<1>2. PICK x : x = <<b>> \o h.lists[l]
  OBVIOUS
<1>3. x \in Seq(Nat) /\ Once(x) /\ Elems(x) = Elems(h.lists[l]) \cup {b}
  BY <1>1, <1>2, Linked DEF OnceEach
<1>4. g = [h EXCEPT !.lists = [h.lists EXCEPT ![l] = x]]
  BY <1>2 DEF Push
<1>5. PICK k : k = [h.lists EXCEPT ![l] = x]
  OBVIOUS
<1>6. k \in [0 .. Wild -> Seq(Nat)] /\ k[l] = x /\ \A j \in 0 .. Wild : j # l => k[j] = h.lists[j]
  BY <1>1, <1>3, <1>5
<1>7. OnlyLists(h, g) /\ g.lists = k
  BY <1>4, <1>5, <1>6 DEF OnlyLists, Heaps
<1> QED  BY <1>3, <1>6, <1>7 DEF OnceEach

\* The wilderness list has one block.
LEMMA SetWildernessDoes ==
  ASSUME NEW h \in Heaps, OnceEach(h), NEW b \in Nat, NEW g, g = SetWilderness(h, b)
  PROVE  /\ OnlyLists(h, g) /\ OnceEach(g) /\ Elems(g.lists[Wild]) = {b}
         /\ g.lists[Wild] = <<b>>
         /\ \A j \in 0 .. Wild : j # Wild => g.lists[j] = h.lists[j]
<1>1. h.lists \in [0 .. Wild -> Seq(Nat)] /\ Wild \in 0 .. Wild
  BY Bounds DEF Heaps
<1>2. PICK x : x = <<b>>
  OBVIOUS
<1>3. x \in Seq(Nat) /\ Once(x) /\ Elems(x) = {b}
  BY <1>2 DEF Once, Elems
<1>4. g = [h EXCEPT !.lists = [h.lists EXCEPT ![Wild] = x]]
  BY <1>2 DEF SetWilderness
<1>5. PICK k : k = [h.lists EXCEPT ![Wild] = x]
  OBVIOUS
<1>6. k \in [0 .. Wild -> Seq(Nat)] /\ k[Wild] = x /\ \A j \in 0 .. Wild : j # Wild => k[j] = h.lists[j]
  BY <1>1, <1>3, <1>5
<1>7. OnlyLists(h, g) /\ g.lists = k
  BY <1>4, <1>5, <1>6 DEF OnlyLists, Heaps
<1> QED  BY <1>2, <1>3, <1>6, <1>7 DEF OnceEach

-----------------------------------------------------------------------------
(* A heap in order, and what one retiling makes of it                        *)

\* The blocks B tile the heap h and its lists hold the free ones.
Good(h, B) ==
  /\ h \in Heaps /\ h.pages # 0
  /\ Tiling(h.mem, Epilogue(h), B)
  /\ Listed(h.mem, Epilogue(h), B, h.lists)
Used(h, B) == Allocs(h.mem, Epilogue(h), B)

\* What the proofs need most of a heap in order.
LEMMA GoodFacts ==
  ASSUME NEW h, NEW B, Good(h, B)
  PROVE  /\ h \in Heaps /\ h.pages \in 1 .. MaxPages /\ Epilogue(h) \in 4 .. Rows - 1
         /\ Sized(h.mem, Epilogue(h)) /\ OnceEach(h)
         /\ \A b \in 0 .. Rows - 1 : 2 * b \in Words /\ h.mem[2 * b] \in Word
         /\ B \subseteq 2 .. Epilogue(h) /\ 2 \in B /\ Epilogue(h) \in B
         /\ \A l \in 0 .. Wild : \A b \in Elems(h.lists[l]) :
              b \in B /\ b # Epilogue(h) /\ ~h.mem[2 * b].alloc
<1>1. h \in Heaps /\ h.pages \in 1 .. MaxPages
  BY MaxPagesAssumption DEF Good, Heaps
<1>2. Epilogue(h) \in 4 .. Rows - 1
  BY <1>1, Bounds DEF Epilogue
<1>3. \A b \in 0 .. Rows - 1 : 2 * b \in Words /\ h.mem[2 * b] \in Word
  BY <1>1, Bounds DEF Heaps
<1>4. Sized(h.mem, Epilogue(h))
  BY <1>2, <1>3, Bounds DEF Sized, Word
<1>5. OnceEach(h)
  BY DEF Good, Listed, OnceEach
<1>6. B \subseteq 2 .. Epilogue(h) /\ 2 \in B /\ Epilogue(h) \in B
  BY DEF Good, Tiling
<1>7. \A l \in 0 .. Wild : \A b \in Elems(h.lists[l]) :
              b \in B /\ b # Epilogue(h) /\ ~h.mem[2 * b].alloc
  BY DEF Good, Listed, Frees
<1> QED  BY <1>1, <1>2, <1>3, <1>4, <1>5, <1>6, <1>7

\* A block and the one after it.
LEMMA NextOf ==
  ASSUME NEW h, NEW B, Good(h, B), NEW b \in B, b # Epilogue(h)
  PROVE  /\ BlockAt(h.mem, B, b) /\ b \in 2 .. Epilogue(h) - 2
         /\ h.mem[2 * b].size \in Nat /\ h.mem[2 * b].size >= 2
         /\ After(h.mem, b) \in B /\ After(h.mem, b) \in b + 2 .. Epilogue(h)
         /\ After(h.mem, b) = b + h.mem[2 * b].size
         /\ h.mem[2 * b].alloc \in BOOLEAN /\ h.mem[2 * b].pal \in BOOLEAN
         /\ h.mem[2 * After(h.mem, b)].size = 0 <=> After(h.mem, b) = Epilogue(h)
<1>1. BlockAt(h.mem, B, b) /\ h.mem[2 * Epilogue(h)].size = 0
  BY DEF Good, Tiling
<1>2. b \in 2 .. Epilogue(h) /\ Epilogue(h) \in 4 .. Rows - 1 /\ B \subseteq 2 .. Epilogue(h)
  BY GoodFacts
<1>3. h.mem[2 * b] \in Word
  <2>1. b \in 0 .. Rows - 1
    BY <1>2, Bounds
  <2> QED  BY <2>1, GoodFacts
<1>4. h.mem[2 * b].size \in Nat /\ h.mem[2 * b].alloc \in BOOLEAN /\ h.mem[2 * b].pal \in BOOLEAN
  BY <1>3, Bounds DEF Word
<1>5. h.mem[2 * b].size >= 2 /\ After(h.mem, b) \in B
  BY <1>1 DEF BlockAt
<1>6. After(h.mem, b) \in b + 2 .. Epilogue(h) /\ After(h.mem, b) = b + h.mem[2 * b].size
  BY <1>2, <1>4, <1>5 DEF After
<1>7. b \in 2 .. Epilogue(h) - 2
  BY <1>2, <1>6
<1>8. ASSUME After(h.mem, b) # Epilogue(h)  PROVE h.mem[2 * After(h.mem, b)].size # 0
  <2>1. BlockAt(h.mem, B, After(h.mem, b))
    BY <1>5, <1>8 DEF Good, Tiling
  <2> QED  BY <2>1 DEF BlockAt
<1> QED  BY <1>1, <1>4, <1>5, <1>6, <1>7, <1>8

\* The block before one whose pal bit is 0 is free, and found by its footer.
LEMMA PreviousOf ==
  ASSUME NEW h, NEW B, Good(h, B), NEW b \in B, ~h.mem[2 * b].pal
  PROVE  LET p == Previous(h, b)
         IN /\ p \in B /\ p # Epilogue(h) /\ After(h.mem, p) = b
            /\ ~h.mem[2 * p].alloc /\ h.mem[2 * p].pal
<1>1. b # 2
  BY DEF Good, Tiling
<1>2. PICK p \in B \ {Epilogue(h)} : After(h.mem, p) = b
  BY <1>1 DEF Good, Tiling
<1>3. BlockAt(h.mem, B, p) /\ p \in Nat /\ h.mem[2 * p].size \in Nat /\ b = p + h.mem[2 * p].size
  BY <1>2, NextOf
<1>4. ~h.mem[2 * p].alloc
  BY <1>2, <1>3 DEF BlockAt
<1>5. h.mem[2 * b - 1] = h.mem[2 * p]
  BY <1>2, <1>3, <1>4 DEF BlockAt
<1>6. Previous(h, b) = p
  BY <1>3, <1>5 DEF Previous
<1>7. h.mem[2 * p].pal
  <2>1. CASE p = 2
    BY <2>1 DEF Good, Tiling
  <2>2. CASE p # 2
    <3>1. PICK q \in B \ {Epilogue(h)} : After(h.mem, q) = p
      BY <1>2, <2>2 DEF Good, Tiling
    <3>2. BlockAt(h.mem, B, q) /\ h.mem[2 * q].alloc \in BOOLEAN
      BY <3>1, NextOf
    <3>3. h.mem[2 * q].alloc
      BY <1>4, <3>1, <3>2 DEF BlockAt
    <3> QED  BY <3>1, <3>2, <3>3 DEF BlockAt
  <2> QED  BY <2>1, <2>2
<1> QED  BY <1>2, <1>4, <1>6, <1>7

\* The heap g is in order again, with these blocks in use, and the clients of
\* the blocks S find what they had.
Becomes(h, g, U, S) ==
  \E C : Good(g, C) /\ Used(g, C) = U /\ \A b \in S : Kept(h.mem, g.mem, b)

\* Tiling a region anew, with the lists to fit, keeps the heap in order.
LEMMA Reorder ==
  ASSUME NEW h, NEW B, Good(h, B), NEW g \in Heaps, g.pages # 0, NEW N, NEW s, NEW e,
         Retiled(h.mem, g.mem, Epilogue(h), Epilogue(g), B, N, s, e),
         s = Epilogue(h) => h.mem[2 * Epilogue(h)].pal,
         Relisted(g.mem, Epilogue(g), h.lists, g.lists, N, s, e),
         NEW U, NEW S,
         \A c : c \in S <=> c \in Used(h, B) /\ (c < s \/ c >= e),
         \A c : c \in U <=> c \in S \/ (c \in N /\ g.mem[2 * c].alloc)
  PROVE  Becomes(h, g, U, S)
<1>1. Epilogue(h) \in Nat /\ Epilogue(g) \in 4 .. Rows - 1 /\ Epilogue(g) \in Nat
      /\ Sized(h.mem, Epilogue(h))
  <2>1. g.pages \in 1 .. MaxPages
    BY MaxPagesAssumption DEF Heaps
  <2>2. Epilogue(g) \in 4 .. Rows - 1
    BY <2>1, Bounds DEF Epilogue
  <2> QED  BY <2>2, Bounds, GoodFacts
<1>2. Sized(g.mem, Epilogue(g))
  <2>1. \A b \in 0 .. Epilogue(g) : 2 * b \in Words /\ g.mem[2 * b] \in Word
    BY <1>1, Bounds DEF Heaps
  <2> QED  BY <2>1, Bounds DEF Sized, Word
<1>3. PICK C : C = Around(B, N, s, e, Epilogue(g))
  OBVIOUS
<1>4. Tiling(h.mem, Epilogue(h), B) /\ Listed(h.mem, Epilogue(h), B, h.lists)
  BY DEF Good
<1>5. Tiling(g.mem, Epilogue(g), C)
  BY <1>1, <1>2, <1>3, <1>4, Retile
<1>6. Listed(g.mem, Epilogue(g), C, g.lists)
  BY <1>1, <1>3, <1>4, Relist
<1>7. Good(g, C)
  BY <1>5, <1>6 DEF Good
<1>8. /\ Allocs(g.mem, Epilogue(g), C)
           = {b \in Allocs(h.mem, Epilogue(h), B) : b < s \/ b >= e} \cup {b \in N : g.mem[2 * b].alloc}
      /\ \A b \in Allocs(h.mem, Epilogue(h), B) : b < s \/ b >= e => Kept(h.mem, g.mem, b)
  BY <1>1, <1>3, <1>4, Reallocs
<1>9. S = {b \in Allocs(h.mem, Epilogue(h), B) : b < s \/ b >= e}
  BY DEF Used
<1>10. U = S \cup {b \in N : g.mem[2 * b].alloc}
  OBVIOUS
<1>11. Used(g, C) = U /\ \A b \in S : Kept(h.mem, g.mem, b)
  BY <1>8, <1>9, <1>10 DEF Used
<1> QED  BY <1>7, <1>11 DEF Becomes

-----------------------------------------------------------------------------
(* sf_free                                                                   *)

\* A class is never the list of the wilderness block.
LEMMA IndexRange ==
  ASSUME NEW r
  PROVE  ComputeMemoryIndex(r) \in 0 .. Wild - 1 /\ ComputeMemoryIndex(r) # Wild
<1> DEFINE S == {i \in 0 .. Wild - 1 : i = Wild - 1 \/ r <= 2 * 2^i}
<1>1. S \subseteq Nat /\ Wild - 1 \in S /\ Wild \in Nat
  BY Bounds
<1>2. Least(S) \in S
  BY <1>1, LeastOf
<1>3. ComputeMemoryIndex(r) \in 0 .. Wild - 1
  BY <1>2 DEF ComputeMemoryIndex
<1> QED  BY <1>1, <1>3

\* The wilderness block is the one before the epilogue.
LEMMA WildLast ==
  ASSUME NEW h, NEW B, Good(h, B), NEW b \in B, b # Epilogue(h), ~h.mem[2 * b].alloc,
         NEW l \in 0 .. Wild
  PROVE  b \in Elems(h.lists[l]) <=>
           l = IF After(h.mem, b) = Epilogue(h) THEN Wild ELSE ComputeMemoryIndex(h.mem[2 * b].size)
<1>1. b \in Frees(h.mem, Epilogue(h), B)
  BY DEF Frees
<1>2. b \in Elems(h.lists[l]) <=> Home(h.mem, Epilogue(h), b) = l
  BY <1>1 DEF Good, Listed
<1> QED  BY <1>2 DEF Home

\* A block that is not in use is in no list but its own, and none but a free
\* block before the epilogue is in the list of the wilderness.
LEMMA InWild ==
  ASSUME NEW h, NEW B, Good(h, B), NEW b \in Elems(h.lists[Wild])
  PROVE  b \in B /\ b # Epilogue(h) /\ ~h.mem[2 * b].alloc /\ After(h.mem, b) = Epilogue(h)
<1>1. Wild \in 0 .. Wild
  BY Bounds
<1>2. b \in B /\ b # Epilogue(h) /\ ~h.mem[2 * b].alloc
  BY <1>1, GoodFacts
<1>3. Wild # ComputeMemoryIndex(h.mem[2 * b].size)
  BY IndexRange
<1> QED  BY <1>1, <1>2, <1>3, WildLast

\* Where the freed block begins.
LEMMA StartOf ==
  ASSUME NEW h, NEW B, Good(h, B), NEW b \in Used(h, B), NEW s, s = Start(h, b)
  PROVE  /\ b \in B /\ b # Epilogue(h) /\ h.mem[2 * b].alloc
         /\ s \in B /\ s # Epilogue(h) /\ s <= b /\ h.mem[2 * s].pal = TRUE
         /\ h.mem[2 * b].pal => s = b
         /\ ~h.mem[2 * b].pal => /\ s = Previous(h, b) /\ s < b /\ ~h.mem[2 * s].alloc
                                 /\ After(h.mem, s) = b
         /\ \A c \in B : c <= s \/ b <= c
<1>1. b \in B /\ b # Epilogue(h) /\ h.mem[2 * b].alloc
  BY DEF Used, Allocs
<1>2. b \in Nat /\ h.mem[2 * b].pal \in BOOLEAN
  BY <1>1, NextOf
<1>3. CASE h.mem[2 * b].pal
  <2>1. s = b /\ h.mem[2 * b].pal = TRUE
    BY <1>2, <1>3 DEF Start, Header
  <2>2. \A c \in B : c <= b \/ b <= c
    <3>1. B \subseteq 2 .. Epilogue(h) /\ Epilogue(h) \in 4 .. Rows - 1
      BY GoodFacts
    <3> QED  BY <1>2, <3>1, Bounds
  <2> QED  BY <1>1, <1>2, <1>3, <2>1, <2>2
<1>4. CASE ~h.mem[2 * b].pal
  <2>1. s = Previous(h, b)
    BY <1>4 DEF Start, Header
  <2>2. s \in B /\ s # Epilogue(h) /\ After(h.mem, s) = b /\ ~h.mem[2 * s].alloc /\ h.mem[2 * s].pal
    BY <1>1, <1>4, <2>1, PreviousOf
  <2>3. BlockAt(h.mem, B, s) /\ b \in s + 2 .. Epilogue(h) /\ s \in 2 .. Epilogue(h) - 2
        /\ h.mem[2 * s].pal \in BOOLEAN
    BY <2>2, NextOf
  <2>4. \A c \in B : c <= s \/ b <= c
    BY <2>2, <2>3 DEF BlockAt
  <2>5. s < b
    BY <1>2, <2>3
  <2> QED  BY <1>1, <1>4, <2>1, <2>2, <2>3, <2>4, <2>5
<1> QED  BY <1>3, <1>4

\* The pointer of a block in use passes the checks.
LEMMA UsedIsValid ==
  ASSUME NEW h, NEW B, Good(h, B), NEW b \in Used(h, B)
  PROVE  /\ ValidPointer(h, b) /\ Size(h, b) = h.mem[2 * b].size
         /\ After(h.mem, b) = b + Size(h, b) /\ After(h.mem, b) \in B
<1>1. b \in B /\ b # Epilogue(h) /\ h.mem[2 * b].alloc
  BY DEF Used, Allocs
<1>2. /\ b \in 2 .. Epilogue(h) - 2 /\ h.mem[2 * b].size \in Nat /\ h.mem[2 * b].size >= 2
      /\ After(h.mem, b) \in b + 2 .. Epilogue(h) /\ After(h.mem, b) = b + h.mem[2 * b].size
      /\ After(h.mem, b) \in B
  BY <1>1, NextOf
<1>3. h.mem[2 * b].pal \/ ~h.mem[2 * Previous(h, b)].alloc
  BY <1>1, PreviousOf
<1>4. Epilogue(h) \in Nat
  BY GoodFacts, Bounds
<1>5. b >= 2 /\ b < Epilogue(h) /\ b + h.mem[2 * b].size <= Epilogue(h)
  BY <1>2, <1>4
<1> QED  BY <1>1, <1>2, <1>3, <1>5 DEF ValidPointer, Size, Header

\* What is merged: from s to e, with a free block after b taken in.
Merges(h, b, s, next, e) ==
  /\ s = Start(h, b) /\ next = After(h.mem, b)
  /\ \/ e = next /\ h.mem[2 * next].alloc
     \/ ~h.mem[2 * next].alloc /\ e = After(h.mem, next)

\* The region that sf_free makes one block: what lies in it, what lies around it.
LEMMA MergeRegion ==
  ASSUME NEW h, NEW B, Good(h, B), NEW b \in Used(h, B), NEW s, NEW next, NEW e,
         Merges(h, b, s, next, e)
  PROVE  /\ s \in B /\ s \in 2 .. Epilogue(h) - 2 /\ h.mem[2 * s].pal = TRUE
         /\ e \in B /\ e \in s + 2 .. Epilogue(h) /\ h.mem[2 * e].alloc
         /\ next \in B /\ next \in b + 2 .. e
         /\ \A c \in B : c < s \/ c \in {s, b} \/ (c = next /\ ~h.mem[2 * next].alloc) \/ c >= e
         /\ next = Epilogue(h) => e = Epilogue(h)
<1>1. /\ b \in B /\ b # Epilogue(h) /\ h.mem[2 * b].alloc
      /\ s \in B /\ s # Epilogue(h) /\ s <= b /\ h.mem[2 * s].pal = TRUE
      /\ \A c \in B : c <= s \/ b <= c
  BY StartOf DEF Merges
<1>2. B \subseteq 2 .. Epilogue(h) /\ Epilogue(h) \in 4 .. Rows - 1 /\ Epilogue(h) \in Nat
  BY GoodFacts, Bounds
<1>3. /\ BlockAt(h.mem, B, b) /\ next \in B /\ next \in b + 2 .. Epilogue(h) /\ b \in 2 .. Epilogue(h) - 2
  BY <1>1, NextOf DEF Merges
<1>4. s \in 2 .. Epilogue(h) - 2
  BY <1>1, NextOf
<1>5. \A c \in B : c <= b \/ next <= c
  BY <1>3 DEF BlockAt, Merges
<1>6. h.mem[2 * Epilogue(h)].alloc
  BY DEF Good, Tiling
<1>7. CASE e = next /\ h.mem[2 * next].alloc
  <2>1. \A c \in B : c < s \/ c \in {s, b} \/ c >= e
    <3>1. ASSUME NEW c \in B  PROVE c < s \/ c \in {s, b} \/ c >= e
      <4>1. c \in Nat /\ s \in Nat /\ b \in Nat /\ e \in Nat
        BY <1>2, <1>3, <1>4, <1>7
      <4>2. (c <= s \/ b <= c) /\ (c <= b \/ e <= c)
        BY <1>1, <1>5, <1>7
      <4> QED  BY <4>1, <4>2
    <3> QED  BY <3>1
  <2>2. e \in s + 2 .. Epilogue(h) /\ next \in b + 2 .. e
    BY <1>1, <1>2, <1>3, <1>4, <1>7
  <2> QED  BY <1>1, <1>3, <1>4, <1>7, <2>1, <2>2
<1>8. CASE ~h.mem[2 * next].alloc /\ e = After(h.mem, next)
  <2>1. next # Epilogue(h)
    BY <1>6, <1>8
  <2>2. BlockAt(h.mem, B, next) /\ e \in B /\ e \in next + 2 .. Epilogue(h)
    BY <1>3, <1>8, <2>1, NextOf
  <2>3. h.mem[2 * e].alloc /\ \A c \in B : c <= next \/ e <= c
    BY <1>8, <2>2 DEF BlockAt
  <2>4. \A c \in B : c < s \/ c \in {s, b} \/ c = next \/ c >= e
    <3>1. ASSUME NEW c \in B  PROVE c < s \/ c \in {s, b} \/ c = next \/ c >= e
      <4>1. c \in Nat /\ s \in Nat /\ b \in Nat /\ e \in Nat /\ next \in Nat
        BY <1>2, <1>3, <1>4, <2>2
      <4>2. (c <= s \/ b <= c) /\ (c <= b \/ next <= c) /\ (c <= next \/ e <= c)
        BY <1>1, <1>5, <2>3
      <4> QED  BY <4>1, <4>2
    <3> QED  BY <3>1
  <2>5. e \in s + 2 .. Epilogue(h) /\ next \in b + 2 .. e
    BY <1>1, <1>2, <1>3, <1>4, <2>2
  <2> QED  BY <1>1, <1>3, <1>4, <1>8, <2>1, <2>2, <2>3, <2>4, <2>5
<1> QED  BY <1>7, <1>8 DEF Merges

\* The blocks in use and the lists but for what is merged.
LEMMA MergeRest ==
  ASSUME NEW h, NEW B, Good(h, B), NEW b \in Used(h, B), NEW s, NEW next, NEW e,
         Merges(h, b, s, next, e)
  PROVE  /\ {c \in Used(h, B) : c < s \/ c >= e} = Used(h, B) \ {b}
         /\ \A l \in 0 .. Wild : {c \in Elems(h.lists[l]) : c < s \/ c >= e}
                                   = Elems(h.lists[l]) \ {s, next}
<1>1. /\ s \in B /\ s \in 2 .. Epilogue(h) - 2
      /\ e \in B /\ e \in s + 2 .. Epilogue(h)
      /\ next \in B /\ next \in b + 2 .. e
      /\ \A c \in B : c < s \/ c \in {s, b} \/ (c = next /\ ~h.mem[2 * next].alloc) \/ c >= e
  BY MergeRegion
<1>2. /\ b \in B /\ h.mem[2 * b].alloc /\ s <= b /\ b \in Nat
      /\ h.mem[2 * b].pal => s = b
      /\ ~h.mem[2 * b].pal => ~h.mem[2 * s].alloc
  <2>1. s = Start(h, b)
    BY DEF Merges
  <2>2. /\ b \in B /\ h.mem[2 * b].alloc /\ s <= b
        /\ h.mem[2 * b].pal => s = b
        /\ ~h.mem[2 * b].pal => ~h.mem[2 * s].alloc
    BY <2>1, StartOf
  <2>3. b \in Nat
    BY <2>2, GoodFacts
  <2> QED  BY <2>2, <2>3
<1>3. \A c \in Used(h, B) : c \in B /\ c \in Nat /\ h.mem[2 * c].alloc
  BY GoodFacts DEF Used, Allocs
<1>4. ASSUME NEW c \in Used(h, B)  PROVE (c < s \/ c >= e) <=> c # b
  <2>1. c = b => ~(c < s \/ c >= e)
    BY <1>1, <1>2
  <2>2. c # b => c # s
    BY <1>2, <1>3
  <2>3. c # b => c < s \/ c >= e
    BY <1>1, <1>3, <2>2
  <2> QED  BY <2>1, <2>3
<1>5. ASSUME NEW l \in 0 .. Wild, NEW c \in Elems(h.lists[l])
      PROVE  (c < s \/ c >= e) <=> c \notin {s, next}
  <2>1. c \in B /\ c # Epilogue(h) /\ ~h.mem[2 * c].alloc
    BY GoodFacts
  <2>2. c # b
    BY <1>2, <2>1
  <2>3. c \notin {s, next} => c < s \/ c >= e
    BY <1>1, <2>1, <2>2
  <2>4. c = s => ~(c < s \/ c >= e)
    BY <1>1
  <2>5. c = next => ~(c < s \/ c >= e)
    <3>1. next # e \/ h.mem[2 * next].alloc
      <4>1. CASE e = next /\ h.mem[2 * next].alloc
        BY <4>1
      <4>2. CASE ~h.mem[2 * next].alloc /\ e = After(h.mem, next)
        <5>1. next # Epilogue(h)
          BY <4>2 DEF Good, Tiling
        <5>2. After(h.mem, next) \in next + 2 .. Epilogue(h) /\ next \in Nat
          BY <1>1, <5>1, NextOf
        <5> QED  BY <4>2, <5>2
      <4> QED  BY <4>1, <4>2 DEF Merges
    <3>2. c = next => next # e
      BY <2>1, <3>1
    <3> QED  BY <1>1, <1>2, <3>2
  <2> QED  BY <2>3, <2>4, <2>5
<1> QED  BY <1>4, <1>5

\* What sf_free leaves, whichever way it merges, is in order.
Merged(h, g, s, next, e) ==
  /\ g \in Heaps /\ g.pages = h.pages /\ g.aborted = h.aborted /\ OnceEach(g)
  /\ SameBut(h.mem, g.mem, 2 * s, 2 * e)
  /\ g.mem[2 * s] = Tag(e - s, FALSE, TRUE) /\ g.mem[2 * e - 1] = Tag(e - s, FALSE, TRUE)
  /\ g.mem[2 * e].size = h.mem[2 * e].size /\ g.mem[2 * e].alloc = h.mem[2 * e].alloc
  /\ g.mem[2 * e].pal = FALSE
  /\ \A l \in 0 .. Wild :
       Elems(g.lists[l]) = (Elems(h.lists[l]) \ {s, next})
         \cup {c \in {s} : l = IF e = Epilogue(h) THEN Wild ELSE ComputeMemoryIndex(e - s)}

\* One free block in that region leaves a heap in order.
LEMMA MergedBecomes ==
  ASSUME NEW h, NEW B, Good(h, B), NEW b \in Used(h, B), NEW s, NEW next, NEW e,
         Merges(h, b, s, next, e), NEW g, Merged(h, g, s, next, e)
  PROVE  Becomes(h, g, Used(h, B) \ {b}, Used(h, B) \ {b}) /\ g.aborted = h.aborted
<1>1. /\ s \in B /\ s \in 2 .. Epilogue(h) - 2 /\ h.mem[2 * s].pal = TRUE
      /\ e \in B /\ e \in s + 2 .. Epilogue(h) /\ h.mem[2 * e].alloc
  BY MergeRegion
<1>2. Epilogue(h) \in 4 .. Rows - 1 /\ Epilogue(h) \in Nat /\ Epilogue(g) = Epilogue(h)
      /\ g.pages # 0 /\ Words = 0 .. 2 * Rows - 2 /\ Rows \in Nat
  <2>1. Epilogue(h) \in 4 .. Rows - 1 /\ h.pages \in 1 .. MaxPages
    BY GoodFacts
  <2>2. g.pages = h.pages
    BY DEF Merged
  <2>3. Epilogue(g) = Epilogue(h)
    BY <2>2 DEF Epilogue
  <2> QED  BY <2>1, <2>2, <2>3, Bounds
<1>3. /\ s \in Nat /\ e \in Nat /\ s + 2 <= e /\ s < e /\ e - s \in 0 .. Rows
      /\ s # Epilogue(h)
  BY <1>1, <1>2
<1>4. /\ g.mem[2 * s].size = e - s /\ g.mem[2 * s].alloc = FALSE /\ g.mem[2 * s].pal = TRUE
      /\ g.mem[2 * e - 1] = g.mem[2 * s]
  BY <1>3, TagIsWord DEF Merged
<1>5. g.mem[2 * e].pal = g.mem[2 * s].alloc /\ g.mem[2 * e].alloc
  BY <1>1, <1>4 DEF Merged
<1>6. /\ \A c \in {s} : BlockAt(g.mem, {s} \cup {e}, c)
      /\ \A c \in {s} \cup {e} : c # s => \E p \in {s} : After(g.mem, p) = c
      /\ {s} \subseteq s .. e - 1
  <2>1. Pieces(g.mem, {s}, s, e)
    BY <1>3, <1>4, <1>5, OneBlock
  <2> QED  BY <2>1 DEF Pieces
<1>7. \A w \in 0 .. 2 * s - 1 : g.mem[w] = h.mem[w]
  <2>1. \A w \in 0 .. 2 * s - 1 : w \in Words /\ w < 2 * s
    BY <1>1, <1>2
  <2> QED  BY <2>1 DEF Merged, SameBut
<1>8. \A w \in 2 * e + 1 .. 2 * Epilogue(h) : g.mem[w] = h.mem[w]
  <2>1. \A w \in 2 * e + 1 .. 2 * Epilogue(h) : w \in Words /\ w > 2 * e
    BY <1>1, <1>2
  <2> QED  BY <2>1 DEF Merged, SameBut
<1>9. Retiled(h.mem, g.mem, Epilogue(h), Epilogue(g), B, {s}, s, e)
  BY <1>1, <1>2, <1>3, <1>4, <1>6, <1>7, <1>8 DEF Retiled, Merged
<1>10. Home(g.mem, Epilogue(g), s)
         = IF e = Epilogue(h) THEN Wild ELSE ComputeMemoryIndex(e - s)
  <2>1. After(g.mem, s) = e
    BY <1>3, <1>4 DEF After
  <2> QED  BY <1>2, <1>4, <2>1 DEF Home
<1>11. Relisted(g.mem, Epilogue(g), h.lists, g.lists, {s}, s, e)
  <2>1. SUFFICES ASSUME NEW l \in 0 .. Wild
        PROVE  /\ g.lists[l] \in Seq(Nat) /\ Once(g.lists[l])
               /\ Elems(g.lists[l]) = {c \in Elems(h.lists[l]) : c < s \/ c >= e}
                    \cup {c \in {s} : ~g.mem[2 * c].alloc /\ Home(g.mem, Epilogue(g), c) = l}
    BY DEF Relisted
  <2>2. g.lists[l] \in Seq(Nat) /\ Once(g.lists[l])
    BY DEF Merged, Heaps, OnceEach
  <2>3. {c \in Elems(h.lists[l]) : c < s \/ c >= e} = Elems(h.lists[l]) \ {s, next}
    BY MergeRest
  <2>4. {c \in {s} : ~g.mem[2 * c].alloc /\ Home(g.mem, Epilogue(g), c) = l}
          = {c \in {s} : l = IF e = Epilogue(h) THEN Wild ELSE ComputeMemoryIndex(e - s)}
    BY <1>4, <1>10
  <2>5. Elems(g.lists[l]) = (Elems(h.lists[l]) \ {s, next})
         \cup {c \in {s} : l = IF e = Epilogue(h) THEN Wild ELSE ComputeMemoryIndex(e - s)}
    BY DEF Merged
  <2> QED  BY <2>2, <2>3, <2>4, <2>5
<1>12. g.aborted = h.aborted /\ g \in Heaps /\ g.pages # 0 /\ (s = Epilogue(h) => h.mem[2 * Epilogue(h)].pal)
  BY <1>2, <1>3 DEF Merged
<1>13. {c \in Used(h, B) : c < s \/ c >= e} = Used(h, B) \ {b}
  BY MergeRest
<1>14. \A c : c \in Used(h, B) \ {b} <=> c \in Used(h, B) /\ (c < s \/ c >= e)
  BY <1>13
<1>15. \A c : c \in Used(h, B) \ {b} <=> c \in Used(h, B) \ {b} \/ (c \in {s} /\ g.mem[2 * c].alloc)
  BY <1>4
<1> QED  BY <1>9, <1>11, <1>12, <1>14, <1>15, Reorder


\* The free block before leaves its list.
LEMMA WithoutPreviousDoes ==
  ASSUME NEW h, NEW B, Good(h, B), NEW b \in Used(h, B), NEW s, s = Start(h, b),
         NEW f, f = WithoutPrevious(h, b)
  PROVE  /\ OnlyLists(h, f) /\ OnceEach(f)
         /\ \A l \in 0 .. Wild : Elems(f.lists[l]) = Elems(h.lists[l]) \ {s}
<1>1. h \in Heaps /\ OnceEach(h) /\ h.mem[2 * b].alloc
  BY GoodFacts, StartOf
<1>2. CASE h.mem[2 * b].pal
  <2>1. f = h /\ s = b
    BY <1>2, StartOf DEF WithoutPrevious, Header
  <2>2. \A l \in 0 .. Wild : b \notin Elems(h.lists[l])
    BY <1>1, GoodFacts
  <2>3. OnlyLists(h, h)
    BY <1>1 DEF OnlyLists
  <2> QED  BY <1>1, <2>1, <2>2, <2>3
<1>3. CASE ~h.mem[2 * b].pal
  <2>1. s = Previous(h, b)
    BY <1>3 DEF Start, Header
  <2>4. s \in B
    BY StartOf
  <2>2. f = Cut(h, s)
    BY <1>3, <2>1 DEF WithoutPrevious, Header
  <2>3. s \in Nat
    BY <2>4, GoodFacts
  <2> QED  BY <1>1, <2>2, <2>3, CutDoes
<1> QED  BY <1>2, <1>3

\* The merged block as a free block.
Freed(h, g, s, e) ==
  /\ g \in Heaps /\ g.pages = h.pages /\ g.aborted = h.aborted /\ OnceEach(g)
  /\ SameBut(h.mem, g.mem, 2 * s, 2 * e - 1)
  /\ g.mem[2 * s] = Tag(e - s, FALSE, TRUE) /\ g.mem[2 * e - 1] = Tag(e - s, FALSE, TRUE)
  /\ \A l \in 0 .. Wild : Elems(g.lists[l]) = Elems(h.lists[l]) \ {s}

\* The memory that sf_free leaves behind, before it sets the next pal bit.
LEMMA FreedBlock ==
  ASSUME NEW h, NEW B, Good(h, B), NEW b \in Used(h, B), NEW s, NEW next, NEW e,
         Merges(h, b, s, next, e),
         NEW g, g = SetFree(WithoutPrevious(h, b), s, e - s, Header(h, s).pal)
  PROVE  Freed(h, g, s, e)
<1>1. /\ s \in B /\ s \in 2 .. Epilogue(h) - 2 /\ h.mem[2 * s].pal = TRUE
      /\ e \in B /\ e \in s + 2 .. Epilogue(h)
  BY MergeRegion
<1>2. Epilogue(h) \in 4 .. Rows - 1 /\ Rows \in Nat
  BY GoodFacts, Bounds
<1>3. PICK f : f = WithoutPrevious(h, b)
  OBVIOUS
<1>4. s = Start(h, b)
  BY DEF Merges
<1>5. /\ OnlyLists(h, f) /\ OnceEach(f)
      /\ \A l \in 0 .. Wild : Elems(f.lists[l]) = Elems(h.lists[l]) \ {s}
  BY <1>3, <1>4, WithoutPreviousDoes
<1>6. PICK z : z = e - s
  OBVIOUS
<1>7. z \in Nat /\ z >= 2 /\ s + z = e /\ s \in Nat /\ s + z < Rows
  BY <1>1, <1>2, <1>6
<1>8. g = SetFree(f, s, z, TRUE)
  BY <1>1, <1>3, <1>6 DEF Header
<1>9. f \in Heaps
  BY <1>5 DEF OnlyLists
<1>10. /\ OnlyMemory(f, g) /\ SameBut(f.mem, g.mem, 2 * s, 2 * (s + z) - 1)
       /\ g.mem[2 * s] = Tag(z, FALSE, TRUE) /\ g.mem[2 * (s + z) - 1] = Tag(z, FALSE, TRUE)
  <2>1. FreeSet(f, g, s, z, TRUE)
    BY <1>7, <1>8, <1>9, SetFreeDoes
  <2> QED  BY <2>1 DEF FreeSet
<1>11. OnceEach(g)
  BY <1>5, <1>10 DEF OnlyMemory, OnceEach
<1>12. 2 * (s + z) - 1 = 2 * e - 1
  BY <1>7
<1> QED  BY <1>5, <1>6, <1>10, <1>11, <1>12 DEF OnlyMemory, OnlyLists, Freed

\* In the wilderness list there is at most the block that is merged.
LEMMA WildMerged ==
  ASSUME NEW h, NEW B, Good(h, B), NEW b \in Used(h, B), NEW s, NEW next, NEW e,
         Merges(h, b, s, next, e), e = Epilogue(h)
  PROVE  Elems(h.lists[Wild]) \ {s, next} = {}
<1>1. SUFFICES ASSUME NEW c \in Elems(h.lists[Wild]), c \notin {s, next}  PROVE FALSE
  OBVIOUS
<1>2. c \in B /\ c # Epilogue(h) /\ ~h.mem[2 * c].alloc /\ After(h.mem, c) = Epilogue(h)
  BY InWild
<1>3. /\ s \in B /\ s \in 2 .. Epilogue(h) - 2
      /\ \A a \in B : a < s \/ a \in {s, b} \/ (a = next /\ ~h.mem[2 * next].alloc) \/ a >= e
  BY MergeRegion
<1>4. c # b
  BY <1>2, StartOf DEF Merges
<1>5. c \in 2 .. Epilogue(h) - 2 /\ Epilogue(h) \in Nat
  BY <1>2, NextOf, GoodFacts, Bounds
<1>6. c < s
  BY <1>1, <1>2, <1>3, <1>4, <1>5
<1>7. After(h.mem, c) <= s
  <2>1. Tiling(h.mem, Epilogue(h), B) /\ Sized(h.mem, Epilogue(h))
    BY GoodFacts DEF Good
  <2> QED  BY <1>2, <1>3, <1>5, <1>6, <2>1, NoOverlap
<1> QED  BY <1>2, <1>3, <1>5, <1>7

\* sf_free of the last block.
LEMMA FreeLastWorks ==
  ASSUME NEW h, NEW B, Good(h, B), NEW b \in Used(h, B), After(h.mem, b) = Epilogue(h)
  PROVE  Becomes(h, FreeLast(h, b), Used(h, B) \ {b}, Used(h, B) \ {b})
         /\ FreeLast(h, b).aborted = h.aborted
<1>1. PICK s, e, g, k : /\ s = Start(h, b) /\ e = Epilogue(h)
                        /\ g = SetFree(WithoutPrevious(h, b), s, e - s, Header(h, s).pal)
                        /\ k = SetNewEpilogue(g)
  OBVIOUS
<1>2. h.mem[2 * e].size = 0 /\ h.mem[2 * e].alloc
  BY <1>1 DEF Good, Tiling
<1>3. Merges(h, b, s, e, e)
  BY <1>1, <1>2 DEF Merges
<1>4. /\ g \in Heaps /\ g.pages = h.pages /\ g.aborted = h.aborted /\ OnceEach(g)
      /\ SameBut(h.mem, g.mem, 2 * s, 2 * e - 1)
      /\ g.mem[2 * s] = Tag(e - s, FALSE, TRUE) /\ g.mem[2 * e - 1] = Tag(e - s, FALSE, TRUE)
      /\ \A l \in 0 .. Wild : Elems(g.lists[l]) = Elems(h.lists[l]) \ {s}
  <2>1. g = SetFree(WithoutPrevious(h, b), s, e - s, Header(h, s).pal)
    BY <1>1
  <2>2. Freed(h, g, s, e)
    BY <2>1, <1>3, FreedBlock
  <2> QED  BY <2>2 DEF Freed
<1>5. /\ s \in B /\ s \in 2 .. e - 2 /\ e \in s + 2 .. Epilogue(h)
      /\ e \in 4 .. Rows - 1 /\ Rows \in Nat /\ Words = 0 .. 2 * Rows - 2 /\ Wild \in 0 .. Wild
  <2>1. s \in B /\ s \in 2 .. Epilogue(h) - 2 /\ e \in s + 2 .. Epilogue(h)
    BY <1>3, MergeRegion
  <2>2. Epilogue(h) \in 4 .. Rows - 1
    BY GoodFacts
  <2> QED  BY <1>1, <2>1, <2>2, Bounds
<1>6. k = SetHeader(g, e, 0, TRUE, FALSE)
  <2>1. Epilogue(g) = e
    BY <1>1, <1>4 DEF Epilogue
  <2> QED  BY <1>1, <2>1 DEF SetNewEpilogue
<1>7. /\ OnlyMemory(g, k) /\ SameBut(g.mem, k.mem, 2 * e, 2 * e)
      /\ k.mem[2 * e] = Tag(0, TRUE, FALSE)
  <2>1. e \in Nat /\ e < Rows /\ 0 \in 0 .. Rows
    BY <1>5
  <2> QED  BY <1>4, <1>6, <2>1, SetHeaderDoes
<1>8. k \in Heaps /\ k.pages = h.pages /\ k.aborted = h.aborted /\ OnceEach(k) /\ k.lists = g.lists
  BY <1>4, <1>7 DEF OnlyMemory, OnceEach
<1>9. SameBut(h.mem, k.mem, 2 * s, 2 * e)
  <2>1. ASSUME NEW w \in Words, w < 2 * s \/ w > 2 * e  PROVE k.mem[w] = h.mem[w]
    <3>1. (w < 2 * s \/ w > 2 * e - 1) /\ (w < 2 * e \/ w > 2 * e)
      BY <1>5, <2>1
    <3> QED  BY <1>4, <1>7, <3>1 DEF SameBut
  <2> QED  BY <2>1 DEF SameBut
<1>10. k.mem[2 * s] = Tag(e - s, FALSE, TRUE) /\ k.mem[2 * e - 1] = Tag(e - s, FALSE, TRUE)
  <2>1. 2 * s \in Words /\ 2 * s < 2 * e /\ 2 * e - 1 \in Words /\ 2 * e - 1 < 2 * e
    BY <1>5
  <2> QED  BY <1>4, <1>7, <2>1 DEF SameBut
<1>11. /\ k.mem[2 * e].size = h.mem[2 * e].size /\ k.mem[2 * e].alloc = h.mem[2 * e].alloc
       /\ k.mem[2 * e].pal = FALSE
  <2>1. h.mem[2 * e] \in Word
    BY <1>5, GoodFacts
  <2>2. h.mem[2 * e].alloc \in BOOLEAN
    BY <2>1 DEF Word
  <2> QED  BY <1>2, <1>7, <2>2 DEF Tag
<1>12. \A l \in 0 .. Wild : e \notin Elems(h.lists[l])
  BY <1>1, GoodFacts
<1>13. PICK x : x = FreeLast(h, b)
  OBVIOUS
<1>14. Elems(h.lists[Wild]) \ {s, e} = {}
  BY <1>1, <1>3, WildMerged
<1>15. b + Size(h, b) = e
  BY <1>1 DEF After, Size, Header
<1>16. /\ OnlyLists(k, x) /\ OnceEach(x) /\ Elems(x.lists[Wild]) = {s}
       /\ \A l \in 0 .. Wild : l # Wild => Elems(x.lists[l]) = Elems(k.lists[l])
  <2>1. CASE h.mem[2 * b].pal
    <3>1. x = Push(k, Wild, s)
      BY <1>1, <1>13, <1>15, <2>1 DEF FreeLast, Header
    <3>2. Elems(k.lists[Wild]) = {}
      <4>1. Elems(k.lists[Wild]) = Elems(h.lists[Wild]) \ {s}
        BY <1>4, <1>5, <1>8
      <4> QED  BY <1>5, <1>12, <1>14, <4>1
    <3>3. s \in Nat /\ s \notin Elems(k.lists[Wild])
      BY <1>5, <3>2
    <3>4. /\ OnlyLists(k, x) /\ OnceEach(x) /\ Elems(x.lists[Wild]) = Elems(k.lists[Wild]) \cup {s}
          /\ \A j \in 0 .. Wild : j # Wild => x.lists[j] = k.lists[j]
      BY <1>5, <1>8, <3>1, <3>3, PushDoes
    <3> QED  BY <3>2, <3>4
  <2>2. CASE ~h.mem[2 * b].pal
    <3>1. x = SetWilderness(k, s)
      BY <1>1, <1>13, <1>15, <2>2 DEF FreeLast, Header
    <3>2. s \in Nat
      BY <1>5
    <3>3. /\ OnlyLists(k, x) /\ OnceEach(x) /\ Elems(x.lists[Wild]) = {s}
          /\ \A j \in 0 .. Wild : j # Wild => x.lists[j] = k.lists[j]
      BY <1>8, <3>1, <3>2, SetWildernessDoes
    <3> QED  BY <3>3
  <2> QED  BY <2>1, <2>2
<1>17. Merged(h, x, s, e, e)
  <2>1. /\ x \in Heaps /\ x.pages = h.pages /\ x.aborted = h.aborted /\ x.mem = k.mem
    BY <1>8, <1>16 DEF OnlyLists
  <2>2. ASSUME NEW l \in 0 .. Wild
        PROVE  Elems(x.lists[l]) = (Elems(h.lists[l]) \ {s, e})
                 \cup {c \in {s} : l = IF e = Epilogue(h) THEN Wild ELSE ComputeMemoryIndex(e - s)}
    <3>1. CASE l = Wild
      <4>1. {c \in {s} : l = IF e = Epilogue(h) THEN Wild ELSE ComputeMemoryIndex(e - s)} = {s}
        BY <1>1, <3>1
      <4> QED  BY <1>14, <1>16, <3>1, <4>1
    <3>2. CASE l # Wild
      <4>1. {c \in {s} : l = IF e = Epilogue(h) THEN Wild ELSE ComputeMemoryIndex(e - s)} = {}
        BY <1>1, <3>2
      <4>2. Elems(x.lists[l]) = Elems(h.lists[l]) \ {s}
        BY <1>4, <1>8, <1>16, <3>2
      <4>3. Elems(h.lists[l]) \ {s} = Elems(h.lists[l]) \ {s, e}
        BY <1>12
      <4> QED  BY <4>1, <4>2, <4>3
    <3> QED  BY <3>1, <3>2
  <2> QED  BY <1>9, <1>10, <1>11, <1>16, <2>1, <2>2 DEF Merged
<1> QED  BY <1>3, <1>13, <1>17, MergedBecomes

\* Once the block is free, the pal bit of the block behind it is cleared and
\* the lists take it in.
LEMMA FreedThenMerged ==
  ASSUME NEW h, NEW B, Good(h, B), NEW b \in Used(h, B), NEW s, NEW next, NEW e,
         Merges(h, b, s, next, e), NEW g, Freed(h, g, s, e),
         NEW k, k \in Heaps /\ k.pages = g.pages /\ k.aborted = g.aborted /\ OnceEach(k),
         SameBut(g.mem, k.mem, 2 * e, 2 * e),
         k.mem[2 * e].size = g.mem[2 * e].size, k.mem[2 * e].alloc = g.mem[2 * e].alloc,
         k.mem[2 * e].pal = FALSE,
         \A l \in 0 .. Wild :
           Elems(k.lists[l]) = (Elems(h.lists[l]) \ {s, next})
             \cup {c \in {s} : l = IF e = Epilogue(h) THEN Wild ELSE ComputeMemoryIndex(e - s)}
  PROVE  Merged(h, k, s, next, e)
<1>1. /\ s \in 2 .. Epilogue(h) - 2 /\ e \in s + 2 .. Epilogue(h)
      /\ Epilogue(h) \in 4 .. Rows - 1 /\ Rows \in Nat /\ Words = 0 .. 2 * Rows - 2
  <2>1. s \in 2 .. Epilogue(h) - 2 /\ e \in s + 2 .. Epilogue(h)
    BY MergeRegion
  <2>2. Epilogue(h) \in 4 .. Rows - 1
    BY GoodFacts
  <2> QED  BY <2>1, <2>2, Bounds
<1>2. /\ 2 * s \in Words /\ 2 * e - 1 \in Words /\ 2 * e \in Words /\ 2 * s < 2 * e /\ 2 * e - 1 < 2 * e
      /\ 2 * e > 2 * e - 1
  BY <1>1
<1>3. SameBut(h.mem, k.mem, 2 * s, 2 * e)
  <2>1. ASSUME NEW w \in Words, w < 2 * s \/ w > 2 * e  PROVE k.mem[w] = h.mem[w]
    <3>1. (w < 2 * s \/ w > 2 * e - 1) /\ (w < 2 * e \/ w > 2 * e)
      BY <1>1, <2>1
    <3> QED  BY <3>1 DEF SameBut, Freed
  <2> QED  BY <2>1 DEF SameBut
<1>4. k.mem[2 * s] = Tag(e - s, FALSE, TRUE) /\ k.mem[2 * e - 1] = Tag(e - s, FALSE, TRUE)
  BY <1>2 DEF SameBut, Freed
<1>5. g.mem[2 * e] = h.mem[2 * e]
  BY <1>2 DEF SameBut, Freed
<1> QED  BY <1>3, <1>4, <1>5 DEF Merged, Freed

\* sf_free of a block before an allocated one.
LEMMA FreeBeforeAllocatedWorks ==
  ASSUME NEW h, NEW B, Good(h, B), NEW b \in Used(h, B), After(h.mem, b) # Epilogue(h),
         h.mem[2 * After(h.mem, b)].alloc
  PROVE  Becomes(h, FreeBeforeAllocated(h, b), Used(h, B) \ {b}, Used(h, B) \ {b})
         /\ FreeBeforeAllocated(h, b).aborted = h.aborted
<1>1. PICK s, e, g, k, i, x : /\ s = Start(h, b) /\ e = After(h.mem, b)
                           /\ g = SetFree(WithoutPrevious(h, b), s, e - s, Header(h, s).pal)
                           /\ k = SetPal(g, e, FALSE) /\ i = ComputeMemoryIndex(e - s)
                           /\ x = Push(k, i, s)
  OBVIOUS
<1>2. Merges(h, b, s, e, e)
  BY <1>1 DEF Merges
<1>3. Freed(h, g, s, e)
  <2>1. g = SetFree(WithoutPrevious(h, b), s, e - s, Header(h, s).pal)
    BY <1>1
  <2> QED  BY <2>1, <1>2, FreedBlock
<1>4. s \in Nat /\ e \in Nat /\ e < Rows /\ h.mem[2 * e].alloc
  <2>1. s \in 2 .. Epilogue(h) - 2 /\ e \in s + 2 .. Epilogue(h) /\ h.mem[2 * e].alloc
    BY <1>2, MergeRegion
  <2>2. Epilogue(h) \in 4 .. Rows - 1
    BY GoodFacts
  <2> QED  BY <2>1, <2>2, Bounds
<1>5. /\ OnlyMemory(g, k) /\ SameBut(g.mem, k.mem, 2 * e, 2 * e)
      /\ k.mem[2 * e].size = g.mem[2 * e].size /\ k.mem[2 * e].alloc = g.mem[2 * e].alloc
      /\ k.mem[2 * e].pal = FALSE
  <2>1. g \in Heaps
    BY <1>3 DEF Freed
  <2>2. k = SetPal(g, e, FALSE)
    BY <1>1
  <2>3. e \in Nat /\ e < Rows
    BY <1>4
  <2>4. OnlyMemory(g, k) /\ SameBut(g.mem, k.mem, 2 * e, 2 * e)
    BY <2>1, <2>2, <2>3, SetPalDoes
  <2>5. k.mem[2 * e].size = g.mem[2 * e].size
    BY <2>1, <2>2, <2>3, SetPalDoes
  <2>6. k.mem[2 * e].alloc = g.mem[2 * e].alloc
    BY <2>1, <2>2, <2>3, SetPalDoes
  <2>7. k.mem[2 * e].pal = FALSE
    <3>1. PICK p : p = FALSE
      OBVIOUS
    <3>2. p \in BOOLEAN /\ k = SetPal(g, e, p)
      BY <2>2, <3>1
    <3>3. k.mem[2 * e].pal = p
      BY <2>1, <2>3, <3>2, SetPalDoes
    <3> QED  BY <3>1, <3>3
  <2> QED  BY <2>4, <2>5, <2>6, <2>7
<1>6. k \in Heaps /\ k.pages = g.pages /\ k.aborted = g.aborted /\ OnceEach(k) /\ k.lists = g.lists
  BY <1>3, <1>5 DEF OnlyMemory, OnceEach, Freed
<1>7. i \in 0 .. Wild /\ i # Wild
  <2>1. i \in 0 .. Wild - 1 /\ i # Wild
    BY <1>1, IndexRange
  <2> QED  BY <2>1, Bounds
<1>8. \A l \in 0 .. Wild : Elems(k.lists[l]) = Elems(h.lists[l]) \ {s}
  BY <1>3, <1>6 DEF Freed
<1>9. /\ OnlyLists(k, x) /\ OnceEach(x) /\ Elems(x.lists[i]) = Elems(k.lists[i]) \cup {s}
      /\ \A j \in 0 .. Wild : j # i => x.lists[j] = k.lists[j]
  <2>1. s \notin Elems(k.lists[i])
    BY <1>7, <1>8
  <2>2. x = Push(k, i, s)
    BY <1>1
  <2> QED  BY <1>4, <1>6, <1>7, <2>1, <2>2, PushDoes
<1>10. ASSUME NEW l \in 0 .. Wild
       PROVE  Elems(x.lists[l]) = (Elems(h.lists[l]) \ {s, e})
               \cup {c \in {s} : l = IF e = Epilogue(h) THEN Wild ELSE ComputeMemoryIndex(e - s)}
  <2>1. e \notin Elems(h.lists[l])
    BY <1>4, GoodFacts
  <2>2. Elems(h.lists[l]) \ {s, e} = Elems(h.lists[l]) \ {s}
    BY <2>1
  <2>3. CASE l = i
    <3>1. {c \in {s} : l = IF e = Epilogue(h) THEN Wild ELSE ComputeMemoryIndex(e - s)} = {s}
      BY <1>1, <2>3
    <3> QED  BY <1>8, <1>9, <2>2, <2>3, <3>1
  <2>4. CASE l # i
    <3>1. {c \in {s} : l = IF e = Epilogue(h) THEN Wild ELSE ComputeMemoryIndex(e - s)} = {}
      BY <1>1, <2>4
    <3> QED  BY <1>8, <1>9, <2>2, <2>4, <3>1
  <2> QED  BY <2>3, <2>4
<1>11. x \in Heaps /\ x.pages = g.pages /\ x.aborted = g.aborted /\ x.mem = k.mem
  BY <1>6, <1>9 DEF OnlyLists
<1>12. Merged(h, x, s, e, e)
  BY <1>2, <1>3, <1>5, <1>9, <1>10, <1>11, FreedThenMerged
<1>13. x = FreeBeforeAllocated(h, b)
  <2>1. b + Size(h, b) = e
    BY <1>1 DEF After, Size, Header
  <2> QED  BY <1>1, <2>1 DEF FreeBeforeAllocated
<1> QED  BY <1>2, <1>12, <1>13, MergedBecomes

\* sf_free of a block before a free one.
LEMMA FreeBeforeFreeWorks ==
  ASSUME NEW h, NEW B, Good(h, B), NEW b \in Used(h, B), ~h.mem[2 * After(h.mem, b)].alloc
  PROVE  Becomes(h, FreeBeforeFree(h, b), Used(h, B) \ {b}, Used(h, B) \ {b})
         /\ FreeBeforeFree(h, b).aborted = h.aborted
<1>1. PICK s, next, e, g : /\ s = Start(h, b) /\ next = After(h.mem, b) /\ e = After(h.mem, next)
                           /\ g = SetFree(WithoutPrevious(h, b), s, e - s, Header(h, s).pal)
  OBVIOUS
<1>2. Merges(h, b, s, next, e)
  BY <1>1 DEF Merges
<1>3. Freed(h, g, s, e)
  <2>1. g = SetFree(WithoutPrevious(h, b), s, e - s, Header(h, s).pal)
    BY <1>1
  <2> QED  BY <2>1, <1>2, FreedBlock
<1>4. /\ s \in Nat /\ e \in Nat /\ e < Rows /\ next \in B /\ ~h.mem[2 * next].alloc
      /\ next # Epilogue(h) /\ next \in Nat /\ next # s
  <2>1. s \in 2 .. Epilogue(h) - 2 /\ e \in s + 2 .. Epilogue(h) /\ next \in B /\ next \in b + 2 .. e
    BY <1>2, MergeRegion
  <2>2. Epilogue(h) \in 4 .. Rows - 1
    BY GoodFacts
  <2>3. next # Epilogue(h)
    BY <1>1 DEF Good, Tiling
  <2>4. b \in Nat /\ s <= b
    <3>1. b \in B /\ s <= b
      BY <1>1, StartOf
    <3> QED  BY <3>1, GoodFacts
  <2> QED  BY <1>1, <2>1, <2>2, <2>3, <2>4, Bounds
<1>5. /\ BlockAt(h.mem, B, next) /\ (h.mem[2 * e].size = 0 <=> e = Epilogue(h))
      /\ h.mem[2 * e].pal = FALSE /\ e = next + h.mem[2 * next].size
  <2>1. /\ BlockAt(h.mem, B, next) /\ (h.mem[2 * e].size = 0 <=> e = Epilogue(h))
        /\ h.mem[2 * next].alloc \in BOOLEAN /\ e = next + h.mem[2 * next].size
    BY <1>1, <1>4, NextOf
  <2>2. h.mem[2 * e].pal = h.mem[2 * next].alloc
    BY <1>1, <2>1 DEF BlockAt
  <2> QED  BY <1>4, <2>1, <2>2
<1>6. PICK x : x = FreeBeforeFree(h, b)
  OBVIOUS
<1>7. x = IF e = Epilogue(h) THEN SetWilderness(g, s)
          ELSE Push(SetPal(Cut(g, next), e, FALSE), ComputeMemoryIndex(e - s), s)
  <2>1. b + Size(h, b) = next /\ next + Size(h, next) = e
    BY <1>1, <1>5 DEF After, Size, Header
  <2>2. Size(h, e) = 0 <=> e = Epilogue(h)
    BY <1>5 DEF Size, Header
  <2> QED  BY <1>1, <1>6, <2>1, <2>2 DEF FreeBeforeFree
<1>8. \A l \in 0 .. Wild : next \in Elems(h.lists[l]) <=>
        l = IF e = Epilogue(h) THEN Wild ELSE ComputeMemoryIndex(h.mem[2 * next].size)
  BY <1>1, <1>4, WildLast
<1>9. 2 * e \in Words /\ h.mem[2 * e] = g.mem[2 * e]
  <2>1. 2 * e \in Words /\ 2 * e > 2 * e - 1
    BY <1>4, Bounds
  <2> QED  BY <2>1, <1>3 DEF Freed, SameBut
<1>10. CASE e = Epilogue(h)
  <2>1. x = SetWilderness(g, s)
    BY <1>7, <1>10
  <2>2. g \in Heaps /\ OnceEach(g)
    BY <1>3 DEF Freed
  <2>3. /\ OnlyLists(g, x) /\ OnceEach(x) /\ Elems(x.lists[Wild]) = {s}
        /\ \A j \in 0 .. Wild : j # Wild => x.lists[j] = g.lists[j]
    BY <1>4, <2>1, <2>2, SetWildernessDoes
  <2>4. x \in Heaps /\ x.pages = g.pages /\ x.aborted = g.aborted /\ x.mem = g.mem
    BY <2>3 DEF OnlyLists
  <2>5. Elems(h.lists[Wild]) \ {s, next} = {}
    BY <1>2, <1>10, WildMerged
  <2>6. ASSUME NEW l \in 0 .. Wild
        PROVE  Elems(x.lists[l]) = (Elems(h.lists[l]) \ {s, next})
                 \cup {c \in {s} : l = IF e = Epilogue(h) THEN Wild ELSE ComputeMemoryIndex(e - s)}
    <3>1. CASE l = Wild
      <4>1. {c \in {s} : l = IF e = Epilogue(h) THEN Wild ELSE ComputeMemoryIndex(e - s)} = {s}
        BY <1>10, <3>1
      <4> QED  BY <2>3, <2>5, <3>1, <4>1
    <3>2. CASE l # Wild
      <4>1. {c \in {s} : l = IF e = Epilogue(h) THEN Wild ELSE ComputeMemoryIndex(e - s)} = {}
        BY <1>10, <3>2
      <4>2. Elems(x.lists[l]) = Elems(h.lists[l]) \ {s}
        BY <1>3, <2>3, <3>2 DEF Freed
      <4>3. next \notin Elems(h.lists[l])
        BY <1>8, <1>10, <3>2
      <4>4. Elems(h.lists[l]) \ {s} = Elems(h.lists[l]) \ {s, next}
        BY <4>3
      <4> QED  BY <4>1, <4>2, <4>4
    <3> QED  BY <3>1, <3>2
  <2>7. SameBut(g.mem, x.mem, 2 * e, 2 * e)
    BY <2>4 DEF SameBut
  <2>8. x.mem[2 * e].pal = FALSE
    BY <1>5, <1>9, <2>4
  <2>9. Merged(h, x, s, next, e)
    BY <1>2, <1>3, <2>3, <2>4, <2>6, <2>7, <2>8, FreedThenMerged
  <2> QED  BY <1>2, <1>6, <2>9, MergedBecomes
<1>11. CASE e # Epilogue(h)
  <2>1. PICK f, k, i : f = Cut(g, next) /\ k = SetPal(f, e, FALSE) /\ i = ComputeMemoryIndex(e - s)
    OBVIOUS
  <2>2. x = Push(k, i, s)
    BY <1>7, <1>11, <2>1
  <2>3. g \in Heaps /\ OnceEach(g)
    BY <1>3 DEF Freed
  <2>4. /\ OnlyLists(g, f) /\ OnceEach(f)
        /\ \A l \in 0 .. Wild : Elems(f.lists[l]) = Elems(g.lists[l]) \ {next}
    BY <1>4, <2>1, <2>3, CutDoes
  <2>5. f \in Heaps /\ f.pages = g.pages /\ f.aborted = g.aborted /\ f.mem = g.mem
    BY <2>4 DEF OnlyLists
  <2>6. /\ OnlyMemory(f, k) /\ SameBut(f.mem, k.mem, 2 * e, 2 * e)
        /\ k.mem[2 * e].size = f.mem[2 * e].size /\ k.mem[2 * e].alloc = f.mem[2 * e].alloc
        /\ k.mem[2 * e].pal = FALSE
    BY <1>4, <2>1, <2>5, SetPalDoes
  <2>7. /\ k \in Heaps /\ k.pages = g.pages /\ k.aborted = g.aborted /\ OnceEach(k)
        /\ k.lists = f.lists
    BY <2>4, <2>5, <2>6 DEF OnlyMemory, OnceEach
  <2>8. i \in 0 .. Wild /\ i # Wild
    <3>1. i \in 0 .. Wild - 1 /\ i # Wild
      BY <2>1, IndexRange
    <3> QED  BY <3>1, Bounds
  <2>9. \A l \in 0 .. Wild : Elems(k.lists[l]) = Elems(h.lists[l]) \ {s, next}
    BY <1>3, <2>4, <2>7 DEF Freed
  <2>10. /\ OnlyLists(k, x) /\ OnceEach(x) /\ Elems(x.lists[i]) = Elems(k.lists[i]) \cup {s}
         /\ \A j \in 0 .. Wild : j # i => x.lists[j] = k.lists[j]
    <3>1. s \notin Elems(k.lists[i])
      BY <2>8, <2>9
    <3> QED  BY <1>4, <2>2, <2>7, <2>8, <3>1, PushDoes
  <2>11. ASSUME NEW l \in 0 .. Wild
         PROVE  Elems(x.lists[l]) = (Elems(h.lists[l]) \ {s, next})
                 \cup {c \in {s} : l = IF e = Epilogue(h) THEN Wild ELSE ComputeMemoryIndex(e - s)}
    <3>1. CASE l = i
      <4>1. {c \in {s} : l = IF e = Epilogue(h) THEN Wild ELSE ComputeMemoryIndex(e - s)} = {s}
        BY <1>11, <2>1, <3>1
      <4> QED  BY <2>9, <2>10, <3>1, <4>1
    <3>2. CASE l # i
      <4>1. {c \in {s} : l = IF e = Epilogue(h) THEN Wild ELSE ComputeMemoryIndex(e - s)} = {}
        BY <1>11, <2>1, <3>2
      <4> QED  BY <2>9, <2>10, <3>2, <4>1
    <3> QED  BY <3>1, <3>2
  <2>12. x \in Heaps /\ x.pages = g.pages /\ x.aborted = g.aborted /\ x.mem = k.mem
    BY <2>7, <2>10 DEF OnlyLists
  <2>13. Merged(h, x, s, next, e)
    BY <1>2, <1>3, <2>5, <2>6, <2>10, <2>11, <2>12, FreedThenMerged
  <2> QED  BY <1>2, <1>6, <2>13, MergedBecomes
<1> QED  BY <1>10, <1>11

\* sf_free of a block in use: it is not in use any more, all others are.
LEMMA FreeWorks ==
  ASSUME NEW h, NEW B, Good(h, B), NEW b \in Used(h, B)
  PROVE  Becomes(h, SfFree(h, b), Used(h, B) \ {b}, Used(h, B) \ {b})
         /\ SfFree(h, b).aborted = h.aborted
<1>1. PICK next : next = After(h.mem, b)
  OBVIOUS
<1>2. ValidPointer(h, b) /\ b + Size(h, b) = next
  BY <1>1, UsedIsValid
<1>3. b \in B /\ b # Epilogue(h)
  BY DEF Used, Allocs
<1>4. Size(h, next) = 0 <=> next = Epilogue(h)
  <2>1. h.mem[2 * next].size = 0 <=> next = Epilogue(h)
    BY <1>1, <1>3, NextOf
  <2> QED  BY <2>1 DEF Size, Header
<1>5. CASE next = Epilogue(h)
  <2>1. SfFree(h, b) = FreeLast(h, b)
    BY <1>2, <1>4, <1>5 DEF SfFree
  <2>2. After(h.mem, b) = Epilogue(h)
    BY <1>1, <1>5
  <2> QED  BY <2>1, <2>2, FreeLastWorks
<1>6. CASE next # Epilogue(h) /\ h.mem[2 * next].alloc
  <2>1. SfFree(h, b) = FreeBeforeAllocated(h, b)
    BY <1>2, <1>4, <1>6 DEF SfFree, Header
  <2>2. After(h.mem, b) # Epilogue(h) /\ h.mem[2 * After(h.mem, b)].alloc
    BY <1>1, <1>6
  <2> QED  BY <2>1, <2>2, FreeBeforeAllocatedWorks
<1>7. CASE next # Epilogue(h) /\ ~h.mem[2 * next].alloc
  <2>1. SfFree(h, b) = FreeBeforeFree(h, b)
    BY <1>2, <1>4, <1>7 DEF SfFree, Header
  <2>2. ~h.mem[2 * After(h.mem, b)].alloc
    BY <1>1, <1>7
  <2> QED  BY <2>1, <2>2, FreeBeforeFreeWorks
<1> QED  BY <1>5, <1>6, <1>7

-----------------------------------------------------------------------------
(* sf_malloc                                                                 *)

\* Before a free block there is an allocated one.
LEMMA FreePal ==
  ASSUME NEW h, NEW B, Good(h, B), NEW b \in B, ~h.mem[2 * b].alloc
  PROVE  b # Epilogue(h) /\ h.mem[2 * b].pal = TRUE
<1>1. b # Epilogue(h)
  BY DEF Good, Tiling
<1>2. h.mem[2 * b].pal \in BOOLEAN
  BY <1>1, NextOf
<1>3. ASSUME ~h.mem[2 * b].pal  PROVE FALSE
  <2>1. PICK p : p = Previous(h, b)
    OBVIOUS
  <2>2. p \in B /\ p # Epilogue(h) /\ After(h.mem, p) = b /\ ~h.mem[2 * p].alloc
    BY <1>3, <2>1, PreviousOf
  <2>3. BlockAt(h.mem, B, p)
    BY <2>2, NextOf
  <2> QED  BY <2>2, <2>3 DEF BlockAt
<1> QED  BY <1>1, <1>2, <1>3

\* There is one wilderness block at most.
LEMMA WildUnique ==
  ASSUME NEW h, NEW B, Good(h, B), NEW b \in Elems(h.lists[Wild]), NEW c \in Elems(h.lists[Wild])
  PROVE  b = c
<1>1. /\ b \in B /\ b # Epilogue(h) /\ After(h.mem, b) = Epilogue(h)
      /\ c \in B /\ c # Epilogue(h) /\ After(h.mem, c) = Epilogue(h)
  BY InWild
<1>2. Tiling(h.mem, Epilogue(h), B) /\ Sized(h.mem, Epilogue(h)) /\ Epilogue(h) \in Nat
  <2>1. Epilogue(h) \in 4 .. Rows - 1 /\ Sized(h.mem, Epilogue(h))
    BY GoodFacts
  <2>2. Tiling(h.mem, Epilogue(h), B)
    BY DEF Good
  <2> QED  BY <2>1, <2>2, Bounds
<1>3. b \in 2 .. Epilogue(h) - 2 /\ c \in 2 .. Epilogue(h) - 2
  BY <1>1, NextOf
<1>4. ~(b < c)
  <2>1. b < c => After(h.mem, b) <= c
    BY <1>1, <1>2, NoOverlap
  <2> QED  BY <1>1, <1>2, <1>3, <2>1
<1>5. ~(c < b)
  <2>1. c < b => After(h.mem, c) <= b
    BY <1>1, <1>2, NoOverlap
  <2> QED  BY <1>1, <1>2, <1>3, <2>1
<1> QED  BY <1>3, <1>4, <1>5

\* The only block of a list replaced by another.
Swap(s, b, r) == [k \in DOMAIN s |-> IF s[k] = b THEN r ELSE s[k]]

\* Swapping it leaves a list of one block.
LEMMA Replaced ==
  ASSUME NEW s \in Seq(Nat), NEW b, NEW r \in Nat, Once(s), Elems(s) = {b}
  PROVE  Swap(s, b, r) \in Seq(Nat) /\ Once(Swap(s, b, r)) /\ Elems(Swap(s, b, r)) = {r}
<1>0. PICK t : t = Swap(s, b, r)
  OBVIOUS
<1>1. \A k \in DOMAIN s : s[k] = b
  BY DEF Elems
<1>2. DOMAIN t = DOMAIN s /\ \A k \in DOMAIN s : t[k] = r
  BY <1>0, <1>1 DEF Swap
<1>9. t = [k \in DOMAIN s |-> t[k]]
  BY <1>0, <1>2 DEF Swap
<1>3. PICK n \in Nat : DOMAIN s = 1 .. n
  OBVIOUS
<1>4. t \in [1 .. n -> Nat]
  BY <1>2, <1>3, <1>9
<1>5. t \in Seq(Nat)
  BY <1>3, <1>4, SeqDef
<1>6. Once(t)
  <2>1. \A j, k \in DOMAIN s : j = k
    BY <1>1 DEF Once
  <2> QED  BY <1>2, <2>1 DEF Once
<1>7. \E k : k \in DOMAIN s
  BY DEF Elems
<1>8. Elems(t) = {r}
  BY <1>2, <1>7 DEF Elems
<1> QED  BY <1>0, <1>5, <1>6, <1>8

\* A heap no client has used yet.
Fresh(h) == h \in Heaps /\ h.pages = 0 /\ \A l \in 0 .. Wild : h.lists[l] = <<>>

\* Its first use lays out one free block.
LEMMA InitialiseWorks ==
  ASSUME NEW h, Fresh(h), NEW g, g = Initialise(h)
  PROVE  \E B : Good(g, B) /\ Used(g, B) = {} /\ g.aborted = h.aborted
<1>0. /\ 1 \in 0 .. MaxPages /\ PageRows \in Nat /\ PageRows >= 5 /\ Rows \in Nat
      /\ Words = 0 .. 2 * Rows - 2 /\ PageRows * 1 - 1 \in 4 .. Rows - 1 /\ PageRows * 1 = PageRows
  <2>1. 1 \in 1 .. MaxPages /\ 1 \in 0 .. MaxPages
    BY MaxPagesAssumption
  <2>2. PageRows \in Nat /\ PageRows >= 5 /\ PageRows * 1 = PageRows
    BY PageAssumption
  <2>3. PageRows * 1 - 1 \in 4 .. Rows - 1
    BY <2>1, Bounds
  <2> QED  BY <2>1, <2>2, <2>3, Bounds
<1>1. PICK h1, h2, h3, h4, E, z, x :
        /\ h1 = [h EXCEPT !.pages = 1] /\ h2 = SetHeader(h1, 0, 2, TRUE, FALSE)
        /\ h3 = SetNewEpilogue(h2) /\ h4 = SetFree(h3, x, z, TRUE)
        /\ E = PageRows - 1 /\ z = PageRows - 3 /\ x = 2
  OBVIOUS
<1>2. g = SetWilderness(h4, x)
  BY <1>1 DEF Initialise, Fresh
<1>3. E \in 4 .. Rows - 1 /\ E \in Nat /\ z \in Nat /\ z >= 2 /\ x + z = E /\ z \in 0 .. Rows /\ x = 2 /\ x \in Nat
  BY <1>0, <1>1
<1>4. h1 \in Heaps /\ h1.lists = h.lists /\ h1.aborted = h.aborted /\ h1.pages = 1
  BY <1>0, <1>1 DEF Fresh, Heaps
<1>5. OnlyMemory(h1, h2)
  <2>1. h2 = SetHeader(h1, 0, 2, TRUE, FALSE)
    BY <1>1
  <2>2. 0 \in Nat /\ 0 < Rows /\ 2 \in 0 .. Rows
    BY <1>0, <1>3
  <2> QED  BY <1>4, <2>1, <2>2, SetHeaderDoes
<1>6. h2 \in Heaps /\ h2.pages = 1 /\ h2.lists = h.lists /\ h2.aborted = h.aborted
  BY <1>4, <1>5 DEF OnlyMemory
<1>7. OnlyMemory(h2, h3) /\ h3.mem[2 * E] = Tag(0, TRUE, FALSE)
  <2>1. Epilogue(h2) = E
    BY <1>0, <1>1, <1>6 DEF Epilogue
  <2>2. h3 = SetHeader(h2, E, 0, TRUE, FALSE)
    BY <1>1, <2>1 DEF SetNewEpilogue
  <2>3. E < Rows /\ 0 \in 0 .. Rows
    BY <1>3, <1>0
  <2> QED  BY <1>3, <1>6, <2>2, <2>3, SetHeaderDoes
<1>8. h3 \in Heaps /\ h3.pages = 1 /\ h3.lists = h.lists /\ h3.aborted = h.aborted
  BY <1>6, <1>7 DEF OnlyMemory
<1>9. /\ OnlyMemory(h3, h4) /\ SameBut(h3.mem, h4.mem, 2 * x, 2 * (x + z) - 1)
      /\ h4.mem[2 * x] = Tag(z, FALSE, TRUE) /\ h4.mem[2 * (x + z) - 1] = Tag(z, FALSE, TRUE)
  <2>1. x \in Nat /\ x + z < Rows
    BY <1>3, <1>0
  <2>2. h4 = SetFree(h3, x, z, TRUE)
    BY <1>1
  <2>3. z \in Nat /\ z >= 2 /\ h3 \in Heaps
    BY <1>3, <1>8
  <2>4. FreeSet(h3, h4, x, z, TRUE)
    BY <2>1, <2>2, <2>3, SetFreeDoes
  <2> QED  BY <2>4 DEF FreeSet
<1>10. /\ h4 \in Heaps /\ h4.pages = 1 /\ h4.lists = h.lists /\ h4.aborted = h.aborted
       /\ \A l \in 0 .. Wild : Elems(h4.lists[l]) = {} /\ Once(h4.lists[l])
  <2>1. h4 \in Heaps /\ h4.pages = 1 /\ h4.lists = h.lists /\ h4.aborted = h.aborted
    BY <1>8, <1>9 DEF OnlyMemory
  <2>2. Elems(<<>>) = {} /\ Once(<<>>)
    BY DEF Elems, Once
  <2> QED  BY <2>1, <2>2 DEF Fresh
<1>11. h4.mem[2 * E] = Tag(0, TRUE, FALSE)
  <2>1. 2 * E \in Words /\ 2 * E > 2 * (x + z) - 1
    BY <1>0, <1>3
  <2> QED  BY <1>7, <1>9, <2>1 DEF SameBut
<1>12. /\ OnlyLists(h4, g) /\ OnceEach(g) /\ Elems(g.lists[Wild]) = {x}
       /\ \A j \in 0 .. Wild : j # Wild => g.lists[j] = h4.lists[j]
  <2>1. OnceEach(h4) /\ h4 \in Heaps
    BY <1>10 DEF OnceEach
  <2>2. x \in Nat
    BY <1>3
  <2> QED  BY <1>2, <2>1, <2>2, SetWildernessDoes
<1>13. g \in Heaps /\ g.pages = 1 /\ g.mem = h4.mem /\ g.aborted = h.aborted /\ Epilogue(g) = E
  <2>1. g \in Heaps /\ g.pages = 1 /\ g.mem = h4.mem /\ g.aborted = h.aborted
    BY <1>10, <1>12 DEF OnlyLists
  <2> QED  BY <1>0, <1>1, <2>1 DEF Epilogue
<1>14. /\ g.mem[2 * x].size = z /\ g.mem[2 * x].alloc = FALSE /\ g.mem[2 * x].pal = TRUE
       /\ g.mem[2 * E - 1] = g.mem[2 * x]
       /\ g.mem[2 * E].size = 0 /\ g.mem[2 * E].alloc = TRUE /\ g.mem[2 * E].pal = FALSE
  BY <1>3, <1>9, <1>11, <1>13 DEF Tag
<1>15. /\ \A b \in {x} : BlockAt(g.mem, {x} \cup {E}, b)
       /\ \A c \in {x} \cup {E} : c # x => \E p \in {x} : After(g.mem, p) = c
  <2>1. x + 2 <= E /\ g.mem[2 * x].size = E - x /\ g.mem[2 * E].pal = g.mem[2 * x].alloc
        /\ (~g.mem[2 * x].alloc => g.mem[2 * E - 1] = g.mem[2 * x] /\ g.mem[2 * E].alloc)
    <3>1. x + 2 <= E /\ z = E - x
      BY <1>3
    <3> QED  BY <1>14, <3>1
  <2>2. x \in Nat /\ E \in Nat
    BY <1>3
  <2>3. x + 2 <= E /\ g.mem[2 * x].size = E - x
    BY <2>1
  <2>4. g.mem[2 * E].pal = g.mem[2 * x].alloc
    BY <2>1
  <2>5. g.mem[2 * E - 1] = g.mem[2 * x] /\ g.mem[2 * E].alloc
    BY <1>14
  <2>6. Pieces(g.mem, {x}, x, E)
    BY <2>2, <2>3, <2>4, <2>5, OneBlock
  <2> QED  BY <2>6 DEF Pieces
<1>16. {x} \cup {E} = {x, E} /\ x # E /\ 2 * x = 4 /\ x = 2
  BY <1>3
<1>17. Tiling(g.mem, E, {x, E})
  <2>1. {x, E} \subseteq 2 .. E /\ 2 \in {x, E}
    BY <1>3
  <2>2. \A b \in {x, E} \ {E} : BlockAt(g.mem, {x, E}, b)
    BY <1>15, <1>16
  <2>3. \A c \in {x, E} \ {2} : \E p \in {x, E} \ {E} : After(g.mem, p) = c
    BY <1>15, <1>16
  <2>4. g.mem[4].pal
    BY <1>14, <1>16
  <2> QED  BY <1>14, <2>1, <2>2, <2>3, <2>4 DEF Tiling
<1>18. Frees(g.mem, E, {x, E}) = {x} /\ Allocs(g.mem, E, {x, E}) = {}
  BY <1>14, <1>16 DEF Frees, Allocs
<1>19. Home(g.mem, E, x) = Wild
  BY <1>3, <1>14 DEF Home, After
<1>20. Listed(g.mem, E, {x, E}, g.lists)
  <2>1. SUFFICES ASSUME NEW l \in 0 .. Wild
        PROVE  /\ g.lists[l] \in Seq(Nat) /\ Once(g.lists[l])
               /\ Elems(g.lists[l]) = {b \in Frees(g.mem, E, {x, E}) : Home(g.mem, E, b) = l}
    BY DEF Listed
  <2>2. g.lists[l] \in Seq(Nat) /\ Once(g.lists[l])
    BY <1>12, <1>13 DEF Heaps, OnceEach
  <2>3. CASE l = Wild
    BY <1>12, <1>18, <1>19, <2>2, <2>3
  <2>4. CASE l # Wild
    <3>1. Elems(g.lists[l]) = {}
      BY <1>10, <1>12, <2>4
    <3> QED  BY <1>18, <1>19, <2>2, <2>4, <3>1
  <2> QED  BY <2>3, <2>4
<1>21. Good(g, {x, E}) /\ Used(g, {x, E}) = {}
  BY <1>13, <1>17, <1>18, <1>20 DEF Good, Used
<1> QED  BY <1>13, <1>21

\* The heap g has a block b more in use than the blocks U of h, of r rows.
Takes(h, g, U, b, r) ==
  /\ b \notin U /\ Becomes(h, g, U \cup {b}, U)
  /\ g.mem[2 * b].size >= r /\ g.aborted = h.aborted

\* The place of a free block b, up to e, among the blocks.
FreeAt(h, B, b, e) ==
  /\ b \in B /\ b \in 2 .. Epilogue(h) - 2 /\ e \in B /\ e \in b + 2 .. Epilogue(h)
  /\ e = b + Size(h, b) /\ Size(h, b) = h.mem[2 * b].size
  /\ h.mem[2 * b].alloc = FALSE /\ h.mem[2 * b].pal = TRUE
  /\ h.mem[2 * e].alloc = TRUE /\ h.mem[2 * e].pal = FALSE
  /\ \A c \in B : c < b \/ c = b \/ c >= e
  /\ e \in 4 .. Rows - 1 /\ Rows \in Nat /\ Words = 0 .. 2 * Rows - 2

\* A block in a list is a free block, between blocks in use.
LEMMA FreePlace ==
  ASSUME NEW h, NEW B, Good(h, B), NEW l \in 0 .. Wild, NEW b \in Elems(h.lists[l]),
         NEW e, e = After(h.mem, b)
  PROVE  FreeAt(h, B, b, e)
<1>1. b \in B /\ b # Epilogue(h) /\ ~h.mem[2 * b].alloc
  BY GoodFacts
<1>2. h.mem[2 * b].pal = TRUE
  BY <1>1, FreePal
<1>3. /\ BlockAt(h.mem, B, b) /\ b \in 2 .. Epilogue(h) - 2
      /\ e \in B /\ e \in b + 2 .. Epilogue(h) /\ e = b + h.mem[2 * b].size
      /\ h.mem[2 * b].alloc \in BOOLEAN
  BY <1>1, NextOf
<1>4. B \subseteq 2 .. Epilogue(h) /\ Epilogue(h) \in 4 .. Rows - 1
  BY GoodFacts
<1>5. e \in 4 .. Rows - 1 /\ Rows \in Nat /\ Words = 0 .. 2 * Rows - 2
  BY <1>3, <1>4, Bounds
<1>6. h.mem[2 * e].alloc \in BOOLEAN
  <2>1. e \in 0 .. Rows - 1
    BY <1>5
  <2>2. h.mem[2 * e] \in Word
    BY <2>1, GoodFacts
  <2> QED  BY <2>2 DEF Word
<1>7. h.mem[2 * e].alloc /\ h.mem[2 * e].pal = h.mem[2 * b].alloc /\ \A c \in B : c <= b \/ e <= c
  BY <1>1, <1>3 DEF BlockAt
<1>8. \A c \in B : c < b \/ c = b \/ c >= e
  <2>1. \A c \in B : c \in Nat /\ b \in Nat /\ e \in Nat
    BY <1>3, <1>4, <1>5
  <2> QED  BY <1>7, <2>1
<1> QED  BY <1>1, <1>2, <1>3, <1>5, <1>6, <1>7, <1>8 DEF FreeAt, Size, Header

\* What taking (a part of) a free block must do for the heap to stay in order.
LEMMA TakenBecomes ==
  ASSUME NEW h, NEW B, Good(h, B), NEW l \in 0 .. Wild, NEW b \in Elems(h.lists[l]),
         NEW e, e = After(h.mem, b), NEW g \in Heaps, g.pages = h.pages, g.aborted = h.aborted,
         OnceEach(g), SameBut(h.mem, g.mem, 2 * b, 2 * e),
         NEW N, Pieces(g.mem, N, b, e),
         g.mem[2 * b].pal = TRUE, g.mem[2 * b].alloc = TRUE,
         g.mem[2 * e].size = h.mem[2 * e].size, g.mem[2 * e].alloc = h.mem[2 * e].alloc,
         \A c \in N : c # b => ~g.mem[2 * c].alloc,
         \A k \in 0 .. Wild : Elems(g.lists[k]) = (Elems(h.lists[k]) \ {b})
            \cup {c \in N : ~g.mem[2 * c].alloc /\ Home(g.mem, Epilogue(g), c) = k},
         NEW r, g.mem[2 * b].size >= r
  PROVE  Takes(h, g, Used(h, B), b, r)
<1>1. /\ b \in B /\ b \in 2 .. Epilogue(h) - 2 /\ e \in B /\ e \in b + 2 .. Epilogue(h)
      /\ h.mem[2 * b].alloc = FALSE /\ h.mem[2 * b].pal = TRUE /\ h.mem[2 * e].alloc = TRUE
      /\ \A c \in B : c < b \/ c = b \/ c >= e
      /\ e \in 4 .. Rows - 1 /\ Rows \in Nat /\ Words = 0 .. 2 * Rows - 2
  <2>1. FreeAt(h, B, b, e)
    BY FreePlace
  <2> QED  BY <2>1 DEF FreeAt
<1>2. Epilogue(g) = Epilogue(h) /\ g.pages # 0 /\ Epilogue(h) \in 4 .. Rows - 1
  <2>1. h.pages # 0
    BY DEF Good
  <2>2. Epilogue(h) \in 4 .. Rows - 1
    BY GoodFacts
  <2> QED  BY <2>1, <2>2 DEF Epilogue
<1>3. \A w \in 0 .. 2 * b - 1 : g.mem[w] = h.mem[w]
  <2>1. \A w \in 0 .. 2 * b - 1 : w \in Words /\ w < 2 * b
    BY <1>1, <1>2
  <2> QED  BY <2>1 DEF SameBut
<1>4. \A w \in 2 * e + 1 .. 2 * Epilogue(h) : g.mem[w] = h.mem[w]
  <2>1. \A w \in 2 * e + 1 .. 2 * Epilogue(h) : w \in Words /\ w > 2 * e
    BY <1>1, <1>2
  <2> QED  BY <2>1 DEF SameBut
<1>5. b \in Nat /\ e \in Nat /\ b < e /\ b # Epilogue(h)
  BY <1>1, <1>2
<1>6. Retiled(h.mem, g.mem, Epilogue(h), Epilogue(g), B, N, b, e)
  BY <1>1, <1>2, <1>3, <1>4, <1>5 DEF Retiled, Pieces
<1>7. ASSUME NEW k \in 0 .. Wild
      PROVE  {c \in Elems(h.lists[k]) : c < b \/ c >= e} = Elems(h.lists[k]) \ {b}
  <2>1. \A c \in Elems(h.lists[k]) : c \in B
    BY GoodFacts
  <2>2. \A c \in Elems(h.lists[k]) : c < b \/ c >= e <=> c # b
    BY <1>1, <1>5, <2>1
  <2> QED  BY <2>2
<1>8. Relisted(g.mem, Epilogue(g), h.lists, g.lists, N, b, e)
  <2>1. SUFFICES ASSUME NEW k \in 0 .. Wild
        PROVE  /\ g.lists[k] \in Seq(Nat) /\ Once(g.lists[k])
               /\ Elems(g.lists[k]) = {c \in Elems(h.lists[k]) : c < b \/ c >= e}
                    \cup {c \in N : ~g.mem[2 * c].alloc /\ Home(g.mem, Epilogue(g), c) = k}
    BY DEF Relisted
  <2>2. g.lists[k] \in Seq(Nat) /\ Once(g.lists[k])
    BY DEF Heaps, OnceEach
  <2> QED  BY <1>7, <2>2
<1>9. \A c : c \in Used(h, B) <=> c \in Used(h, B) /\ (c < b \/ c >= e)
  <2>1. \A c \in Used(h, B) : c \in B /\ c # b
    BY <1>1 DEF Used, Allocs
  <2> QED  BY <1>1, <2>1
<1>10. \A c : c \in Used(h, B) \cup {b} <=> c \in Used(h, B) \/ (c \in N /\ g.mem[2 * c].alloc)
  BY DEF Pieces
<1>11. Becomes(h, g, Used(h, B) \cup {b}, Used(h, B))
  <2>1. b = Epilogue(h) => h.mem[2 * Epilogue(h)].pal
    BY <1>5
  <2> QED  BY <1>2, <1>6, <1>8, <1>9, <1>10, <2>1, Reorder
<1>12. b \notin Used(h, B)
  BY <1>1 DEF Used, Allocs
<1> QED  BY <1>11, <1>12 DEF Takes

\* A block taken whole.
LEMMA TakeWholeWorks ==
  ASSUME NEW h, NEW B, Good(h, B), NEW l \in 0 .. Wild, NEW b \in Elems(h.lists[l]),
         NEW r, Size(h, b) >= r
  PROVE  Takes(h, TakeWhole(h, b), Used(h, B), b, r)
<1>1. PICK e, z, f, g, k, x : /\ e = After(h.mem, b) /\ z = Size(h, b) /\ f = Cut(h, b)
                              /\ g = [f EXCEPT !.mem[2 * b].alloc = TRUE]
                              /\ k = Clear(g, b, z) /\ x = SetPal(k, e, TRUE)
  OBVIOUS
<1>2. /\ b \in B /\ b \in 2 .. Epilogue(h) - 2 /\ e \in b + 2 .. Epilogue(h)
      /\ e = b + Size(h, b) /\ Size(h, b) = h.mem[2 * b].size
      /\ h.mem[2 * b].pal = TRUE /\ h.mem[2 * e].alloc = TRUE
      /\ e \in 4 .. Rows - 1 /\ Rows \in Nat /\ Words = 0 .. 2 * Rows - 2
  <2>1. e = After(h.mem, b)
    BY <1>1
  <2>2. FreeAt(h, B, b, e)
    BY <2>1, FreePlace
  <2> QED  BY <2>2 DEF FreeAt
<1>3. /\ b \in Nat /\ b < Rows /\ e \in Nat /\ e < Rows /\ z \in Nat /\ z >= 2 /\ b + z = e
      /\ z = e - b /\ b + 2 <= e /\ Rows \in Nat /\ Words = 0 .. 2 * Rows - 2
  <2>1. b \in 2 .. Epilogue(h) - 2 /\ e \in b + 2 .. Epilogue(h) /\ e \in 4 .. Rows - 1
        /\ Rows \in Nat /\ Words = 0 .. 2 * Rows - 2
    BY <1>2
  <2>2. e = b + z /\ z = h.mem[2 * b].size
    BY <1>1, <1>2
  <2>3. b \in B /\ b # Epilogue(h)
    BY <1>2, GoodFacts
  <2>4. z \in Nat
    BY <2>2, <2>3, NextOf
  <2>5. e = b + z
    BY <2>2
  <2>6. b \in Nat /\ b >= 2
    BY <2>1, Bounds
  <2>7. e \in Nat /\ e <= Rows - 1 /\ b + 2 <= e
    BY <2>1, <2>4, <2>5, <2>6
  <2> QED  BY <2>1, <2>4, <2>5, <2>6, <2>7
<1>4. x = TakeWhole(h, b)
  <2>1. g = [Cut(h, b) EXCEPT !.mem[2 * b].alloc = TRUE]
    BY <1>1
  <2>2. b + Size(h, b) = e
    BY <1>2
  <2> QED  BY <1>1, <2>1, <2>2 DEF TakeWhole
<1>5. /\ OnlyLists(h, f) /\ OnceEach(f)
      /\ \A j \in 0 .. Wild : Elems(f.lists[j]) = Elems(h.lists[j]) \ {b}
  <2>1. h \in Heaps /\ OnceEach(h) /\ f = Cut(h, b)
    BY <1>1, GoodFacts
  <2>2. b \in Nat
    BY <1>3
  <2> QED  BY <2>1, <2>2, CutDoes
<1>6. f \in Heaps /\ f.pages = h.pages /\ f.mem = h.mem /\ f.aborted = h.aborted
  BY <1>5 DEF OnlyLists
<1>7. /\ OnlyMemory(f, g) /\ SameBut(f.mem, g.mem, 2 * b, 2 * b)
      /\ g.mem[2 * b].size = f.mem[2 * b].size /\ g.mem[2 * b].pal = f.mem[2 * b].pal
      /\ g.mem[2 * b].alloc
  <2>1. g = [f EXCEPT !.mem[2 * b].alloc = TRUE]
    BY <1>1
  <2> QED  BY <1>3, <1>6, <2>1, MarkDoes
<1>8. g \in Heaps /\ g.pages = h.pages /\ g.lists = f.lists /\ g.aborted = h.aborted
  BY <1>6, <1>7 DEF OnlyMemory
<1>9. OnlyMemory(g, k) /\ SameBut(g.mem, k.mem, 2 * b + 1, 2 * (b + z) - 1)
  <2>1. k = Clear(g, b, z)
    BY <1>1
  <2> QED  BY <1>3, <1>8, <2>1, ClearDoes
<1>10. k \in Heaps /\ k.pages = h.pages /\ k.lists = f.lists /\ k.aborted = h.aborted
  BY <1>8, <1>9 DEF OnlyMemory
<1>11. /\ OnlyMemory(k, x) /\ SameBut(k.mem, x.mem, 2 * e, 2 * e)
       /\ x.mem[2 * e].size = k.mem[2 * e].size /\ x.mem[2 * e].alloc = k.mem[2 * e].alloc
       /\ x.mem[2 * e].pal = TRUE
  <2>1. PICK p : p = TRUE
    OBVIOUS
  <2>2. p \in BOOLEAN /\ x = SetPal(k, e, p)
    BY <1>1, <2>1
  <2>3. e \in Nat /\ e < Rows /\ k \in Heaps
    BY <1>3, <1>10
  <2>4. OnlyMemory(k, x) /\ SameBut(k.mem, x.mem, 2 * e, 2 * e)
    BY <2>2, <2>3, SetPalDoes
  <2>5. x.mem[2 * e].size = k.mem[2 * e].size /\ x.mem[2 * e].alloc = k.mem[2 * e].alloc
    BY <2>2, <2>3, SetPalDoes
  <2>6. x.mem[2 * e].pal = p
    BY <2>2, <2>3, SetPalDoes
  <2> QED  BY <2>1, <2>4, <2>5, <2>6
<1>12. /\ x \in Heaps /\ x.pages = h.pages /\ x.lists = f.lists /\ x.aborted = h.aborted
       /\ OnceEach(x)
  BY <1>5, <1>10, <1>11 DEF OnlyMemory, OnceEach
<1>13. SameBut(h.mem, x.mem, 2 * b, 2 * e)
  <2>1. ASSUME NEW w \in Words, w < 2 * b \/ w > 2 * e  PROVE x.mem[w] = h.mem[w]
    <3>1. /\ w < 2 * b \/ w > 2 * b
          /\ w < 2 * b + 1 \/ w > 2 * (b + z) - 1
          /\ w < 2 * e \/ w > 2 * e
      BY <1>3, <2>1
    <3>2. g.mem[w] = f.mem[w]
      BY <1>7, <3>1 DEF SameBut
    <3>3. k.mem[w] = g.mem[w]
      BY <1>9, <3>1 DEF SameBut
    <3>4. x.mem[w] = k.mem[w]
      BY <1>11, <3>1 DEF SameBut
    <3> QED  BY <1>6, <3>2, <3>3, <3>4
  <2> QED  BY <2>1 DEF SameBut
<1>14. /\ 2 * b \in Words /\ 2 * b < 2 * b + 1 /\ 2 * b < 2 * e
       /\ 2 * e \in Words /\ 2 * e > 2 * b /\ 2 * e > 2 * (b + z) - 1
  BY <1>3
<1>15. x.mem[2 * b] = g.mem[2 * b]
  BY <1>9, <1>11, <1>14 DEF SameBut
<1>16. k.mem[2 * e] = h.mem[2 * e]
  BY <1>6, <1>7, <1>9, <1>14 DEF SameBut
<1>17. /\ x.mem[2 * b].size = z /\ x.mem[2 * b].pal = TRUE /\ x.mem[2 * b].alloc
       /\ x.mem[2 * e].size = h.mem[2 * e].size /\ x.mem[2 * e].alloc = h.mem[2 * e].alloc
       /\ x.mem[2 * e].pal = TRUE
  <2>1. z = h.mem[2 * b].size
    BY <1>1, <1>2
  <2>2. x.mem[2 * b].size = z
    BY <1>6, <1>7, <1>15, <2>1
  <2>3. x.mem[2 * b].pal = TRUE /\ x.mem[2 * b].alloc
    BY <1>2, <1>6, <1>7, <1>15
  <2>4. x.mem[2 * e].size = h.mem[2 * e].size /\ x.mem[2 * e].alloc = h.mem[2 * e].alloc
    BY <1>11, <1>16
  <2> QED  BY <1>11, <2>2, <2>3, <2>4
<1>18. x.mem[2 * b].alloc = TRUE
  <2>1. x.mem[2 * b] \in Word
    BY <1>12, <1>14 DEF Heaps
  <2> QED  BY <1>17, <2>1 DEF Word
<1>19. Pieces(x.mem, {b}, b, e)
  <2>1. b + 2 <= e /\ x.mem[2 * b].size = e - b
    BY <1>3, <1>17
  <2>2. x.mem[2 * e].pal = x.mem[2 * b].alloc
    BY <1>17, <1>18
  <2>3. b \in Nat /\ e \in Nat
    BY <1>3
  <2> QED  BY <1>17, <2>1, <2>2, <2>3, OneBlock
<1>20. \A j \in 0 .. Wild : Elems(x.lists[j]) = (Elems(h.lists[j]) \ {b})
         \cup {c \in {b} : ~x.mem[2 * c].alloc /\ Home(x.mem, Epilogue(x), c) = j}
  BY <1>5, <1>12, <1>17
<1>21. x.mem[2 * b].size >= r
  BY <1>1, <1>17
<1>22. e = After(h.mem, b)
  BY <1>1
<1>23. Takes(h, x, Used(h, B), b, r)
  BY <1>12, <1>13, <1>17, <1>18, <1>19, <1>20, <1>21, <1>22, TakenBecomes
<1> QED  BY <1>4, <1>23

\* The memory of a heap in which the block b, up to e, is split after r rows.
SplitMem(h, g, b, e, r) ==
  /\ g \in Heaps /\ g.pages = h.pages /\ g.lists = h.lists /\ g.aborted = h.aborted
  /\ SameBut(h.mem, g.mem, 2 * b, 2 * e - 1)
  /\ g.mem[2 * b] = Tag(r, TRUE, TRUE)
  /\ g.mem[2 * (b + r)] = Tag(e - (b + r), FALSE, TRUE)
  /\ g.mem[2 * e - 1] = Tag(e - (b + r), FALSE, TRUE)

\* The words that splitting a free block writes.
LEMMA SplitMemWorks ==
  ASSUME NEW h \in Heaps, NEW b \in Nat, NEW e \in Nat, e < Rows, NEW r \in Nat, r >= 2,
         b + r + 2 <= e
  PROVE  SplitMem(h, SetFree(SetHeader(Clear(h, b, r), b, r, TRUE, TRUE), b + r, e - (b + r), TRUE),
                  b, e, r)
<1>1. PICK rest, left, f, k, p : /\ rest = b + r /\ left = e - (b + r) /\ f = Clear(h, b, r)
                              /\ k = SetHeader(f, b, r, p, p) /\ p = TRUE
  OBVIOUS
<1>2. PICK g : g = SetFree(k, rest, left, TRUE)
  OBVIOUS
<1>13. g = SetFree(SetHeader(Clear(h, b, r), b, r, TRUE, TRUE), b + r, e - (b + r), TRUE)
  BY <1>1, <1>2
<1>3. /\ rest \in Nat /\ left \in Nat /\ left >= 2 /\ rest + left = e /\ rest = b + r /\ left = e - rest
      /\ Rows \in Nat /\ Words = 0 .. 2 * Rows - 2 /\ b < Rows /\ r \in 0 .. Rows
  BY <1>1, Bounds
<1>4. OnlyMemory(h, f) /\ SameBut(h.mem, f.mem, 2 * b + 1, 2 * (b + r) - 1)
  BY <1>1, ClearDoes
<1>5. f \in Heaps
  BY <1>4 DEF OnlyMemory
<1>6. OnlyMemory(f, k) /\ SameBut(f.mem, k.mem, 2 * b, 2 * b) /\ k.mem[2 * b] = Tag(r, p, p)
  <2>1. k = SetHeader(f, b, r, p, p) /\ p \in BOOLEAN
    BY <1>1
  <2>2. b < Rows /\ r \in 0 .. Rows
    BY <1>3
  <2> QED  BY <1>5, <2>1, <2>2, SetHeaderDoes
<1>7. k \in Heaps
  BY <1>6 DEF OnlyMemory
<1>8. /\ OnlyMemory(k, g) /\ SameBut(k.mem, g.mem, 2 * rest, 2 * (rest + left) - 1)
      /\ g.mem[2 * rest] = Tag(left, FALSE, TRUE)
      /\ g.mem[2 * (rest + left) - 1] = Tag(left, FALSE, TRUE)
  <2>2. rest \in Nat /\ left \in Nat /\ left >= 2 /\ rest + left < Rows
    BY <1>3
  <2>3. FreeSet(k, g, rest, left, TRUE)
    BY <1>2, <1>7, <2>2, SetFreeDoes
  <2> QED  BY <2>3 DEF FreeSet
<1>9. /\ g \in Heaps /\ g.pages = h.pages /\ g.lists = h.lists /\ g.aborted = h.aborted
  BY <1>4, <1>6, <1>8 DEF OnlyMemory
<1>10. SameBut(h.mem, g.mem, 2 * b, 2 * e - 1)
  <2>1. ASSUME NEW w \in Words, w < 2 * b \/ w > 2 * e - 1  PROVE g.mem[w] = h.mem[w]
    <3>1. /\ w < 2 * b + 1 \/ w > 2 * (b + r) - 1
          /\ w < 2 * b \/ w > 2 * b
          /\ w < 2 * rest \/ w > 2 * (rest + left) - 1
      BY <1>3, <2>1
    <3>2. f.mem[w] = h.mem[w]
      BY <1>4, <3>1 DEF SameBut
    <3>3. k.mem[w] = f.mem[w]
      BY <1>6, <3>1 DEF SameBut
    <3>4. g.mem[w] = k.mem[w]
      BY <1>8, <3>1 DEF SameBut
    <3> QED  BY <3>2, <3>3, <3>4
  <2> QED  BY <2>1 DEF SameBut
<1>11. g.mem[2 * b] = k.mem[2 * b]
  <2>1. 2 * b \in Words /\ 2 * b < 2 * rest
    BY <1>3
  <2> QED  BY <1>8, <2>1 DEF SameBut
<1>12. 2 * (rest + left) - 1 = 2 * e - 1
  BY <1>3
<1>14. SplitMem(h, g, b, e, r)
  BY <1>1, <1>6, <1>8, <1>9, <1>10, <1>11, <1>12 DEF SplitMem
<1> QED  BY <1>13, <1>14

\* A block split.
LEMMA SplitWorks ==
  ASSUME NEW h, NEW B, Good(h, B), NEW l \in 0 .. Wild, NEW b \in Elems(h.lists[l]),
         NEW r \in Nat, r >= 2, Size(h, b) - r >= 2
  PROVE  Takes(h, Split(h, b, l, r), Used(h, B), b, r)
<1>1. PICK e, rest, left, g, x :
        /\ e = After(h.mem, b) /\ rest = b + r /\ left = Size(h, b) - r
        /\ g = SetFree(SetHeader(Clear(h, b, r), b, r, TRUE, Header(h, b).pal), rest, left, TRUE)
        /\ x = Split(h, b, l, r)
  OBVIOUS
<1>2. FreeAt(h, B, b, e)
  <2>1. e = After(h.mem, b)
    BY <1>1
  <2> QED  BY <2>1, FreePlace
<1>3. /\ b \in Nat /\ e \in Nat /\ e < Rows /\ rest \in Nat /\ left \in Nat /\ left >= 2
      /\ rest = b + r /\ e = rest + left /\ b + 2 <= rest /\ rest + 2 <= e /\ left = e - rest
      /\ Rows \in Nat /\ Words = 0 .. 2 * Rows - 2 /\ e # b
  <2>1. b \in 2 .. Epilogue(h) - 2 /\ e \in b + 2 .. Epilogue(h) /\ e \in 4 .. Rows - 1
        /\ Rows \in Nat /\ Words = 0 .. 2 * Rows - 2
    BY <1>2 DEF FreeAt
  <2>2. b \in Nat /\ e \in Nat /\ e < Rows /\ e # b
    BY <2>1
  <2>3. PICK z : z = Size(h, b)
    OBVIOUS
  <2>4. e = b + z
    BY <1>2, <2>3 DEF FreeAt
  <2>5. z \in Nat
    <3>1. b \in B /\ b # Epilogue(h) /\ z = h.mem[2 * b].size
      BY <1>2, <2>2, <2>3, GoodFacts DEF FreeAt
    <3> QED  BY <3>1, NextOf
  <2>6. rest = b + r /\ left = z - r /\ z - r >= 2
    BY <1>1, <2>3
  <2> QED  BY SMTT(30), <2>1, <2>2, <2>4, <2>5, <2>6
<1>4. SplitMem(h, g, b, e, r)
  <2>1. Header(h, b).pal = TRUE
    BY <1>2 DEF FreeAt, Header
  <2>2. left = e - (b + r) /\ rest = b + r /\ b + r + 2 <= e
    BY <1>3
  <2>3. g = SetFree(SetHeader(Clear(h, b, r), b, r, TRUE, TRUE), b + r, e - (b + r), TRUE)
    BY <1>1, <2>1, <2>2
  <2>4. h \in Heaps
    BY GoodFacts
  <2> QED  BY <1>3, <2>2, <2>3, <2>4, SplitMemWorks
<1>5. /\ g \in Heaps /\ g.pages = h.pages /\ g.lists = h.lists /\ g.aborted = h.aborted
      /\ SameBut(h.mem, g.mem, 2 * b, 2 * e - 1)
      /\ g.mem[2 * b] = Tag(r, TRUE, TRUE) /\ g.mem[2 * rest] = Tag(left, FALSE, TRUE)
      /\ g.mem[2 * e - 1] = Tag(left, FALSE, TRUE)
  BY <1>3, <1>4 DEF SplitMem
<1>6. g.mem[2 * e] = h.mem[2 * e]
  <2>1. 2 * e \in Words /\ 2 * e > 2 * e - 1
    BY <1>3
  <2> QED  BY <1>5, <2>1 DEF SameBut
<1>7. /\ g.mem[2 * b].size = r /\ g.mem[2 * b].alloc = TRUE /\ g.mem[2 * b].pal = TRUE
      /\ g.mem[2 * rest].size = left /\ g.mem[2 * rest].alloc = FALSE /\ g.mem[2 * rest].pal = TRUE
      /\ g.mem[2 * e - 1] = g.mem[2 * rest]
  BY <1>5 DEF Tag
<1>8. /\ g.mem[2 * e].size = h.mem[2 * e].size /\ g.mem[2 * e].alloc = h.mem[2 * e].alloc
      /\ g.mem[2 * e].pal = FALSE /\ g.mem[2 * e].alloc = TRUE
  BY <1>2, <1>6 DEF FreeAt
<1>9. Pieces(g.mem, {b, rest}, b, e)
  <2>1. /\ g.mem[2 * b].size = rest - b /\ g.mem[2 * rest].size = e - rest
    BY <1>3, <1>7
  <2>2. g.mem[2 * b].alloc
    BY <1>7
  <2>3. g.mem[2 * rest].pal = g.mem[2 * b].alloc
    BY <1>7
  <2>4. g.mem[2 * e].pal = g.mem[2 * rest].alloc
    BY <1>7, <1>8
  <2>5. g.mem[2 * e - 1] = g.mem[2 * rest] /\ g.mem[2 * e].alloc
    BY <1>7, <1>8
  <2>6. b \in Nat /\ rest \in Nat /\ e \in Nat /\ b + 2 <= rest /\ rest + 2 <= e
    BY <1>3
  <2> QED  BY <2>1, <2>2, <2>3, <2>4, <2>5, <2>6, TwoBlocks
<1>10. SameBut(h.mem, g.mem, 2 * b, 2 * e)
  <2>1. \A w \in Words : w > 2 * e => w > 2 * e - 1
    BY <1>3
  <2> QED  BY <1>5, <2>1 DEF SameBut
<1>11. \A k \in 0 .. Wild : rest \notin Elems(h.lists[k])
  <2>1. rest \notin B
    <3>1. \A c \in B : c < b \/ c = b \/ c >= e
      BY <1>2 DEF FreeAt
    <3>2. b \in Nat /\ e \in Nat /\ b < rest /\ rest < e /\ rest \in Nat
      BY <1>3
    <3> QED  BY <3>1, <3>2
  <2> QED  BY <2>1, GoodFacts
<1>12. h \in Heaps /\ OnceEach(h) /\ OnceEach(g) /\ Wild \in 0 .. Wild
  BY <1>5, GoodFacts, Bounds DEF OnceEach
<1>13. l = IF e = Epilogue(h) THEN Wild ELSE ComputeMemoryIndex(h.mem[2 * b].size)
  <2>1. b \in B /\ b # Epilogue(h) /\ ~h.mem[2 * b].alloc
    BY GoodFacts
  <2> QED  BY <1>1, <2>1, WildLast
<1>14. PICK i : i = IF l = Wild THEN Wild ELSE ComputeMemoryIndex(left)
  OBVIOUS
<1>15. /\ x \in Heaps /\ x.pages = h.pages /\ x.aborted = h.aborted /\ x.mem = g.mem /\ OnceEach(x)
       /\ \A k \in 0 .. Wild : Elems(x.lists[k]) = (Elems(h.lists[k]) \ {b}) \cup {c \in {rest} : k = i}
  <2>1. CASE l = Wild
    <3>1. PICK s, t : s = g.lists[Wild] /\ t = [k \in DOMAIN s |-> IF s[k] = b THEN rest ELSE s[k]]
      OBVIOUS
    <3>2. x = [g EXCEPT !.lists = [g.lists EXCEPT ![Wild] = t]]
      <4>1. x = [g EXCEPT !.lists[Wild] = [k \in DOMAIN @ |-> IF @[k] = b THEN rest ELSE @[k]]]
        BY <1>1, <2>1 DEF Split
      <4> QED  BY <3>1, <4>1
    <3>3. Elems(h.lists[Wild]) = {b}
      BY <2>1, WildUnique
    <3>4. s \in Seq(Nat) /\ Once(s) /\ Elems(s) = {b}
      BY <1>5, <1>12, <3>1, <3>3 DEF Heaps, OnceEach
    <3>5. t \in Seq(Nat) /\ Once(t) /\ Elems(t) = {rest}
      <4>1. rest \in Nat
        BY <1>3
      <4>2. t = Swap(s, b, rest)
        BY <3>1 DEF Swap
      <4> QED  BY <3>4, <4>1, <4>2, Replaced
    <3>6. PICK y : y = [g.lists EXCEPT ![Wild] = t]
      OBVIOUS
    <3>7. g.lists \in [0 .. Wild -> Seq(Nat)]
      BY <1>5 DEF Heaps
    <3>8. y \in [0 .. Wild -> Seq(Nat)] /\ y[Wild] = t /\ \A k \in 0 .. Wild : k # Wild => y[k] = g.lists[k]
      BY <1>12, <3>5, <3>6, <3>7
    <3>9. x \in Heaps /\ x.pages = h.pages /\ x.aborted = h.aborted /\ x.mem = g.mem /\ x.lists = y
      BY <1>5, <3>2, <3>6, <3>8 DEF Heaps
    <3>10. OnceEach(x)
      BY <1>12, <3>5, <3>8, <3>9 DEF OnceEach
    <3>11. ASSUME NEW k \in 0 .. Wild
           PROVE  Elems(x.lists[k]) = (Elems(h.lists[k]) \ {b}) \cup {c \in {rest} : k = i}
      <4>1. CASE k = Wild
        <5>1. {c \in {rest} : k = i} = {rest}
          BY <1>14, <2>1, <4>1
        <5> QED  BY <3>3, <3>5, <3>8, <3>9, <4>1, <5>1
      <4>2. CASE k # Wild
        <5>1. {c \in {rest} : k = i} = {}
          BY <1>14, <2>1, <4>2
        <5>2. x.lists[k] = h.lists[k]
          BY <1>5, <3>8, <3>9, <4>2
        <5>3. b \notin Elems(h.lists[k])
          <6>1. b \in B /\ b # Epilogue(h) /\ ~h.mem[2 * b].alloc
            BY GoodFacts
          <6> QED  BY <2>1, <4>2, <6>1, WildLast
        <5> QED  BY <5>1, <5>2, <5>3
      <4> QED  BY <4>1, <4>2
    <3> QED  BY <3>9, <3>10, <3>11
  <2>2. CASE l # Wild
    <3>1. PICK f : f = Cut(g, b)
      OBVIOUS
    <3>2. x = Push(f, i, rest)
      BY <1>1, <1>14, <2>2, <3>1 DEF Split
    <3>3. i \in 0 .. Wild
      <4>1. i \in 0 .. Wild - 1
        BY <1>14, <2>2, IndexRange
      <4> QED  BY <4>1, Bounds
    <3>4. /\ OnlyLists(g, f) /\ OnceEach(f)
          /\ \A k \in 0 .. Wild : Elems(f.lists[k]) = Elems(g.lists[k]) \ {b}
      <4>1. b \in Nat /\ g \in Heaps
        BY <1>3, <1>5
      <4> QED  BY <1>12, <3>1, <4>1, CutDoes
    <3>5. f \in Heaps /\ f.pages = h.pages /\ f.aborted = h.aborted /\ f.mem = g.mem
      BY <1>5, <3>4 DEF OnlyLists
    <3>6. rest \in Nat /\ rest \notin Elems(f.lists[i])
      BY <1>3, <1>5, <1>11, <3>3, <3>4
    <3>7. /\ OnlyLists(f, x) /\ OnceEach(x)
          /\ Elems(x.lists[i]) = Elems(f.lists[i]) \cup {rest}
          /\ \A j \in 0 .. Wild : j # i => x.lists[j] = f.lists[j]
      BY <3>2, <3>3, <3>4, <3>5, <3>6, PushDoes
    <3>8. x \in Heaps /\ x.pages = h.pages /\ x.aborted = h.aborted /\ x.mem = g.mem
      BY <3>5, <3>7 DEF OnlyLists
    <3>9. ASSUME NEW k \in 0 .. Wild
          PROVE  Elems(x.lists[k]) = (Elems(h.lists[k]) \ {b}) \cup {c \in {rest} : k = i}
      <4>1. CASE k = i
        <5>1. {c \in {rest} : k = i} = {rest}
          BY <4>1
        <5> QED  BY <1>5, <3>4, <3>7, <4>1, <5>1
      <4>2. CASE k # i
        <5>1. {c \in {rest} : k = i} = {}
          BY <4>2
        <5> QED  BY <1>5, <3>4, <3>7, <4>2, <5>1
      <4> QED  BY <4>1, <4>2
    <3> QED  BY <3>7, <3>8, <3>9
  <2> QED  BY <2>1, <2>2
<1>16. Home(x.mem, Epilogue(x), rest) = i
  <2>1. Epilogue(x) = Epilogue(h) /\ After(x.mem, rest) = e /\ x.mem[2 * rest].size = left
    BY <1>3, <1>7, <1>15 DEF Epilogue, After
  <2>2. l = Wild <=> e = Epilogue(h)
    BY <1>13, IndexRange
  <2> QED  BY <1>14, <2>1, <2>2 DEF Home
<1>n. PICK N : N = {b, rest}
  OBVIOUS
<1>17. \A k \in 0 .. Wild : Elems(x.lists[k]) = (Elems(h.lists[k]) \ {b})
         \cup {c \in N : ~x.mem[2 * c].alloc /\ Home(x.mem, Epilogue(x), c) = k}
  <2>1. ASSUME NEW k \in 0 .. Wild
        PROVE  {c \in {rest} : k = i}
                 = {c \in N : ~x.mem[2 * c].alloc /\ Home(x.mem, Epilogue(x), c) = k}
    BY <1>7, <1>15, <1>16, <1>n
  <2> QED  BY <1>15, <2>1
<1>18. Takes(h, x, Used(h, B), b, r)
  <2>1. e = After(h.mem, b)
    BY <1>1
  <2>2. SameBut(h.mem, x.mem, 2 * b, 2 * e)
    BY <1>10, <1>15
  <2>7. Pieces(x.mem, N, b, e)
    BY <1>9, <1>15, <1>n
  <2>3. x.mem[2 * b].pal = TRUE /\ x.mem[2 * b].alloc = TRUE /\ x.mem[2 * b].size >= r
    BY <1>7, <1>15
  <2>4. x.mem[2 * e].size = h.mem[2 * e].size /\ x.mem[2 * e].alloc = h.mem[2 * e].alloc
    BY <1>8, <1>15
  <2>5. \A c \in N : c # b => ~x.mem[2 * c].alloc
    BY <1>7, <1>15, <1>n
  <2>6. x \in Heaps /\ x.pages = h.pages /\ x.aborted = h.aborted /\ OnceEach(x)
    BY <1>15
  <2> QED  BY <1>17, <2>1, <2>2, <2>3, <2>4, <2>5, <2>6, <2>7, TakenBecomes
<1> QED  BY <1>1, <1>18

\* What growing by n pages makes of h: the same blocks in use, in order, and
\* one wilderness block with the new rows.
Grown(h, g, B, n) ==
  /\ Becomes(h, g, Used(h, B), Used(h, B)) /\ g.aborted = h.aborted
  /\ g.pages = h.pages + n
  /\ g.lists[Wild][1] \in Elems(g.lists[Wild])
  /\ Size(g, g.lists[Wild][1]) = WildernessSize(h) + n * PageRows
  /\ \A c \in Elems(g.lists[Wild]) : c = g.lists[Wild][1]
  /\ \A l \in 0 .. Wild : l # Wild =>
       g.lists[l] = h.lists[l] /\ \A c \in Elems(h.lists[l]) : Size(g, c) = Size(h, c)

\* The region that grows: the wilderness block, or the old epilogue.
GrowsFrom(h, B, w, size) ==
  /\ w \in B /\ w \in 2 .. Epilogue(h) /\ size = Epilogue(h) - w /\ size \in Nat
  /\ h.mem[2 * w].pal = TRUE /\ \A c \in B : c < w \/ c = w \/ c = Epilogue(h)
  /\ size = WildernessSize(h)
  /\ w = IF h.lists[Wild] = <<>> THEN Epilogue(h) ELSE h.lists[Wild][1]
  /\ \A l \in 0 .. Wild : l # Wild => w \notin Elems(h.lists[l])
  /\ \A c \in Elems(h.lists[Wild]) : c = w
  /\ w # Epilogue(h) => ~h.mem[2 * w].alloc

\* The epilogue's pal bit when the wilderness is empty.
LEMMA EpiloguePal ==
  ASSUME NEW h, NEW B, Good(h, B), h.lists[Wild] = <<>>
  PROVE  h.mem[2 * Epilogue(h)].pal = TRUE
<1>1. /\ Epilogue(h) \in B /\ Epilogue(h) # 2
  <2>1. Epilogue(h) \in 4 .. Rows - 1
    BY GoodFacts
  <2> QED  BY <2>1, GoodFacts, Bounds
<1>2. PICK p \in B \ {Epilogue(h)} : After(h.mem, p) = Epilogue(h)
  BY <1>1 DEF Good, Tiling
<1>3. BlockAt(h.mem, B, p) /\ h.mem[2 * p].alloc \in BOOLEAN
  BY <1>2, NextOf
<1>4. h.mem[2 * Epilogue(h)].pal = h.mem[2 * p].alloc
  BY <1>2, <1>3 DEF BlockAt
<1>5. ASSUME ~h.mem[2 * p].alloc  PROVE FALSE
  <2>1. Wild \in 0 .. Wild
    BY Bounds
  <2>2. p \in Elems(h.lists[Wild])
    BY <1>2, <1>5, <2>1, WildLast
  <2> QED  BY <2>2 DEF Elems
<1> QED  BY <1>3, <1>4, <1>5

\* More pages begin at the wilderness, or at the old epilogue.
LEMMA GrowRegion ==
  ASSUME NEW h, NEW B, Good(h, B),
         NEW w, w = IF h.lists[Wild] = <<>> THEN Epilogue(h) ELSE h.lists[Wild][1]
  PROVE  GrowsFrom(h, B, w, WildernessSize(h))
<1>1. Wild \in 0 .. Wild /\ h.lists[Wild] \in Seq(Nat)
  BY Bounds DEF Good, Heaps
<1>2. B \subseteq 2 .. Epilogue(h) /\ Epilogue(h) \in 4 .. Rows - 1 /\ Epilogue(h) \in B
  BY GoodFacts
<1>3. Epilogue(h) \in Nat
  BY <1>2, Bounds
<1>4. CASE h.lists[Wild] = <<>>
  <2>1. w = Epilogue(h) /\ WildernessSize(h) = 0
    BY <1>4 DEF WildernessSize
  <2>2. \A c \in B : c < w \/ c = w
    BY <1>2, <1>3, <2>1
  <2>3. Elems(h.lists[Wild]) = {}
    BY <1>4 DEF Elems
  <2>4. \A l \in 0 .. Wild : w \notin Elems(h.lists[l])
    BY <2>1, GoodFacts
  <2>5. h.mem[2 * w].pal = TRUE
    BY <1>4, <2>1, EpiloguePal
  <2>6. w \in 2 .. Epilogue(h) /\ 0 = Epilogue(h) - w /\ 0 \in Nat
    BY <1>2, <1>3, <2>1
  <2> QED  BY <1>2, <1>4, <2>1, <2>2, <2>3, <2>4, <2>5, <2>6 DEF GrowsFrom
<1>5. CASE h.lists[Wild] # <<>>
  <2>1. w = h.lists[Wild][1] /\ WildernessSize(h) = Size(h, w)
    BY <1>5 DEF WildernessSize
  <2>2. w \in Elems(h.lists[Wild])
    <3>1. 1 \in DOMAIN h.lists[Wild]
      BY <1>1, <1>5
    <3> QED  BY <2>1, <3>1 DEF Elems
  <2>3. \A c \in Elems(h.lists[Wild]) : c = w
    BY <2>2, WildUnique
  <2>4. w \in B /\ w # Epilogue(h) /\ ~h.mem[2 * w].alloc /\ After(h.mem, w) = Epilogue(h)
    BY <2>2, InWild
  <2>5. FreeAt(h, B, w, Epilogue(h))
    BY <1>1, <2>2, <2>4, FreePlace
  <2>6. h.mem[2 * w].pal = TRUE /\ Epilogue(h) = w + Size(h, w) /\ w \in 2 .. Epilogue(h) - 2
        /\ \A c \in B : c < w \/ c = w \/ c >= Epilogue(h)
    BY <2>5 DEF FreeAt
  <2>7. \A c \in B : c < w \/ c = w \/ c = Epilogue(h)
    BY <1>2, <1>3, <2>6
  <2>8. \A l \in 0 .. Wild : l # Wild => w \notin Elems(h.lists[l])
    BY <1>1, <2>2, <2>4, WildLast
  <2>9. Size(h, w) \in Nat
    <3>1. h.mem[2 * w].size \in Nat
      BY <2>4, NextOf
    <3> QED  BY <3>1 DEF Size, Header
  <2>10. w \in 2 .. Epilogue(h) /\ Size(h, w) = Epilogue(h) - w
    BY <1>3, <2>6, <2>9
  <2> QED  BY <1>5, <2>1, <2>3, <2>4, <2>6, <2>7, <2>8, <2>9, <2>10 DEF GrowsFrom
<1> QED  BY <1>4, <1>5

\* The memory after growing: one free block up to a new epilogue.
GrownMem(h, g, w, E) ==
  /\ g \in Heaps /\ g.lists = h.lists /\ g.aborted = h.aborted
  /\ Epilogue(g) = E
  /\ SameBut(h.mem, g.mem, 2 * w, 2 * E)
  /\ g.mem[2 * w] = Tag(E - w, FALSE, TRUE) /\ g.mem[2 * E - 1] = Tag(E - w, FALSE, TRUE)
  /\ g.mem[2 * E] = Tag(0, TRUE, FALSE)

\* The words that growing writes.
LEMMA GrownMemWorks ==
  ASSUME NEW h \in Heaps, NEW w \in Nat, NEW E, E = Epilogue(h), E \in 4 .. Rows - 1,
         w + 2 <= E
  PROVE  GrownMem(h, SetNewEpilogue(SetFree(h, w, E - w, TRUE)), w, E)
<1>1. PICK z, f : z = E - w /\ f = SetFree(h, w, z, TRUE)
  OBVIOUS
<1>2. PICK g : g = SetNewEpilogue(f)
  OBVIOUS
<1>3. z \in Nat /\ z >= 2 /\ w + z = E /\ E < Rows /\ Rows \in Nat /\ Words = 0 .. 2 * Rows - 2
      /\ E \in Nat /\ z = E - w
  BY <1>1, Bounds
<1>4. FreeSet(h, f, w, z, TRUE)
  <2>1. w + z < Rows /\ f = SetFree(h, w, z, TRUE)
    BY <1>1, <1>3
  <2> QED  BY <1>3, <2>1, SetFreeDoes
<1>5. /\ f \in Heaps /\ f.lists = h.lists /\ f.aborted = h.aborted /\ f.pages = h.pages
      /\ SameBut(h.mem, f.mem, 2 * w, 2 * E - 1)
      /\ f.mem[2 * w] = Tag(z, FALSE, TRUE) /\ f.mem[2 * E - 1] = Tag(z, FALSE, TRUE)
  BY <1>3, <1>4 DEF FreeSet, OnlyMemory
<1>6. g = SetHeader(f, E, 0, TRUE, FALSE) /\ Epilogue(f) = E
  BY <1>2, <1>5 DEF SetNewEpilogue, Epilogue
<1>7. OnlyMemory(f, g) /\ SameBut(f.mem, g.mem, 2 * E, 2 * E) /\ g.mem[2 * E] = Tag(0, TRUE, FALSE)
  <2>1. E \in Nat /\ E < Rows /\ 0 \in 0 .. Rows
    BY <1>3
  <2> QED  BY <1>5, <1>6, <2>1, SetHeaderDoes
<1>8. g \in Heaps /\ g.lists = h.lists /\ g.aborted = h.aborted /\ Epilogue(g) = E
  BY <1>5, <1>7 DEF OnlyMemory, Epilogue
<1>9. SameBut(h.mem, g.mem, 2 * w, 2 * E)
  <2>1. ASSUME NEW i \in Words, i < 2 * w \/ i > 2 * E  PROVE g.mem[i] = h.mem[i]
    <3>1. (i < 2 * w \/ i > 2 * E - 1) /\ (i < 2 * E \/ i > 2 * E)
      BY <1>3, <2>1
    <3> QED  BY <1>5, <1>7, <3>1 DEF SameBut
  <2> QED  BY <2>1 DEF SameBut
<1>10. g.mem[2 * w] = Tag(z, FALSE, TRUE) /\ g.mem[2 * E - 1] = Tag(z, FALSE, TRUE)
  <2>1. 2 * w \in Words /\ 2 * w < 2 * E /\ 2 * E - 1 \in Words /\ 2 * E - 1 < 2 * E
    BY <1>3
  <2> QED  BY <1>5, <1>7, <2>1 DEF SameBut
<1>11. GrownMem(h, g, w, E)
  BY <1>3, <1>7, <1>8, <1>9, <1>10 DEF GrownMem
<1> QED  BY <1>1, <1>2, <1>11

\* Growing by n pages.
LEMMA GrowWorks ==
  ASSUME NEW h, NEW B, Good(h, B), NEW n \in 1 .. MaxPages - h.pages
  PROVE  Grown(h, Grow(h, n), B, n)
<1>1. PICK w, size, h1, k, x, E :
        /\ w = IF h.lists[Wild] = <<>> THEN Epilogue(h) ELSE h.lists[Wild][1]
        /\ size = WildernessSize(h) /\ h1 = [h EXCEPT !.pages = @ + n]
        /\ E = Epilogue(h1) /\ k = SetNewEpilogue(SetFree(h1, w, E - w, TRUE))
        /\ x = SetWilderness(k, w)
  OBVIOUS
<1>2. GrowsFrom(h, B, w, size)
  <2>1. w = IF h.lists[Wild] = <<>> THEN Epilogue(h) ELSE h.lists[Wild][1]
    BY <1>1
  <2>2. GrowsFrom(h, B, w, WildernessSize(h))
    BY <2>1, GrowRegion
  <2> QED  BY <1>1, <2>2
<1>3. /\ h \in Heaps /\ h.pages \in 1 .. MaxPages /\ Epilogue(h) \in 4 .. Rows - 1
      /\ Epilogue(h) \in Nat /\ n \in Nat /\ n >= 1 /\ h.pages + n \in 1 .. MaxPages
      /\ PageRows \in Nat /\ PageRows >= 5 /\ Rows \in Nat /\ Words = 0 .. 2 * Rows - 2
      /\ Wild \in 0 .. Wild /\ h.pages + n # 0
  <2>1. h \in Heaps /\ h.pages \in 1 .. MaxPages /\ Epilogue(h) \in 4 .. Rows - 1
    BY GoodFacts
  <2>2. PageRows \in Nat /\ PageRows >= 5 /\ MaxPages \in Nat
    BY PageAssumption, MaxPagesAssumption
  <2> QED  BY <2>1, <2>2, Bounds
<1>4. h1 \in Heaps /\ h1.pages = h.pages + n /\ h1.lists = h.lists /\ h1.aborted = h.aborted /\ h1.mem = h.mem
  <2>1. h.pages + n \in 0 .. MaxPages /\ h1 = [h EXCEPT !.pages = h.pages + n]
    BY <1>1, <1>3
  <2> QED  BY <1>3, <2>1 DEF Heaps
<1>5. /\ E = Epilogue(h) + n * PageRows /\ E \in 4 .. Rows - 1 /\ E \in Nat
      /\ n * PageRows \in Nat /\ n * PageRows >= 5
  <2>1. E = PageRows * (h.pages + n) - 1 /\ Epilogue(h) = PageRows * h.pages - 1
    BY <1>1, <1>4 DEF Epilogue
  <2>2. PageRows * (h.pages + n) - 1 \in 4 .. Rows - 1
    BY <1>3, Bounds
  <2>3. PageRows * (h.pages + n) = PageRows * h.pages + n * PageRows
    BY <1>3
  <2>4. n * PageRows \in Nat /\ n * PageRows >= 5 /\ PageRows * h.pages \in Nat
    <3>1. PICK y \in Nat : y = n - 1
      BY <1>3
    <3>2. n * PageRows = y * PageRows + PageRows /\ y * PageRows \in Nat
      BY <1>3, <3>1
    <3> QED  BY <1>3, <3>2
  <2>5. PICK u, v : u = PageRows * h.pages /\ v = n * PageRows
    OBVIOUS
  <2>6. u \in Nat /\ v \in Nat /\ v >= 5 /\ E = u + v - 1 /\ Epilogue(h) = u - 1 /\ u + v - 1 \in 4 .. Rows - 1
    BY <2>1, <2>2, <2>3, <2>4, <2>5
  <2>7. E = Epilogue(h) + v /\ E \in 4 .. Rows - 1 /\ E \in Nat
    BY <2>6, <1>3
  <2> QED  BY <2>4, <2>5, <2>7
<1>6. /\ w \in B /\ w \in 2 .. Epilogue(h) /\ size = Epilogue(h) - w /\ size \in Nat
      /\ h.mem[2 * w].pal = TRUE /\ \A c \in B : c < w \/ c = w \/ c = Epilogue(h)
      /\ \A l \in 0 .. Wild : l # Wild => w \notin Elems(h.lists[l])
      /\ \A c \in Elems(h.lists[Wild]) : c = w
      /\ w # Epilogue(h) => ~h.mem[2 * w].alloc
  BY <1>2 DEF GrowsFrom
<1>7. w \in Nat /\ w + 2 <= E /\ w < E /\ E - w = n * PageRows + size /\ E - w \in Nat /\ E - w >= 2
      /\ w < Rows /\ Epilogue(h) < E /\ w <= Epilogue(h)
  <2>1. PICK v, y : v = n * PageRows /\ y = Epilogue(h)
    OBVIOUS
  <2>2. v \in Nat /\ v >= 5 /\ y \in Nat /\ E = y + v /\ E \in 4 .. Rows - 1 /\ Rows \in Nat
    BY <1>3, <1>5, <2>1
  <2>3. w \in 2 .. y /\ size = y - w
    BY <1>6, <2>1
  <2>4. /\ w \in Nat /\ w + 2 <= E /\ w < E /\ E - w = v + size /\ E - w \in Nat /\ E - w >= 2
        /\ w < Rows /\ y < E /\ w <= y
    BY <2>2, <2>3
  <2> QED  BY <2>1, <2>4
<1>8. x = Grow(h, n)
  <2>1. n # 0
    BY <1>3
  <2>2. n * PageRows + (IF h.lists[Wild] = <<>> THEN 0 ELSE Size(h, w)) = E - w
    <3>1. size = IF h.lists[Wild] = <<>> THEN 0 ELSE Size(h, w)
      BY <1>1 DEF WildernessSize
    <3> QED  BY <1>7, <3>1
  <2>3. (h.lists[Wild] = <<>> \/ Header(h, w).pal) = TRUE
    BY <1>6 DEF Header
  <2>4. Grow(h, n) = SetWilderness(SetNewEpilogue(SetFree(h1, w,
          n * PageRows + (IF h.lists[Wild] = <<>> THEN 0 ELSE Size(h, w)),
          (h.lists[Wild] = <<>> \/ Header(h, w).pal))), w)
    BY <1>1, <2>1 DEF Grow
  <2>5. Grow(h, n) = SetWilderness(SetNewEpilogue(SetFree(h1, w, E - w, TRUE)), w)
    BY <2>2, <2>3, <2>4
  <2> QED  BY <1>1, <2>5
<1>9. GrownMem(h1, k, w, E)
  <2>1. E = Epilogue(h1) /\ k = SetNewEpilogue(SetFree(h1, w, E - w, TRUE))
    BY <1>1
  <2>2. w \in Nat /\ w + 2 <= E /\ E \in 4 .. Rows - 1
    BY <1>5, <1>7
  <2> QED  BY <1>4, <2>1, <2>2, GrownMemWorks
<1>10. /\ k \in Heaps /\ k.lists = h.lists /\ k.aborted = h.aborted /\ Epilogue(k) = E
       /\ SameBut(h.mem, k.mem, 2 * w, 2 * E)
       /\ k.mem[2 * w] = Tag(E - w, FALSE, TRUE) /\ k.mem[2 * E - 1] = Tag(E - w, FALSE, TRUE)
       /\ k.mem[2 * E] = Tag(0, TRUE, FALSE)
  BY <1>4, <1>9 DEF GrownMem
<1>11. k.pages = h.pages + n
  <2>1. OnlyMemory(SetFree(h1, w, E - w, TRUE), SetNewEpilogue(SetFree(h1, w, E - w, TRUE)))
        /\ OnlyMemory(h1, SetFree(h1, w, E - w, TRUE))
    <3>1. PICK f, z : f = SetFree(h1, w, z, TRUE) /\ z = E - w
      OBVIOUS
    <3>2. FreeSet(h1, f, w, z, TRUE)
      <4>1. z \in Nat /\ z >= 2 /\ w + z < Rows
        BY <1>3, <1>5, <1>7, <3>1
      <4>2. f = SetFree(h1, w, z, TRUE) /\ w \in Nat
        BY <1>7, <3>1
      <4> QED  BY <1>4, <4>1, <4>2, SetFreeDoes
    <3>3. OnlyMemory(h1, f)
      BY <3>2 DEF FreeSet
    <3>4. Epilogue(f) = E /\ f \in Heaps
      BY <1>1, <3>3 DEF OnlyMemory, Epilogue
    <3>5. SetNewEpilogue(f) = SetHeader(f, E, 0, TRUE, FALSE)
      BY <3>4 DEF SetNewEpilogue
    <3>6. E \in Nat /\ E < Rows /\ 0 \in 0 .. Rows
      BY <1>3, <1>5
    <3>7. OnlyMemory(f, SetNewEpilogue(f))
      BY <3>4, <3>5, <3>6, SetHeaderDoes
    <3> QED  BY <3>1, <3>3, <3>7
  <2> QED  BY <1>1, <1>4, <2>1 DEF OnlyMemory
<1>12. /\ OnlyLists(k, x) /\ OnceEach(x) /\ Elems(x.lists[Wild]) = {w} /\ x.lists[Wild] = <<w>>
       /\ \A j \in 0 .. Wild : j # Wild => x.lists[j] = k.lists[j]
  <2>1. OnceEach(k)
    BY <1>10, GoodFacts DEF OnceEach
  <2>2. x = SetWilderness(k, w) /\ w \in Nat
    BY <1>1, <1>7
  <2> QED  BY <1>10, <2>1, <2>2, SetWildernessDoes
<1>13. /\ x \in Heaps /\ x.pages = h.pages + n /\ x.aborted = h.aborted /\ x.mem = k.mem
       /\ Epilogue(x) = E /\ x.pages # 0
  BY <1>3, <1>10, <1>11, <1>12 DEF OnlyLists, Epilogue
<1>14. /\ x.mem[2 * w].size = E - w /\ x.mem[2 * w].alloc = FALSE /\ x.mem[2 * w].pal = TRUE
       /\ x.mem[2 * E - 1] = x.mem[2 * w]
       /\ x.mem[2 * E].size = 0 /\ x.mem[2 * E].alloc = TRUE /\ x.mem[2 * E].pal = FALSE
  BY <1>10, <1>13 DEF Tag
<1>15. Pieces(x.mem, {w}, w, E)
  <2>1. x.mem[2 * w].size = E - w
    BY <1>14
  <2>2. x.mem[2 * E].pal = x.mem[2 * w].alloc
    BY <1>14
  <2>3. x.mem[2 * E - 1] = x.mem[2 * w] /\ x.mem[2 * E].alloc
    BY <1>14
  <2>4. w \in Nat /\ E \in Nat /\ w + 2 <= E
    BY <1>5, <1>7
  <2> QED  BY <2>1, <2>2, <2>3, <2>4, OneBlock
<1>16. Retiled(h.mem, x.mem, Epilogue(h), Epilogue(x), B, {w}, w, E)
  <2>1. \A i \in 0 .. 2 * w - 1 : x.mem[i] = h.mem[i]
    <3>1. \A i \in 0 .. 2 * w - 1 : i \in Words /\ i < 2 * w
      BY <1>3, <1>7
    <3> QED  BY <1>10, <1>13, <3>1 DEF SameBut
  <2>2. \A i \in 2 * E + 1 .. 2 * Epilogue(h) : x.mem[i] = h.mem[i]
    BY SMTT(30), <1>3, <1>5, <1>7
  <2>3. Epilogue(h) <= E /\ w < E /\ E \in Nat
    BY <1>3, <1>5, <1>7
  <2>4. x.mem[2 * w].pal = h.mem[2 * w].pal /\ h.mem[2 * w].pal
    BY <1>6, <1>14
  <2>5. x.mem[2 * E].size = 0 /\ x.mem[2 * E].alloc
    BY <1>14
  <2> QED  BY <1>6, <1>13, <1>15, <2>1, <2>2, <2>3, <2>4, <2>5 DEF Retiled, Pieces
<1>17. Home(x.mem, Epilogue(x), w) = Wild
  <2>1. After(x.mem, w) = E
    BY <1>5, <1>7, <1>14 DEF After
  <2> QED  BY <1>13, <2>1 DEF Home
<1>18. \A l \in 0 .. Wild : \A c \in Elems(h.lists[l]) : c < w \/ (c = w /\ l = Wild)
  <2>1. ASSUME NEW l \in 0 .. Wild, NEW c \in Elems(h.lists[l])
        PROVE  c < w \/ (c = w /\ l = Wild)
    <3>1. c \in B /\ c # Epilogue(h)
      BY GoodFacts
    <3>2. c < w \/ c = w
      BY <1>6, <3>1
    <3> QED  BY <1>6, <3>2
  <2> QED  BY <2>1
<1>19. Relisted(x.mem, Epilogue(x), h.lists, x.lists, {w}, w, E)
  <2>1. SUFFICES ASSUME NEW l \in 0 .. Wild
        PROVE  /\ x.lists[l] \in Seq(Nat) /\ Once(x.lists[l])
               /\ Elems(x.lists[l]) = {c \in Elems(h.lists[l]) : c < w \/ c >= E}
                    \cup {c \in {w} : ~x.mem[2 * c].alloc /\ Home(x.mem, Epilogue(x), c) = l}
    BY DEF Relisted
  <2>2. x.lists[l] \in Seq(Nat) /\ Once(x.lists[l])
    BY <1>12, <1>13 DEF Heaps, OnceEach
  <2>3. \A c \in Elems(h.lists[l]) : c \in B /\ B \subseteq 2 .. Epilogue(h)
    BY GoodFacts
  <2>4. CASE l = Wild
    <3>1. {c \in {w} : ~x.mem[2 * c].alloc /\ Home(x.mem, Epilogue(x), c) = l} = {w}
      BY <1>14, <1>17, <2>4
    <3>2. {c \in Elems(h.lists[l]) : c < w \/ c >= E} \subseteq {w}
      BY <1>6, <2>4
    <3> QED  BY <1>12, <2>2, <2>4, <3>1, <3>2
  <2>5. CASE l # Wild
    <3>1. {c \in {w} : ~x.mem[2 * c].alloc /\ Home(x.mem, Epilogue(x), c) = l} = {}
      BY <1>17, <2>5
    <3>2. {c \in Elems(h.lists[l]) : c < w \/ c >= E} = Elems(h.lists[l])
      BY <1>18, <2>5
    <3>3. x.lists[l] = h.lists[l]
      BY <1>10, <1>12, <2>5
    <3> QED  BY <2>2, <3>1, <3>2, <3>3
  <2> QED  BY <2>4, <2>5
<1>20. Becomes(h, x, Used(h, B), Used(h, B))
  <2>1. \A c : c \in Used(h, B) <=> c \in Used(h, B) /\ (c < w \/ c >= E)
    <3>1. ASSUME NEW c \in Used(h, B)  PROVE c < w
      <4>1. c \in B /\ c # Epilogue(h) /\ h.mem[2 * c].alloc
        BY DEF Used, Allocs
      <4> QED  BY <1>6, <4>1
    <3> QED  BY <3>1
  <2>2. \A c : c \in Used(h, B) <=> c \in Used(h, B) \/ (c \in {w} /\ x.mem[2 * c].alloc)
    BY <1>14
  <2>3. w = Epilogue(h) => h.mem[2 * Epilogue(h)].pal
    BY <1>6
  <2>4. x \in Heaps /\ x.pages # 0
    BY <1>13
  <2> QED  BY <1>16, <1>19, <2>1, <2>2, <2>3, <2>4, Reorder
<1>21. x.lists[Wild][1] = w /\ Size(x, w) = size + n * PageRows
  <2>1. x.mem[2 * w].size = E - w /\ E - w = size + n * PageRows
    BY <1>5, <1>6, <1>7, <1>14
  <2> QED  BY <1>12, <2>1 DEF Size, Header
<1>22. ASSUME NEW l \in 0 .. Wild, l # Wild
       PROVE  x.lists[l] = h.lists[l] /\ \A c \in Elems(h.lists[l]) : Size(x, c) = Size(h, c)
  <2>1. x.lists[l] = h.lists[l]
    BY <1>10, <1>12, <1>22
  <2>2. ASSUME NEW c \in Elems(h.lists[l])  PROVE Size(x, c) = Size(h, c)
    <3>1. c < w /\ c \in B
      BY <1>18, <1>22, GoodFacts
    <3>2. c \in Nat
      BY <3>1, GoodFacts
    <3>3. 2 * c \in Words /\ 2 * c < 2 * w
      BY <1>3, <1>7, <3>1, <3>2
    <3>4. x.mem[2 * c] = h.mem[2 * c]
      BY <1>10, <1>13, <3>3 DEF SameBut
    <3> QED  BY <3>4 DEF Size, Header
  <2> QED  BY <2>1, <2>2
<1>23. Grown(h, x, B, n)
  <2>1. Size(x, x.lists[Wild][1]) = WildernessSize(h) + n * PageRows
    BY <1>1, <1>21
  <2> QED  BY <1>12, <1>13, <1>20, <1>21, <1>22, <2>1 DEF Grown
<1> QED  BY <1>8, <1>23

\* What is kept twice is kept.
LEMMA BecomesThen ==
  ASSUME NEW h, NEW g, NEW k, NEW U, NEW V, NEW S, Becomes(h, g, U, S), Becomes(g, k, V, S)
  PROVE  Becomes(h, k, V, S)
<1>1. \A b \in S : Kept(h.mem, g.mem, b) /\ Kept(g.mem, k.mem, b)
  BY DEF Becomes
<1>2. ASSUME NEW b \in S  PROVE Kept(h.mem, k.mem, b)
  <2>1. Kept(h.mem, g.mem, b) /\ Kept(g.mem, k.mem, b)
    BY <1>1
  <2>2. g.mem[2 * b].size = h.mem[2 * b].size /\ k.mem[2 * b].size = g.mem[2 * b].size
    BY <2>1 DEF Kept
  <2>3. After(g.mem, b) = After(h.mem, b)
    BY <2>2 DEF After
  <2>4. \A w \in 2 * b + 1 .. 2 * After(h.mem, b) - 1 : g.mem[w] = h.mem[w] /\ k.mem[w] = g.mem[w]
    BY <2>1, <2>3 DEF Kept
  <2> QED  BY <2>2, <2>4 DEF Kept
<1>3. PICK C : Good(k, C) /\ Used(k, C) = V
  BY DEF Becomes
<1> QED  BY <1>2, <1>3 DEF Becomes

\* The rows asked for.
LEMMA AdjustedRange ==
  ASSUME NEW n \in Nat
  PROVE  AdjustedSize(n) \in Nat /\ AdjustedSize(n) >= 2 /\ n + 1 <= 2 * AdjustedSize(n)
<1>1. CASE n <= 3
  BY <1>1 DEF AdjustedSize
<1>2. CASE ~(n <= 3)
  <2>1. AdjustedSize(n) = (n + 2) \div 2
    BY <1>2 DEF AdjustedSize, ComputeMemorySize
  <2>2. PICK q : q = (n + 2) \div 2
    OBVIOUS
  <2>3. q \in Nat /\ q >= 2 /\ n + 1 <= 2 * q
    BY <1>2, <2>2
  <2> QED  BY <2>1, <2>2, <2>3
<1> QED  BY <1>1, <1>2

\* What the search finds fits.
LEMMA FirstFitWorks ==
  ASSUME NEW h, NEW B, Good(h, B), NEW r, SearchLists(h, r) # {}, NEW f, f = FirstFit(h, r)
  PROVE  /\ f.list \in 0 .. Wild /\ f.block \in Elems(h.lists[f.list]) /\ Size(h, f.block) >= r
<1>1. PICK l, k : l = Least(SearchLists(h, r)) /\ k = Least(Fits(h, r, l))
  OBVIOUS
<1>2. SearchLists(h, r) \subseteq 0 .. Wild
  <2>1. ComputeMemoryIndex(r) \in 0 .. Wild - 1
    BY IndexRange
  <2> QED  BY <2>1, Bounds DEF SearchLists
<1>3. l \in SearchLists(h, r)
  <2>1. SearchLists(h, r) \subseteq Nat
    BY <1>2
  <2> QED  BY <1>1, <2>1, LeastOf
<1>4. l \in 0 .. Wild /\ Fits(h, r, l) # {}
  BY <1>2, <1>3 DEF SearchLists
<1>5. h.lists[l] \in Seq(Nat)
  BY <1>4 DEF Good, Heaps
<1>6. Fits(h, r, l) \subseteq Nat
  BY <1>5 DEF Fits
<1>7. k \in Fits(h, r, l)
  BY <1>1, <1>4, <1>6, LeastOf
<1>8. k \in DOMAIN h.lists[l] /\ Size(h, h.lists[l][k]) >= r
  BY <1>7 DEF Fits
<1>9. f.list = l /\ f.block = h.lists[l][k]
  BY <1>1 DEF FirstFit
<1> QED  BY <1>4, <1>8, <1>9 DEF Elems

\* A block found is taken, whole or in part.
LEMMA AllocateAtWorks ==
  ASSUME NEW h, NEW B, Good(h, B), NEW l \in 0 .. Wild, NEW b \in Elems(h.lists[l]),
         NEW r \in Nat, r >= 2, Size(h, b) >= r
  PROVE  /\ Takes(h, AllocateAt(h, b, l, r).heap, Used(h, B), b, r)
         /\ AllocateAt(h, b, l, r).ptr = b /\ b # NULL
<1>1. b \in B /\ b # Epilogue(h)
  BY GoodFacts
<1>2. b \in 2 .. Epilogue(h) - 2 /\ h.mem[2 * b].size \in Nat
  BY <1>1, NextOf
<1>3. Size(h, b) \in Nat
  BY <1>2 DEF Size, Header
<1>4. b # 0
  BY <1>2
<1>5. CASE LeaveSplinter(h, b, r)
  <2>1. AllocateAt(h, b, l, r).heap = TakeWhole(h, b)
    BY <1>5 DEF AllocateAt
  <2>2. Takes(h, TakeWhole(h, b), Used(h, B), b, r)
    BY TakeWholeWorks
  <2> QED  BY <1>4, <2>1, <2>2 DEF AllocateAt
<1>6. CASE ~LeaveSplinter(h, b, r)
  <2>1. AllocateAt(h, b, l, r).heap = Split(h, b, l, r)
    BY <1>6 DEF AllocateAt
  <2>2. Size(h, b) - r >= 2
    BY <1>3, <1>6 DEF LeaveSplinter
  <2>3. Takes(h, Split(h, b, l, r), Used(h, B), b, r)
    BY <2>2, SplitWorks
  <2> QED  BY <1>4, <2>1, <2>3 DEF AllocateAt
<1> QED  BY <1>5, <1>6

\* The answer a to a request of n words, when the blocks U of h are in use.
Answers(h, a, U, n) ==
  \/ a.ptr = NULL /\ Becomes(h, a.heap, U, U) /\ a.heap.aborted = h.aborted
  \/ n # 0 /\ a.ptr # NULL /\ Takes(h, a.heap, U, a.ptr, AdjustedSize(n))

\* A block that is there is the answer.
LEMMA FoundWorks ==
  ASSUME NEW h, NEW B, Good(h, B), NEW n \in Nat, NEW r, r = AdjustedSize(n),
         NEW a, a = SfMalloc(h, n), n # 0, SearchLists(h, r) # {}
  PROVE  a.ptr # NULL /\ Takes(h, a.heap, Used(h, B), a.ptr, r)
<1>2. r \in Nat /\ r >= 2
  BY AdjustedRange
<1>3. Initialise(h) = h
  <2>1. h.pages > 0
    BY GoodFacts, MaxPagesAssumption
  <2> QED  BY <2>1 DEF Initialise
<1>4. PICK f : f = FirstFit(h, r)
  OBVIOUS
<1>5. a = AllocateAt(h, f.block, f.list, r)
  BY <1>3, <1>4 DEF SfMalloc
<1>6. f.list \in 0 .. Wild /\ f.block \in Elems(h.lists[f.list]) /\ Size(h, f.block) >= r
  BY <1>4, FirstFitWorks
<1>7. /\ Takes(h, a.heap, Used(h, B), f.block, r) /\ a.ptr = f.block /\ f.block # NULL
  BY <1>2, <1>5, <1>6, AllocateAtWorks
<1> QED  BY <1>7

\* Or, when the heap can grow enough, a block of the wilderness.
LEMMA GrownWorks ==
  ASSUME NEW h, NEW B, Good(h, B), NEW n \in Nat, NEW r, r = AdjustedSize(n),
         NEW a, a = SfMalloc(h, n), n # 0, SearchLists(h, r) = {}, Enough(h, r) # {}
  PROVE  a.ptr # NULL /\ Takes(h, a.heap, Used(h, B), a.ptr, r)
<1>2. r \in Nat /\ r >= 2
  BY AdjustedRange
<1>3. Initialise(h) = h
  <2>1. h.pages > 0
    BY GoodFacts, MaxPagesAssumption
  <2> QED  BY <2>1 DEF Initialise
<1>4. PICK m, g, w : m = Least(Enough(h, r)) /\ g = Grow(h, m) /\ w = g.lists[Wild][1]
  OBVIOUS
<1>5. a = AllocateAt(g, w, Wild, r)
  BY <1>3, <1>4 DEF SfMalloc
<1>6. m \in Enough(h, r)
  <2>1. Enough(h, r) \subseteq Nat
    BY DEF Enough, Pages
  <2> QED  BY <1>4, <2>1, LeastOf
<1>7. m \in 1 .. MaxPages - h.pages /\ WildernessSize(h) + m * PageRows >= r
  <2>1. m \in 0 .. MaxPages - h.pages /\ m # 0 /\ WildernessSize(h) + m * PageRows >= r
    BY <1>6 DEF Enough, Pages
  <2>2. h.pages \in 1 .. MaxPages /\ MaxPages \in Nat
    BY GoodFacts, MaxPagesAssumption
  <2> QED  BY <2>1, <2>2
<1>8. Grown(h, g, B, m)
  BY <1>4, <1>7, GrowWorks
<1>9. /\ Becomes(h, g, Used(h, B), Used(h, B)) /\ g.aborted = h.aborted
      /\ w \in Elems(g.lists[Wild]) /\ Size(g, w) >= r
  BY <1>4, <1>7, <1>8 DEF Grown
<1>10. PICK C : Good(g, C) /\ Used(g, C) = Used(h, B)
  BY <1>9 DEF Becomes
<1>11. Wild \in 0 .. Wild
  BY Bounds
<1>12. Takes(g, a.heap, Used(g, C), w, r) /\ a.ptr = w /\ w # NULL
  BY <1>2, <1>5, <1>9, <1>10, <1>11, AllocateAtWorks
<1>13. Becomes(g, a.heap, Used(h, B) \cup {w}, Used(h, B))
  BY <1>10, <1>12 DEF Takes
<1>14. Becomes(h, a.heap, Used(h, B) \cup {w}, Used(h, B))
  BY <1>9, <1>13, BecomesThen
<1>15. Takes(h, a.heap, Used(h, B), w, r)
  BY <1>9, <1>10, <1>12, <1>14 DEF Takes
<1> QED  BY <1>12, <1>15

\* sf_malloc of a heap in order.
LEMMA MallocFrom ==
  ASSUME NEW h, NEW B, Good(h, B), NEW n \in Nat
  PROVE  Answers(h, SfMalloc(h, n), Used(h, B), n)
<1>1. PICK r, a : r = AdjustedSize(n) /\ a = SfMalloc(h, n)
  OBVIOUS
<1>2. r \in Nat /\ r >= 2
  BY <1>1, AdjustedRange
<1>3. Initialise(h) = h
  <2>1. h.pages > 0
    BY GoodFacts, MaxPagesAssumption
  <2> QED  BY <2>1 DEF Initialise
<1>4. Becomes(h, h, Used(h, B), Used(h, B))
  BY DEF Becomes, Kept
<1>5. CASE n = 0
  <2>1. a.heap = h /\ a.ptr = NULL
    BY <1>1, <1>3, <1>5 DEF SfMalloc
  <2> QED  BY <1>1, <1>4, <2>1 DEF Answers
<1>6. CASE n # 0 /\ SearchLists(h, r) # {}
  <2>1. a.ptr # NULL /\ Takes(h, a.heap, Used(h, B), a.ptr, r)
    BY <1>1, <1>6, FoundWorks
  <2> QED  BY <1>1, <1>6, <2>1 DEF Answers
<1>7. CASE n # 0 /\ SearchLists(h, r) = {} /\ Enough(h, r) # {}
  <2>1. a.ptr # NULL /\ Takes(h, a.heap, Used(h, B), a.ptr, r)
    BY <1>1, <1>7, GrownWorks
  <2> QED  BY <1>1, <1>7, <2>1 DEF Answers
<1>8. CASE n # 0 /\ SearchLists(h, r) = {} /\ Enough(h, r) = {}
  <2>1. a.heap = CannotGrow(h) /\ a.ptr = NULL
    BY <1>1, <1>3, <1>8 DEF SfMalloc
  <2>2. h.pages \in 1 .. MaxPages /\ MaxPages \in Nat
    BY GoodFacts, MaxPagesAssumption
  <2>3. CASE h.pages = MaxPages
    <3>1. CannotGrow(h) = h
      BY <2>2, <2>3 DEF CannotGrow, Grow
    <3> QED  BY <1>1, <1>4, <2>1, <3>1 DEF Answers
  <2>4. CASE h.pages # MaxPages
    <3>1. PICK m : m = MaxPages - h.pages
      OBVIOUS
    <3>2. m \in 1 .. MaxPages - h.pages
      BY <2>2, <2>4, <3>1
    <3>3. Grown(h, Grow(h, m), B, m)
      BY <3>2, GrowWorks
    <3>4. Becomes(h, a.heap, Used(h, B), Used(h, B)) /\ a.heap.aborted = h.aborted
      BY <2>1, <3>1, <3>3 DEF Grown, CannotGrow
    <3> QED  BY <1>1, <2>1, <3>4 DEF Answers
  <2> QED  BY <2>3, <2>4
<1> QED  BY <1>5, <1>6, <1>7, <1>8

\* A heap that clients may use: one that has not been used, or one in order.
Sound(h, U) == \/ Fresh(h) /\ U = {}
               \/ \E B : Good(h, B) /\ Used(h, B) = U

\* sf_malloc: a block that was not in use, large enough, or none, and what the
\* clients have stays where it is.
LEMMA MallocWorks ==
  ASSUME NEW h, NEW U, Sound(h, U), NEW n \in Nat
  PROVE  Answers(h, SfMalloc(h, n), U, n)
<1>1. CASE \E B : Good(h, B) /\ Used(h, B) = U
  BY <1>1, MallocFrom
<1>2. CASE Fresh(h) /\ U = {}
  <2>1. PICK g : g = Initialise(h)
    OBVIOUS
  <2>2. PICK B : Good(g, B) /\ Used(g, B) = {} /\ g.aborted = h.aborted
    BY <1>2, <2>1, InitialiseWorks
  <2>3. Initialise(g) = g
    <3>1. g.pages > 0
      BY <2>2, GoodFacts, MaxPagesAssumption
    <3> QED  BY <3>1 DEF Initialise
  <2>4. SfMalloc(h, n) = SfMalloc(g, n)
    BY <2>1, <2>3 DEF SfMalloc
  <2>5. PICK a : a = SfMalloc(g, n)
    OBVIOUS
  <2>6. Answers(g, a, {}, n)
    BY <2>2, <2>5, MallocFrom
  <2>7. \A k, V : Becomes(g, k, V, {}) => Becomes(h, k, V, {})
    BY DEF Becomes
  <2>8. Answers(h, a, {}, n)
    BY <2>2, <2>6, <2>7 DEF Answers, Takes
  <2> QED  BY <1>2, <2>4, <2>5, <2>8
<1> QED  BY <1>1, <1>2 DEF Sound

-----------------------------------------------------------------------------
(* sf_realloc and sf_memalign                                                *)

\* A block in use and the region it fills.
UsedAt(h, B, b, e) ==
  /\ b \in B /\ b # Epilogue(h) /\ e \in B /\ b \in Nat /\ e \in Nat /\ b >= 2 /\ b + 2 <= e
  /\ e <= Epilogue(h) /\ e < Rows /\ Epilogue(h) < Rows /\ Epilogue(h) \in Nat
  /\ e = b + Size(h, b) /\ Size(h, b) = h.mem[2 * b].size
  /\ h.mem[2 * b].alloc = TRUE /\ h.mem[2 * b].pal \in BOOLEAN
  /\ h.mem[2 * e].pal = TRUE
  /\ \A c \in B : c < b \/ c = b \/ c >= e
  /\ Rows \in Nat /\ Words = 0 .. 2 * Rows - 2

\* Where a block in use lies.
LEMMA UsedPlace ==
  ASSUME NEW h, NEW B, Good(h, B), NEW b \in Used(h, B), NEW e, e = After(h.mem, b)
  PROVE  UsedAt(h, B, b, e)
<1>1. b \in B /\ b # Epilogue(h) /\ h.mem[2 * b].alloc
  BY DEF Used, Allocs
<1>2. /\ BlockAt(h.mem, B, b) /\ b \in 2 .. Epilogue(h) - 2
      /\ h.mem[2 * b].size \in Nat /\ e \in B /\ e \in b + 2 .. Epilogue(h)
      /\ e = b + h.mem[2 * b].size
      /\ h.mem[2 * b].alloc \in BOOLEAN /\ h.mem[2 * b].pal \in BOOLEAN
  BY <1>1, NextOf
<1>3. Epilogue(h) \in 4 .. Rows - 1 /\ B \subseteq 2 .. Epilogue(h)
  BY GoodFacts
<1>4. Rows \in Nat /\ Words = 0 .. 2 * Rows - 2
  BY Bounds
<1>5. h.mem[2 * b].alloc = TRUE
  BY <1>1, <1>2
<1>6. h.mem[2 * e].pal = TRUE
  BY <1>2, <1>5 DEF BlockAt
<1>7. \A c \in B : c < b \/ c = b \/ c >= e
  <2>1. \A c \in B : c <= b \/ e <= c
    BY <1>2 DEF BlockAt
  <2>2. e \in Nat /\ b \in Nat /\ \A c \in B : c \in Nat
    BY <1>2, <1>3
  <2> QED  BY <2>1, <2>2
<1>8. Size(h, b) = h.mem[2 * b].size
  BY DEF Size, Header
<1>9. /\ b \in Nat /\ e \in Nat /\ b >= 2 /\ b + 2 <= e
      /\ e <= Epilogue(h) /\ e < Rows /\ Epilogue(h) < Rows /\ Epilogue(h) \in Nat
  BY SMTT(30), <1>2, <1>3, <1>4
<1> QED  BY <1>1, <1>2, <1>4, <1>5, <1>6, <1>7, <1>8, <1>9 DEF UsedAt

\* What cutting a block in use into blocks N in use makes of the heap.
Recutting(h, g, b, e, N) ==
  /\ OnlyMemory(h, g) /\ SameBut(h.mem, g.mem, 2 * b, 2 * e - 1)
  /\ g.mem[2 * b].pal = h.mem[2 * b].pal
  /\ Pieces(g.mem, N, b, e) /\ \A c \in N : g.mem[2 * c].alloc

\* The heap is in order, with the pieces in use.
LEMMA Recut ==
  ASSUME NEW h, NEW B, Good(h, B), NEW b \in Used(h, B), NEW e, e = After(h.mem, b),
         NEW g, NEW N, Recutting(h, g, b, e, N)
  PROVE  Becomes(h, g, (Used(h, B) \ {b}) \cup N, Used(h, B) \ {b}) /\ g.aborted = h.aborted
<1>1. /\ b \in B /\ b # Epilogue(h) /\ e \in B /\ b \in Nat /\ e \in Nat /\ b >= 2 /\ b + 2 <= e
      /\ e <= Epilogue(h) /\ e < Rows /\ Epilogue(h) < Rows /\ Epilogue(h) \in Nat
      /\ \A c \in B : c < b \/ c = b \/ c >= e
      /\ Rows \in Nat /\ Words = 0 .. 2 * Rows - 2
  <2>1. UsedAt(h, B, b, e)
    BY UsedPlace
  <2> QED  BY <2>1 DEF UsedAt
<1>2. g \in Heaps /\ g.pages = h.pages /\ g.lists = h.lists /\ g.aborted = h.aborted
      /\ SameBut(h.mem, g.mem, 2 * b, 2 * e - 1) /\ g.mem[2 * b].pal = h.mem[2 * b].pal
      /\ Pieces(g.mem, N, b, e) /\ \A c \in N : g.mem[2 * c].alloc
  BY DEF Recutting, OnlyMemory
<1>3. Epilogue(g) = Epilogue(h) /\ g.pages # 0
  BY <1>2 DEF Good, Epilogue
<1>4. \A w \in 0 .. 2 * b - 1 : g.mem[w] = h.mem[w]
  <2>1. \A w \in 0 .. 2 * b - 1 : w \in Words /\ w < 2 * b
    BY <1>1
  <2> QED  BY <1>2, <2>1 DEF SameBut
<1>5. \A w \in 2 * e .. 2 * Epilogue(h) : g.mem[w] = h.mem[w]
  <2>1. \A w \in 2 * e .. 2 * Epilogue(h) : w \in Words /\ w > 2 * e - 1
    BY <1>1
  <2> QED  BY <1>2, <2>1 DEF SameBut
<1>6. /\ \A w \in 2 * e + 1 .. 2 * Epilogue(h) : g.mem[w] = h.mem[w]
      /\ g.mem[2 * e] = h.mem[2 * e]
  <2>1. \A w \in 2 * e + 1 .. 2 * Epilogue(h) : w \in 2 * e .. 2 * Epilogue(h)
    BY <1>1
  <2>2. 2 * e \in 2 * e .. 2 * Epilogue(h)
    BY <1>1
  <2> QED  BY <1>5, <2>1, <2>2
<1>7. b < e /\ g.mem[2 * b].alloc
  BY <1>1, <1>2 DEF Pieces
<1>8. Retiled(h.mem, g.mem, Epilogue(h), Epilogue(g), B, N, b, e)
  BY <1>1, <1>2, <1>3, <1>4, <1>6, <1>7 DEF Retiled, Pieces
<1>9. ASSUME NEW k \in 0 .. Wild
      PROVE  {c \in Elems(h.lists[k]) : c < b \/ c >= e} = Elems(h.lists[k])
  <2>1. \A c \in Elems(h.lists[k]) : c \in B /\ ~h.mem[2 * c].alloc
    BY GoodFacts
  <2>2. h.mem[2 * b].alloc
    BY DEF Used, Allocs
  <2>3. \A c \in Elems(h.lists[k]) : c < b \/ c >= e
    BY <1>1, <2>1, <2>2
  <2> QED  BY <2>3
<1>10. Relisted(g.mem, Epilogue(g), h.lists, g.lists, N, b, e)
  <2>1. SUFFICES ASSUME NEW k \in 0 .. Wild
        PROVE  /\ g.lists[k] \in Seq(Nat) /\ Once(g.lists[k])
               /\ Elems(g.lists[k]) = {c \in Elems(h.lists[k]) : c < b \/ c >= e}
                    \cup {c \in N : ~g.mem[2 * c].alloc /\ Home(g.mem, Epilogue(g), c) = k}
    BY DEF Relisted
  <2>2. g.lists[k] \in Seq(Nat) /\ Once(g.lists[k])
    BY <1>2, GoodFacts DEF Heaps, OnceEach
  <2>3. {c \in N : ~g.mem[2 * c].alloc /\ Home(g.mem, Epilogue(g), c) = k} = {}
    BY <1>2
  <2> QED  BY <1>2, <1>9, <2>2, <2>3
<1>11. \A c : c \in Used(h, B) \ {b} <=> c \in Used(h, B) /\ (c < b \/ c >= e)
  <2>1. \A c \in Used(h, B) : c \in B
    BY DEF Used, Allocs
  <2>2. ~(b < b) /\ ~(b >= e)
    BY <1>1
  <2> QED  BY <1>1, <2>1, <2>2
<1>12. \A c : c \in (Used(h, B) \ {b}) \cup N <=> c \in Used(h, B) \ {b} \/ (c \in N /\ g.mem[2 * c].alloc)
  BY <1>2
<1>13. b = Epilogue(h) => h.mem[2 * Epilogue(h)].pal
  BY <1>1
<1> QED  BY <1>2, <1>3, <1>8, <1>10, <1>11, <1>12, <1>13, Reorder

\* Payload words may be changed at will.
LEMMA Overwritten ==
  ASSUME NEW h, NEW B, Good(h, B), NEW b \in Used(h, B), NEW e, e = After(h.mem, b),
         NEW g, OnlyMemory(h, g), SameBut(h.mem, g.mem, 2 * b + 1, 2 * e - 1)
  PROVE  Becomes(h, g, Used(h, B), Used(h, B) \ {b}) /\ g.aborted = h.aborted
<1>1. UsedAt(h, B, b, e)
  BY UsedPlace
<1>2. /\ b \in Nat /\ e \in Nat /\ b >= 2 /\ b + 2 <= e /\ e < Rows /\ e = b + h.mem[2 * b].size
      /\ h.mem[2 * b].alloc = TRUE /\ h.mem[2 * e].pal = TRUE
      /\ Rows \in Nat /\ Words = 0 .. 2 * Rows - 2 /\ h.mem[2 * b].size = e - b
  <2>1. /\ b \in Nat /\ e \in Nat /\ b >= 2 /\ b + 2 <= e /\ e < Rows /\ e = b + h.mem[2 * b].size
        /\ h.mem[2 * b].alloc = TRUE /\ h.mem[2 * e].pal = TRUE
        /\ Rows \in Nat /\ Words = 0 .. 2 * Rows - 2
    BY <1>1 DEF UsedAt
  <2>2. h.mem[2 * b].size \in Nat
    BY NextOf DEF Used, Allocs
  <2> QED  BY SMTT(30), <2>1, <2>2
<1>3. SameBut(h.mem, g.mem, 2 * b, 2 * e - 1)
  <2>1. \A w \in Words : w < 2 * b \/ w > 2 * e - 1 => w < 2 * b + 1 \/ w > 2 * e - 1
    BY <1>2
  <2> QED  BY <2>1 DEF SameBut
<1>4. g.mem[2 * b] = h.mem[2 * b] /\ g.mem[2 * e] = h.mem[2 * e]
  <2>1. 2 * b \in Words /\ 2 * b < 2 * b + 1 /\ 2 * e \in Words /\ 2 * e > 2 * e - 1
    BY SMTT(30), <1>2
  <2> QED  BY <2>1 DEF SameBut
<1>5. Pieces(g.mem, {b}, b, e)
  <2>1. g.mem[2 * b].size = e - b /\ g.mem[2 * e].pal = g.mem[2 * b].alloc
        /\ g.mem[2 * b].alloc
    BY <1>2, <1>4
  <2> QED  BY <1>2, <2>1, OneBlock
<1>6. Recutting(h, g, b, e, {b})
  BY <1>2, <1>3, <1>4, <1>5 DEF Recutting
<1>7. PICK V : V = (Used(h, B) \ {b}) \cup {b}
  OBVIOUS
<1>8. Becomes(h, g, V, Used(h, B) \ {b}) /\ g.aborted = h.aborted
  BY <1>6, <1>7, Recut
<1>9. V = Used(h, B)
  BY <1>7
<1> QED  BY <1>8, <1>9

\* A header laid over a block: only the word of the header is changed.
HeaderIs(h, g, b, size, al, pal) ==
  /\ OnlyMemory(h, g) /\ SameBut(h.mem, g.mem, 2 * b, 2 * b)
  /\ g.mem[2 * b].size = size /\ g.mem[2 * b].alloc = al /\ g.mem[2 * b].pal = pal

\* SetHeader lays one.
LEMMA HeaderLaid ==
  ASSUME NEW h \in Heaps, NEW b \in Nat, NEW size \in Nat, b + size < Rows,
         NEW al \in BOOLEAN, NEW pal \in BOOLEAN, NEW g, g = SetHeader(h, b, size, al, pal)
  PROVE  HeaderIs(h, g, b, size, al, pal)
<1>1. Rows \in Nat /\ b < Rows /\ size \in 0 .. Rows
  BY Bounds
<1>2. /\ OnlyMemory(h, g) /\ SameBut(h.mem, g.mem, 2 * b, 2 * b)
      /\ g.mem[2 * b] = Tag(size, al, pal)
  BY <1>1, SetHeaderDoes
<1>3. Tag(size, al, pal).size = size /\ Tag(size, al, pal).alloc = al /\ Tag(size, al, pal).pal = pal
  BY <1>1, TagIsWord
<1> QED  BY <1>2, <1>3 DEF HeaderIs

\* The headers that cut a block in use, from b to e, at t.
CutInTwo(h, g, b, t, e) ==
  /\ Recutting(h, g, b, e, {b, t})
  /\ g.mem[2 * b].size = t - b /\ g.mem[2 * t].size = e - t
  /\ \A w \in 2 * b + 1 .. 2 * t - 1 : g.mem[w] = h.mem[w]

\* Two headers in a block in use make two blocks in use of it.
LEMMA CutInTwoWorks ==
  ASSUME NEW h, NEW B, Good(h, B), NEW b \in Used(h, B), NEW e, e = After(h.mem, b),
         NEW t \in Nat, b + 2 <= t, t + 2 <= e, NEW x, x = t - b, NEW y, y = e - t,
         NEW f, f = SetHeader(h, b, x, TRUE, Header(h, b).pal),
         NEW g, g = SetHeader(f, t, y, TRUE, TRUE)
  PROVE  CutInTwo(h, g, b, t, e)
<1>1. /\ b \in Nat /\ e \in Nat /\ e < Rows /\ h.mem[2 * b].pal \in BOOLEAN
      /\ h.mem[2 * e].pal = TRUE /\ Rows \in Nat /\ Words = 0 .. 2 * Rows - 2
  <2>1. UsedAt(h, B, b, e)
    BY UsedPlace
  <2> QED  BY <2>1 DEF UsedAt
<1>2. h \in Heaps
  BY GoodFacts
<1>3. PICK p : p = h.mem[2 * b].pal
  OBVIOUS
<1>4. x \in Nat /\ y \in Nat /\ b + x < Rows /\ t + y < Rows /\ p \in BOOLEAN
      /\ b < t /\ t < e
  BY <1>1, <1>3
<1>8. PICK q : q = TRUE
  OBVIOUS
<1>9. g = SetHeader(f, t, y, q, q) /\ q \in BOOLEAN
  BY <1>8
<1>5. f = SetHeader(h, b, x, q, p)
  BY <1>3, <1>8 DEF Header
<1>6. /\ OnlyMemory(h, f) /\ SameBut(h.mem, f.mem, 2 * b, 2 * b)
      /\ f.mem[2 * b].size = x /\ f.mem[2 * b].alloc = TRUE /\ f.mem[2 * b].pal = p
  <2>1. x \in Nat /\ b \in Nat /\ b + x < Rows /\ q \in BOOLEAN /\ p \in BOOLEAN
    BY <1>1, <1>4, <1>9
  <2>2. HeaderIs(h, f, b, x, q, p)
    BY <1>2, <1>5, <2>1, HeaderLaid
  <2>3. f.mem[2 * b].size = x /\ f.mem[2 * b].alloc = q /\ f.mem[2 * b].pal = p
    BY <2>2 DEF HeaderIs
  <2>4. OnlyMemory(h, f) /\ SameBut(h.mem, f.mem, 2 * b, 2 * b)
    BY <2>2 DEF HeaderIs
  <2> QED  BY <1>8, <2>3, <2>4
<1>7. f \in Heaps
  BY <1>6 DEF OnlyMemory
<1>10. /\ OnlyMemory(f, g) /\ SameBut(f.mem, g.mem, 2 * t, 2 * t)
       /\ g.mem[2 * t].size = y /\ g.mem[2 * t].alloc = TRUE /\ g.mem[2 * t].pal = q
  <2>1. y \in Nat /\ t + y < Rows
    BY <1>4
  <2>2. HeaderIs(f, g, t, y, q, q)
    BY <1>7, <1>9, <2>1, HeaderLaid
  <2>3. g.mem[2 * t].size = y /\ g.mem[2 * t].alloc = q /\ g.mem[2 * t].pal = q
    BY <2>2 DEF HeaderIs
  <2>4. OnlyMemory(f, g) /\ SameBut(f.mem, g.mem, 2 * t, 2 * t)
    BY <2>2 DEF HeaderIs
  <2> QED  BY <1>8, <2>3, <2>4
<1>11. OnlyMemory(h, g)
  BY <1>6, <1>10 DEF OnlyMemory
<1>12. ASSUME NEW w \in Words, w # 2 * b, w # 2 * t  PROVE g.mem[w] = h.mem[w]
  <2>1. w < 2 * b \/ w > 2 * b
    BY <1>1, <1>12
  <2>2. w < 2 * t \/ w > 2 * t
    BY <1>1, <1>12
  <2>3. f.mem[w] = h.mem[w]
    BY <1>6, <2>1 DEF SameBut
  <2>4. g.mem[w] = f.mem[w]
    BY <1>10, <2>2 DEF SameBut
  <2> QED  BY <2>3, <2>4
<1>13. g.mem[2 * b] = f.mem[2 * b]
  <2>1. 2 * b \in Words /\ 2 * b < 2 * t
    BY <1>1, <1>4
  <2> QED  BY <1>10, <2>1 DEF SameBut
<1>14. g.mem[2 * e] = h.mem[2 * e]
  <2>1. 2 * e \in Words /\ 2 * e # 2 * b /\ 2 * e # 2 * t
    BY <1>1, <1>4
  <2> QED  BY <1>12, <2>1
<1>15. SameBut(h.mem, g.mem, 2 * b, 2 * e - 1)
  <2>1. \A w \in Words : w < 2 * b \/ w > 2 * e - 1 => w # 2 * b /\ w # 2 * t
    BY <1>1, <1>4
  <2> QED  BY <1>12, <2>1 DEF SameBut
<1>16. /\ g.mem[2 * b].size = t - b /\ g.mem[2 * b].alloc /\ g.mem[2 * t].pal = g.mem[2 * b].alloc
       /\ g.mem[2 * t].size = e - t /\ g.mem[2 * e].pal = g.mem[2 * t].alloc
       /\ g.mem[2 * t].alloc /\ g.mem[2 * b].pal = h.mem[2 * b].pal
  BY <1>1, <1>3, <1>6, <1>8, <1>10, <1>13, <1>14
<1>17. Pieces(g.mem, {b, t}, b, e)
  BY <1>1, <1>16, TwoBlocks
<1>18. Recutting(h, g, b, e, {b, t})
  BY <1>11, <1>15, <1>16, <1>17 DEF Recutting
<1>19. \A w \in 2 * b + 1 .. 2 * t - 1 : g.mem[w] = h.mem[w]
  <2>1. \A w \in 2 * b + 1 .. 2 * t - 1 : w \in Words /\ w # 2 * b /\ w # 2 * t
    BY <1>1, <1>4
  <2> QED  BY <1>12, <2>1
<1> QED  BY <1>16, <1>18, <1>19 DEF CutInTwo

\* A client of fewer blocks may rely on as much.
LEMMA BecomesLess ==
  ASSUME NEW h, NEW g, NEW U, NEW S, Becomes(h, g, U, S), NEW T \in SUBSET S
  PROVE  Becomes(h, g, U, T)
BY DEF Becomes

\* A piece that is freed: what the others hold stays.
FreedPiece(h, g, k, c, U, S) ==
  /\ Becomes(h, k, U \ {c}, S) /\ k.aborted = g.aborted
  /\ \A d \in U \ {c} : Kept(g.mem, k.mem, d)

\* sf_free of a block of the heap that h has become.
LEMMA FreePiece ==
  ASSUME NEW h, NEW g, NEW U, NEW S, Becomes(h, g, U, S), NEW c \in U, S \subseteq U \ {c}
  PROVE  FreedPiece(h, g, SfFree(g, c), c, U, S)
<1>1. PICK k : k = SfFree(g, c)
  OBVIOUS
<1>2. PICK C : Good(g, C) /\ Used(g, C) = U /\ \A b \in S : Kept(h.mem, g.mem, b)
  BY DEF Becomes
<1>3. Becomes(g, k, U \ {c}, U \ {c}) /\ k.aborted = g.aborted
  BY <1>1, <1>2, FreeWorks
<1>4. Becomes(g, k, U \ {c}, S)
  BY <1>3, BecomesLess
<1>5. Becomes(h, k, U \ {c}, S)
  BY <1>4, BecomesThen
<1>6. \A d \in U \ {c} : Kept(g.mem, k.mem, d)
  BY <1>3 DEF Becomes
<1> QED  BY <1>1, <1>3, <1>5, <1>6 DEF FreedPiece

\* Rows inside a block in use are no block.
LEMMA InsideUsed ==
  ASSUME NEW h, NEW B, Good(h, B), NEW b \in Used(h, B), NEW t \in Nat, b < t, t < After(h.mem, b)
  PROVE  t \notin Used(h, B)
<1>1. PICK e : e = After(h.mem, b)
  OBVIOUS
<1>2. UsedAt(h, B, b, e)
  BY <1>1, UsedPlace
<1>3. b \in Nat /\ e \in Nat /\ \A c \in B : c < b \/ c = b \/ c >= e
  BY <1>2 DEF UsedAt
<1>4. t \notin B
  BY <1>1, <1>3
<1> QED  BY <1>4 DEF Used, Allocs

\* The words a client of b finds at p: all of those that the smaller block has.
Copied(h, b, g, p) ==
  \A k \in Nat : k >= 1 /\ k < 2 * Size(h, b) /\ k < 2 * Size(g, p) =>
    g.mem[2 * p + k] = h.mem[2 * b + k]

\* The block b of h has become the block p of g, of r rows.
Yields(h, g, U, b, p, r) ==
  /\ p # NULL /\ p \notin U \ {b} /\ Becomes(h, g, (U \ {b}) \cup {p}, U \ {b})
  /\ g.mem[2 * p].size >= r /\ g.aborted = h.aborted

\* And it has kept what was in it.
Moves(h, g, U, b, p, r) == Yields(h, g, U, b, p, r) /\ Copied(h, b, g, p)

\* A block kept is the same block.
LEMMA StaysWorks ==
  ASSUME NEW h, NEW B, Good(h, B), NEW b \in Used(h, B), NEW r, Size(h, b) >= r
  PROVE  Moves(h, h, Used(h, B), b, b, r)
<1>1. UsedAt(h, B, b, After(h.mem, b))
  BY UsedPlace
<1>2. b # NULL /\ h.mem[2 * b].size >= r
  BY <1>1 DEF UsedAt
<1>3. PICK V : V = (Used(h, B) \ {b}) \cup {b}
  OBVIOUS
<1>4. V = Used(h, B)
  BY <1>3
<1>5. Becomes(h, h, V, Used(h, B) \ {b})
  BY <1>4 DEF Becomes, Kept
<1> QED  BY <1>2, <1>3, <1>5 DEF Moves, Yields, Copied

\* sf_realloc to a size that the block has.
LEMMA ReallocSmallerWorks ==
  ASSUME NEW h, NEW B, Good(h, B), NEW b \in Used(h, B), NEW r \in Nat, r >= 2, Size(h, b) >= r,
         NEW a, a = ReallocSmaller(h, b, r)
  PROVE  a.ptr = b /\ Moves(h, a.heap, Used(h, B), b, b, r)
<1>1. PICK e, left, U : e = After(h.mem, b) /\ left = Size(h, b) - r /\ U = Used(h, B)
  OBVIOUS
<1>2. UsedAt(h, B, b, e)
  BY <1>1, UsedPlace
<1>3. /\ b \in Nat /\ e \in Nat /\ b >= 2 /\ b + 2 <= e /\ e = b + Size(h, b)
      /\ Size(h, b) \in Nat /\ left \in Nat
  <2>1. b \in Nat /\ e \in Nat /\ b >= 2 /\ b + 2 <= e /\ e = b + Size(h, b)
        /\ Size(h, b) = h.mem[2 * b].size
    BY <1>2 DEF UsedAt
  <2>2. h.mem[2 * b].size \in Nat
    BY NextOf DEF Used, Allocs
  <2> QED  BY <1>1, <2>1, <2>2
<1>4. CASE left < 2
  <2>1. a = [heap |-> h, ptr |-> b]
    BY <1>1, <1>4 DEF ReallocSmaller
  <2> QED  BY <2>1, StaysWorks
<1>5. CASE ~(left < 2)
  <2>1. PICK t, f, g, k : /\ t = b + r
                          /\ f = SetHeader(h, b, r, TRUE, Header(h, b).pal)
                          /\ g = SetHeader(f, t, left, TRUE, TRUE)
                          /\ k = SfFree(g, t)
    OBVIOUS
  <2>2. a.ptr = b /\ a.heap = k
    BY <1>1, <1>5, <2>1 DEF ReallocSmaller
  <2>3. t \in Nat /\ b + 2 <= t /\ t + 2 <= e /\ r = t - b /\ left = e - t /\ b < t /\ t < e
    BY <1>1, <1>3, <1>5, <2>1
  <2>4. CutInTwo(h, g, b, t, e)
    BY <1>1, <2>1, <2>3, CutInTwoWorks
  <2>5. /\ Recutting(h, g, b, e, {b, t}) /\ g.mem[2 * b].size = r
        /\ \A w \in 2 * b + 1 .. 2 * t - 1 : g.mem[w] = h.mem[w]
    BY <2>3, <2>4 DEF CutInTwo
  <2>6. PICK V : V = (U \ {b}) \cup {b, t}
    OBVIOUS
  <2>7. Becomes(h, g, V, U \ {b}) /\ g.aborted = h.aborted
    BY <1>1, <2>5, <2>6, Recut
  <2>8. t \notin U /\ t # b /\ b \in U
    BY <1>1, <1>3, <2>3, InsideUsed
  <2>9. U \ {b} \subseteq V \ {t} /\ t \in V /\ V \ {t} = (U \ {b}) \cup {b} /\ b \in V \ {t}
    BY <2>6, <2>8
  <2>10. FreedPiece(h, g, k, t, V, U \ {b})
    BY <2>1, <2>7, <2>9, FreePiece
  <2>11. Becomes(h, k, (U \ {b}) \cup {b}, U \ {b}) /\ k.aborted = h.aborted /\ Kept(g.mem, k.mem, b)
    BY <2>7, <2>9, <2>10 DEF FreedPiece
  <2>12. k.mem[2 * b].size = r /\ \A w \in 2 * b + 1 .. 2 * t - 1 : k.mem[w] = g.mem[w]
    <3>1. After(g.mem, b) = t
      BY <2>1, <2>5 DEF After
    <3> QED  BY <2>5, <2>11, <3>1 DEF Kept
  <2>13. Copied(h, b, k, b)
    <3>1. SUFFICES ASSUME NEW j \in Nat, j >= 1, j < 2 * Size(k, b)
          PROVE  k.mem[2 * b + j] = h.mem[2 * b + j]
      BY DEF Copied
    <3>2. Size(k, b) = r
      BY <2>12 DEF Size, Header
    <3>4. j < 2 * r /\ j >= 1 /\ t = b + r /\ b \in Nat
      BY <1>3, <2>1, <3>1, <3>2
    <3>3. 2 * b + j \in 2 * b + 1 .. 2 * t - 1
      BY <3>4
    <3> QED  BY <2>5, <2>12, <3>3
  <2>14. b # NULL /\ b \notin U \ {b} /\ k.mem[2 * b].size >= r
    BY <1>3, <2>12
  <2> QED  BY <1>1, <2>2, <2>11, <2>13, <2>14 DEF Moves, Yields
<1> QED  BY <1>4, <1>5

\* The copy of a block of s rows: only the payload at p is changed.
CopyOf(h, g, b, p, s) ==
  /\ OnlyMemory(h, g) /\ SameBut(h.mem, g.mem, 2 * p + 1, 2 * (p + s) - 1)
  /\ \A j \in 1 .. 2 * s - 1 : g.mem[2 * p + j] = h.mem[2 * b + j]

\* What memcpy does to the heap.
LEMMA CopyDoes ==
  ASSUME NEW h \in Heaps, NEW b \in Nat, NEW p \in Nat, NEW s \in Nat, s = Size(h, b),
         b + s < Rows, p + s < Rows, NEW g, g = CopyBlock(h, b, p)
  PROVE  CopyOf(h, g, b, p, s)
<1>1. h.mem \in [Words -> Word] /\ Rows \in Nat /\ Words = 0 .. 2 * Rows - 2
  BY Bounds DEF Heaps
<1>2. PICK n : n = [w \in Words |-> IF w \in 2 * p + 1 .. 2 * (p + s) - 1
                                     THEN h.mem[w - 2 * p + 2 * b] ELSE h.mem[w]]
  OBVIOUS
<1>3. g = [h EXCEPT !.mem = n]
  BY <1>1, <1>2 DEF CopyBlock
<1>4. ASSUME NEW w \in 2 * p + 1 .. 2 * (p + s) - 1
      PROVE  w - 2 * p + 2 * b \in Words
  BY <1>1
<1>5. n \in [Words -> Word]
  <2>1. ASSUME NEW w \in Words
        PROVE  (IF w \in 2 * p + 1 .. 2 * (p + s) - 1 THEN h.mem[w - 2 * p + 2 * b] ELSE h.mem[w]) \in Word
    BY <1>1, <1>4
  <2> QED  BY <1>2, <2>1
<1>6. OnlyMemory(h, g) /\ g.mem = n
  BY <1>3, <1>5 DEF Heaps, OnlyMemory
<1>7. ASSUME NEW w \in Words, w < 2 * p + 1 \/ w > 2 * (p + s) - 1  PROVE n[w] = h.mem[w]
  <2>1. w \notin 2 * p + 1 .. 2 * (p + s) - 1
    BY <1>1, <1>7
  <2> QED  BY <1>2, <2>1
<1>8. SameBut(h.mem, n, 2 * p + 1, 2 * (p + s) - 1)
  BY <1>7 DEF SameBut
<1>9. ASSUME NEW j \in 1 .. 2 * s - 1  PROVE n[2 * p + j] = h.mem[2 * b + j]
  <2>1. PICK w : w = 2 * p + j
    OBVIOUS
  <2>2. w \in Words /\ w \in 2 * p + 1 .. 2 * (p + s) - 1 /\ w - 2 * p + 2 * b = 2 * b + j
    BY <1>1, <2>1
  <2> QED  BY <1>2, <2>1, <2>2
<1> QED  BY <1>6, <1>8, <1>9 DEF CopyOf

\* sf_realloc to a size that the block does not have: a block of that size
\* with the contents, or no block and the old one as it was.
LEMMA ReallocLargerWorks ==
  ASSUME NEW h, NEW B, Good(h, B), NEW b \in Used(h, B), NEW n \in Nat, n # 0,
         AdjustedSize(n) > Size(h, b), NEW a, a = ReallocLarger(h, b, n)
  PROVE  \/ /\ a.ptr = NULL /\ Becomes(h, a.heap, Used(h, B), Used(h, B))
            /\ a.heap.aborted = h.aborted
         \/ Moves(h, a.heap, Used(h, B), b, a.ptr, AdjustedSize(n))
<1>1. PICK m, p, f, U, r, s : /\ m = SfMalloc(h, n) /\ p = m.ptr /\ f = m.heap
                              /\ U = Used(h, B) /\ r = AdjustedSize(n) /\ s = Size(h, b)
  OBVIOUS
<1>2. Answers(h, m, U, n)
  BY <1>1, MallocFrom
<1>3. CASE p = NULL
  <2>1. a = m
    BY <1>1, <1>3 DEF ReallocLarger
  <2> QED  BY <1>1, <1>2, <1>3, <2>1 DEF Answers
<1>4. CASE p # NULL
  <2>1. p \notin U /\ Becomes(h, f, U \cup {p}, U) /\ f.mem[2 * p].size >= r /\ f.aborted = h.aborted
    BY <1>1, <1>2, <1>4 DEF Answers, Takes
  <2>2. PICK C : Good(f, C) /\ Used(f, C) = U \cup {p} /\ \A c \in U : Kept(h.mem, f.mem, c)
    BY <2>1 DEF Becomes
  <2>3. b \in U /\ b # p
    BY <1>1, <2>1
  <2>4. PICK d, e : d = After(f.mem, b) /\ e = After(f.mem, p)
    OBVIOUS
  <2>5. UsedAt(f, C, b, d) /\ UsedAt(f, C, p, e)
    BY <2>2, <2>3, <2>4, UsedPlace
  <2>6. /\ b \in Nat /\ p \in Nat /\ d \in Nat /\ e \in Nat /\ d < Rows /\ e < Rows
        /\ Rows \in Nat /\ d = b + f.mem[2 * b].size /\ e = p + f.mem[2 * p].size
        /\ Size(f, b) = f.mem[2 * b].size /\ Words = 0 .. 2 * Rows - 2
    BY <2>5 DEF UsedAt
  <2>7. f.mem[2 * p].size \in Nat /\ f.mem[2 * b].size \in Nat
    <3>1. p \in C /\ p # Epilogue(f) /\ b \in C /\ b # Epilogue(f)
      BY <2>5 DEF UsedAt
    <3> QED  BY <2>2, <3>1, NextOf
  <2>8. Kept(h.mem, f.mem, b)
    BY <2>2, <2>3
  <2>9. Size(f, b) = s /\ s \in Nat
    BY <1>1, <2>6, <2>7, <2>8 DEF Kept, Size, Header
  <2>10. r \in Nat /\ s < r
    BY <1>1, <2>9, AdjustedRange
  <2>11. b + s = d /\ p + s < e /\ p + s < Rows /\ b + s < Rows
    <3>1. PICK z : z = f.mem[2 * p].size
      OBVIOUS
    <3>2. z \in Nat /\ z >= r /\ e = p + z /\ d = b + s
      BY <2>1, <2>6, <2>7, <2>9, <3>1
    <3>3. b \in Nat /\ p \in Nat /\ d < Rows /\ e < Rows /\ Rows \in Nat /\ s \in Nat /\ r \in Nat /\ s < r
      BY <2>6, <2>9, <2>10
    <3> QED  BY <3>2, <3>3
  <2>12. PICK g, k : g = CopyBlock(f, b, p) /\ k = SfFree(g, b)
    OBVIOUS
  <2>13. a.ptr = p /\ a.heap = k
    BY <1>1, <1>4, <2>12 DEF ReallocLarger
  <2>14. CopyOf(f, g, b, p, s)
    <3>1. f \in Heaps
      BY <2>2, GoodFacts
    <3> QED  BY <2>6, <2>9, <2>11, <2>12, <3>1, CopyDoes
  <2>15. OnlyMemory(f, g) /\ SameBut(f.mem, g.mem, 2 * p + 1, 2 * e - 1)
    <3>1. OnlyMemory(f, g) /\ SameBut(f.mem, g.mem, 2 * p + 1, 2 * (p + s) - 1)
      BY <2>14 DEF CopyOf
    <3>2. \A w \in Words : w > 2 * e - 1 => w > 2 * (p + s) - 1
      BY SMTT(30), <2>6, <2>9, <2>11
    <3> QED  BY <3>1, <3>2 DEF SameBut
  <2>16. PICK V : V = U \cup {p}
    OBVIOUS
  <2>17. Becomes(f, g, V, V \ {p}) /\ g.aborted = f.aborted
    BY <2>2, <2>4, <2>15, <2>16, Overwritten
  <2>18. V \ {p} = U /\ b \in V /\ U \ {b} \subseteq V \ {b} /\ p \in V \ {b}
         /\ V \ {b} = (U \ {b}) \cup {p} /\ U \ {b} \subseteq U
    BY <2>1, <2>3, <2>16
  <2>19. Becomes(h, g, V, U)
    <3>1. Becomes(h, f, V, U)
      BY <2>1, <2>16
    <3>2. Becomes(f, g, V, U)
      BY <2>17, <2>18
    <3> QED  BY <3>1, <3>2, BecomesThen
  <2>20. Becomes(h, g, V, U \ {b})
    BY <2>19, BecomesLess
  <2>21. FreedPiece(h, g, k, b, V, U \ {b})
    BY <2>12, <2>18, <2>20, FreePiece
  <2>22. Becomes(h, k, (U \ {b}) \cup {p}, U \ {b}) /\ k.aborted = h.aborted /\ Kept(g.mem, k.mem, p)
    BY <2>1, <2>17, <2>18, <2>21 DEF FreedPiece
  <2>23. g.mem[2 * p] = f.mem[2 * p]
    <3>1. 2 * p \in Words /\ 2 * p < 2 * p + 1
      BY <2>6, <2>7
    <3> QED  BY <2>15, <3>1 DEF SameBut
  <2>24. After(g.mem, p) = e
    BY <2>4, <2>23 DEF After
  <2>25. k.mem[2 * p].size >= r /\ \A w \in 2 * p + 1 .. 2 * e - 1 : k.mem[w] = g.mem[w]
    BY <2>1, <2>22, <2>23, <2>24 DEF Kept
  <2>26. Copied(h, b, k, p)
    <3>1. SUFFICES ASSUME NEW j \in Nat, j >= 1, j < 2 * Size(h, b)
          PROVE  k.mem[2 * p + j] = h.mem[2 * b + j]
      BY DEF Copied
    <3>2. j < 2 * s
      BY <1>1, <3>1
    <3>3. j \in 1 .. 2 * s - 1 /\ 2 * p + j \in 2 * p + 1 .. 2 * e - 1
      <4>1. p \in Nat /\ e \in Nat /\ s \in Nat /\ p + s < e
        BY <2>6, <2>9, <2>11
      <4> QED  BY <3>1, <3>2, <4>1
    <3>4. k.mem[2 * p + j] = f.mem[2 * b + j]
      BY <2>14, <2>25, <3>3 DEF CopyOf
    <3>5. After(h.mem, b) = b + s
      BY <1>1 DEF After, Size, Header
    <3>6. 2 * b + j \in 2 * b + 1 .. 2 * (b + s) - 1
      BY <2>6, <2>9, <3>3
    <3>7. f.mem[2 * b + j] = h.mem[2 * b + j]
      BY <2>8, <3>5, <3>6 DEF Kept
    <3> QED  BY <3>4, <3>7
  <2>27. Moves(h, k, U, b, p, r)
    BY <1>4, <2>1, <2>22, <2>25, <2>26 DEF Moves, Yields
  <2> QED  BY <1>1, <2>13, <2>27
<1> QED  BY <1>3, <1>4

\* What sf_realloc answers: no block for a size of 0, no block and all as it
\* was, or a block with the contents.
Reallocated(h, a, U, b, n) ==
  \/ n = 0 /\ a.ptr = NULL /\ Becomes(h, a.heap, U \ {b}, U \ {b}) /\ a.heap.aborted = h.aborted
  \/ n # 0 /\ a.ptr = NULL /\ Becomes(h, a.heap, U, U) /\ a.heap.aborted = h.aborted
  \/ n # 0 /\ a.ptr # NULL /\ Moves(h, a.heap, U, b, a.ptr, AdjustedSize(n))

\* sf_realloc of a block in use.
LEMMA ReallocWorks ==
  ASSUME NEW h, NEW B, Good(h, B), NEW b \in Used(h, B), NEW n \in Nat,
         NEW a, a = SfRealloc(h, b, n)
  PROVE  Reallocated(h, a, Used(h, B), b, n)
<1>1. ValidPointer(h, b)
  BY UsedIsValid
<1>2. CASE n = 0
  <2>1. a = [heap |-> SfFree(h, b), ptr |-> NULL]
    BY <1>1, <1>2 DEF SfRealloc
  <2>2. Becomes(h, SfFree(h, b), Used(h, B) \ {b}, Used(h, B) \ {b})
        /\ SfFree(h, b).aborted = h.aborted
    BY FreeWorks
  <2> QED  BY <1>2, <2>1, <2>2 DEF Reallocated
<1>3. CASE n # 0 /\ AdjustedSize(n) > Size(h, b)
  <2>1. a = ReallocLarger(h, b, n)
    BY <1>1, <1>3 DEF SfRealloc
  <2>2. \/ /\ a.ptr = NULL /\ Becomes(h, a.heap, Used(h, B), Used(h, B))
           /\ a.heap.aborted = h.aborted
        \/ Moves(h, a.heap, Used(h, B), b, a.ptr, AdjustedSize(n))
    BY <1>3, <2>1, ReallocLargerWorks
  <2> QED  BY <1>3, <2>2 DEF Reallocated, Moves, Yields
<1>4. CASE n # 0 /\ ~(AdjustedSize(n) > Size(h, b))
  <2>1. a = ReallocSmaller(h, b, AdjustedSize(n))
    BY <1>1, <1>4 DEF SfRealloc
  <2>2. AdjustedSize(n) \in Nat /\ AdjustedSize(n) >= 2
    BY AdjustedRange
  <2>3. Size(h, b) \in Nat
    BY NextOf DEF Used, Allocs, Size, Header
  <2>4. Size(h, b) >= AdjustedSize(n)
    BY <1>4, <2>2, <2>3
  <2>5. a.ptr = b /\ Moves(h, a.heap, Used(h, B), b, b, AdjustedSize(n))
    BY <2>1, <2>2, <2>4, ReallocSmallerWorks
  <2> QED  BY <1>4, <2>5 DEF Reallocated, Moves, Yields
<1> QED  BY <1>2, <1>3, <1>4

\* The headers that cut a block in use, from b to e, at t and at u.
CutInThree(h, g, b, t, u, e) ==
  Recutting(h, g, b, e, {b, t, u}) /\ g.mem[2 * t].size = u - t

\* Three headers in a block in use make three blocks in use of it.
LEMMA CutInThreeWorks ==
  ASSUME NEW h, NEW B, Good(h, B), NEW b \in Used(h, B), NEW e, e = After(h.mem, b),
         NEW t \in Nat, b + 2 <= t, NEW u \in Nat, t + 2 <= u, u + 2 <= e,
         NEW x, x = t - b, NEW y, y = u - t, NEW z, z = e - u,
         NEW f, f = SetHeader(h, b, x, TRUE, Header(h, b).pal),
         NEW k, k = SetHeader(f, u, z, TRUE, TRUE),
         NEW g, g = SetHeader(k, t, y, TRUE, TRUE)
  PROVE  CutInThree(h, g, b, t, u, e)
<1>1. /\ b \in Nat /\ e \in Nat /\ e < Rows /\ h.mem[2 * b].pal \in BOOLEAN
      /\ h.mem[2 * e].pal = TRUE /\ Rows \in Nat /\ Words = 0 .. 2 * Rows - 2
  <2>1. UsedAt(h, B, b, e)
    BY UsedPlace
  <2> QED  BY <2>1 DEF UsedAt
<1>2. h \in Heaps
  BY GoodFacts
<1>3. PICK p, q : p = h.mem[2 * b].pal /\ q = TRUE
  OBVIOUS
<1>4. /\ x \in Nat /\ y \in Nat /\ z \in Nat /\ b + x < Rows /\ t + y < Rows /\ u + z < Rows
      /\ b < t /\ t < u /\ u < e
  <2>1. b \in Nat /\ e \in Nat /\ e < Rows /\ Rows \in Nat /\ t \in Nat /\ u \in Nat
    BY <1>1
  <2>2. b < t /\ t < u /\ u < e
    BY <2>1
  <2>3. x \in Nat /\ b + x < Rows
    BY <2>1, <2>2
  <2>4. y \in Nat /\ t + y < Rows
    BY <2>1, <2>2
  <2>5. z \in Nat /\ u + z < Rows
    BY <2>1, <2>2
  <2> QED  BY <2>2, <2>3, <2>4, <2>5
<1>5. /\ f = SetHeader(h, b, x, q, p) /\ k = SetHeader(f, u, z, q, q)
      /\ g = SetHeader(k, t, y, q, q) /\ p \in BOOLEAN /\ q \in BOOLEAN
  BY <1>1, <1>3 DEF Header
<1>6. HeaderIs(h, f, b, x, q, p)
  <2>1. x \in Nat /\ b \in Nat /\ b + x < Rows
    BY <1>1, <1>4
  <2> QED  BY <1>2, <1>5, <2>1, HeaderLaid
<1>7. HeaderIs(f, k, u, z, q, q)
  <2>1. z \in Nat /\ u + z < Rows
    BY <1>4
  <2>2. f \in Heaps
    BY <1>6 DEF HeaderIs, OnlyMemory
  <2> QED  BY <1>5, <2>1, <2>2, HeaderLaid
<1>8. HeaderIs(k, g, t, y, q, q)
  <2>1. y \in Nat /\ t + y < Rows
    BY <1>4
  <2>2. k \in Heaps
    BY <1>7 DEF HeaderIs, OnlyMemory
  <2> QED  BY <1>5, <2>1, <2>2, HeaderLaid
<1>9. OnlyMemory(h, g)
  BY <1>6, <1>7, <1>8 DEF HeaderIs, OnlyMemory
<1>10. ASSUME NEW w \in Words, w # 2 * b  PROVE f.mem[w] = h.mem[w]
  <2>1. w < 2 * b \/ w > 2 * b
    BY <1>1, <1>10
  <2> QED  BY <1>6, <2>1 DEF HeaderIs, SameBut
<1>11. ASSUME NEW w \in Words, w # 2 * u  PROVE k.mem[w] = f.mem[w]
  <2>1. w < 2 * u \/ w > 2 * u
    BY SMTT(30), <1>1, <1>11
  <2> QED  BY <1>7, <2>1 DEF HeaderIs, SameBut
<1>12. ASSUME NEW w \in Words, w # 2 * t  PROVE g.mem[w] = k.mem[w]
  <2>1. w < 2 * t \/ w > 2 * t
    <3>1. w \in Nat /\ t \in Nat /\ w # 2 * t
      BY <1>1, <1>12
    <3> QED  BY <3>1
  <2> QED  BY <1>8, <2>1 DEF HeaderIs, SameBut
<1>13. /\ 2 * b \in Words /\ 2 * u \in Words /\ 2 * e \in Words
       /\ 2 * b # 2 * t /\ 2 * b # 2 * u /\ 2 * u # 2 * t
       /\ 2 * e # 2 * b /\ 2 * e # 2 * t /\ 2 * e # 2 * u
  BY <1>1, <1>4
<1>14. g.mem[2 * b] = f.mem[2 * b] /\ g.mem[2 * u] = k.mem[2 * u] /\ g.mem[2 * e] = h.mem[2 * e]
  BY <1>10, <1>11, <1>12, <1>13
<1>15. SameBut(h.mem, g.mem, 2 * b, 2 * e - 1)
  <2>1. \A w \in Words : w < 2 * b \/ w > 2 * e - 1 => w # 2 * b /\ w # 2 * t /\ w # 2 * u
    BY <1>1, <1>4
  <2> QED  BY <1>10, <1>11, <1>12, <2>1 DEF SameBut
<1>16. /\ g.mem[2 * b].size = t - b /\ g.mem[2 * b].alloc = q /\ g.mem[2 * b].pal = p
       /\ g.mem[2 * u].size = e - u /\ g.mem[2 * u].alloc = q /\ g.mem[2 * u].pal = q
       /\ g.mem[2 * t].size = u - t /\ g.mem[2 * t].alloc = q /\ g.mem[2 * t].pal = q
  BY <1>6, <1>7, <1>8, <1>14 DEF HeaderIs
<1>17. /\ g.mem[2 * b].alloc /\ g.mem[2 * t].pal = g.mem[2 * b].alloc
       /\ g.mem[2 * t].alloc /\ g.mem[2 * u].pal = g.mem[2 * t].alloc
       /\ g.mem[2 * u].alloc /\ g.mem[2 * e].pal = g.mem[2 * u].alloc
       /\ g.mem[2 * b].pal = h.mem[2 * b].pal
  BY <1>1, <1>3, <1>14, <1>16
<1>18. Pieces(g.mem, {b, t, u}, b, e)
  BY <1>1, <1>16, <1>17, ThreeBlocks
<1>19. Recutting(h, g, b, e, {b, t, u})
  BY <1>9, <1>15, <1>17, <1>18 DEF Recutting
<1> QED  BY <1>16, <1>19 DEF CutInThree

\* The first aligned row is near: memory that is not aligned at b is at some
\* row at most half an alignment further.
LEMMA AlignedRow ==
  ASSUME NEW b \in Nat, NEW al \in Nat, PowerOf2(al), ~Aligned(b, al)
  PROVE  \E k \in Nat \ {0} : al = 2 * k /\
           \A e \in Nat : b + 1 + k <= e =>
             Least({c \in b + 2 .. e : Aligned(c, al)}) \in b + 2 .. b + 1 + k
<1>1. HeapStart \in Nat /\ HeapStart % 2 = 0
  BY StartAssumption
<1>2. al # 1
  <2>1. \A x \in Nat : x % 1 = 0
    OBVIOUS
  <2>2. HeapStart + 2 * b + 2 \in Nat
    BY <1>1
  <2> QED  BY <2>1, <2>2 DEF Aligned, Payload
<1>3. al > 1
  BY <1>2 DEF PowerOf2
<1>4. al % al = 0
  BY <1>3
<1>5. al % 2 = 0
  <2>1. al \in 2 .. al
    BY <1>3
  <2> QED  BY <1>4, <2>1 DEF PowerOf2
<1>6. PICK k \in Nat \ {0} : al = 2 * k
  <2>1. al = 2 * (al \div 2) /\ al \div 2 \in Nat /\ al \div 2 # 0
    BY <1>3, <1>5
  <2> QED  BY <2>1
<1>7. PICK q \in Nat : HeapStart = 2 * q
  <2>1. HeapStart = 2 * (HeapStart \div 2) /\ HeapStart \div 2 \in Nat
    BY <1>1
  <2> QED  BY <2>1
<1>8. PICK d \in q + b + 3 .. q + b + 3 + k - 1 : d % k = 0
  <2>1. q + b + 3 \in Nat
    OBVIOUS
  <2> QED  BY <2>1, MultipleOf
<1>9. PICK c : c = d - q - 1
  OBVIOUS
<1>10. d \in Nat /\ c \in b + 2 .. b + 1 + k /\ d = q + c + 1 /\ c \in Nat
  BY <1>8, <1>9
<1>11. (2 * d) % (2 * k) = 0
  <2>1. PICK v : v = d \div k
    OBVIOUS
  <2>2. v \in Nat /\ d = k * v
    BY <1>8, <1>10, <2>1
  <2>3. PICK u : u = k * v
    OBVIOUS
  <2>4. 2 * d = (2 * k) * v
    BY <2>2
  <2>5. \A x \in Nat \ {0} : (x * v) % x = 0
    BY <2>2
  <2>6. 2 * k \in Nat \ {0}
    OBVIOUS
  <2> QED  BY <2>4, <2>5, <2>6
<1>12. Aligned(c, al)
  <2>1. HeapStart + 2 * c + 2 = 2 * d
    BY <1>7, <1>10
  <2> QED  BY <1>6, <1>11, <2>1 DEF Aligned, Payload
<1>13. ASSUME NEW e \in Nat, b + 1 + k <= e
       PROVE  Least({x \in b + 2 .. e : Aligned(x, al)}) \in b + 2 .. b + 1 + k
  <2>1. PICK S : S = {x \in b + 2 .. e : Aligned(x, al)}
    OBVIOUS
  <2>2. c \in S /\ S \subseteq Nat /\ \A x \in S : x \in b + 2 .. e
    BY <1>10, <1>12, <1>13, <2>1
  <2>3. Least(S) \in S /\ Least(S) <= c
    BY <2>2, LeastOf
  <2>4. PICK m : m = Least(S)
    OBVIOUS
  <2>5. m \in b + 2 .. e /\ m <= c
    BY <2>2, <2>3, <2>4
  <2>6. m \in b + 2 .. b + 1 + k
    BY <1>10, <2>5
  <2> QED  BY <2>1, <2>4, <2>6
<1> QED  BY <1>6, <1>13

\* The rows asked for with the slack of an alignment of 2k words.
LEMMA AlignedSlack ==
  ASSUME NEW n \in Nat, n >= 4, NEW k \in Nat \ {0}
  PROVE  /\ ComputeMemorySize(n) \in Nat /\ ComputeMemorySize(n) >= 3
         /\ AdjustedSize(n) = ComputeMemorySize(n)
         /\ AdjustedSize(n + 2 * k + 4) = ComputeMemorySize(n) + 2 + k
<1>1. ComputeMemorySize(n) \in Nat /\ ComputeMemorySize(n) >= 3
  BY DEF ComputeMemorySize
<1>2. AdjustedSize(n) = ComputeMemorySize(n)
  BY DEF AdjustedSize
<1>3. (n + 2 * k + 4 + 2) \div 2 = (n + 2) \div 2 + 2 + k
  <2>1. n + 2 * k + 4 + 2 = (n + 2) + 2 * (k + 2)
    OBVIOUS
  <2>2. \A x, y \in Nat : (x + 2 * y) \div 2 = x \div 2 + y
    OBVIOUS
  <2>3. ((n + 2) + 2 * (k + 2)) \div 2 = (n + 2) \div 2 + (k + 2)
    BY <2>2
  <2>4. (n + 2) \div 2 \in Nat
    OBVIOUS
  <2> QED  BY <2>1, <2>3, <2>4
<1>4. AdjustedSize(n + 2 * k + 4) = ComputeMemorySize(n + 2 * k + 4)
  BY DEF AdjustedSize
<1> QED  BY <1>1, <1>2, <1>3, <1>4 DEF ComputeMemorySize

\* The cut before the aligned row alone.
LEMMA CutFrontWorks ==
  ASSUME NEW h, NEW B, Good(h, B), NEW b \in Used(h, B), NEW e, e = After(h.mem, b),
         NEW t \in Nat, b + 2 <= t, t + 2 <= e, NEW g, CutInTwo(h, g, b, t, e),
         NEW r \in Nat, t + r <= e
  PROVE  Yields(h, SfFree(g, b), Used(h, B), b, t, r)
<1>1. PICK U, V, k : U = Used(h, B) /\ V = (U \ {b}) \cup {b, t} /\ k = SfFree(g, b)
  OBVIOUS
<1>2. b \in Nat /\ e \in Nat /\ b >= 2
  <2>1. UsedAt(h, B, b, e)
    BY UsedPlace
  <2> QED  BY <2>1 DEF UsedAt
<1>3. Recutting(h, g, b, e, {b, t}) /\ g.mem[2 * t].size = e - t
  BY DEF CutInTwo
<1>4. Becomes(h, g, V, U \ {b}) /\ g.aborted = h.aborted
  BY <1>1, <1>3, Recut
<1>5. b < t /\ t < e /\ t # NULL /\ t # b
  BY <1>2
<1>6. t \notin U
  BY <1>1, <1>5, InsideUsed
<1>7. b \in V /\ U \ {b} \subseteq V \ {b} /\ V \ {b} = (U \ {b}) \cup {t} /\ t \in V \ {b}
  BY <1>1, <1>5
<1>8. FreedPiece(h, g, k, b, V, U \ {b})
  BY <1>1, <1>4, <1>7, FreePiece
<1>9. Becomes(h, k, (U \ {b}) \cup {t}, U \ {b}) /\ k.aborted = h.aborted /\ Kept(g.mem, k.mem, t)
  BY <1>4, <1>7, <1>8 DEF FreedPiece
<1>10. k.mem[2 * t].size >= r
  <2>1. k.mem[2 * t].size = e - t
    BY <1>3, <1>9 DEF Kept
  <2>2. e - t >= r
    BY <1>2
  <2> QED  BY <2>1, <2>2
<1> QED  BY <1>1, <1>5, <1>6, <1>9, <1>10 DEF Yields

\* The cuts before the aligned row and after the payload.
LEMMA CutBothWorks ==
  ASSUME NEW h, NEW B, Good(h, B), NEW b \in Used(h, B), NEW e, e = After(h.mem, b),
         NEW t \in Nat, b + 2 <= t, NEW u \in Nat, t + 2 <= u, u + 2 <= e,
         NEW g, CutInThree(h, g, b, t, u, e), NEW r \in Nat, u = t + r
  PROVE  Yields(h, SfFree(SfFree(g, b), u), Used(h, B), b, t, r)
<1>1. PICK U, V, W, f, k : /\ U = Used(h, B) /\ V = (U \ {b}) \cup {b, t, u} /\ W = V \ {b}
                           /\ f = SfFree(g, b) /\ k = SfFree(f, u)
  OBVIOUS
<1>2. b \in Nat /\ e \in Nat /\ b >= 2
  <2>1. UsedAt(h, B, b, e)
    BY UsedPlace
  <2> QED  BY <2>1 DEF UsedAt
<1>3. Recutting(h, g, b, e, {b, t, u}) /\ g.mem[2 * t].size = r
  BY DEF CutInThree
<1>4. Becomes(h, g, V, U \ {b}) /\ g.aborted = h.aborted
  BY <1>1, <1>3, Recut
<1>5. b < t /\ t < u /\ u < e /\ t < e /\ b < u /\ t # NULL /\ t # b /\ u # b /\ u # t
  BY <1>2
<1>6. t \notin U /\ u \notin U
  BY <1>1, <1>5, InsideUsed
<1>7. /\ b \in V /\ U \ {b} \subseteq W /\ t \in W /\ u \in W
      /\ U \ {b} \subseteq W \ {u} /\ t \in W \ {u} /\ W \ {u} = (U \ {b}) \cup {t}
  BY <1>1, <1>5, <1>6
<1>8. FreedPiece(h, g, f, b, V, U \ {b})
  BY <1>1, <1>4, <1>7, FreePiece
<1>9. Becomes(h, f, W, U \ {b}) /\ f.aborted = h.aborted /\ Kept(g.mem, f.mem, t)
  BY <1>1, <1>4, <1>7, <1>8 DEF FreedPiece
<1>10. FreedPiece(h, f, k, u, W, U \ {b})
  BY <1>1, <1>7, <1>9, FreePiece
<1>11. /\ Becomes(h, k, (U \ {b}) \cup {t}, U \ {b}) /\ k.aborted = h.aborted
       /\ Kept(f.mem, k.mem, t)
  BY <1>7, <1>9, <1>10 DEF FreedPiece
<1>12. k.mem[2 * t].size >= r
  <2>1. k.mem[2 * t].size = r
    BY <1>3, <1>9, <1>11 DEF Kept
  <2> QED  BY <2>1
<1> QED  BY <1>1, <1>5, <1>6, <1>11, <1>12 DEF Yields

\* sf_memalign of a block that is not aligned.
LEMMA CutAlignedWorks ==
  ASSUME NEW h, NEW B, Good(h, B), NEW b \in Used(h, B), NEW n \in Nat, n >= 4,
         NEW al \in Nat, PowerOf2(al), ~Aligned(b, al),
         Size(h, b) >= AdjustedSize(n + al + 4), NEW a, a = CutAligned(h, b, n, al)
  PROVE  Yields(h, a.heap, Used(h, B), b, a.ptr, AdjustedSize(n))
<1>1. PICK e, m, r : /\ e = After(h.mem, b) /\ r = ComputeMemorySize(n)
                     /\ m = Least({c \in b + 2 .. b + Size(h, b) : Aligned(c, al)})
  OBVIOUS
<1>2. b \in Nat /\ e \in Nat /\ e = b + Size(h, b) /\ Size(h, b) \in Nat
  <2>1. UsedAt(h, B, b, e)
    BY <1>1, UsedPlace
  <2>2. h.mem[2 * b].size \in Nat
    BY NextOf DEF Used, Allocs
  <2> QED  BY <2>1, <2>2 DEF UsedAt
<1>3. PICK k \in Nat \ {0} : al = 2 * k /\
        \A d \in Nat : b + 1 + k <= d =>
          Least({c \in b + 2 .. d : Aligned(c, al)}) \in b + 2 .. b + 1 + k
  BY <1>2, AlignedRow
<1>4. r \in Nat /\ r >= 3 /\ AdjustedSize(n) = r /\ Size(h, b) >= r + 2 + k
  <2>1. AdjustedSize(n + al + 4) = AdjustedSize(n + 2 * k + 4)
    BY <1>3
  <2> QED  BY <1>1, <2>1, AlignedSlack
<1>5. m \in b + 2 .. b + 1 + k
  <2>1. b + 1 + k <= e
    <3>1. PICK z : z = Size(h, b)
      OBVIOUS
    <3>2. e = b + z /\ z \in Nat /\ z >= r + 2 + k /\ b \in Nat /\ r \in Nat
      BY <1>2, <1>4, <3>1
    <3> QED  BY <3>2
  <2> QED  BY <1>1, <1>2, <1>3, <2>1
<1>6. /\ m \in Nat /\ b + 2 <= m /\ m + r + 1 <= e /\ m + 2 <= e /\ m + r <= e
  <2>1. PICK z : z = Size(h, b)
    OBVIOUS
  <2>2. /\ e = b + z /\ z \in Nat /\ z >= r + 2 + k /\ b \in Nat /\ r \in Nat /\ r >= 3
        /\ m \in b + 2 .. b + 1 + k
    BY <1>2, <1>4, <1>5, <2>1
  <2> QED  BY <2>2
<1>7. PICK left, x, f : /\ left = b + Size(h, b) - m - r /\ x = m - b
                        /\ f = SetHeader(h, b, x, TRUE, Header(h, b).pal)
  OBVIOUS
<1>8. left = e - (m + r) /\ b + Size(h, b) - m = e - m
  <2>1. PICK z : z = Size(h, b)
    OBVIOUS
  <2>2. e = b + z /\ z \in Nat /\ b \in Nat /\ m \in Nat /\ r \in Nat
    BY <1>2, <1>4, <1>6, <2>1
  <2>3. b + z - m = e - m /\ b + z - m - r = e - (m + r)
    BY <2>2
  <2> QED  BY <1>7, <2>1, <2>3
<1>9. CASE left < 2
  <2>1. PICK y, g : y = e - m /\ g = SetHeader(f, m, y, TRUE, TRUE)
    OBVIOUS
  <2>2. a = [heap |-> SfFree(g, b), ptr |-> m]
    BY <1>1, <1>7, <1>8, <1>9, <2>1 DEF CutAligned
  <2>3. CutInTwo(h, g, b, m, e)
    BY <1>1, <1>6, <1>7, <2>1, CutInTwoWorks
  <2>4. Yields(h, SfFree(g, b), Used(h, B), b, m, r)
    BY <1>1, <1>4, <1>6, <2>3, CutFrontWorks
  <2> QED  BY <1>4, <2>2, <2>4
<1>10. CASE ~(left < 2)
  <2>1. PICK u, k1, g : u = m + r /\ k1 = SetHeader(f, u, left, TRUE, TRUE)
                        /\ g = SetHeader(k1, m, r, TRUE, TRUE)
    OBVIOUS
  <2>2. a = [heap |-> SfFree(SfFree(g, b), u), ptr |-> m]
    BY <1>1, <1>7, <1>10, <2>1 DEF CutAligned
  <2>3. u \in Nat /\ m + 2 <= u /\ u + 2 <= e /\ left = e - u /\ r = u - m
    BY <1>2, <1>4, <1>6, <1>8, <1>10, <2>1
  <2>4. CutInThree(h, g, b, m, u, e)
    BY <1>1, <1>6, <1>7, <2>1, <2>3, CutInThreeWorks
  <2>5. Yields(h, SfFree(SfFree(g, b), u), Used(h, B), b, m, r)
    BY <1>1, <1>4, <1>6, <2>1, <2>3, <2>4, CutBothWorks
  <2> QED  BY <1>4, <2>2, <2>5
<1> QED  BY <1>9, <1>10

\* A block taken, and then made a block of r rows.
LEMMA TakenThenYields ==
  ASSUME NEW h, NEW f, NEW k, NEW U, NEW b, NEW R, Takes(h, f, U, b, R),
         NEW V, V = U \cup {b}, NEW p, NEW r, Yields(f, k, V, b, p, r)
  PROVE  p # NULL /\ Takes(h, k, U, p, r)
<1>1. b \notin U /\ Becomes(h, f, V, U) /\ f.aborted = h.aborted
  BY DEF Takes
<1>2. V \ {b} = U
  BY <1>1
<1>3. /\ p # NULL /\ p \notin U /\ Becomes(f, k, U \cup {p}, U)
      /\ k.mem[2 * p].size >= r /\ k.aborted = f.aborted
  BY <1>2 DEF Yields
<1>4. Becomes(h, k, U \cup {p}, U)
  BY <1>1, <1>3, BecomesThen
<1> QED  BY <1>1, <1>3, <1>4 DEF Takes

\* The answer of sf_memalign, which without a block may leave the heap alone.
AlignAnswers(h, a, U, n) ==
  \/ a.ptr = NULL /\ a.heap = h
  \/ Answers(h, a, U, n)

\* sf_memalign of a heap in order.
LEMMA MemalignWorks ==
  ASSUME NEW h, NEW U, Sound(h, U), NEW n \in Nat, NEW al \in Nat,
         NEW a, a = SfMemalign(h, n, al)
  PROVE  AlignAnswers(h, a, U, n)
<1>1. PICK m, b, f, N, R : m = SfMalloc(h, N) /\ N = n + al + 4 /\ b = m.ptr /\ f = m.heap
                        /\ R = AdjustedSize(N)
  OBVIOUS
<1>2. Answers(h, m, U, N)
  BY <1>1, MallocWorks
<1>3. CASE n = 0 \/ n < 4 \/ ~PowerOf2(al)
  <2>1. a = [heap |-> h, ptr |-> NULL]
    BY <1>3 DEF SfMemalign
  <2> QED  BY <2>1 DEF AlignAnswers
<1>4. CASE ~(n = 0 \/ n < 4 \/ ~PowerOf2(al)) /\ b = NULL
  <2>1. a = m
    BY <1>1, <1>4 DEF SfMemalign
  <2> QED  BY <1>1, <1>2, <1>4, <2>1 DEF AlignAnswers, Answers
<1>5. CASE ~(n = 0 \/ n < 4 \/ ~PowerOf2(al)) /\ b # NULL
  <2>1. Takes(h, f, U, b, R)
    BY <1>1, <1>2, <1>5 DEF Answers
  <2>2. PICK V : V = U \cup {b}
    OBVIOUS
  <2>3. PICK C : Good(f, C) /\ Used(f, C) = V
    BY <2>1, <2>2 DEF Takes, Becomes
  <2>4. b \in Used(f, C) /\ n \in Nat /\ n >= 4 /\ n # 0 /\ PowerOf2(al)
    BY <1>5, <2>2, <2>3
  <2>5. Size(f, b) >= R
    BY <2>1 DEF Takes, Size, Header
  <2>6. CASE Aligned(b, al)
    <3>1. a = SfRealloc(f, b, n)
      BY <1>1, <1>5, <2>6 DEF SfMemalign
    <3>2. ValidPointer(f, b) /\ Size(f, b) \in Nat
      BY <2>3, <2>4, UsedIsValid, NextOf DEF Used, Allocs
    <3>3. PICK r : r = AdjustedSize(n)
      OBVIOUS
    <3>4. r \in Nat /\ r >= 2 /\ R \in Nat /\ r <= R
      <4>1. r \in Nat /\ r >= 2
        BY <3>3, AdjustedRange
      <4>2. N \in Nat /\ N = n + al + 4
        BY <1>1
      <4>3. r = (n + 2) \div 2 /\ R = (N + 2) \div 2
        BY <1>1, <2>4, <3>3, <4>2 DEF AdjustedSize, ComputeMemorySize
      <4> QED  BY <4>1, <4>2, <4>3
    <3>5. Size(f, b) >= r /\ ~(r > Size(f, b))
      BY <2>5, <3>2, <3>4
    <3>6. a = ReallocSmaller(f, b, r)
      BY <2>4, <3>1, <3>2, <3>3, <3>5 DEF SfRealloc
    <3>7. a.ptr = b /\ Moves(f, a.heap, V, b, b, r)
      BY <2>3, <2>4, <3>4, <3>5, <3>6, ReallocSmallerWorks
    <3>8. Yields(f, a.heap, V, b, b, r)
      BY <3>7 DEF Moves
    <3>9. b # NULL /\ Takes(h, a.heap, U, b, r)
      BY <2>1, <2>2, <3>8, TakenThenYields
    <3> QED  BY <2>4, <3>3, <3>7, <3>9 DEF AlignAnswers, Answers
  <2>7. CASE ~Aligned(b, al)
    <3>1. a = CutAligned(f, b, n, al)
      BY <1>1, <1>5, <2>7 DEF SfMemalign
    <3>2. Size(f, b) >= AdjustedSize(n + al + 4)
      BY <1>1, <2>5
    <3>3. Yields(f, a.heap, V, b, a.ptr, AdjustedSize(n))
      BY <2>3, <2>4, <2>7, <3>1, <3>2, CutAlignedWorks
    <3>4. a.ptr # NULL /\ Takes(h, a.heap, U, a.ptr, AdjustedSize(n))
      BY <2>1, <2>2, <3>3, TakenThenYields
    <3> QED  BY <2>4, <3>4 DEF AlignAnswers, Answers
  <2> QED  BY <2>6, <2>7
<1> QED  BY <1>3, <1>4, <1>5

-----------------------------------------------------------------------------
(* The clients                                                               *)

\* A payload that its client has written.
Wrote(h, g, U, p, n, i) ==
  /\ Becomes(h, g, U, U \ {p}) /\ g.aborted = h.aborted
  /\ g.mem[2 * p].size = h.mem[2 * p].size
  /\ \A k \in 1 .. n : g.mem[2 * p + k].id = i

\* Writing the words asked for stays inside the block.
LEMMA WrittenWorks ==
  ASSUME NEW h, NEW B, Good(h, B), NEW p \in Used(h, B), NEW n \in Nat,
         h.mem[2 * p].size >= AdjustedSize(n), NEW i \in Ids, NEW g, g = Written(h, p, n, i)
  PROVE  Wrote(h, g, Used(h, B), p, n, i)
<1>1. PICK e, z : e = After(h.mem, p) /\ z = h.mem[2 * p].size
  OBVIOUS
<1>2. /\ p \in Nat /\ e \in Nat /\ e = p + z /\ e < Rows /\ Rows \in Nat
      /\ Words = 0 .. 2 * Rows - 2 /\ z \in Nat
  <2>1. UsedAt(h, B, p, e)
    BY <1>1, UsedPlace
  <2>2. h.mem[2 * p].size \in Nat
    BY NextOf DEF Used, Allocs
  <2> QED  BY <1>1, <2>1, <2>2 DEF UsedAt
<1>3. 2 * p + n <= 2 * e - 1
  <2>1. PICK r : r = AdjustedSize(n)
    OBVIOUS
  <2>2. r \in Nat /\ n + 1 <= 2 * r /\ z >= r
    BY <1>1, <2>1, AdjustedRange
  <2> QED  BY <1>2, <2>2
<1>4. h \in Heaps /\ h.mem \in [Words -> Word] /\ Data(i) \in Word
  <2>1. h \in Heaps
    BY GoodFacts
  <2>2. h.mem \in [Words -> Word]
    BY <2>1 DEF Heaps
  <2>3. 0 \in 0 .. Rows
    BY Bounds
  <2>4. Data(i) \in Word
    BY <2>3 DEF Data, Word
  <2> QED  BY <2>1, <2>2, <2>4
<1>5. PICK w : w = [x \in DOMAIN h.mem |-> IF x \in 2 * p + 1 .. 2 * p + n THEN Data(i) ELSE h.mem[x]]
  OBVIOUS
<1>6. w \in [Words -> Word]
  BY <1>4, <1>5
<1>7. g = [h EXCEPT !.mem = w]
  BY <1>5 DEF Written
<1>8. OnlyMemory(h, g) /\ g.mem = w
  BY <1>4, <1>6, <1>7 DEF Heaps, OnlyMemory
<1>9. ASSUME NEW x \in Words, x < 2 * p + 1 \/ x > 2 * e - 1  PROVE g.mem[x] = h.mem[x]
  <2>1. x \notin 2 * p + 1 .. 2 * p + n
    BY <1>2, <1>3, <1>9
  <2> QED  BY <1>4, <1>5, <1>8, <2>1
<1>10. SameBut(h.mem, g.mem, 2 * p + 1, 2 * e - 1)
  BY <1>9 DEF SameBut
<1>11. Becomes(h, g, Used(h, B), Used(h, B) \ {p}) /\ g.aborted = h.aborted
  BY <1>1, <1>8, <1>10, Overwritten
<1>12. g.mem[2 * p].size = h.mem[2 * p].size
  <2>1. 2 * p \in Words /\ 2 * p < 2 * p + 1
    BY <1>2
  <2> QED  BY <1>9, <2>1
<1>13. ASSUME NEW k \in 1 .. n  PROVE g.mem[2 * p + k].id = i
  <2>1. PICK x : x = 2 * p + k
    OBVIOUS
  <2>2. x \in Words /\ x \in 2 * p + 1 .. 2 * p + n
    BY <1>2, <1>3, <2>1
  <2>3. g.mem[x] = Data(i)
    BY <1>4, <1>5, <1>8, <2>2
  <2> QED  BY <2>1, <2>3 DEF Data
<1> QED  BY <1>11, <1>12, <1>13 DEF Wrote

\* The blocks that clients hold.
Pointers(l) == {l[i].ptr : i \in Ids} \ {NULL}

\* What client i finds in a block: room for what it asked, and its data.
Holds(h, v, i) ==
  /\ v.size >= 1 /\ v.written <= v.size /\ h.mem[2 * v.ptr].size >= AdjustedSize(v.size)
  /\ \A k \in 1 .. v.written : h.mem[2 * v.ptr + k].id = i

\* A record of a client.
Holding == [ptr : Nat, size : Nat, written : Nat]

\* The inductive invariant, of a heap and of what the clients hold of it: the
\* heap is not used yet or in order, the blocks in use are those that clients
\* hold, each by one of them, and each client finds there what it wrote.
Clients(h, l) ==
  /\ l \in [Ids -> Holding] /\ h.aborted = FALSE
  /\ Sound(h, Pointers(l))
  /\ \A i, j \in Ids : l[i].ptr = l[j].ptr /\ l[i].ptr # NULL => i = j
  /\ \A i \in Ids : l[i] = Nothing \/ (l[i].ptr # NULL /\ Holds(h, l[i], i))

\* A block that is kept is kept for the client that holds it.
LEMMA KeptHolds ==
  ASSUME NEW h, NEW U, Sound(h, U), NEW v \in Holding, v.ptr \in U, NEW i,
         Holds(h, v, i), NEW g, Kept(h.mem, g.mem, v.ptr)
  PROVE  Holds(g, v, i)
<1>1. PICK B : Good(h, B) /\ Used(h, B) = U
  BY DEF Sound
<1>2. PICK p, e, z, n, r : /\ p = v.ptr /\ e = After(h.mem, p) /\ z = h.mem[2 * p].size
                           /\ n = v.size /\ r = AdjustedSize(n)
  OBVIOUS
<1>3. p \in Nat /\ e \in Nat /\ e = p + z /\ z \in Nat
  <2>1. p \in Used(h, B)
    BY <1>1, <1>2
  <2>2. UsedAt(h, B, p, e)
    BY <1>1, <1>2, <2>1, UsedPlace
  <2>3. h.mem[2 * p].size \in Nat
    BY <1>1, <2>1, NextOf DEF Used, Allocs
  <2> QED  BY <1>2, <2>2, <2>3 DEF UsedAt
<1>4. n \in Nat /\ r \in Nat /\ n + 1 <= 2 * r /\ z >= r /\ v.written <= n /\ v.written \in Nat
  <2>1. n \in Nat /\ v.written \in Nat
    BY <1>2 DEF Holding
  <2>2. r \in Nat /\ n + 1 <= 2 * r
    BY <1>2, <2>1, AdjustedRange
  <2> QED  BY <1>2, <2>1, <2>2 DEF Holds
<1>5. g.mem[2 * p].size = z /\ \A w \in 2 * p + 1 .. 2 * e - 1 : g.mem[w] = h.mem[w]
  BY <1>2 DEF Kept
<1>6. ASSUME NEW k \in 1 .. v.written  PROVE g.mem[2 * p + k].id = i
  <2>1. 2 * p + k \in 2 * p + 1 .. 2 * e - 1
    BY <1>3, <1>4
  <2>2. g.mem[2 * p + k] = h.mem[2 * p + k]
    BY <1>5, <2>1
  <2> QED  BY <1>2, <2>2 DEF Holds
<1> QED  BY <1>2, <1>4, <1>5, <1>6 DEF Holds

\* A step of client i: it now holds v, and the others what they held.
StepOf(h, l, i, g, v) ==
  /\ v \in Holding /\ g.aborted = h.aborted
  /\ Sound(g, (Pointers(l) \ {l[i].ptr}) \cup ({v.ptr} \ {NULL}))
  /\ \A b \in Pointers(l) \ {l[i].ptr} : Kept(h.mem, g.mem, b)
  /\ v.ptr \notin Pointers(l) \ {l[i].ptr}
  /\ v = Nothing \/ (v.ptr # NULL /\ Holds(g, v, i))

\* Such a step keeps the invariant.
LEMMA OneClient ==
  ASSUME NEW h, NEW l, Clients(h, l), NEW i \in Ids, NEW g, NEW v, StepOf(h, l, i, g, v),
         NEW m, m = [l EXCEPT ![i] = v]
  PROVE  Clients(g, m)
<1>1. l \in [Ids -> Holding] /\ v \in Holding /\ m \in [Ids -> Holding]
  BY DEF Clients, StepOf
<1>2. m[i] = v /\ \A j \in Ids : j # i => m[j] = l[j]
  BY <1>1
<1>3. \A j \in Ids : j # i /\ l[j].ptr # NULL => l[j].ptr \in Pointers(l) \ {l[i].ptr}
  BY DEF Clients, Pointers
<1>4. Pointers(m) = (Pointers(l) \ {l[i].ptr}) \cup ({v.ptr} \ {NULL})
  <2>1. \A p \in Pointers(m) : p \in (Pointers(l) \ {l[i].ptr}) \cup ({v.ptr} \ {NULL})
    <3>1. ASSUME NEW p \in Pointers(m)
          PROVE  p \in (Pointers(l) \ {l[i].ptr}) \cup ({v.ptr} \ {NULL})
      <4>1. PICK j \in Ids : p = m[j].ptr /\ p # NULL
        BY DEF Pointers
      <4> QED  BY <1>2, <1>3, <4>1
    <3> QED  BY <3>1
  <2>2. \A p \in Pointers(l) \ {l[i].ptr} : p \in Pointers(m)
    <3>1. ASSUME NEW p \in Pointers(l) \ {l[i].ptr}  PROVE p \in Pointers(m)
      <4>1. PICK j \in Ids : p = l[j].ptr /\ p # NULL
        BY DEF Pointers
      <4>2. m[j].ptr = p
        BY <1>2, <3>1, <4>1
      <4> QED  BY <4>1, <4>2 DEF Pointers
    <3> QED  BY <3>1
  <2>3. v.ptr # NULL => v.ptr \in Pointers(m)
    BY <1>2 DEF Pointers
  <2> QED  BY <2>1, <2>2, <2>3
<1>5. Sound(g, Pointers(m)) /\ g.aborted = FALSE
  BY <1>4 DEF StepOf, Clients
<1>6. ASSUME NEW j \in Ids, NEW k \in Ids, m[j].ptr = m[k].ptr, m[j].ptr # NULL  PROVE j = k
  <2>1. v.ptr \notin Pointers(l) \ {l[i].ptr}
    BY DEF StepOf
  <2>2. CASE j = i /\ k # i
    <3>1. m[k] = l[k] /\ l[k].ptr # NULL /\ l[k].ptr = v.ptr
      BY <1>2, <1>6, <2>2
    <3> QED  BY <1>3, <2>1, <2>2, <3>1
  <2>3. CASE k = i /\ j # i
    <3>1. m[j] = l[j] /\ l[j].ptr # NULL /\ l[j].ptr = v.ptr
      BY <1>2, <1>6, <2>3
    <3> QED  BY <1>3, <2>1, <2>3, <3>1
  <2>4. CASE j # i /\ k # i
    BY <1>2, <1>6, <2>4 DEF Clients
  <2> QED  BY <2>2, <2>3, <2>4
<1>7. ASSUME NEW j \in Ids  PROVE m[j] = Nothing \/ (m[j].ptr # NULL /\ Holds(g, m[j], j))
  <2>1. CASE j = i
    BY <1>2, <2>1 DEF StepOf
  <2>2. CASE j # i
    <3>1. m[j] = l[j] /\ (l[j] = Nothing \/ (l[j].ptr # NULL /\ Holds(h, l[j], j)))
      BY <1>2, <2>2 DEF Clients
    <3>2. ASSUME l[j].ptr # NULL, Holds(h, l[j], j)  PROVE Holds(g, l[j], j)
      <4>1. l[j].ptr \in Pointers(l) /\ l[j].ptr \in Pointers(l) \ {l[i].ptr}
        BY <1>3, <2>2, <3>2
      <4>2. Kept(h.mem, g.mem, l[j].ptr) /\ Sound(h, Pointers(l))
        BY <4>1 DEF StepOf, Clients
      <4>3. l[j] \in Holding
        BY <1>1
      <4> QED  BY <3>2, <4>1, <4>2, <4>3, KeptHolds
    <3> QED  BY <3>1, <3>2
  <2> QED  BY <2>1, <2>2
<1> QED  BY <1>1, <1>5, <1>6, <1>7 DEF Clients

\* What a heap becomes is sound.
LEMMA BecomesSound ==
  ASSUME NEW h, NEW g, NEW U, NEW S, Becomes(h, g, U, S)
  PROVE  Sound(g, U) /\ \A b \in S : Kept(h.mem, g.mem, b)
BY DEF Becomes, Sound

\* A client that holds a block holds one in use.
LEMMA HeldIsUsed ==
  ASSUME NEW h, NEW l, Clients(h, l), NEW i \in Ids, l[i] # Nothing
  PROVE  /\ l[i].ptr \in Pointers(l) /\ l[i].ptr # NULL /\ l[i] \in Holding /\ Holds(h, l[i], i)
         /\ \E B : Good(h, B) /\ Used(h, B) = Pointers(l)
<1>1. l[i].ptr # NULL /\ Holds(h, l[i], i) /\ l[i] \in Holding
  BY DEF Clients
<1>2. l[i].ptr \in Pointers(l)
  BY <1>1 DEF Pointers
<1> QED  BY <1>1, <1>2 DEF Clients, Sound

\* The record of a client without a block.
LEMMA NothingIs == Nothing \in Holding /\ Nothing.ptr = NULL
BY DEF Nothing, Held, Holding

\* sf_free by a client.
LEMMA FreeStep ==
  ASSUME NEW h, NEW l, Clients(h, l), NEW i \in Ids, l[i] # Nothing
  PROVE  StepOf(h, l, i, SfFree(h, l[i].ptr), Nothing)
<1>1. PICK b, U, g : b = l[i].ptr /\ U = Pointers(l) /\ g = SfFree(h, b)
  OBVIOUS
<1>2. b \in U /\ \E B : Good(h, B) /\ Used(h, B) = U
  BY <1>1, HeldIsUsed
<1>3. PICK B : Good(h, B) /\ Used(h, B) = U
  BY <1>2
<1>4. Becomes(h, g, U \ {b}, U \ {b}) /\ g.aborted = h.aborted
  BY <1>1, <1>2, <1>3, FreeWorks
<1>5. Sound(g, U \ {b}) /\ \A c \in U \ {b} : Kept(h.mem, g.mem, c)
  BY <1>4, BecomesSound
<1>6. (U \ {b}) \cup ({Nothing.ptr} \ {NULL}) = U \ {b} /\ Nothing \in Holding
      /\ Nothing.ptr \notin U \ {b}
  <2>1. NULL \notin U
    BY <1>1 DEF Pointers
  <2> QED  BY <2>1, NothingIs
<1> QED  BY <1>1, <1>4, <1>5, <1>6 DEF StepOf

\* A client that takes the block it is given and writes it.
LEMMA TakeStep ==
  ASSUME NEW h, NEW l, Clients(h, l), NEW i \in Ids, l[i] = Nothing, NEW n \in Nat, n # 0,
         NEW f, NEW p, p # NULL, Takes(h, f, Pointers(l), p, AdjustedSize(n))
  PROVE  StepOf(h, l, i, Written(f, p, n, i), Held(p, n, n))
<1>1. PICK U, V, g, v : /\ U = Pointers(l) /\ V = U \cup {p} /\ g = Written(f, p, n, i)
                        /\ v = Held(p, n, n)
  OBVIOUS
<1>2. p \notin U /\ Becomes(h, f, V, U) /\ f.mem[2 * p].size >= AdjustedSize(n)
      /\ f.aborted = h.aborted
  BY <1>1 DEF Takes
<1>3. PICK C : Good(f, C) /\ Used(f, C) = V
  BY <1>2 DEF Becomes
<1>4. p \in Used(f, C)
  BY <1>1, <1>3
<1>5. Wrote(f, g, V, p, n, i)
  BY <1>1, <1>2, <1>3, <1>4, WrittenWorks
<1>6. /\ Becomes(f, g, V, V \ {p}) /\ g.aborted = h.aborted
      /\ g.mem[2 * p].size >= AdjustedSize(n) /\ \A k \in 1 .. n : g.mem[2 * p + k].id = i
  BY <1>2, <1>5 DEF Wrote
<1>7. V \ {p} = U
  BY <1>1, <1>2
<1>8. Becomes(h, g, V, U)
  <2>1. Becomes(f, g, V, U)
    BY <1>6, <1>7
  <2> QED  BY <1>2, <2>1, BecomesThen
<1>9. Sound(g, V) /\ \A b \in U : Kept(h.mem, g.mem, b)
  BY <1>8, BecomesSound
<1>10. U \ {l[i].ptr} = U
  <2>1. NULL \notin U
    BY <1>1 DEF Pointers
  <2> QED  BY <2>1, NothingIs
<1>11. p \in Nat
  <2>1. UsedAt(f, C, p, After(f.mem, p))
    BY <1>3, <1>4, UsedPlace
  <2> QED  BY <2>1 DEF UsedAt
<1>12. v \in Holding /\ v.ptr = p /\ v.size = n /\ v.written = n
  BY <1>1, <1>11 DEF Held, Holding
<1>13. Holds(g, v, i)
  BY <1>6, <1>12 DEF Holds
<1>14. U \cup ({v.ptr} \ {NULL}) = V
  BY <1>1, <1>12
<1>15. v.ptr \notin U
  BY <1>2, <1>12
<1>16. v.ptr # NULL
  BY <1>12
<1> QED  BY <1>1, <1>6, <1>9, <1>10, <1>12, <1>13, <1>14, <1>15, <1>16 DEF StepOf

\* A call that leaves every block as it was.
LEMMA SameStep ==
  ASSUME NEW h, NEW l, Clients(h, l), NEW i \in Ids, NEW g,
         Becomes(h, g, Pointers(l), Pointers(l)), g.aborted = h.aborted
  PROVE  Clients(g, l)
<1>1. PICK v, U : v = l[i] /\ U = Pointers(l)
  OBVIOUS
<1>2. Sound(g, U) /\ \A b \in U : Kept(h.mem, g.mem, b)
  BY <1>1, BecomesSound
<1>3. v \in Holding /\ l \in [Ids -> Holding] /\ Sound(h, U)
      /\ (v = Nothing \/ (v.ptr # NULL /\ Holds(h, v, i)))
  BY <1>1 DEF Clients
<1>4. v.ptr # NULL => v.ptr \in U
  BY <1>1 DEF Pointers
<1>5. NULL \notin U
  BY <1>1 DEF Pointers
<1>6. (U \ {l[i].ptr}) \cup ({v.ptr} \ {NULL}) = U /\ v.ptr \notin U \ {l[i].ptr}
  BY <1>1, <1>4, <1>5
<1>7. v = Nothing \/ (v.ptr # NULL /\ Holds(g, v, i))
  <2>1. CASE v.ptr # NULL /\ Holds(h, v, i)
    <3>1. v.ptr \in U /\ Kept(h.mem, g.mem, v.ptr)
      BY <1>2, <1>4, <2>1
    <3> QED  BY <1>3, <2>1, <3>1, KeptHolds
  <2> QED  BY <1>3, <2>1
<1>8. StepOf(h, l, i, g, v)
  BY <1>1, <1>2, <1>3, <1>6, <1>7 DEF StepOf
<1>9. l = [l EXCEPT ![i] = v]
  BY <1>1, <1>3
<1> QED  BY <1>8, <1>9, OneClient

\* What a client finds in the block that its own has become.
LEMMA MovedHolds ==
  ASSUME NEW h, NEW U, Sound(h, U), NEW v \in Holding, v.ptr \in U, NEW i,
         Holds(h, v, i), NEW n \in Nat, n # 0, NEW g, NEW p \in Nat, NEW s \in Nat, s = Size(g, p),
         Moves(h, g, U, v.ptr, p, AdjustedSize(n)),
         NEW w, w = IF v.written < n THEN v.written ELSE n
  PROVE  Held(p, n, w) \in Holding /\ Holds(g, Held(p, n, w), i)
<1>1. PICK b, z, r, y, q : /\ b = v.ptr /\ z = v.size /\ r = AdjustedSize(z) /\ y = Size(h, b)
                           /\ q = AdjustedSize(n)
  OBVIOUS
<1>2. z \in Nat /\ v.written \in Nat /\ v.written <= z /\ r \in Nat /\ z + 1 <= 2 * r
      /\ q \in Nat /\ n + 1 <= 2 * q
  <2>1. z \in Nat /\ v.written \in Nat /\ v.written <= z
    BY <1>1 DEF Holding, Holds
  <2> QED  BY <1>1, <2>1, AdjustedRange
<1>3. y \in Nat /\ y >= r
  <2>1. PICK B : Good(h, B) /\ Used(h, B) = U
    BY DEF Sound
  <2>2. h.mem[2 * b].size \in Nat
    BY <1>1, <2>1, NextOf DEF Used, Allocs
  <2> QED  BY <1>1, <2>2 DEF Holds, Size, Header
<1>4. g.mem[2 * p].size >= q /\ Copied(h, b, g, p) /\ s >= q
  <2>1. g.mem[2 * p].size >= q /\ Copied(h, b, g, p)
    BY <1>1 DEF Moves, Yields
  <2> QED  BY <2>1 DEF Size, Header
<1>5. w \in Nat /\ w <= v.written /\ w <= n
  BY <1>2
<1>6. ASSUME NEW k \in 1 .. w  PROVE g.mem[2 * p + k].id = i
  <2>1. k \in Nat /\ k >= 1 /\ k < 2 * y /\ k < 2 * s /\ k \in 1 .. v.written
    BY <1>2, <1>3, <1>4, <1>5
  <2>2. g.mem[2 * p + k] = h.mem[2 * b + k]
    BY <1>1, <1>4, <2>1 DEF Copied
  <2>3. h.mem[2 * b + k].id = i
    BY <1>1, <2>1 DEF Holds
  <2> QED  BY <2>2, <2>3
<1>7. PICK u : u = Held(p, n, w)
  OBVIOUS
<1>8. u \in Holding /\ u.ptr = p /\ u.size = n /\ u.written = w
  BY <1>5, <1>7 DEF Held, Holding
<1>9. Holds(g, u, i)
  BY <1>1, <1>4, <1>5, <1>6, <1>8 DEF Holds
<1> QED  BY <1>7, <1>8, <1>9

\* sf_realloc by a client.
LEMMA ReallocStep ==
  ASSUME NEW h, NEW l, Clients(h, l), NEW i \in Ids, l[i] # Nothing, NEW n \in Nat,
         NEW a, a = SfRealloc(h, l[i].ptr, n), NEW w, w = l[i].written
  PROVE  /\ n = 0 => Clients(a.heap, [l EXCEPT ![i] = Nothing])
         /\ n # 0 /\ a.ptr = NULL => Clients(a.heap, l)
         /\ n # 0 /\ a.ptr # NULL =>
              Clients(a.heap, [l EXCEPT ![i] = Held(a.ptr, n, IF w < n THEN w ELSE n)])
<1>1. PICK v, b, U : v = l[i] /\ b = l[i].ptr /\ U = Pointers(l)
  OBVIOUS
<1>2. b \in U /\ b = v.ptr /\ v \in Holding /\ Holds(h, v, i)
      /\ \E B : Good(h, B) /\ Used(h, B) = U
  BY <1>1, HeldIsUsed
<1>3. PICK B : Good(h, B) /\ Used(h, B) = U
  BY <1>2
<1>4. Reallocated(h, a, U, b, n)
  BY <1>1, <1>2, <1>3, ReallocWorks
<1>5. l \in [Ids -> Holding] /\ Sound(h, U) /\ NULL \notin U
  BY <1>1 DEF Clients, Pointers
<1>6. CASE n = 0
  <2>1. Becomes(h, a.heap, U \ {b}, U \ {b}) /\ a.heap.aborted = h.aborted
    BY <1>4, <1>6 DEF Reallocated
  <2>2. Sound(a.heap, U \ {b}) /\ \A c \in U \ {b} : Kept(h.mem, a.heap.mem, c)
    BY <2>1, BecomesSound
  <2>3. (U \ {b}) \cup ({Nothing.ptr} \ {NULL}) = U \ {b} /\ Nothing \in Holding
        /\ Nothing.ptr \notin U \ {b}
    BY <1>5, NothingIs
  <2>4. StepOf(h, l, i, a.heap, Nothing)
    BY <1>1, <2>1, <2>2, <2>3 DEF StepOf
  <2>5. Clients(a.heap, [l EXCEPT ![i] = Nothing])
    BY <2>4, OneClient
  <2> QED  BY <1>6, <2>5
<1>7. CASE n # 0 /\ a.ptr = NULL
  <2>1. Becomes(h, a.heap, U, U) /\ a.heap.aborted = h.aborted
    BY <1>4, <1>7 DEF Reallocated
  <2>2. Clients(a.heap, l)
    BY <1>1, <2>1, SameStep
  <2> QED  BY <1>7, <2>2
<1>8. CASE n # 0 /\ a.ptr # NULL
  <2>1. PICK p, g, x, u : /\ p = a.ptr /\ g = a.heap /\ x = (IF w < n THEN w ELSE n)
                          /\ u = Held(p, n, x)
    OBVIOUS
  <2>2. Moves(h, g, U, b, p, AdjustedSize(n))
    BY <1>4, <1>8, <2>1 DEF Reallocated
  <2>3. /\ p # NULL /\ p \notin U \ {b} /\ Becomes(h, g, (U \ {b}) \cup {p}, U \ {b})
        /\ g.aborted = h.aborted
    BY <2>2 DEF Moves, Yields
  <2>4. Sound(g, (U \ {b}) \cup {p}) /\ \A c \in U \ {b} : Kept(h.mem, g.mem, c)
    BY <2>3, BecomesSound
  <2>5. p \in Nat /\ Size(g, p) \in Nat
    <3>1. PICK C : Good(g, C) /\ Used(g, C) = (U \ {b}) \cup {p}
      BY <2>3 DEF Becomes
    <3>2. p \in Used(g, C)
      BY <3>1
    <3>3. UsedAt(g, C, p, After(g.mem, p))
      BY <3>1, <3>2, UsedPlace
    <3>4. g.mem[2 * p].size \in Nat
      BY <3>1, <3>2, NextOf DEF Used, Allocs
    <3> QED  BY <3>3, <3>4 DEF UsedAt
  <2>6. PICK s : s = Size(g, p)
    OBVIOUS
  <2>7. s \in Nat /\ v.ptr \in U /\ Moves(h, g, U, v.ptr, p, AdjustedSize(n))
        /\ x = IF v.written < n THEN v.written ELSE n
    BY <1>1, <1>2, <2>1, <2>2, <2>5, <2>6
  <2>8. u \in Holding /\ Holds(g, u, i)
    <3>1. Held(p, n, x) \in Holding /\ Holds(g, Held(p, n, x), i)
      BY <1>2, <1>5, <1>8, <2>5, <2>6, <2>7, MovedHolds
    <3> QED  BY <2>1, <3>1
  <2>9. u.ptr = p
    BY <2>1 DEF Held
  <2>10. (U \ {b}) \cup ({u.ptr} \ {NULL}) = (U \ {b}) \cup {p} /\ u.ptr \notin U \ {b}
         /\ u.ptr # NULL
    BY <2>3, <2>9
  <2>11. StepOf(h, l, i, g, u)
    BY <1>1, <2>3, <2>4, <2>8, <2>10 DEF StepOf
  <2>12. Clients(g, [l EXCEPT ![i] = u])
    BY <2>11, OneClient
  <2> QED  BY <1>8, <2>1, <2>12
<1> QED  BY <1>6, <1>7, <1>8

\* What a client obtains.
LEMMA ObtainStep ==
  ASSUME NEW h, NEW l, Clients(h, l), NEW i \in Ids, l[i] = Nothing, NEW n \in Nat,
         NEW a, Answers(h, a, Pointers(l), n)
  PROVE  /\ a.ptr = NULL => Clients(a.heap, l)
         /\ a.ptr # NULL => Clients(Written(a.heap, a.ptr, n, i), [l EXCEPT ![i] = Held(a.ptr, n, n)])
<1>1. CASE a.ptr = NULL
  <2>1. Becomes(h, a.heap, Pointers(l), Pointers(l)) /\ a.heap.aborted = h.aborted
    BY <1>1 DEF Answers
  <2> QED  BY <1>1, <2>1, SameStep
<1>2. CASE a.ptr # NULL
  <2>1. n # 0 /\ Takes(h, a.heap, Pointers(l), a.ptr, AdjustedSize(n))
    BY <1>2 DEF Answers
  <2>2. StepOf(h, l, i, Written(a.heap, a.ptr, n, i), Held(a.ptr, n, n))
    BY <1>2, <2>1, TakeStep
  <2>3. Clients(Written(a.heap, a.ptr, n, i), [l EXCEPT ![i] = Held(a.ptr, n, n)])
    BY <2>2, OneClient
  <2> QED  BY <1>2, <2>3
<1> QED  BY <1>1, <1>2

IInv == Clients(heap, live)

\* It holds at first.
LEMMA InitIInv == Init => IInv
<1> SUFFICES ASSUME Init  PROVE IInv
  OBVIOUS
<1>1. \A i \in Ids : live[i] = Nothing
  BY DEF Init
<1>2. live \in [Ids -> Holding]
  BY NothingIs DEF Init
<1>3. Pointers(live) = {}
  BY <1>1, NothingIs DEF Pointers
<1>4. Data(NoId) \in Word
  <2>1. 0 \in 0 .. Rows
    BY Bounds
  <2> QED  BY <2>1 DEF Data, Word
<1>5. heap.mem = [w \in Words |-> Data(NoId)] /\ heap.pages = 0
      /\ heap.lists = [l \in 0 .. Wild |-> <<>>] /\ heap.aborted = FALSE
  BY DEF Init, Words
<1>6. heap.mem \in [Words -> Word]
  BY <1>4, <1>5
<1>7. heap.lists \in [0 .. Wild -> Seq(Nat)] /\ \A l \in 0 .. Wild : heap.lists[l] = <<>>
  BY <1>5
<1>8. heap.pages \in 0 .. MaxPages
  BY <1>5, MaxPagesAssumption
<1>9. heap \in Heaps
  BY <1>5, <1>6, <1>7, <1>8 DEF Init, Heaps
<1>10. Fresh(heap)
  BY <1>5, <1>7, <1>9 DEF Fresh
<1>11. \A i, j \in Ids : live[i].ptr = live[j].ptr /\ live[i].ptr # NULL => i = j
  BY <1>1, NothingIs
<1> QED  BY <1>1, <1>2, <1>3, <1>5, <1>10, <1>11 DEF IInv, Clients, Sound

\* Every step keeps it.
LEMMA NextIInv == IInv /\ [Next]_vars => IInv'
<1> SUFFICES ASSUME IInv, [Next]_vars  PROVE IInv'
  OBVIOUS
<1> USE DEF IInv
<1>1. Sound(heap, Pointers(live)) /\ live \in [Ids -> Holding]
  BY DEF Clients
<1>2. ASSUME NEW i \in Ids, Free(i)  PROVE IInv'
  <2>1. StepOf(heap, live, i, heap', Nothing)
    BY <1>2, FreeStep DEF Free
  <2> QED  BY <1>2, <2>1, OneClient DEF Free
<1>3. ASSUME NEW i \in Ids, NEW n \in Sizes, Malloc(i, n)  PROVE IInv'
  <2>1. n \in Nat
    BY SizesAssumption
  <2>2. PICK a : a = SfMalloc(heap, n)
    OBVIOUS
  <2>3. Answers(heap, a, Pointers(live), n)
    BY <1>1, <2>1, <2>2, MallocWorks
  <2>4. Obtain(i, n, a) /\ live[i] = Nothing
    BY <1>3, <2>2 DEF Malloc
  <2>5. /\ a.ptr = NULL => Clients(a.heap, live)
        /\ a.ptr # NULL =>
             Clients(Written(a.heap, a.ptr, n, i), [live EXCEPT ![i] = Held(a.ptr, n, n)])
    BY <2>1, <2>3, <2>4, ObtainStep
  <2> QED  BY <2>4, <2>5 DEF Obtain
<1>4. ASSUME NEW i \in Ids, NEW n \in Sizes, Realloc(i, n)  PROVE IInv'
  <2>1. n \in Nat
    BY SizesAssumption
  <2>2. PICK a, w : a = SfRealloc(heap, live[i].ptr, n) /\ w = live[i].written
    OBVIOUS
  <2>3. /\ live[i] # Nothing /\ heap' = a.heap
        /\ live' = [live EXCEPT ![i] =
             IF n = 0 THEN Nothing
             ELSE IF a.ptr = NULL THEN @
             ELSE Held(a.ptr, n, IF w < n THEN w ELSE n)]
    BY <1>4, <2>2 DEF Realloc
  <2>4. Clients(heap, live) /\ live[i] # Nothing /\ a = SfRealloc(heap, live[i].ptr, n)
        /\ w = live[i].written
    BY <2>2, <2>3
  <2>5. /\ n = 0 => Clients(a.heap, [live EXCEPT ![i] = Nothing])
        /\ n # 0 /\ a.ptr = NULL => Clients(a.heap, live)
        /\ n # 0 /\ a.ptr # NULL =>
              Clients(a.heap, [live EXCEPT ![i] = Held(a.ptr, n, IF w < n THEN w ELSE n)])
    BY <2>1, <2>4, ReallocStep
  <2>6. CASE n = 0
    <3>1. live' = [live EXCEPT ![i] = Nothing]
      BY <2>3, <2>6
    <3> QED  BY <2>3, <2>5, <2>6, <3>1
  <2>7. CASE n # 0 /\ a.ptr = NULL
    <3>1. live' = live
      BY <1>1, <2>3, <2>7
    <3> QED  BY <2>3, <2>5, <2>7, <3>1
  <2>8. CASE n # 0 /\ a.ptr # NULL
    <3>1. live' = [live EXCEPT ![i] = Held(a.ptr, n, IF w < n THEN w ELSE n)]
      BY <2>3, <2>8
    <3> QED  BY <2>3, <2>5, <2>8, <3>1
  <2> QED  BY <2>6, <2>7, <2>8
<1>5. ASSUME NEW i \in Ids, NEW n \in Sizes, NEW al \in Aligns, Memalign(i, n, al)  PROVE IInv'
  <2>1. n \in Nat /\ al \in Nat
    BY SizesAssumption
  <2>2. PICK a : a = SfMemalign(heap, n, al)
    OBVIOUS
  <2>3. AlignAnswers(heap, a, Pointers(live), n)
    BY <1>1, <2>1, <2>2, MemalignWorks
  <2>4. Obtain(i, n, a) /\ live[i] = Nothing
    BY <1>5, <2>2 DEF Memalign
  <2>5. CASE a.ptr = NULL /\ a.heap = heap
    BY <2>4, <2>5 DEF Obtain
  <2>6. CASE Answers(heap, a, Pointers(live), n)
    <3>1. /\ a.ptr = NULL => Clients(a.heap, live)
          /\ a.ptr # NULL =>
               Clients(Written(a.heap, a.ptr, n, i), [live EXCEPT ![i] = Held(a.ptr, n, n)])
      BY <2>1, <2>4, <2>6, ObtainStep
    <3> QED  BY <2>4, <3>1 DEF Obtain
  <2> QED  BY <2>3, <2>5, <2>6 DEF AlignAnswers
<1>6. CASE UNCHANGED vars
  BY <1>6 DEF vars
<1> QED  BY <1>2, <1>3, <1>4, <1>5, <1>6 DEF Next

\* Whatever the clients call, the heap stays in order and each finds its data.
THEOREM Invariance == Spec => []IInv
<1>1. Init => IInv
  BY InitIInv
<1>2. IInv /\ [Next]_vars => IInv'
  BY NextIInv
<1> QED  BY <1>1, <1>2, PTL DEF Spec

\* A heap in order is of its kind.
LEMMA InvTypeOK == IInv => TypeOK
<1> SUFFICES ASSUME IInv  PROVE TypeOK
  OBVIOUS
<1>1. heap \in Heaps /\ live \in [Ids -> Holding]
  BY DEF IInv, Clients, Sound, Fresh, Good
<1>2. heap.mem \in [WordsOf(MaxPages) ->
       [size : 0 .. PageRows * MaxPages, alloc : BOOLEAN, pal : BOOLEAN,
        id : Ids \cup {NoId}]]
  BY <1>1 DEF Heaps, Words, Word, Rows
<1>3. \A l \in 0 .. Wild : \A k \in DOMAIN heap.lists[l] : heap.lists[l][k] \in Nat
  <2>1. \A s \in Seq(Nat) : \A k \in DOMAIN s : s[k] \in Nat
    OBVIOUS
  <2>2. \A l \in 0 .. Wild : heap.lists[l] \in Seq(Nat)
    BY <1>1 DEF Heaps
  <2> QED  BY <2>1, <2>2
<1>4. heap.pages \in 0 .. MaxPages /\ heap.aborted \in BOOLEAN
  BY <1>1 DEF Heaps
<1> QED  BY <1>1, <1>2, <1>3, <1>4 DEF TypeOK, Holding

\* Every part of the state is of its kind.
THEOREM Typed == Spec => []TypeOK
BY Invariance, InvTypeOK, PTL

\* No sequence of calls makes the library abort: every pointer it hands out, and
\* every piece that sf_realloc and sf_memalign cut off, passes sf_free's checks.
THEOREM NoAbort == Spec => []NeverAborts
<1>1. IInv => NeverAborts
  BY DEF IInv, Clients, NeverAborts
<1> QED  BY <1>1, Invariance, PTL

-----------------------------------------------------------------------------
(* The blocks found by walking the headers                                   *)

\* The row that the walk goes to from row b, if it does not end there.
Ends(h, b) == b = Epilogue(h) \/ Size(h, b) = 0
Walks(h, f) ==
  f = [b \in 0 .. Epilogue(h) |->
         IF Ends(h, b) THEN {b}
         ELSE IF b + Size(h, b) > Epilogue(h) THEN {b, b + Size(h, b)}
         ELSE {b} \cup f[b + Size(h, b)]]

\* The rows reached from b, without recursion: what every set that contains b
\* and is closed under the walk has in common.
Closed(h, S) ==
  \A b \in S : b \in 0 .. Epilogue(h) /\ ~Ends(h, b) => b + Size(h, b) \in S
Reached(h, b) == {c \in Nat : \A S \in SUBSET Nat : b \in S /\ Closed(h, S) => c \in S}

\* They are a walk.
LEMMA WalkExists ==
  ASSUME NEW h, Epilogue(h) \in Nat, Sized(h.mem, Epilogue(h))
  PROVE  \E f : Walks(h, f)
<1>1. PICK f : f = [b \in 0 .. Epilogue(h) |-> Reached(h, b)]
  OBVIOUS
<1>2. ASSUME NEW b \in 0 .. Epilogue(h)  PROVE b \in Nat /\ Size(h, b) \in Nat
  BY <1>2 DEF Sized, Size, Header
<1>3. ASSUME NEW b \in Nat  PROVE b \in Reached(h, b) /\ Reached(h, b) \in SUBSET Nat
  BY DEF Reached
<1>4. ASSUME NEW b \in Nat, NEW S \in SUBSET Nat, b \in S, Closed(h, S)
      PROVE  Reached(h, b) \subseteq S
  BY <1>4 DEF Reached
<1>5. ASSUME NEW b \in Nat  PROVE Closed(h, Reached(h, b))
  <2>1. SUFFICES ASSUME NEW c \in Reached(h, b), c \in 0 .. Epilogue(h), ~Ends(h, c)
                 PROVE  c + Size(h, c) \in Reached(h, b)
    BY DEF Closed
  <2>2. c + Size(h, c) \in Nat
    BY <1>2, <2>1
  <2>3. ASSUME NEW S \in SUBSET Nat, b \in S, Closed(h, S)  PROVE c + Size(h, c) \in S
    <3>1. c \in S
      BY <2>3, <1>4
    <3> QED  BY <2>1, <2>3, <3>1 DEF Closed
  <2> QED  BY <2>2, <2>3 DEF Reached
<1>6. ASSUME NEW b \in 0 .. Epilogue(h)
      PROVE  Reached(h, b) = IF Ends(h, b) THEN {b}
                             ELSE IF b + Size(h, b) > Epilogue(h) THEN {b, b + Size(h, b)}
                             ELSE {b} \cup f[b + Size(h, b)]
  <2>1. PICK n : n = b + Size(h, b)
    OBVIOUS
  <2>2. b \in Nat /\ n \in Nat
    BY <1>2, <2>1
  <2>3. CASE Ends(h, b)
    <3>1. Closed(h, {b})
      BY <2>3 DEF Closed
    <3>2. Reached(h, b) \subseteq {b}
      BY <1>4, <2>2, <3>1
    <3> QED  BY <1>3, <2>2, <2>3, <3>2
  <2>4. ASSUME ~Ends(h, b)  PROVE n \in Reached(h, b)
    BY <1>3, <1>5, <2>1, <2>2, <2>4 DEF Closed
  <2>5. CASE ~Ends(h, b) /\ n > Epilogue(h)
    <3>1. Closed(h, {b, n})
      BY <2>1, <2>2, <2>5 DEF Closed
    <3>2. Reached(h, b) \subseteq {b, n}
      BY <1>4, <2>2, <3>1
    <3> QED  BY <1>3, <2>1, <2>2, <2>4, <2>5, <3>2
  <2>6. CASE ~Ends(h, b) /\ ~(n > Epilogue(h))
    <3>1. n \in 0 .. Epilogue(h) /\ f[n] = Reached(h, n)
      BY <1>1, <2>2, <2>6
    <3>2. PICK S : S = {b} \cup Reached(h, n)
      OBVIOUS
    <3>3. S \in SUBSET Nat /\ b \in S
      BY <1>3, <2>2, <3>2
    <3>4. Closed(h, S)
      BY <1>3, <1>5, <2>1, <2>2, <3>2 DEF Closed
    <3>5. Reached(h, b) \subseteq S
      BY <1>4, <2>2, <3>3, <3>4
    <3>6. Reached(h, n) \subseteq Reached(h, b)
      <4>1. n \in Reached(h, b) /\ Closed(h, Reached(h, b)) /\ Reached(h, b) \in SUBSET Nat
        BY <1>3, <1>5, <2>2, <2>4, <2>6
      <4> QED  BY <1>4, <2>2, <4>1
    <3>7. Reached(h, b) = {b} \cup f[n]
      BY <1>3, <2>2, <3>1, <3>2, <3>5, <3>6
    <3> QED  BY <2>1, <2>6, <3>7
  <2> QED  BY <2>1, <2>3, <2>5, <2>6
<1>7. Walks(h, f)
  BY <1>1, <1>6 DEF Walks
<1> QED  BY <1>7

\* In a heap in order a walk finds the blocks.
LEMMA WalkFinds ==
  ASSUME NEW h, NEW B, Good(h, B), NEW f, Walks(h, f)
  PROVE  f[2] = B
<1>1. PICK E : E = Epilogue(h)
  OBVIOUS
<1>2. E \in Nat /\ B \subseteq 2 .. E /\ 2 \in B /\ E \in B
  BY <1>1, GoodFacts, Bounds
<1>3. ASSUME NEW b \in 0 .. E
      PROVE  f[b] = IF Ends(h, b) THEN {b}
                    ELSE IF b + Size(h, b) > E THEN {b, b + Size(h, b)}
                    ELSE {b} \cup f[b + Size(h, b)]
  BY <1>1 DEF Walks
<1>4. PICK Bad : \A b : b \in Bad <=> b \in B /\ f[b] # {c \in B : c >= b}
  <2>1. PICK X : X = {b \in B : f[b] # {c \in B : c >= b}}
    OBVIOUS
  <2> QED  BY <2>1
<1>5. Bad = {}
  <2>1. SUFFICES ASSUME Bad # {}  PROVE FALSE
    OBVIOUS
  <2>2. PICK D : D = {E - b : b \in Bad}
    OBVIOUS
  <2>a. \A b \in Bad : b \in B /\ b \in 2 .. E
    BY <1>2, <1>4
  <2>b. \A b \in Bad : E - b \in Nat
    BY <1>2, <2>a
  <2>3. D \subseteq Nat /\ D # {}
    BY <2>1, <2>2, <2>b
  <2>4. Least(D) \in D /\ \A y \in D : Least(D) <= y
    BY <2>3, LeastOf
  <2>5. PICK b \in Bad : Least(D) = E - b
    BY <2>2, <2>4
  <2>6. b \in B /\ b \in 2 .. E /\ b \in 0 .. E
    <3>1. b \in B /\ b \in 2 .. E
      BY <2>a
    <3>2. \A x : x \in 2 .. E => x \in 0 .. E
      BY <1>2
    <3> QED  BY <3>1, <3>2
  <2>7. \A c \in B : c > b => f[c] = {d \in B : d >= c}
    <3>1. ASSUME NEW c \in B, c > b, f[c] # {d \in B : d >= c}  PROVE FALSE
      <4>1. c \in Bad
        BY <1>4, <3>1
      <4>2. E - c \in D
        BY <2>2, <4>1
      <4>3. E - b <= E - c
        BY <2>4, <2>5, <4>2
      <4>4. c \in Nat /\ b \in Nat
        BY <1>2, <2>6
      <4> QED  BY <1>2, <3>1, <4>3, <4>4
    <3> QED  BY <3>1
  <2>8. CASE b = E
    <3>1. f[b] = {b}
      BY <1>1, <1>3, <2>6, <2>8 DEF Ends
    <3>3. \A c \in B : c >= E <=> c = E
      BY <1>2
    <3>2. {c \in B : c >= b} = {b}
      BY <1>2, <2>8, <3>3
    <3> QED  BY <1>4, <3>1, <3>2
  <2>9. CASE b # E
    <3>1. PICK n : n = After(h.mem, b)
      OBVIOUS
    <3>2. /\ BlockAt(h.mem, B, b) /\ h.mem[2 * b].size >= 2 /\ h.mem[2 * b].size \in Nat
          /\ n \in B /\ n \in b + 2 .. E /\ n = b + h.mem[2 * b].size
      BY <1>1, <2>6, <2>9, <3>1, NextOf
    <3>3. Size(h, b) = h.mem[2 * b].size
      BY DEF Size, Header
    <3>4. ~Ends(h, b) /\ ~(b + Size(h, b) > E) /\ b + Size(h, b) = n /\ n > b
      <4>1. ~(n > E) /\ n > b
        BY <1>2, <2>6, <3>2
      <4>2. Size(h, b) # 0
        BY <3>2, <3>3
      <4> QED  BY <1>1, <2>9, <3>2, <3>3, <4>1, <4>2 DEF Ends
    <3>5. f[b] = {b} \cup f[n]
      BY <1>3, <2>6, <3>4
    <3>6. f[n] = {d \in B : d >= n}
      BY <2>7, <3>2, <3>4
    <3>7. \A c \in B : c >= b <=> c = b \/ c >= n
      <4>1. \A c \in B : c <= b \/ n <= c
        BY <3>1, <3>2 DEF BlockAt
      <4>2. n \in Nat /\ b \in Nat /\ \A c \in B : c \in Nat
        BY <1>2, <2>6, <3>2
      <4> QED  BY <3>4, <4>1, <4>2
    <3>8. f[b] = {c \in B : c >= b}
      BY <2>6, <3>5, <3>6, <3>7
    <3> QED  BY <1>4, <3>8
  <2> QED  BY <2>8, <2>9
<1>6. f[2] = {c \in B : c >= 2}
  BY <1>2, <1>4, <1>5
<1>7. \A c \in B : c >= 2
  BY <1>2
<1> QED  BY <1>6, <1>7

\* The blocks of a heap in order.
LEMMA BlocksAre ==
  ASSUME NEW B, Good(heap, B)
  PROVE  Blocks = B
<1>1. PICK r : r = CHOOSE f : Walks(heap, f)
  OBVIOUS
<1>2. Epilogue(heap) \in Nat /\ Sized(heap.mem, Epilogue(heap))
  BY GoodFacts, Bounds
<1>3. Walks(heap, r)
  BY <1>1, <1>2, WalkExists
<1>4. Blocks = (CHOOSE f : f = [b \in 0 .. Epilogue(heap) |->
                   IF b = Epilogue(heap) \/ Size(heap, b) = 0 THEN {b}
                   ELSE IF b + Size(heap, b) > Epilogue(heap) THEN {b, b + Size(heap, b)}
                   ELSE {b} \cup f[b + Size(heap, b)]])[2]
  BY DEF Blocks
<1>5. Blocks = r[2]
  BY <1>1, <1>4 DEF Walks, Ends
<1> QED  BY <1>3, <1>5, WalkFinds

\* Once the heap is in use, the blocks found are those of a heap in order.
LEMMA InUse ==
  ASSUME IInv, heap.pages > 0
  PROVE  Good(heap, Blocks) /\ Used(heap, Blocks) = Pointers(live)
<1>1. Sound(heap, Pointers(live))
  BY DEF IInv, Clients
<1>2. ~Fresh(heap)
  BY DEF Fresh
<1>3. PICK B : Good(heap, B) /\ Used(heap, B) = Pointers(live)
  BY <1>1, <1>2 DEF Sound
<1>4. Blocks = B
  BY <1>3, BlocksAre
<1> QED  BY <1>3, <1>4

\* A heap in order is tiled.
LEMMA InvTiled == IInv => Tiled
<1> SUFFICES ASSUME IInv  PROVE Tiled
  OBVIOUS
<1>1. TypeOK
  BY InvTypeOK
<1>2. CASE ~(heap.pages > 0)
  BY <1>1, <1>2 DEF Tiled
<1>3. CASE heap.pages > 0
  <2>1. PICK B, E : B = Blocks /\ E = Epilogue(heap)
    OBVIOUS
  <2>2. Good(heap, B)
    BY <1>3, <2>1, InUse
  <2>3. E \in B /\ Header(heap, 2).pal
    BY <2>1, <2>2 DEF Good, Tiling, Header
  <2>4. ASSUME NEW b \in B \ {E}
        PROVE  LET next == b + Size(heap, b)
               IN  /\ next \in B /\ Size(heap, b) >= 2
                   /\ Header(heap, next).pal = Header(heap, b).alloc
                   /\ Free_(b) => /\ heap.mem[2 * next - 1] = Header(heap, b)
                                  /\ Header(heap, next).alloc
    <3>1. BlockAt(heap.mem, B, b)
      BY <2>1, <2>2 DEF Good, Tiling
    <3>2. After(heap.mem, b) = b + Size(heap, b)
      BY DEF After, Size, Header
    <3>3. PICK n : n = b + Size(heap, b)
      OBVIOUS
    <3>4. /\ n \in B /\ heap.mem[2 * b].size >= 2 /\ heap.mem[2 * n].pal = heap.mem[2 * b].alloc
          /\ ~heap.mem[2 * b].alloc => heap.mem[2 * n - 1] = heap.mem[2 * b] /\ heap.mem[2 * n].alloc
      BY <3>1, <3>2, <3>3 DEF BlockAt
    <3> QED  BY <3>3, <3>4 DEF Free_, Size, Header
  <2> QED  BY <1>1, <2>1, <2>3, <2>4 DEF Tiled
<1> QED  BY <1>2, <1>3

\* A block is once in the list that has it.
LEMMA Times ==
  ASSUME NEW s \in Seq(Nat), Once(s), NEW b
  PROVE  Cardinality({k \in DOMAIN s : s[k] = b}) = IF b \in Elems(s) THEN 1 ELSE 0
<1>1. PICK K : K = {k \in DOMAIN s : s[k] = b}
  OBVIOUS
<1>2. CASE b \notin Elems(s)
  <2>1. K = {}
    BY <1>1, <1>2 DEF Elems
  <2> QED  BY <1>1, <1>2, <2>1, FS_EmptySet
<1>3. CASE b \in Elems(s)
  <2>1. PICK k \in DOMAIN s : s[k] = b
    BY <1>3 DEF Elems
  <2>2. K = {k}
    BY <1>1, <2>1 DEF Once
  <2>3. Cardinality({k}) = 1
    BY FS_Singleton
  <2> QED  BY <1>1, <1>3, <2>2, <2>3
<1> QED  BY <1>2, <1>3

\* The lists of a heap in order are exact.
LEMMA InvListsExact == IInv => ListsExact
<1> SUFFICES ASSUME IInv, heap.pages > 0  PROVE ListsExact
  BY DEF ListsExact
<1>1. PICK B, E : B = Blocks /\ E = Epilogue(heap)
  OBVIOUS
<1>2. Good(heap, B)
  BY <1>1, InUse
<1>3. Listed(heap.mem, E, B, heap.lists)
  BY <1>1, <1>2 DEF Good
<1>4. ASSUME NEW b \in 0 .. E, NEW l \in 0 .. Wild
      PROVE  Cardinality({k \in DOMAIN heap.lists[l] : heap.lists[l][k] = b})
               = IF b \in B /\ Free_(b) /\ l = (IF b + Size(heap, b) = E THEN Wild
                                                ELSE ComputeMemoryIndex(Size(heap, b)))
                 THEN 1 ELSE 0
  <2>1. PICK s : s = heap.lists[l]
    OBVIOUS
  <2>2. s \in Seq(Nat) /\ Once(s)
    BY <1>3, <2>1 DEF Listed
  <2>3. Elems(s) = {c \in Frees(heap.mem, E, B) : Home(heap.mem, E, c) = l}
    BY <1>3, <2>1 DEF Listed
  <2>4. Home(heap.mem, E, b) = IF b + Size(heap, b) = E THEN Wild ELSE ComputeMemoryIndex(Size(heap, b))
    BY DEF Home, After, Size, Header
  <2>5. b \in Frees(heap.mem, E, B) <=> b \in B /\ Free_(b)
    BY <1>1 DEF Frees, Free_, Header
  <2>6. b \in Elems(s) <=> b \in B /\ Free_(b) /\ Home(heap.mem, E, b) = l
    BY <2>3, <2>5
  <2>7. Cardinality({k \in DOMAIN s : s[k] = b}) = IF b \in Elems(s) THEN 1 ELSE 0
    BY <2>2, Times
  <2> QED  BY <2>1, <2>4, <2>6, <2>7
<1> QED  BY <1>1, <1>4 DEF ListsExact

\* The blocks in use are those that clients hold.
LEMMA InvNothingLeaks == IInv => NothingLeaks
<1> SUFFICES ASSUME IInv, heap.pages > 0  PROVE NothingLeaks
  BY DEF NothingLeaks
<1>1. PICK B, E : B = Blocks /\ E = Epilogue(heap)
  OBVIOUS
<1>2. Used(heap, B) = Pointers(live)
  BY <1>1, InUse
<1>3. {b \in B : ~Free_(b)} \ {E} = Used(heap, B)
  BY <1>1 DEF Free_, Header, Used, Allocs
<1>4. ASSUME NEW i \in Ids, live[i] # Nothing
      PROVE  AdjustedSize(live[i].size) <= Size(heap, live[i].ptr)
  <2>1. Holds(heap, live[i], i)
    BY <1>4, HeldIsUsed DEF IInv
  <2> QED  BY <2>1 DEF Holds, Size, Header
<1> QED  BY <1>1, <1>2, <1>3, <1>4 DEF NothingLeaks, Pointers

\* The headers, pal bits and footers always describe one tiling of the heap: the
\* walk from the first block ends at the epilogue, with no two free neighbours.
THEOREM BlocksTile == Spec => []Tiled
BY Invariance, InvTiled, PTL

\* Every free block is in the list of its class, the last one in the list of the
\* wilderness, once; nothing else is in any list.
THEOREM FreeLists == Spec => []ListsExact
BY Invariance, InvListsExact, PTL

\* Every block in use is held by a client that it is large enough for: no piece
\* cut off by sf_realloc or sf_memalign is lost.
THEOREM NoLeak == Spec => []NothingLeaks
BY Invariance, InvNothingLeaks, PTL

-----------------------------------------------------------------------------
(* When sf_malloc fails                                                      *)

\* A block of a class below that of r has fewer rows.
LEMMA SmallClass ==
  ASSUME NEW h, NEW B, Good(h, B), NEW r \in Nat, NEW l \in 0 .. Wild,
         l < ComputeMemoryIndex(r), NEW c \in Elems(h.lists[l])
  PROVE  ~(Size(h, c) >= r)
<1>1. PICK s, R, S : /\ s = Size(h, c)
                     /\ R = {i \in 0 .. Wild - 1 : i = Wild - 1 \/ r <= 2 * 2^i}
                     /\ S = {i \in 0 .. Wild - 1 : i = Wild - 1 \/ s <= 2 * 2^i}
  OBVIOUS
<1>2. ComputeMemoryIndex(r) = Least(R) /\ ComputeMemoryIndex(s) = Least(S)
  BY <1>1 DEF ComputeMemoryIndex
<1>3. Wild \in Nat /\ Wild >= 1 /\ Wild - 1 \in R /\ Wild - 1 \in S
      /\ R \subseteq Nat /\ S \subseteq Nat
  BY <1>1, Bounds
<1>4. Least(R) \in 0 .. Wild - 1 /\ l < Least(R) /\ l \in Nat /\ l < Wild - 1
  <2>1. Least(R) \in R
    BY <1>3, LeastOf
  <2>2. Least(R) \in 0 .. Wild - 1
    BY <1>1, <2>1
  <2>3. l < Least(R)
    BY <1>2
  <2> QED  BY <1>3, <2>2, <2>3
<1>5. s \in Nat /\ l = Least(S)
  <2>1. c \in B /\ c # Epilogue(h) /\ ~h.mem[2 * c].alloc
    BY GoodFacts
  <2>2. h.mem[2 * c].size \in Nat
    BY <2>1, NextOf
  <2>3. l = IF After(h.mem, c) = Epilogue(h) THEN Wild ELSE ComputeMemoryIndex(h.mem[2 * c].size)
    BY <2>1, WildLast
  <2>4. l # Wild
    BY <1>3, <1>4
  <2>5. l = ComputeMemoryIndex(s) /\ s = h.mem[2 * c].size
    BY <1>1, <2>3, <2>4 DEF Size, Header
  <2> QED  BY <1>2, <2>2, <2>5
<1>6. s <= 2 * 2^l
  <2>1. l \in S
    BY <1>3, <1>5, LeastOf
  <2>2. l # Wild - 1
    BY <1>3, <1>4
  <2> QED  BY <1>1, <2>1, <2>2
<1>7. ~(r <= 2 * 2^l)
  <2>1. l \notin R
    <3>1. \A y \in R : Least(R) <= y
      BY <1>3, LeastOf
    <3>2. ~(Least(R) <= l)
      BY <1>4
    <3> QED  BY <3>1, <3>2
  <2>2. l \in 0 .. Wild - 1
    BY <1>3, <1>4
  <2> QED  BY <1>1, <2>1, <2>2
<1>8. s < r
  BY <1>5, <1>6, <1>7
<1>9. ~(s >= r)
  BY <1>5, <1>8
<1> QED  BY <1>1, <1>9

\* What the search does not find is in no list.
LEMMA NothingFits ==
  ASSUME NEW h, NEW B, Good(h, B), NEW r \in Nat, SearchLists(h, r) = {},
         NEW l \in 0 .. Wild, NEW c \in Elems(h.lists[l])
  PROVE  ~(Size(h, c) >= r)
<1>1. CASE l < ComputeMemoryIndex(r)
  BY <1>1, SmallClass
<1>2. CASE ~(l < ComputeMemoryIndex(r))
  <2>1. ComputeMemoryIndex(r) \in 0 .. Wild - 1 /\ Wild \in Nat
    BY IndexRange, Bounds
  <2>2. l \in ComputeMemoryIndex(r) .. Wild
    BY <1>2, <2>1
  <2>3. Fits(h, r, l) = {}
    BY <2>2 DEF SearchLists
  <2>4. PICK k \in DOMAIN h.lists[l] : h.lists[l][k] = c
    BY DEF Elems
  <2> QED  BY <2>3, <2>4 DEF Fits
<1> QED  BY <1>1, <1>2

\* No block of the heap g has r rows, and there are no more pages.
Full(g, r) == g.pages = MaxPages /\ \A l \in 0 .. Wild : Fits(g, r, l) = {}

\* sf_malloc fails only when the heap is full.
LEMMA FullFrom ==
  ASSUME NEW h, NEW B, Good(h, B), NEW n \in Nat, n # 0, NEW a, a = SfMalloc(h, n), a.ptr = NULL
  PROVE  Full(a.heap, AdjustedSize(n))
<1>1. PICK r : r = AdjustedSize(n)
  OBVIOUS
<1>2. r \in Nat
  BY <1>1, AdjustedRange
<1>3. SearchLists(h, r) = {}
  BY <1>1, FoundWorks
<1>4. Enough(h, r) = {}
  BY <1>1, <1>3, GrownWorks
<1>5. h.pages \in 1 .. MaxPages /\ MaxPages \in Nat
  BY GoodFacts, MaxPagesAssumption
<1>6. Initialise(h) = h
  <2>1. h.pages > 0
    BY <1>5
  <2> QED  BY <2>1 DEF Initialise
<1>7. a.heap = CannotGrow(h)
  BY <1>1, <1>3, <1>4, <1>6 DEF SfMalloc
<1>8. \A l \in 0 .. Wild : \A c \in Elems(h.lists[l]) : ~(Size(h, c) >= r)
  BY <1>2, <1>3, NothingFits
<1>9. CASE h.pages = MaxPages
  <2>1. a.heap = h
    BY <1>5, <1>7, <1>9 DEF CannotGrow, Grow
  <2>2. \A l \in 0 .. Wild : Fits(h, r, l) = {}
    BY <1>8 DEF Fits, Elems
  <2> QED  BY <1>1, <1>9, <2>1, <2>2 DEF Full
<1>10. CASE h.pages # MaxPages
  <2>1. PICK m, g : m = MaxPages - h.pages /\ g = Grow(h, m)
    OBVIOUS
  <2>2. m \in 1 .. MaxPages - h.pages /\ h.pages + m = MaxPages /\ m \in Pages(h) \ {0}
    BY <1>5, <1>10, <2>1 DEF Pages
  <2>3. Grown(h, g, B, m)
    BY <2>1, <2>2, GrowWorks
  <2>4. ~(WildernessSize(h) + m * PageRows >= r)
    BY <1>4, <2>2 DEF Enough
  <2>5. a.heap = g /\ g.pages = MaxPages
    BY <1>7, <2>1, <2>2, <2>3 DEF CannotGrow, Grown
  <2>6. ASSUME NEW l \in 0 .. Wild, NEW c \in Elems(g.lists[l])  PROVE ~(Size(g, c) >= r)
    <3>1. CASE l = Wild
      BY <2>3, <2>4, <2>6, <3>1 DEF Grown
    <3>2. CASE l # Wild
      BY <1>8, <2>3, <2>6, <3>2 DEF Grown
    <3> QED  BY <3>1, <3>2
  <2>7. \A l \in 0 .. Wild : Fits(g, r, l) = {}
    BY <2>6 DEF Fits, Elems
  <2> QED  BY <1>1, <2>5, <2>7 DEF Full
<1> QED  BY <1>9, <1>10

\* In a heap in order sf_malloc fails only when nothing fits.
LEMMA InvFailsOnlyWhenFull == IInv => FailsOnlyWhenFull
<1> SUFFICES ASSUME IInv, NEW n \in Sizes \ {0}, SfMalloc(heap, n).ptr = NULL
             PROVE  Full(SfMalloc(heap, n).heap, AdjustedSize(n))
  BY DEF FailsOnlyWhenFull, Full
<1>1. n \in Nat /\ n # 0
  BY SizesAssumption
<1>2. Sound(heap, Pointers(live))
  BY DEF IInv, Clients
<1>3. CASE \E B : Good(heap, B)
  BY <1>1, <1>3, FullFrom
<1>4. CASE Fresh(heap)
  <2>1. PICK g : g = Initialise(heap)
    OBVIOUS
  <2>2. PICK B : Good(g, B)
    BY <1>4, <2>1, InitialiseWorks
  <2>3. Initialise(g) = g
    <3>1. g.pages > 0
      BY <2>2, GoodFacts, MaxPagesAssumption
    <3> QED  BY <3>1 DEF Initialise
  <2>4. SfMalloc(heap, n) = SfMalloc(g, n)
    BY <2>1, <2>3 DEF SfMalloc
  <2>5. PICK a : a = SfMalloc(g, n)
    OBVIOUS
  <2>6. a.ptr = NULL
    BY <2>4, <2>5
  <2>7. Full(a.heap, AdjustedSize(n))
    BY <1>1, <2>2, <2>5, <2>6, FullFrom
  <2> QED  BY <2>4, <2>5, <2>7
<1> QED  BY <1>2, <1>3, <1>4 DEF Sound

\* sf_malloc answers NULL only when all pages are in use and no free block, in
\* whichever list, is large enough: searching from the class of the size upwards
\* misses none.
THEOREM FailsWhenFull == Spec => []FailsOnlyWhenFull
BY Invariance, InvFailsOnlyWhenFull, PTL

-----------------------------------------------------------------------------
(* The heap implements the allocator of Allocator.tla                        *)

\* What the abstract allocator sees of a client's record and data.
Region(v) == [start |-> IF v = Nothing THEN 0 ELSE 2 * v.ptr + 1, len |-> v.size]
Regions(l) == [i \in Ids |-> Region(l[i])]
Intact(h, v, i) == Cardinality({k \in 1 .. v.written : h.mem[2 * v.ptr + k].id = i})
Intacts(h, l) == [i \in Ids |-> Intact(h, l[i], i)]

\* All that a client has written is still there.
LEMMA AllIntact ==
  ASSUME NEW h, NEW l, Clients(h, l)
  PROVE  Intacts(h, l) = [i \in Ids |-> l[i].written]
<1>1. ASSUME NEW i \in Ids  PROVE Intact(h, l[i], i) = l[i].written
  <2>1. PICK v, S : /\ v = l[i]
                    /\ S = {k \in 1 .. v.written : h.mem[2 * v.ptr + k].id = i}
    OBVIOUS
  <2>2. v \in Holding /\ (v = Nothing \/ Holds(h, v, i))
    BY <2>1 DEF Clients
  <2>3. v.written \in Nat
    BY <2>2 DEF Holding
  <2>4. \A k \in 1 .. v.written : h.mem[2 * v.ptr + k].id = i
    <3>1. CASE v = Nothing
      <4>1. v.written = 0
        BY <3>1 DEF Nothing, Held
      <4> QED  BY <4>1
    <3>2. CASE Holds(h, v, i)
      BY <3>2 DEF Holds
    <3> QED  BY <2>2, <3>1, <3>2
  <2>5. S = 1 .. v.written
    BY <2>1, <2>4
  <2>6. Cardinality(1 .. v.written) = v.written
    BY <2>3, FS_Interval
  <2> QED  BY <2>1, <2>5, <2>6 DEF Intact
<1> QED  BY <1>1 DEF Intacts

\* The words a client asked for are words of its block.
LEMMA RegionFits ==
  ASSUME NEW h, NEW l, Clients(h, l), NEW B, Good(h, B), Used(h, B) = Pointers(l),
         NEW i \in Ids, l[i] # Nothing, NEW e, e = After(h.mem, l[i].ptr)
  PROVE  /\ UsedAt(h, B, l[i].ptr, e) /\ l[i].ptr \in Nat /\ e \in Nat /\ l[i].size \in Nat
         /\ l[i].ptr >= 2 /\ 2 * l[i].ptr + 1 + l[i].size <= 2 * e /\ e < Rows /\ Rows \in Nat
<1>1. PICK p, n, z : p = l[i].ptr /\ n = l[i].size /\ z = Size(h, p)
  OBVIOUS
<1>2. p \in Used(h, B) /\ n \in Nat /\ Holds(h, l[i], i)
  <2>1. l[i].ptr \in Pointers(l) /\ l[i] \in Holding /\ Holds(h, l[i], i)
    BY HeldIsUsed
  <2> QED  BY <1>1, <2>1 DEF Holding
<1>3. UsedAt(h, B, p, e)
  BY <1>1, <1>2, UsedPlace
<1>4. /\ p \in Nat /\ e \in Nat /\ p >= 2 /\ e = p + z /\ e < Rows /\ Rows \in Nat
      /\ z = h.mem[2 * p].size
  BY <1>1, <1>3 DEF UsedAt
<1>5. z \in Nat
  <2>1. p \in B /\ p # Epilogue(h)
    BY <1>3 DEF UsedAt
  <2> QED  BY <1>4, <2>1, NextOf
<1>6. PICK r : r = AdjustedSize(n)
  OBVIOUS
<1>7. r \in Nat /\ n + 1 <= 2 * r
  BY <1>2, <1>6, AdjustedRange
<1>8. z >= r
  BY <1>1, <1>2, <1>4, <1>6 DEF Holds
<1>9. 2 * p + 1 + n <= 2 * e
  BY <1>2, <1>4, <1>5, <1>7, <1>8
<1> QED  BY <1>1, <1>2, <1>3, <1>4, <1>9

\* No two clients hold the same word.
LEMMA RegionsApart ==
  ASSUME NEW h, NEW l, Clients(h, l), NEW i \in Ids, NEW j \in Ids, i # j,
         l[i] # Nothing, l[j] # Nothing
  PROVE  A!Disjoint(Region(l[i]), Region(l[j]))
<1>1. PICK B : Good(h, B) /\ Used(h, B) = Pointers(l)
  BY HeldIsUsed
<1>2. PICK p, q, d, e, m, n : /\ p = l[i].ptr /\ q = l[j].ptr
                              /\ d = After(h.mem, p) /\ e = After(h.mem, q)
                              /\ m = l[i].size /\ n = l[j].size
  OBVIOUS
<1>3. /\ UsedAt(h, B, p, d) /\ p \in Nat /\ d \in Nat /\ m \in Nat /\ 2 * p + 1 + m <= 2 * d
  BY <1>1, <1>2, RegionFits
<1>4. /\ UsedAt(h, B, q, e) /\ q \in Nat /\ e \in Nat /\ n \in Nat /\ 2 * q + 1 + n <= 2 * e
  BY <1>1, <1>2, RegionFits
<1>5. p # q
  BY <1>2, HeldIsUsed DEF Clients
<1>6. q < p \/ q >= d
  BY <1>3, <1>4, <1>5 DEF UsedAt
<1>7. p < q \/ p >= e
  BY <1>3, <1>4, <1>5 DEF UsedAt
<1>8. 2 * q + 1 + n <= 2 * p + 1 \/ 2 * p + 1 + m <= 2 * q + 1
  BY <1>3, <1>4, <1>6, <1>7
<1>9. /\ Region(l[i]).start = 2 * p + 1 /\ Region(l[i]).len = m
      /\ Region(l[j]).start = 2 * q + 1 /\ Region(l[j]).len = n
  BY <1>2 DEF Region
<1> QED  BY <1>8, <1>9 DEF A!Disjoint

\* A client is given a region of memory that is nobody's.
LEMMA ClientPlaced ==
  ASSUME NEW h, NEW l, Clients(h, l), NEW i \in Ids, NEW n \in Sizes, NEW p, NEW w,
         p # NULL, l[i] = Held(p, n, w)
  PROVE  /\ n # 0 /\ Region(l[i]) \in A!Regions
         /\ Region(l[i]).start + Region(l[i]).len - 1 <= 2 * PageRows * MaxPages
         /\ \A j \in Ids \ {i} : Region(l[j]) = A!None \/ A!Disjoint(Region(l[i]), Region(l[j]))
<1>1. l[i] # Nothing /\ l[i].ptr = p /\ l[i].size = n
  BY DEF Nothing, Held
<1>2. PICK B : Good(h, B) /\ Used(h, B) = Pointers(l)
  BY <1>1, HeldIsUsed
<1>3. PICK e : e = After(h.mem, p)
  OBVIOUS
<1>4. /\ p \in Nat /\ e \in Nat /\ n \in Nat /\ p >= 2 /\ 2 * p + 1 + n <= 2 * e
      /\ e < Rows /\ Rows \in Nat
  BY <1>1, <1>2, <1>3, RegionFits
<1>5. n >= 1
  BY <1>1, HeldIsUsed DEF Holds
<1>6. 2 * Rows = 2 * PageRows * MaxPages
  BY PageAssumption, MaxPagesAssumption DEF Rows
<1>7. Region(l[i]) = [start |-> 2 * p + 1, len |-> n]
  BY <1>1 DEF Region
<1>8. 2 * p + 1 \in 1 .. 2 * Rows /\ 2 * p + 1 + n - 1 <= 2 * Rows
  BY <1>4
<1>9. Region(l[i]) \in A!Regions
  BY <1>4, <1>5, <1>6, <1>7, <1>8 DEF A!Regions
<1>10. ASSUME NEW j \in Ids \ {i}
       PROVE  Region(l[j]) = A!None \/ A!Disjoint(Region(l[i]), Region(l[j]))
  <2>1. CASE l[j] = Nothing
    BY <2>1 DEF Region, A!None, Nothing, Held
  <2>2. CASE l[j] # Nothing
    BY <1>1, <2>2, RegionsApart
  <2> QED  BY <2>1, <2>2
<1> QED  BY <1>4, <1>5, <1>6, <1>7, <1>8, <1>9, <1>10

\* What a client holds begins after the prologue.
LEMMA HeldStarts ==
  ASSUME NEW h, NEW l, Clients(h, l), NEW i \in Ids, l[i] # Nothing
  PROVE  Region(l[i]).start # 0
<1>1. PICK B : Good(h, B) /\ Used(h, B) = Pointers(l)
  BY HeldIsUsed
<1>2. l[i].ptr \in Nat
  BY <1>1, RegionFits
<1> QED  BY <1>2 DEF Region

\* The step of client i that leaves it with a block is a step of the allocator.
LEMMA PlaceStep ==
  ASSUME Clients(heap, live), Clients(heap', live'), NEW i \in Ids, NEW n \in Sizes, NEW p,
         NEW w, p # NULL, live' = [live EXCEPT ![i] = Held(p, n, w)]
  PROVE  /\ live[i] = Nothing /\ w = n => A!Grant(i)
         /\ live[i] # Nothing /\ w = (IF live[i].written < n THEN live[i].written ELSE n)
              => A!Resize(i)
<1>1. PICK R, S, K, L : /\ R = Regions(live) /\ S = Regions(live')
                        /\ K = Intacts(heap, live) /\ L = Intacts(heap', live')
  OBVIOUS
<1>2. /\ live \in [Ids -> Holding] /\ live'[i] = Held(p, n, w)
      /\ \A j \in Ids \ {i} : live'[j] = live[j]
  BY DEF Clients
<1>3. /\ Region(live'[i]) \in A!Regions
      /\ Region(live'[i]).start + Region(live'[i]).len - 1 <= 2 * PageRows * MaxPages
      /\ \A j \in Ids \ {i} :
           Region(live'[j]) = A!None \/ A!Disjoint(Region(live'[i]), Region(live'[j]))
  BY <1>2, ClientPlaced
<1>4. /\ S[i] \in A!Regions /\ S[i].start + S[i].len - 1 <= 2 * PageRows * MaxPages
      /\ \A j \in Ids \ {i} : R[j] = A!None \/ A!Disjoint(S[i], R[j])
  <2>1. S[i] = Region(live'[i])
    BY <1>1 DEF Regions
  <2>2. \A j \in Ids \ {i} : R[j] = Region(live'[j])
    BY <1>1, <1>2 DEF Regions
  <2> QED  BY <1>3, <2>1, <2>2
<1>5. S = [R EXCEPT ![i] = S[i]]
  BY <1>1, <1>2 DEF Regions
<1>6. S[i].len = n
  BY <1>1, <1>2 DEF Regions, Region, Held
<1>7. L = [K EXCEPT ![i] = w] /\ K[i] = live[i].written
  <2>1. Intacts(heap, live) = [j \in Ids |-> live[j].written]
    BY AllIntact
  <2>2. PICK g, l : g = heap' /\ l = live'
    OBVIOUS
  <2>3. Clients(g, l)
    BY <2>2
  <2>4. Intacts(g, l) = [j \in Ids |-> l[j].written]
    BY <2>3, AllIntact
  <2>5. Intacts(heap', live') = [j \in Ids |-> live'[j].written]
    BY <2>2, <2>4
  <2>6. K = [j \in Ids |-> live[j].written] /\ L = [j \in Ids |-> live'[j].written]
    BY <1>1, <2>1, <2>5
  <2>7. live'[i].written = w
    BY <1>2 DEF Held
  <2> QED  BY <1>2, <2>6, <2>7
<1>8. A!Place(i)
  <2>1. R = [j \in Ids |-> [start |-> IF live[j] = Nothing THEN 0 ELSE 2 * live[j].ptr + 1,
                            len |-> live[j].size]]
    BY <1>1 DEF Regions, Region
  <2>2. S = [j \in Ids |-> [start |-> IF live'[j] = Nothing THEN 0 ELSE 2 * live'[j].ptr + 1,
                            len |-> live'[j].size]]
    BY <1>1 DEF Regions, Region
  <2> QED  BY <1>4, <1>5, <2>1, <2>2 DEF A!Place
<1>9. ASSUME live[i] = Nothing, w = n  PROVE A!Grant(i)
  <2>1. R[i] = A!None
    BY <1>1, <1>9 DEF Regions, Region, A!None, Nothing, Held
  <2>2. L = [K EXCEPT ![i] = S[i].len]
    BY <1>6, <1>7, <1>9
  <2> QED  BY <1>1, <1>8, <2>1, <2>2 DEF A!Grant, Regions, Region, Intacts, Intact
<1>10. ASSUME live[i] # Nothing, w = (IF live[i].written < n THEN live[i].written ELSE n)
       PROVE  A!Resize(i)
  <2>1. R[i] # A!None
    BY <1>1, <1>10, HeldStarts DEF Regions, A!None
  <2>2. L = [K EXCEPT ![i] = IF @ < S[i].len THEN @ ELSE S[i].len]
    BY <1>6, <1>7, <1>10
  <2> QED  BY <1>1, <1>8, <2>1, <2>2 DEF A!Resize, Regions, Region, Intacts, Intact
<1> QED  BY <1>9, <1>10

\* The step of client i that leaves it without one.
LEMMA ReleaseStep ==
  ASSUME Clients(heap, live), Clients(heap', live'), NEW i \in Ids, live[i] # Nothing,
         live' = [live EXCEPT ![i] = Nothing]
  PROVE  A!Release(i)
<1>1. PICK R, S, K, L : /\ R = Regions(live) /\ S = Regions(live')
                        /\ K = Intacts(heap, live) /\ L = Intacts(heap', live')
  OBVIOUS
<1>2. /\ live \in [Ids -> Holding] /\ live'[i] = Nothing
      /\ \A j \in Ids \ {i} : live'[j] = live[j]
  BY DEF Clients
<1>3. Region(Nothing) = A!None /\ Nothing.written = 0
  BY DEF Region, A!None, Nothing, Held
<1>4. S = [R EXCEPT ![i] = A!None]
  BY <1>1, <1>2, <1>3 DEF Regions
<1>5. L = [K EXCEPT ![i] = 0]
  <2>1. Intacts(heap, live) = [j \in Ids |-> live[j].written]
    BY AllIntact
  <2>2. PICK g, l : g = heap' /\ l = live'
    OBVIOUS
  <2>3. Clients(g, l)
    BY <2>2
  <2>4. Intacts(g, l) = [j \in Ids |-> l[j].written]
    BY <2>3, AllIntact
  <2>5. Intacts(heap', live') = [j \in Ids |-> live'[j].written]
    BY <2>2, <2>4
  <2>6. K = [j \in Ids |-> live[j].written] /\ L = [j \in Ids |-> live'[j].written]
    BY <1>1, <2>1, <2>5
  <2> QED  BY <1>2, <1>3, <2>6
<1>6. R[i] # A!None
  BY <1>1, HeldStarts DEF Regions, A!None
<1> QED  BY <1>1, <1>4, <1>5, <1>6 DEF A!Release, Regions, Region, Intacts, Intact

\* A step that changes no client's record changes nothing of what they see.
LEMMA StaysAbstract ==
  ASSUME Clients(heap, live), Clients(heap', live'), live' = live
  PROVE  UNCHANGED A!vars
<1>1. PICK R, S, K, L : /\ R = Regions(live) /\ S = Regions(live')
                        /\ K = Intacts(heap, live) /\ L = Intacts(heap', live')
  OBVIOUS
<1>2. S = R
  BY <1>1
<1>3. L = K
  <2>1. Intacts(heap, live) = [j \in Ids |-> live[j].written]
    BY AllIntact
  <2>2. PICK g, l : g = heap' /\ l = live'
    OBVIOUS
  <2>3. Clients(g, l)
    BY <2>2
  <2>4. Intacts(g, l) = [j \in Ids |-> l[j].written]
    BY <2>3, AllIntact
  <2>5. Intacts(heap', live') = [j \in Ids |-> live'[j].written]
    BY <2>2, <2>4
  <2>6. K = [j \in Ids |-> live[j].written] /\ L = [j \in Ids |-> live'[j].written]
    BY <1>1, <2>1, <2>5
  <2> QED  BY <2>6
<1> QED  BY <1>1, <1>2, <1>3 DEF A!vars, Regions, Region, Intacts, Intact

\* Every step of the heap is a step of the allocator, or shows nothing.
LEMMA AllocatorStep ==
  ASSUME IInv, IInv', [Next]_vars
  PROVE  [A!Next]_(A!vars)
<1>1. Clients(heap, live) /\ Clients(heap', live')
  BY DEF IInv
<1>2. ASSUME NEW i \in Ids, Free(i)  PROVE A!Next
  <2>1. A!Release(i)
    BY <1>1, <1>2, ReleaseStep DEF Free
  <2> QED  BY <2>1 DEF A!Next
<1>3. ASSUME NEW i \in Ids, NEW n \in Sizes, NEW a, live[i] = Nothing, Obtain(i, n, a)
      PROVE  [A!Next]_(A!vars)
  <2>1. CASE a.ptr = NULL
    <3>1. live' = live
      BY <1>3, <2>1 DEF Obtain
    <3> QED  BY <1>1, <3>1, StaysAbstract
  <2>2. CASE a.ptr # NULL
    <3>1. PICK p : p = a.ptr
      OBVIOUS
    <3>2. live' = [live EXCEPT ![i] = Held(p, n, n)]
      BY <1>3, <2>2, <3>1 DEF Obtain
    <3>3. A!Grant(i)
      BY <1>1, <1>3, <2>2, <3>1, <3>2, PlaceStep
    <3> QED  BY <3>3 DEF A!Next
  <2> QED  BY <2>1, <2>2
<1>4. ASSUME NEW i \in Ids, NEW n \in Sizes, Malloc(i, n)  PROVE [A!Next]_(A!vars)
  <2>1. PICK a : a = SfMalloc(heap, n)
    OBVIOUS
  <2>2. live[i] = Nothing /\ Obtain(i, n, a)
    BY <1>4, <2>1 DEF Malloc
  <2> QED  BY <1>3, <2>2
<1>5. ASSUME NEW i \in Ids, NEW n \in Sizes, NEW al \in Aligns, Memalign(i, n, al)
      PROVE  [A!Next]_(A!vars)
  <2>1. PICK a : a = SfMemalign(heap, n, al)
    OBVIOUS
  <2>2. live[i] = Nothing /\ Obtain(i, n, a)
    BY <1>5, <2>1 DEF Memalign
  <2> QED  BY <1>3, <2>2
<1>6. ASSUME NEW i \in Ids, NEW n \in Sizes, Realloc(i, n)  PROVE [A!Next]_(A!vars)
  <2>1. PICK a, w : a = SfRealloc(heap, live[i].ptr, n) /\ w = live[i].written
    OBVIOUS
  <2>2. /\ live[i] # Nothing
        /\ live' = [live EXCEPT ![i] =
             IF n = 0 THEN Nothing
             ELSE IF a.ptr = NULL THEN live[i]
             ELSE Held(a.ptr, n, IF w < n THEN w ELSE n)]
    BY <1>6, <2>1 DEF Realloc
  <2>3. CASE n = 0
    <3>1. live' = [live EXCEPT ![i] = Nothing]
      BY <2>2, <2>3
    <3>2. A!Release(i)
      BY <1>1, <2>2, <3>1, ReleaseStep
    <3> QED  BY <3>2 DEF A!Next
  <2>4. CASE n # 0 /\ a.ptr = NULL
    <3>1. live \in [Ids -> Holding]
      BY <1>1 DEF Clients
    <3>2. live' = live
      BY <2>2, <2>4, <3>1
    <3> QED  BY <1>1, <3>2, StaysAbstract
  <2>5. CASE n # 0 /\ a.ptr # NULL
    <3>1. PICK p, u : p = a.ptr /\ u = IF w < n THEN w ELSE n
      OBVIOUS
    <3>2. live' = [live EXCEPT ![i] = Held(p, n, u)]
      BY <2>2, <2>5, <3>1
    <3>3. A!Resize(i)
      BY <1>1, <2>1, <2>2, <2>5, <3>1, <3>2, PlaceStep
    <3> QED  BY <3>3 DEF A!Next
  <2> QED  BY <2>3, <2>4, <2>5
<1>7. ASSUME UNCHANGED vars  PROVE UNCHANGED A!vars
  <2>1. live' = live
    BY <1>7 DEF vars
  <2> QED  BY <1>1, <2>1, StaysAbstract
<1> QED  BY <1>2, <1>4, <1>5, <1>6, <1>7 DEF Next

\* Nobody holds anything at first.
LEMMA AllocatorInit == Init => A!Init
<1> SUFFICES ASSUME Init  PROVE A!Init
  OBVIOUS
<1>1. IInv
  BY InitIInv
<1>2. PICK R, K : R = Regions(live) /\ K = Intacts(heap, live)
  OBVIOUS
<1>3. \A i \in Ids : live[i] = Nothing
  BY DEF Init
<1>4. R = [i \in Ids |-> A!None]
  BY <1>2, <1>3 DEF Regions, Region, A!None, Nothing, Held
<1>5. K = [i \in Ids |-> 0]
  <2>1. K = [i \in Ids |-> live[i].written]
    BY <1>1, <1>2, AllIntact DEF IInv
  <2> QED  BY <1>3, <2>1 DEF Nothing, Held
<1> QED  BY <1>2, <1>4, <1>5 DEF A!Init, Regions, Region, Intacts, Intact

\* The heap keeps the promise of sfmm.h: whatever the clients allocate, resize,
\* align and free, in any order, what one of them holds overlaps nothing that
\* another holds and keeps the data that was written into it.
THEOREM Refines == Spec => Implements
<1>1. Init => A!Init
  BY AllocatorInit
<1>2. IInv /\ IInv' /\ [Next]_vars => [A!Next]_(A!vars)
  BY AllocatorStep
<1> QED  BY <1>1, <1>2, Invariance, PTL DEF Spec, Implements, A!Spec
=============================================================================
