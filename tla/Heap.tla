-------------------------------- MODULE Heap --------------------------------
(***************************************************************************)
(* The sfmm heap allocator (hw3/src/sfmm.c, helpingFunction.c): boundary   *)
(* tags, segregated free lists with first fit, a wilderness block that     *)
(* grows page by page, immediate coalescing, realloc and memalign.         *)
(*                                                                         *)
(* A block is named by its row: block b has its header 16b + 8 bytes after *)
(* sf_mem_start().  Memory is an array of 8-byte words counted from that   *)
(* of the prologue's header, so the header of b is word 2b, its payload    *)
(* starts at word 2b+1 and the footer of a free block of s rows is word    *)
(* 2(b+s)-1.  Sizes asked for are in words: the code rounds bytes up to    *)
(* rows, which gives the same rows for a size and its words.  A free list  *)
(* is a sequence of blocks; its two-way links are abstracted, and so is    *)
(* sf_errno, which only tells why a call returned NULL.                    *)
(***************************************************************************)
EXTENDS Naturals, Sequences, FiniteSets, SequencesExt

CONSTANTS PageRows,   \* rows of one page, PAGE_SZ / 16
          MaxPages,   \* pages that sf_mem_grow can hand out
          NumLists,   \* NUM_FREE_LISTS
          HeapStart,  \* address of the heap, in words
          Ids,        \* client allocations, at most one block each (bound)
          NoId,
          Sizes,      \* sizes clients ask for, in words (bound)
          Aligns      \* alignments clients ask for, in words (bound)

ASSUME PageAssumption == PageRows \in Nat /\ PageRows >= 5
ASSUME MaxPagesAssumption == MaxPages \in Nat \ {0}
ASSUME NumListsAssumption == NumLists \in Nat /\ NumLists >= 2
ASSUME StartAssumption == HeapStart \in Nat /\ HeapStart % 2 = 0
ASSUME IdsAssumption == NoId \notin Ids
ASSUME SizesAssumption == Sizes \subseteq Nat /\ Aligns \subseteq Nat

VARIABLES heap,  \* [mem, pages, lists, aborted]
          live   \* live[i]: the block i holds, the words it asked for, and
                 \* how many of them it has written
vars == <<heap, live>>

NULL == 0                                \* no payload is in the prologue
Held(b, n, w) == [ptr |-> b, size |-> n, written |-> w]
Nothing == Held(NULL, 0, 0)

\* a word: a header or footer, or a client's data, which read as a header is 0
Tag(size, alloc, pal) ==
  [size |-> size, alloc |-> alloc, pal |-> pal, id |-> NoId]
Data(i) == [size |-> 0, alloc |-> FALSE, pal |-> FALSE, id |-> i]

WordsOf(pages) == 0 .. 2 * PageRows * pages - 2
Epilogue(h) == PageRows * h.pages - 1
Wild == NumLists - 1                     \* the list of the wilderness block

Header(h, b) == h.mem[2 * b]
Size(h, b) == Header(h, b).size
SetHeader(h, b, size, alloc, pal) ==
  [h EXCEPT !.mem[2 * b] = Tag(size, alloc, pal)]
SetPal(h, b, pal) == [h EXCEPT !.mem[2 * b].pal = pal]
\* the words of a block that nobody has written, or may read, hold no data
Clear(h, b, size) ==
  [h EXCEPT !.mem = [w \in DOMAIN @ |->
     IF w \in 2 * b + 1 .. 2 * (b + size) - 1 THEN Data(NoId) ELSE @[w]]]
\* a free block has a footer, a copy of its header
SetFree(h, b, size, pal) ==
  [Clear(h, b, size) EXCEPT !.mem[2 * b] = Tag(size, FALSE, pal),
                            !.mem[2 * (b + size) - 1] = Tag(size, FALSE, pal)]
SetNewEpilogue(h) == SetHeader(h, Epilogue(h), 0, TRUE, FALSE)

\* unlinking a block from the list it is in, and inserting one in front
Unlink(s, b) == IF \E k \in DOMAIN s : s[k] = b
                THEN RemoveAt(s, CHOOSE k \in DOMAIN s : s[k] = b) ELSE s
Cut(h, b) == [h EXCEPT !.lists = [l \in DOMAIN @ |-> Unlink(@[l], b)]]
Push(h, l, b) == [h EXCEPT !.lists[l] = <<b>> \o @]
SetWilderness(h, b) == [h EXCEPT !.lists[Wild] = <<b>>]

-----------------------------------------------------------------------------
(* helpingFunction.c *)

\* computeMemorySize: the header and the payload, in rows
ComputeMemorySize(n) == (n + 2) \div 2
AdjustedSize(n) == IF n <= 3 THEN 2 ELSE ComputeMemorySize(n)

Least(S) == CHOOSE x \in S : \A y \in S : x <= y

\* computeMemoryIndex: the class of a block of r rows
ComputeMemoryIndex(r) ==
  Least({i \in 0 .. Wild - 1 : i = Wild - 1 \/ r <= 2 * 2^i})

LeaveSplinter(h, b, r) == Size(h, b) - r < 2
\* powerOf2: halved down to 1 without a remainder
PowerOf2(a) == a > 0 /\ \A d \in 2 .. a : a % d = 0 => d % 2 = 0

-----------------------------------------------------------------------------
(* sf_malloc *)

\* the first call makes the heap: prologue, one free block, epilogue
Initialise(h) ==
  IF h.pages > 0 THEN h
  ELSE LET g == [h EXCEPT !.pages = 1]
       IN SetWilderness(
            SetFree(SetNewEpilogue(SetHeader(g, 0, 2, TRUE, FALSE)),
                    2, PageRows - 3, TRUE), 2)

\* first fit, from the list of the class of r upwards
Fits(h, r, l) == {k \in DOMAIN h.lists[l] : Size(h, h.lists[l][k]) >= r}
\* mutant: the search starts one class too high
SearchAbove(h, r) ==
  {l \in ComputeMemoryIndex(r) + 1 .. Wild : Fits(h, r, l) # {}}
SearchLists(h, r) ==
  {l \in ComputeMemoryIndex(r) .. Wild : Fits(h, r, l) # {}}
FirstFit(h, r) == LET l == Least(SearchLists(h, r))
                  IN [list |-> l, block |-> h.lists[l][Least(Fits(h, r, l))]]

\* n more pages, merged with the wilderness or started at the old epilogue
Grow(h, n) ==
  LET old == h.lists[Wild]
      w == IF old = <<>> THEN Epilogue(h) ELSE old[1]
      size == n * PageRows + IF old = <<>> THEN 0 ELSE Size(h, w)
      pal == old = <<>> \/ Header(h, w).pal
      g == [h EXCEPT !.pages = @ + n]
  IN IF n = 0 THEN h
     ELSE SetWilderness(SetNewEpilogue(SetFree(g, w, size, pal)), w)

\* pages are added one by one until the wilderness is large enough
Pages(h) == 0 .. MaxPages - h.pages
WildernessSize(h) == IF h.lists[Wild] = <<>> THEN 0 ELSE Size(h, h.lists[Wild][1])
Enough(h, r) == {n \in Pages(h) \ {0} : WildernessSize(h) + n * PageRows >= r}
CannotGrow(h) == Grow(h, MaxPages - h.pages)

\* mutant: the block is not marked
TakeWholeUnmarked(h, b) ==
  SetPal(Clear(Cut(h, b), b, Size(h, b)), b + Size(h, b), TRUE)

\* the block is taken whole when what is left would be a splinter
TakeWhole(h, b) ==
  LET g == [Cut(h, b) EXCEPT !.mem[2 * b].alloc = TRUE]
  IN SetPal(Clear(g, b, Size(h, b)), b + Size(h, b), TRUE)

\* or split, the rest going to the wilderness it came from or to its class
Split(h, b, l, r) ==
  LET rest == b + r
      left == Size(h, b) - r
      g == SetFree(SetHeader(Clear(h, b, r), b, r, TRUE, Header(h, b).pal), rest, left, TRUE)
  IN IF l = Wild
     THEN [g EXCEPT !.lists[Wild] = [k \in DOMAIN @ |-> IF @[k] = b THEN rest ELSE @[k]]]
     ELSE Push(Cut(g, b), ComputeMemoryIndex(left), rest)

AllocateAt(h, b, l, r) ==
  [heap |-> IF LeaveSplinter(h, b, r) THEN TakeWhole(h, b) ELSE Split(h, b, l, r),
   ptr |-> b]

SfMalloc(h0, n) ==
  LET h == Initialise(h0)
      r == AdjustedSize(n)
      f == FirstFit(h, r)
      g == Grow(h, Least(Enough(h, r)))
  IN IF n = 0 THEN [heap |-> h, ptr |-> NULL]
     ELSE IF SearchLists(h, r) # {} THEN AllocateAt(h, f.block, f.list, r)
     ELSE IF Enough(h, r) # {} THEN AllocateAt(g, g.lists[Wild][1], Wild, r)
     ELSE [heap |-> CannotGrow(h), ptr |-> NULL]

-----------------------------------------------------------------------------
(* sf_free *)

\* the block before a block whose pal is 0, found from its footer
Previous(h, b) == b - h.mem[2 * b - 1].size

\* the checks on a pointer, the same in sf_free and sf_realloc
ValidPointer(h, b) ==
  /\ b >= 2 /\ b < Epilogue(h)
  /\ Size(h, b) >= 2 /\ Header(h, b).alloc
  /\ b + Size(h, b) <= Epilogue(h)
  /\ Header(h, b).pal \/ ~Header(h, Previous(h, b)).alloc

\* where the freed block begins once merged with the block before, and the
\* heap without that block in its list
Start(h, b) == IF Header(h, b).pal THEN b ELSE Previous(h, b)
WithoutPrevious(h, b) == IF Header(h, b).pal THEN h ELSE Cut(h, Previous(h, b))

\* the last block: it, or it and the one before, is the new wilderness
FreeLast(h, b) ==
  LET s == Start(h, b)
      end == b + Size(h, b)
      g == SetNewEpilogue(SetFree(WithoutPrevious(h, b), s, end - s, Header(h, s).pal))
  IN IF Header(h, b).pal THEN Push(g, Wild, s) ELSE SetWilderness(g, s)

\* mutant: the pal bit of the next block stays
FreeKeepsPal(h, b) ==
  LET s == Start(h, b)
      next == b + Size(h, b)
      g == SetFree(WithoutPrevious(h, b), s, next - s, Header(h, s).pal)
  IN Push(g, ComputeMemoryIndex(next - s), s)

\* the next block is allocated
FreeBeforeAllocated(h, b) ==
  LET s == Start(h, b)
      next == b + Size(h, b)
      g == SetFree(WithoutPrevious(h, b), s, next - s, Header(h, s).pal)
  IN Push(SetPal(g, next, FALSE), ComputeMemoryIndex(next - s), s)

\* mutant: the next block stays in its list
FreeKeepsNext(h, b) ==
  LET s == Start(h, b)
      next == b + Size(h, b)
      end == next + Size(h, next)
      g == SetFree(WithoutPrevious(h, b), s, end - s, Header(h, s).pal)
  IN IF Size(h, end) = 0 THEN SetWilderness(g, s)
     ELSE Push(SetPal(g, end, FALSE), ComputeMemoryIndex(end - s), s)

\* the next block is free: perhaps the wilderness, which then takes the block
FreeBeforeFree(h, b) ==
  LET s == Start(h, b)
      next == b + Size(h, b)
      end == next + Size(h, next)
      g == SetFree(WithoutPrevious(h, b), s, end - s, Header(h, s).pal)
  IN IF Size(h, end) = 0 THEN SetWilderness(g, s)
     ELSE Push(SetPal(Cut(g, next), end, FALSE), ComputeMemoryIndex(end - s), s)

SfFree(h, b) ==
  LET next == b + Size(h, b)
  IN IF ~ValidPointer(h, b) THEN [h EXCEPT !.aborted = TRUE]
     ELSE IF Size(h, next) = 0 THEN FreeLast(h, b)
     ELSE IF Header(h, next).alloc THEN FreeBeforeAllocated(h, b)
     ELSE FreeBeforeFree(h, b)

-----------------------------------------------------------------------------
(* sf_realloc *)

\* mutant: copying starts at the header
CopyFromHeader(h, from, to) ==
  [h EXCEPT !.mem = [w \in DOMAIN @ |->
     IF w \in 2 * to + 1 .. 2 * (to + Size(h, from)) - 1
     THEN @[w - 2 * to + 2 * from - 1] ELSE @[w]]]

\* memcpy(to, from, blockLength - 8)
CopyBlock(h, from, to) ==
  [h EXCEPT !.mem = [w \in DOMAIN @ |->
     IF w \in 2 * to + 1 .. 2 * (to + Size(h, from)) - 1
     THEN @[w - 2 * to + 2 * from] ELSE @[w]]]

ReallocLarger(h, b, n) ==
  LET a == SfMalloc(h, n)
  IN IF a.ptr = NULL THEN a
     ELSE [heap |-> SfFree(CopyBlock(a.heap, b, a.ptr), b), ptr |-> a.ptr]

\* mutant: what is cut off is not freed
ReallocKeepsRest(h, b, r) ==
  LET left == Size(h, b) - r
      g == SetHeader(SetHeader(h, b, r, TRUE, Header(h, b).pal),
                     b + r, left, TRUE, TRUE)
  IN [heap |-> IF left < 2 THEN h ELSE g, ptr |-> b]

ReallocSmaller(h, b, r) ==
  LET left == Size(h, b) - r
      g == SetHeader(SetHeader(h, b, r, TRUE, Header(h, b).pal),
                     b + r, left, TRUE, TRUE)
  IN [heap |-> IF left < 2 THEN h ELSE SfFree(g, b + r), ptr |-> b]

SfRealloc(h, b, n) ==
  LET r == AdjustedSize(n)
  IN IF ~ValidPointer(h, b)
     THEN [heap |-> h, ptr |-> NULL]
     ELSE IF n = 0 THEN [heap |-> SfFree(h, b), ptr |-> NULL]
     ELSE IF r > Size(h, b) THEN ReallocLarger(h, b, n)
     ELSE ReallocSmaller(h, b, r)

-----------------------------------------------------------------------------
(* sf_memalign *)

Payload(b) == HeapStart + 2 * b + 2      \* the address of b's payload
Aligned(b, al) == Payload(b) % al = 0

\* the larger block is cut before the aligned address and after the payload
CutAligned(h, b, n, al) ==
  LET size == Size(h, b)
      m == Least({c \in b + 2 .. b + size : Aligned(c, al)})
      r == ComputeMemorySize(n)
      left == b + size - m - r
      front == SetHeader(h, b, m - b, TRUE, Header(h, b).pal)
  IN IF left < 2
     THEN [heap |-> SfFree(SetHeader(front, m, b + size - m, TRUE, TRUE), b),
           ptr |-> m]
     ELSE [heap |-> SfFree(SfFree(SetHeader(SetHeader(front, m + r, left, TRUE, TRUE),
                                            m, r, TRUE, TRUE), b), m + r),
           ptr |-> m]

\* it is the size, not the alignment, that is compared with the least block
SfMemalign(h, n, al) ==
  LET a == SfMalloc(h, n + al + 4)
  IN IF n = 0 THEN [heap |-> h, ptr |-> NULL]
     ELSE IF n < 4 \/ ~PowerOf2(al)
     THEN [heap |-> h, ptr |-> NULL]
     ELSE IF a.ptr = NULL THEN a
     ELSE IF Aligned(a.ptr, al) THEN SfRealloc(a.heap, a.ptr, n)
     ELSE CutAligned(a.heap, a.ptr, n, al)

-----------------------------------------------------------------------------
(* The clients *)

Init == /\ heap = [mem |-> [w \in WordsOf(MaxPages) |-> Data(NoId)],
                   pages |-> 0, lists |-> [l \in 0 .. Wild |-> <<>>],
                   aborted |-> FALSE]
        /\ live = [i \in Ids |-> Nothing]

\* a client writes its data over the n words it asked for
Written(h, b, n, i) ==
  [h EXCEPT !.mem = [w \in DOMAIN @ |->
     IF w \in 2 * b + 1 .. 2 * b + n THEN Data(i) ELSE @[w]]]

Running == ~heap.aborted

\* what a client does with the answer of sf_malloc and sf_memalign
Obtain(i, n, answer) ==
  IF answer.ptr = NULL THEN heap' = answer.heap /\ UNCHANGED live
  ELSE /\ heap' = Written(answer.heap, answer.ptr, n, i)
       /\ live' = [live EXCEPT ![i] = Held(answer.ptr, n, n)]

Malloc(i, n) ==
  /\ Running /\ live[i] = Nothing
  /\ Obtain(i, n, SfMalloc(heap, n))

Memalign(i, n, al) ==
  /\ Running /\ live[i] = Nothing
  /\ Obtain(i, n, SfMemalign(heap, n, al))

Free(i) ==
  /\ Running /\ live[i] # Nothing
  /\ heap' = SfFree(heap, live[i].ptr)
  /\ live' = [live EXCEPT ![i] = Nothing]

\* a size of 0 releases the block; after a failure the old block stays
Realloc(i, n) ==
  /\ Running /\ live[i] # Nothing
  /\ LET answer == SfRealloc(heap, live[i].ptr, n)
         w == live[i].written
     IN /\ heap' = answer.heap
        /\ live' = [live EXCEPT ![i] =
             IF n = 0 THEN Nothing
             ELSE IF answer.ptr = NULL THEN @
             ELSE Held(answer.ptr, n, IF w < n THEN w ELSE n)]

Next == \E i \in Ids :
  \/ Free(i)
  \/ \E n \in Sizes : Malloc(i, n) \/ Realloc(i, n)
  \/ \E n \in Sizes, al \in Aligns : Memalign(i, n, al)

Spec == Init /\ [][Next]_vars

-----------------------------------------------------------------------------
(* Correctness *)

\* Every part of the state is of its kind.
TypeOK ==
  /\ heap.mem \in [WordsOf(MaxPages) ->
       [size : 0 .. PageRows * MaxPages, alloc : BOOLEAN, pal : BOOLEAN,
        id : Ids \cup {NoId}]]
  /\ heap.pages \in 0 .. MaxPages
  /\ \A l \in 0 .. Wild : \A k \in DOMAIN heap.lists[l] : heap.lists[l][k] \in Nat
  /\ heap.aborted \in BOOLEAN
  /\ live \in [Ids -> [ptr : Nat, size : Nat, written : Nat]]

\* the blocks found by walking the headers from the prologue: each row maps
\* to the rows reached from it, so that a walk is a recursive function
Blocks ==
  LET reach[b \in 0 .. Epilogue(heap)] ==
        LET next == b + Size(heap, b)
        IN IF b = Epilogue(heap) \/ Size(heap, b) = 0 THEN {b}
           ELSE IF next > Epilogue(heap) THEN {b, next}
           ELSE {b} \cup reach[next]
  IN reach[2]
Free_(b) == b # Epilogue(heap) /\ ~Header(heap, b).alloc

\* Walking the heap from its first block by the sizes in the headers ends at
\* the epilogue; every block but the epilogue has at least two rows; a block's
\* pal bit tells whether the block before it is allocated; a free block's
\* footer equals its header; and no two neighbours are both free.  sf_free and
\* sf_malloc rely on all of this to find the neighbours of a block.
Tiled ==
  LET blocks == Blocks
      End == Epilogue(heap)
  IN  /\ TypeOK
      /\ heap.pages > 0 =>
           /\ End \in blocks /\ Header(heap, 2).pal
           /\ \A b \in blocks \ {End} :
                LET next == b + Size(heap, b)
                IN  /\ next \in blocks /\ Size(heap, b) >= 2
                    /\ Header(heap, next).pal = Header(heap, b).alloc
                    /\ Free_(b) => /\ heap.mem[2 * next - 1] = Header(heap, b)
                                   /\ Header(heap, next).alloc

\* The free lists hold every free block once and nothing else: the block
\* before the epilogue in the last list, every other one in its size class.
ListsExact ==
  LET blocks == Blocks IN
  heap.pages > 0 =>
    \A b \in 0 .. Epilogue(heap) :
      LET home == IF b + Size(heap, b) = Epilogue(heap) THEN Wild
                  ELSE ComputeMemoryIndex(Size(heap, b))
          times(l) == Cardinality({k \in DOMAIN heap.lists[l] : heap.lists[l][k] = b})
      IN \A l \in 0 .. Wild :
           times(l) = IF b \in blocks /\ Free_(b) /\ l = home THEN 1 ELSE 0

\* Every allocated block of the heap is held by a client, large enough for
\* what it asked: realloc and memalign lose no block they cut off.
NothingLeaks ==
  heap.pages > 0 =>
    /\ {b \in Blocks : ~Free_(b)} \ {Epilogue(heap)}
         = {live[i].ptr : i \in Ids} \ {NULL}
    /\ \A i \in Ids : live[i] # Nothing =>
         AdjustedSize(live[i].size) <= Size(heap, live[i].ptr)

\* The library never aborts on a pointer it has handed out, nor on the pieces
\* that realloc and memalign pass to sf_free.
NeverAborts == ~heap.aborted

\* In every state sf_malloc would answer a request with NULL only when every
\* page is in use and no free block of the heap, in whichever list, fits.
FailsOnlyWhenFull ==
  \A n \in Sizes \ {0} :
    LET answer == SfMalloc(heap, n)
    IN answer.ptr = NULL =>
         /\ answer.heap.pages = MaxPages
         /\ \A l \in 0 .. Wild : Fits(answer.heap, AdjustedSize(n), l) = {}

\* The heap implements the allocator its header file promises: what a client
\* holds overlaps nothing else and keeps its data.
A == INSTANCE Allocator WITH
  Requests <- Sizes \ {0},
  Limit <- 2 * PageRows * MaxPages,
  region <- [i \in Ids |-> [start |-> IF live[i] = Nothing THEN 0 ELSE 2 * live[i].ptr + 1,
                           len |-> live[i].size]],
  kept <- [i \in Ids |-> Cardinality({k \in 1 .. live[i].written :
                           heap.mem[2 * live[i].ptr + k].id = i})]
Implements == A!Spec
=============================================================================
