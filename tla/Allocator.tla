----------------------------- MODULE Allocator -----------------------------
(***************************************************************************)
(* What sf_malloc, sf_free, sf_realloc and sf_memalign promise a client    *)
(* (hw3/include/sfmm.h): each granted region is a run of memory words that *)
(* no other client holds, and the client's data stays in it until the      *)
(* client gives it back.  A call may also fail and change nothing.         *)
(***************************************************************************)
EXTENDS Naturals

CONSTANTS Ids,      \* the allocations the clients make
          Requests, \* lengths asked for, in words
          Limit     \* words of memory

VARIABLES region,   \* region[i]: first word and length of what i was granted
          kept      \* kept[i]: how many of its words still hold i's data

vars == <<region, kept>>

None == [start |-> 0, len |-> 0]
Regions == [start : 1 .. Limit, len : Requests]

Init == /\ region = [i \in Ids |-> None]
        /\ kept = [i \in Ids |-> 0]

Disjoint(r, s) == r.start + r.len <= s.start \/ s.start + s.len <= r.start

\* i is given a region that nobody else holds any part of
Place(i) ==
  LET r == region'[i]
  IN /\ region' = [region EXCEPT ![i] = r]
     /\ r \in Regions /\ r.start + r.len - 1 <= Limit
     /\ \A j \in Ids \ {i} : region[j] = None \/ Disjoint(r, region[j])

\* the client fills a new region
Grant(i) ==
  /\ region[i] = None
  /\ Place(i)
  /\ kept' = [kept EXCEPT ![i] = region'[i].len]

\* the region may move; the data that fits moves with it
Resize(i) ==
  /\ region[i] # None
  /\ Place(i)
  /\ kept' = [kept EXCEPT ![i] = IF @ < region'[i].len THEN @ ELSE region'[i].len]

Release(i) ==
  /\ region[i] # None
  /\ region' = [region EXCEPT ![i] = None]
  /\ kept' = [kept EXCEPT ![i] = 0]

Next == \E i \in Ids : Grant(i) \/ Resize(i) \/ Release(i)

Spec == Init /\ [][Next]_vars
=============================================================================
