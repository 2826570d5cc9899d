------------------------ MODULE ClientRegistryProofs ------------------------
(***************************************************************************)
(* Proofs about ClientRegistry, for any finite set of clients, any length  *)
(* of the registry's array and any number of USERS requests: the reference *)
(* counts of CLIENT objects are exact until the registry is finalized, and *)
(* creg_shutdown_all waits for every client.                               *)
(*                                                                         *)
(* The first needs Lives and SlotsOnce: which control points go with a     *)
(* counted CLIENT, and that it is in one slot only.  The second is an      *)
(* argument about units of shutdownSemaphore (Balance): those that were    *)
(* made by sem_init and by the clients main has visited are those that     *)
(* main has taken, has yet to take, and that are left.                     *)
(***************************************************************************)
EXTENDS ClientRegistry, FiniteSetTheorems, TLAPS

\* Before creg_register the CLIENT does not exist; afterwards it is freed
\* exactly when its count is zero.  Only a USERS request has an array.
LivesAt(c) ==
  /\ pc[c] \in {"none", "start", "null"} =>
       refs[c] = 0 /\ ~freed[c] /\ \A d \in Clients : c \notin list[d]
  /\ pc[c] \notin {"none", "start", "null"} => (freed[c] <=> refs[c] = 0)
  /\ pc[c] # "list" => list[c] = {}

Lives == \A c \in Clients : LivesAt(c)

\* A client is in one slot at most, and only until creg_unregister.
SlotsOnce ==
  \A i \in Slots : slots[i] \in Clients =>
    /\ pc[slots[i]] \in {"serve", "list", "leave"}
    /\ \A j \in Slots : slots[j] = slots[i] => j = i

\* What the control point of main implies, and that the history variables
\* tell what they should.
Main ==
  /\ mpc = "count" => count <= index
  /\ mpc \in {"take", "shut"} => target \in Clients
  /\ mpc = "wait" => index = MaxClients
  /\ mpc = "accept" => ~late
  /\ mpc \in {"accept", "count"} =>
       ~early /\ \A c \in Clients : pc[c] \in {"post", "done"} => c \in missed
  /\ \A c \in missed : pc[c] \in {"post", "done"}

\* The clients creg_shutdown_all has come to, and those of them that have
\* posted the semaphore.
Visited ==
  {c \in Clients : \/ pc[c] \in {"post", "done"} /\ c \notin missed
                   \/ \E i \in Slots : i < index /\ slots[i] = c}
Posted == {c \in Clients : pc[c] = "done" /\ c \notin missed}

\* No unit of the semaphore is lost.
Balance ==
  (mpc \in {"walk", "take", "shut", "wait"} /\ ~late /\ ~early) =>
    sem + Cardinality(Visited)
      = count + Cardinality(Posted) + (IF mpc = "take" THEN 1 ELSE 0)

\* Once creg_shutdown_all has returned nobody is registered.
Emptied ==
  (mpc \in {"fini", "exit"} /\ ~late /\ ~early) => \A c \in Clients : ~Registered(c)

IInv == RefsExact /\ Lives /\ SlotsOnce /\ Main /\ Balance /\ Emptied

-----------------------------------------------------------------------------
(* The sets that a reference count and the semaphore count *)

SlotsOf(c) == {i \in Slots : slots[i] = c}
ListsOf(c) == {d \in Clients : c \in list[d]}
Own(c) == IF pc[c] \in {"serve", "list"} THEN 1 ELSE 0
CountsAt(c) == refs[c] = Cardinality(SlotsOf(c)) + Own(c) + Cardinality(ListsOf(c))
Counts == mpc \notin {"fini", "exit"} => \A c \in Clients : CountsAt(c)

\* They are finite, and so they are after a step.
LEMMA SetsFinite ==
  ASSUME NEW c \in Clients
  PROVE  /\ IsFiniteSet(SlotsOf(c)) /\ Cardinality(SlotsOf(c)) \in Nat
         /\ IsFiniteSet(ListsOf(c)) /\ Cardinality(ListsOf(c)) \in Nat
         /\ IsFiniteSet(SlotsOf(c)') /\ Cardinality(SlotsOf(c)') \in Nat
         /\ IsFiniteSet(ListsOf(c)') /\ Cardinality(ListsOf(c)') \in Nat
<1>1. IsFiniteSet(Slots)
  BY MaxClientsAssumption, FS_Interval DEF Slots
<1>2. SlotsOf(c) \in SUBSET Slots /\ SlotsOf(c)' \in SUBSET Slots
  BY DEF SlotsOf
<1>3. ListsOf(c) \in SUBSET Clients /\ ListsOf(c)' \in SUBSET Clients
  BY DEF ListsOf
<1> QED  BY <1>1, <1>2, <1>3, ClientsAssumption, FS_Subset, FS_CardinalityType

\* The sets of clients that are counted are finite, and so they are after a step.
LEMMA VisitedFinite ==
  /\ IsFiniteSet(Visited) /\ Cardinality(Visited) \in Nat
  /\ IsFiniteSet(Posted) /\ Cardinality(Posted) \in Nat
  /\ IsFiniteSet(Visited') /\ Cardinality(Visited') \in Nat
  /\ IsFiniteSet(Posted') /\ Cardinality(Posted') \in Nat
<1>1. /\ Visited \in SUBSET Clients /\ Posted \in SUBSET Clients
      /\ Visited' \in SUBSET Clients /\ Posted' \in SUBSET Clients
  BY DEF Visited, Posted
<1> QED  BY <1>1, ClientsAssumption, FS_Subset, FS_CardinalityType

\* A client in slot i is in no other.
LEMMA OneSlot ==
  ASSUME SlotsOnce, NEW c \in Clients, NEW i \in Slots, slots[i] = c
  PROVE  SlotsOf(c) = {i}
BY DEF SlotsOnce, SlotsOf

\* client_unref takes one off a count that is not zero, and frees at zero.
LEMMA UnrefKeeps ==
  ASSUME TypeOK, Lives, NEW d \in Clients, pc[d] \notin {"none", "start", "null"}, Unref(d)
  PROVE  /\ refs' \in [Clients -> Nat] /\ freed' \in [Clients -> BOOLEAN]
         /\ refs[d] \in Nat \ {0} /\ refs' = [refs EXCEPT ![d] = refs[d] - 1]
         /\ freed'[d] <=> refs'[d] = 0
         /\ \A e \in Clients \ {d} : refs'[e] = refs[e] /\ freed'[e] = freed[e]
<1>1. refs[d] \in Nat \ {0}
  BY DEF TypeOK, Lives, LivesAt, Unref
<1>2. refs' = [refs EXCEPT ![d] = refs[d] - 1] /\ freed' = [freed EXCEPT ![d] = (refs[d] = 1)]
  BY DEF Unref
<1>3. refs' \in [Clients -> Nat] /\ refs'[d] = refs[d] - 1
  BY <1>1, <1>2 DEF TypeOK
<1>4. freed' \in [Clients -> BOOLEAN] /\ (freed'[d] <=> refs[d] = 1)
  BY <1>2 DEF TypeOK
<1>5. \A e \in Clients \ {d} : refs'[e] = refs[e] /\ freed'[e] = freed[e]
  BY <1>2 DEF TypeOK
<1> QED  BY <1>1, <1>2, <1>3, <1>4, <1>5

\* Exact counts, and freed CLIENTs have count zero: that is RefsExact.
LEMMA RefsFromCounts ==
  TypeOK /\ Counts /\ Lives => RefsExact
<1> SUFFICES ASSUME TypeOK, Counts, Lives  PROVE RefsExact
  OBVIOUS
<1>1. ASSUME mpc \notin {"fini", "exit"}, NEW c \in Clients
      PROVE  freed[c] <=> (pc[c] \in {"leave", "post", "done"} /\ refs[c] = 0)
  <2>1. CASE pc[c] \in {"serve", "list"}
    <3>1. refs[c] # 0
      BY <1>1, <2>1, SetsFinite DEF Counts, CountsAt, Own
    <3> QED  BY <2>1, <3>1 DEF Lives, LivesAt
  <2>2. CASE pc[c] \notin {"serve", "list"}
    BY <2>2 DEF TypeOK, Lives, LivesAt
  <2> QED  BY <2>1, <2>2
<1> QED  BY <1>1 DEF RefsExact, Counts, CountsAt, Own, SlotsOf, ListsOf

-----------------------------------------------------------------------------
(* The steps *)

\* The invariant holds when the server starts.
LEMMA Initially == Init => IInv
<1> SUFFICES ASSUME Init  PROVE IInv
  OBVIOUS
<1>1. TypeOK
  <2>1. list \in [Clients -> SUBSET Clients]
    BY DEF Init
  <2>2. lists \in 0..MaxLists /\ index \in 0..MaxClients /\ count \in 0..MaxClients
    BY MaxListsAssumption, MaxClientsAssumption DEF Init
  <2> QED  BY <2>1, <2>2 DEF Init, TypeOK
<1>2. ASSUME NEW c \in Clients  PROVE SlotsOf(c) = {} /\ ListsOf(c) = {}
  BY ClientsAssumption DEF Init, SlotsOf, ListsOf
<1>3. Counts
  BY <1>2, FS_EmptySet DEF Init, Counts, CountsAt, Own
<1>4. Lives
  BY DEF Init, Lives, LivesAt
<1>5. SlotsOnce
  BY ClientsAssumption DEF Init, SlotsOnce
<1>6. Main
  BY DEF Init, Main
<1>7. Balance /\ Emptied
  BY DEF Init, Balance, Emptied
<1> QED  BY <1>1, <1>3, <1>4, <1>5, <1>6, <1>7, RefsFromCounts DEF IInv

\* Types, step by step.
LEMMA TypesStep ==
  ASSUME IInv, [Next]_vars
  PROVE  TypeOK'
<1>0. TypeOK /\ Lives /\ SlotsOnce /\ Main
  BY DEF IInv, RefsExact
<1> USE ClientsAssumption, MaxClientsAssumption, MaxListsAssumption DEF
            TypeOK, Slots, Main, Lives, LivesAt, SlotsOnce, thvars, mainvars,
            hvars, Goto
<1>1. ASSUME NEW c \in Clients, Accept(c)  PROVE TypeOK'
  BY <1>0, <1>1 DEF Accept
<1>2. ASSUME NEW c \in Clients, Register(c)  PROVE TypeOK'
  BY <1>0, <1>2 DEF Register, RegisterRefs
<1>3. ASSUME NEW c \in Clients, RegisterFull(c)  PROVE TypeOK'
  BY <1>0, <1>3 DEF RegisterFull
<1>4. ASSUME NEW c \in Clients, AllClients(c)  PROVE TypeOK'
  BY <1>0, <1>4 DEF AllClients, Registered
<1>5. ASSUME NEW c \in Clients, ReleaseEntry(c)  PROVE TypeOK'
  <2>1. PICK d \in list[c] : Unref(d) /\ list' = [list EXCEPT ![c] = list[c] \ {d}]
    BY <1>5 DEF ReleaseEntry
  <2>2. d \in Clients /\ pc[d] \notin {"none", "start", "null"}
    BY <1>0, <2>1
  <2> QED  BY <1>0, <1>5, <2>1, <2>2, UnrefKeeps DEF ReleaseEntry
<1>6. ASSUME NEW c \in Clients, ListDone(c)  PROVE TypeOK'
  BY <1>0, <1>6 DEF ListDone
<1>7. ASSUME NEW c \in Clients, PeerCloses(c)  PROVE TypeOK'
  BY <1>0, <1>7 DEF PeerCloses
<1>8. ASSUME NEW c \in Clients, LeaveUnref(c)  PROVE TypeOK'
  BY <1>0, <1>8, UnrefKeeps DEF LeaveUnref
<1>9. ASSUME NEW c \in Clients, Unregister(c)  PROVE TypeOK'
  BY <1>0, <1>9, UnrefKeeps DEF Unregister
<1>10. ASSUME NEW c \in Clients, UnregisterPost(c)  PROVE TypeOK'
  BY <1>0, <1>10 DEF UnregisterPost, PostOne
<1>11. ASSUME Sighup  PROVE TypeOK'
  BY <1>0, <1>11 DEF Sighup
<1>12. ASSUME CountSlot  PROVE TypeOK'
  BY <1>0, <1>12 DEF CountSlot
<1>13. ASSUME SemInit  PROVE TypeOK'
  BY <1>0, <1>13 DEF SemInit
<1>14. ASSUME ReadSlot  PROVE TypeOK'
  BY <1>0, <1>14 DEF ReadSlot
<1>15. ASSUME TakeMarble  PROVE TypeOK'
  BY <1>0, <1>15 DEF TakeMarble
<1>16. ASSUME ShutSocket  PROVE TypeOK'
  BY <1>0, <1>16 DEF ShutSocket
<1>17. ASSUME WalkDone  PROVE TypeOK'
  BY <1>0, <1>17 DEF WalkDone
<1>18. ASSUME WaitMarble  PROVE TypeOK'
  BY <1>0, <1>18 DEF WaitMarble, AllOfThem, MarbleReady
<1>19. ASSUME ShutdownReturns  PROVE TypeOK'
  BY <1>0, <1>19 DEF ShutdownReturns, AllOfThem
<1>20. ASSUME FiniSlot  PROVE TypeOK'
  <2>1. CASE slots[index] = NoClient
    BY <1>0, <1>20, <2>1 DEF FiniSlot
  <2>2. CASE slots[index] # NoClient
    <3>1. index \in Slots /\ Unref(slots[index])
      BY <1>0, <1>20, <2>2 DEF FiniSlot, Slots
    <3>2. slots[index] \in Clients /\ pc[slots[index]] \notin {"none", "start", "null"}
      BY <1>0, <2>2, <3>1
    <3> QED  BY <1>0, <1>20, <3>1, <3>2, UnrefKeeps DEF FiniSlot
  <2> QED  BY <2>1, <2>2
<1>21. ASSUME Exit  PROVE TypeOK'
  BY <1>0, <1>21 DEF Exit
<1>22. CASE UNCHANGED vars
  BY <1>0, <1>22 DEF vars
<1> QED  BY <1>1, <1>2, <1>3, <1>4, <1>5, <1>6, <1>7, <1>8, <1>9, <1>10,
            <1>11, <1>12, <1>13, <1>14, <1>15, <1>16, <1>17, <1>18, <1>19,
            <1>20, <1>21, <1>22
         DEF Next, ThreadStep, MainStep

\* Existence and freeing of CLIENT objects, step by step.
LEMMA LivesStep ==
  ASSUME IInv, [Next]_vars
  PROVE  Lives'
<1>0. TypeOK /\ Lives /\ SlotsOnce /\ Main
  BY DEF IInv, RefsExact
<1> USE ClientsAssumption, MaxClientsAssumption DEF TypeOK, Lives, LivesAt,
            SlotsOnce, thvars, mainvars, hvars, Goto
<1>1. ASSUME NEW c \in Clients, Accept(c)  PROVE Lives'
  BY <1>0, <1>1 DEF Accept
<1>2. ASSUME NEW c \in Clients, Register(c)  PROVE Lives'
  BY <1>0, <1>2 DEF Register, RegisterRefs
<1>3. ASSUME NEW c \in Clients, RegisterFull(c)  PROVE Lives'
  BY <1>0, <1>3 DEF RegisterFull
<1>4. ASSUME NEW c \in Clients, AllClients(c)  PROVE Lives'
  BY <1>0, <1>4 DEF AllClients, Registered
<1>5. ASSUME NEW c \in Clients, ReleaseEntry(c)  PROVE Lives'
  <2>1. PICK d \in list[c] : Unref(d) /\ list' = [list EXCEPT ![c] = list[c] \ {d}]
    BY <1>5 DEF ReleaseEntry
  <2>2. d \in Clients /\ pc[d] \notin {"none", "start", "null"}
    BY <1>0, <2>1
  <2> QED  BY <1>0, <1>5, <2>1, <2>2, UnrefKeeps DEF ReleaseEntry
<1>6. ASSUME NEW c \in Clients, ListDone(c)  PROVE Lives'
  BY <1>0, <1>6 DEF ListDone
<1>7. ASSUME NEW c \in Clients, PeerCloses(c)  PROVE Lives'
  BY <1>0, <1>7 DEF PeerCloses
<1>8. ASSUME NEW c \in Clients, LeaveUnref(c)  PROVE Lives'
  BY <1>0, <1>8, UnrefKeeps DEF LeaveUnref
<1>9. ASSUME NEW c \in Clients, Unregister(c)  PROVE Lives'
  BY <1>0, <1>9, UnrefKeeps DEF Unregister
<1>10. ASSUME NEW c \in Clients, UnregisterPost(c)  PROVE Lives'
  BY <1>0, <1>10 DEF UnregisterPost, PostOne
<1>11. ASSUME Sighup  PROVE Lives'
  BY <1>0, <1>11 DEF Sighup
<1>12. ASSUME CountSlot  PROVE Lives'
  BY <1>0, <1>12 DEF CountSlot
<1>13. ASSUME SemInit  PROVE Lives'
  BY <1>0, <1>13 DEF SemInit
<1>14. ASSUME ReadSlot  PROVE Lives'
  BY <1>0, <1>14 DEF ReadSlot
<1>15. ASSUME TakeMarble  PROVE Lives'
  BY <1>0, <1>15 DEF TakeMarble
<1>16. ASSUME ShutSocket  PROVE Lives'
  BY <1>0, <1>16 DEF ShutSocket
<1>17. ASSUME WalkDone  PROVE Lives'
  BY <1>0, <1>17 DEF WalkDone
<1>18. ASSUME WaitMarble  PROVE Lives'
  BY <1>0, <1>18 DEF WaitMarble, AllOfThem, MarbleReady
<1>19. ASSUME ShutdownReturns  PROVE Lives'
  BY <1>0, <1>19 DEF ShutdownReturns, AllOfThem
<1>20. ASSUME FiniSlot  PROVE Lives'
  <2>1. CASE slots[index] = NoClient
    BY <1>0, <1>20, <2>1 DEF FiniSlot
  <2>2. CASE slots[index] # NoClient
    <3>1. index \in Slots /\ Unref(slots[index])
      BY <1>0, <1>20, <2>2 DEF FiniSlot, Slots
    <3>2. slots[index] \in Clients /\ pc[slots[index]] \notin {"none", "start", "null"}
      BY <1>0, <2>2, <3>1
    <3> QED  BY <1>0, <1>20, <3>1, <3>2, UnrefKeeps DEF FiniSlot
  <2> QED  BY <2>1, <2>2
<1>21. ASSUME Exit  PROVE Lives'
  BY <1>0, <1>21 DEF Exit
<1>22. CASE UNCHANGED vars
  BY <1>0, <1>22 DEF vars
<1> QED  BY <1>1, <1>2, <1>3, <1>4, <1>5, <1>6, <1>7, <1>8, <1>9, <1>10,
            <1>11, <1>12, <1>13, <1>14, <1>15, <1>16, <1>17, <1>18, <1>19,
            <1>20, <1>21, <1>22
         DEF Next, ThreadStep, MainStep

\* A client stays in one slot at most, step by step.
LEMMA SlotsStep ==
  ASSUME IInv, [Next]_vars
  PROVE  SlotsOnce'
<1>0. TypeOK /\ Lives /\ SlotsOnce /\ Main
  BY DEF IInv, RefsExact
<1> USE ClientsAssumption, MaxClientsAssumption DEF TypeOK, SlotsOnce, thvars,
            mainvars, hvars, Goto
<1>1. ASSUME NEW c \in Clients, Accept(c)  PROVE SlotsOnce'
  BY <1>0, <1>1 DEF Accept
<1>2. ASSUME NEW c \in Clients, Register(c)  PROVE SlotsOnce'
  BY <1>0, <1>2 DEF Register, RegisterRefs
<1>3. ASSUME NEW c \in Clients, RegisterFull(c)  PROVE SlotsOnce'
  BY <1>0, <1>3 DEF RegisterFull
<1>4. ASSUME NEW c \in Clients, AllClients(c)  PROVE SlotsOnce'
  BY <1>0, <1>4 DEF AllClients, Registered
<1>5. ASSUME NEW c \in Clients, ReleaseEntry(c)  PROVE SlotsOnce'
  BY <1>0, <1>5 DEF ReleaseEntry
<1>6. ASSUME NEW c \in Clients, ListDone(c)  PROVE SlotsOnce'
  BY <1>0, <1>6 DEF ListDone
<1>7. ASSUME NEW c \in Clients, PeerCloses(c)  PROVE SlotsOnce'
  BY <1>0, <1>7 DEF PeerCloses
<1>8. ASSUME NEW c \in Clients, LeaveUnref(c)  PROVE SlotsOnce'
  BY <1>0, <1>8 DEF LeaveUnref
<1>9. ASSUME NEW c \in Clients, Unregister(c)  PROVE SlotsOnce'
  BY <1>0, <1>9 DEF Unregister
<1>10. ASSUME NEW c \in Clients, UnregisterPost(c)  PROVE SlotsOnce'
  BY <1>0, <1>10 DEF UnregisterPost, PostOne
<1>11. ASSUME Sighup  PROVE SlotsOnce'
  BY <1>0, <1>11 DEF Sighup
<1>12. ASSUME CountSlot  PROVE SlotsOnce'
  BY <1>0, <1>12 DEF CountSlot
<1>13. ASSUME SemInit  PROVE SlotsOnce'
  BY <1>0, <1>13 DEF SemInit
<1>14. ASSUME ReadSlot  PROVE SlotsOnce'
  BY <1>0, <1>14 DEF ReadSlot
<1>15. ASSUME TakeMarble  PROVE SlotsOnce'
  BY <1>0, <1>15 DEF TakeMarble
<1>16. ASSUME ShutSocket  PROVE SlotsOnce'
  BY <1>0, <1>16 DEF ShutSocket
<1>17. ASSUME WalkDone  PROVE SlotsOnce'
  BY <1>0, <1>17 DEF WalkDone
<1>18. ASSUME WaitMarble  PROVE SlotsOnce'
  BY <1>0, <1>18 DEF WaitMarble, AllOfThem, MarbleReady
<1>19. ASSUME ShutdownReturns  PROVE SlotsOnce'
  BY <1>0, <1>19 DEF ShutdownReturns, AllOfThem
<1>20. ASSUME FiniSlot  PROVE SlotsOnce'
  BY <1>0, <1>20 DEF FiniSlot
<1>21. ASSUME Exit  PROVE SlotsOnce'
  BY <1>0, <1>21 DEF Exit
<1>22. CASE UNCHANGED vars
  BY <1>0, <1>22 DEF vars
<1> QED  BY <1>1, <1>2, <1>3, <1>4, <1>5, <1>6, <1>7, <1>8, <1>9, <1>10,
            <1>11, <1>12, <1>13, <1>14, <1>15, <1>16, <1>17, <1>18, <1>19,
            <1>20, <1>21, <1>22
         DEF Next, ThreadStep, MainStep

\* What the control point of main implies, step by step.
LEMMA MainStepKeeps ==
  ASSUME IInv, [Next]_vars
  PROVE  Main'
<1>0. TypeOK /\ Lives /\ SlotsOnce /\ Main
  BY DEF IInv, RefsExact
<1> USE ClientsAssumption, MaxClientsAssumption DEF TypeOK, Slots, Main,
            SlotsOnce, thvars, mainvars, hvars, Goto
<1>1. ASSUME NEW c \in Clients, Accept(c)  PROVE Main'
  BY <1>0, <1>1 DEF Accept
<1>2. ASSUME NEW c \in Clients, Register(c)  PROVE Main'
  BY <1>0, <1>2 DEF Register, RegisterRefs
<1>3. ASSUME NEW c \in Clients, RegisterFull(c)  PROVE Main'
  BY <1>0, <1>3 DEF RegisterFull
<1>4. ASSUME NEW c \in Clients, AllClients(c)  PROVE Main'
  BY <1>0, <1>4 DEF AllClients, Registered
<1>5. ASSUME NEW c \in Clients, ReleaseEntry(c)  PROVE Main'
  BY <1>0, <1>5 DEF ReleaseEntry
<1>6. ASSUME NEW c \in Clients, ListDone(c)  PROVE Main'
  BY <1>0, <1>6 DEF ListDone
<1>7. ASSUME NEW c \in Clients, PeerCloses(c)  PROVE Main'
  BY <1>0, <1>7 DEF PeerCloses
<1>8. ASSUME NEW c \in Clients, LeaveUnref(c)  PROVE Main'
  BY <1>0, <1>8 DEF LeaveUnref
<1>9. ASSUME NEW c \in Clients, Unregister(c)  PROVE Main'
  BY <1>0, <1>9 DEF Unregister
<1>10. ASSUME NEW c \in Clients, UnregisterPost(c)  PROVE Main'
  BY <1>0, <1>10 DEF UnregisterPost, PostOne
<1>11. ASSUME Sighup  PROVE Main'
  BY <1>0, <1>11 DEF Sighup
<1>12. ASSUME CountSlot  PROVE Main'
  BY <1>0, <1>12 DEF CountSlot
<1>13. ASSUME SemInit  PROVE Main'
  BY <1>0, <1>13 DEF SemInit
<1>14. ASSUME ReadSlot  PROVE Main'
  BY <1>0, <1>14 DEF ReadSlot
<1>15. ASSUME TakeMarble  PROVE Main'
  BY <1>0, <1>15 DEF TakeMarble
<1>16. ASSUME ShutSocket  PROVE Main'
  BY <1>0, <1>16 DEF ShutSocket
<1>17. ASSUME WalkDone  PROVE Main'
  BY <1>0, <1>17 DEF WalkDone
<1>18. ASSUME WaitMarble  PROVE Main'
  BY <1>0, <1>18 DEF WaitMarble, AllOfThem, MarbleReady
<1>19. ASSUME ShutdownReturns  PROVE Main'
  BY <1>0, <1>19 DEF ShutdownReturns, AllOfThem
<1>20. ASSUME FiniSlot  PROVE Main'
  BY <1>0, <1>20 DEF FiniSlot
<1>21. ASSUME Exit  PROVE Main'
  BY <1>0, <1>21 DEF Exit
<1>22. CASE UNCHANGED vars
  BY <1>0, <1>22 DEF vars
<1> QED  BY <1>1, <1>2, <1>3, <1>4, <1>5, <1>6, <1>7, <1>8, <1>9, <1>10,
            <1>11, <1>12, <1>13, <1>14, <1>15, <1>16, <1>17, <1>18, <1>19,
            <1>20, <1>21, <1>22
         DEF Next, ThreadStep, MainStep

\* A step that changes no count, no slot, no array and no thread's own
\* reference keeps the counts exact.
LEMMA Quiet ==
  ASSUME Counts, UNCHANGED <<refs, slots, list>>, \A c \in Clients : Own(c)' = Own(c),
         mpc' \notin {"fini", "exit"} => mpc \notin {"fini", "exit"}
  PROVE  Counts'
<1> SUFFICES ASSUME NEW c \in Clients, mpc' \notin {"fini", "exit"}  PROVE CountsAt(c)'
  BY DEF Counts
<1>1. SlotsOf(c)' = SlotsOf(c) /\ ListsOf(c)' = ListsOf(c)
  BY DEF SlotsOf, ListsOf
<1> QED  BY <1>1 DEF Counts, CountsAt

\* The counts stay exact, step by step.
LEMMA CountsStep ==
  ASSUME IInv, [Next]_vars
  PROVE  Counts'
<1>0. Counts /\ TypeOK /\ Lives /\ SlotsOnce /\ Main
  BY DEF IInv, RefsExact, Counts, CountsAt, Own, SlotsOf, ListsOf
<1> USE ClientsAssumption DEF TypeOK, Own, Lives, LivesAt, SlotsOnce, thvars,
            mainvars, hvars, Goto
<1>1. ASSUME NEW c \in Clients, Accept(c)  PROVE Counts'
  BY <1>0, <1>1, Quiet DEF Accept
<1>2. ASSUME NEW c \in Clients, Register(c)  PROVE Counts'
  <2>1. PICK i \in Slots : slots[i] = NoClient /\ slots' = [slots EXCEPT ![i] = c]
    BY <1>2 DEF Register
  <2>2. ASSUME mpc \notin {"fini", "exit"}, NEW d \in Clients  PROVE CountsAt(d)'
    <3>1. ListsOf(d)' = ListsOf(d)
      BY <1>2 DEF Register, ListsOf
    <3>2. CASE d = c
      <4>1. SlotsOf(d)' = {i} /\ ListsOf(d) = {} /\ Own(d)' = 1 /\ refs'[d] = 2
        BY <1>0, <1>2, <2>1, <3>2 DEF Register, RegisterRefs, SlotsOf, ListsOf
      <4>2. Cardinality(SlotsOf(d)') = 1 /\ Cardinality(ListsOf(d)') = 0
        BY <3>1, <4>1, FS_Singleton, FS_EmptySet
      <4> QED  BY <4>1, <4>2 DEF CountsAt
    <3>3. CASE d # c
      <4>1. SlotsOf(d)' = SlotsOf(d) /\ Own(d)' = Own(d) /\ refs'[d] = refs[d]
        BY <1>0, <1>2, <2>1, <3>3 DEF Register, SlotsOf
      <4> QED  BY <1>0, <2>2, <3>1, <4>1 DEF Counts, CountsAt
    <3> QED  BY <3>2, <3>3
  <2> QED  BY <1>2, <2>2 DEF Counts, Register
<1>3. ASSUME NEW c \in Clients, RegisterFull(c)  PROVE Counts'
  BY <1>0, <1>3, Quiet DEF RegisterFull
<1>4. ASSUME NEW c \in Clients, AllClients(c)  PROVE Counts'
  <2>1. ASSUME mpc \notin {"fini", "exit"}, NEW d \in Clients  PROVE CountsAt(d)'
    <3>1. SlotsOf(d)' = SlotsOf(d) /\ Own(d)' = Own(d)
      BY <1>0, <1>4 DEF AllClients, SlotsOf
    <3>2. c \notin ListsOf(d)
      BY <1>0, <1>4 DEF AllClients, ListsOf
    <3>3. CASE Registered(d)
      <4>1. refs'[d] = refs[d] + 1 /\ ListsOf(d)' = ListsOf(d) \cup {c}
        BY <1>0, <1>4, <3>3 DEF AllClients, ListsOf
      <4>2. Cardinality(ListsOf(d)') = Cardinality(ListsOf(d)) + 1
        BY <3>2, <4>1, SetsFinite, FS_AddElement
      <4>3. CountsAt(d)
        BY <1>0, <2>1 DEF Counts
      <4> QED  BY <3>1, <4>1, <4>2, <4>3, SetsFinite DEF CountsAt
    <3>4. CASE ~Registered(d)
      <4>1. refs'[d] = refs[d] /\ ListsOf(d)' = ListsOf(d)
        BY <1>0, <1>4, <3>2, <3>4 DEF AllClients, ListsOf
      <4> QED  BY <1>0, <2>1, <3>1, <4>1 DEF Counts, CountsAt
    <3> QED  BY <3>3, <3>4
  <2> QED  BY <1>4, <2>1 DEF Counts, AllClients
<1>5. ASSUME NEW c \in Clients, ReleaseEntry(c)  PROVE Counts'
  <2>1. PICK e \in list[c] : Unref(e) /\ list' = [list EXCEPT ![c] = list[c] \ {e}]
    BY <1>5 DEF ReleaseEntry
  <2>2. e \in Clients /\ pc[e] \notin {"none", "start", "null"}
    BY <1>0, <2>1
  <2>3. ASSUME mpc \notin {"fini", "exit"}, NEW d \in Clients  PROVE CountsAt(d)'
    <3>1. SlotsOf(d)' = SlotsOf(d) /\ Own(d)' = Own(d)
      BY <1>5 DEF ReleaseEntry, SlotsOf
    <3>2. CountsAt(d)
      BY <1>0, <2>3 DEF Counts
    <3>3. CASE d = e
      <4>1. /\ c \in ListsOf(d) /\ ListsOf(d)' = ListsOf(d) \ {c}
            /\ refs'[d] = refs[d] - 1
        BY <1>0, <2>1, <2>2, <3>3, UnrefKeeps DEF ListsOf
      <4>2. Cardinality(ListsOf(d)') = Cardinality(ListsOf(d)) - 1
        BY <4>1, SetsFinite, FS_RemoveElement
      <4> QED  BY <3>1, <3>2, <4>1, <4>2, SetsFinite DEF CountsAt
    <3>4. CASE d # e
      <4>1. ListsOf(d)' = ListsOf(d) /\ refs'[d] = refs[d]
        BY <1>0, <2>1, <2>2, <3>4, UnrefKeeps DEF ListsOf
      <4> QED  BY <3>1, <3>2, <4>1 DEF CountsAt
    <3> QED  BY <3>3, <3>4
  <2> QED  BY <1>5, <2>3 DEF Counts, ReleaseEntry
<1>6. ASSUME NEW c \in Clients, ListDone(c)  PROVE Counts'
  BY <1>0, <1>6, Quiet DEF ListDone
<1>7. ASSUME NEW c \in Clients, PeerCloses(c)  PROVE Counts'
  BY <1>0, <1>7, Quiet DEF PeerCloses
<1>8. ASSUME NEW c \in Clients, LeaveUnref(c)  PROVE Counts'
  <2>1. ASSUME mpc \notin {"fini", "exit"}, NEW d \in Clients  PROVE CountsAt(d)'
    <3>1. SlotsOf(d)' = SlotsOf(d) /\ ListsOf(d)' = ListsOf(d)
      BY <1>8 DEF LeaveUnref, SlotsOf, ListsOf
    <3>2. CountsAt(d)
      BY <1>0, <2>1 DEF Counts
    <3>3. /\ refs'[d] = IF d = c THEN refs[d] - 1 ELSE refs[d]
          /\ Own(d) = IF d = c THEN Own(d)' + 1 ELSE Own(d)'
      BY <1>0, <1>8, UnrefKeeps DEF LeaveUnref
    <3>4. Own(d)' \in Nat
      OBVIOUS
    <3> HIDE DEF Own
    <3> QED  BY <3>1, <3>2, <3>3, <3>4, SetsFinite DEF CountsAt
  <2> QED  BY <1>8, <2>1 DEF Counts, LeaveUnref
<1>9. ASSUME NEW c \in Clients, Unregister(c)  PROVE Counts'
  <2>1. PICK i \in Slots : slots[i] = c /\ slots' = [slots EXCEPT ![i] = NoClient]
    BY <1>9 DEF Unregister
  <2>2. SlotsOf(c) = {i}
    BY <1>0, <2>1, OneSlot
  <2>3. refs' = [refs EXCEPT ![c] = refs[c] - 1]
    BY <1>0, <1>9, UnrefKeeps DEF Unregister
  <2>4. ASSUME mpc \notin {"fini", "exit"}, NEW d \in Clients  PROVE CountsAt(d)'
    <3>1. ListsOf(d)' = ListsOf(d) /\ Own(d)' = Own(d) /\ CountsAt(d)
      BY <1>0, <1>9, <2>4 DEF Unregister, ListsOf, Counts
    <3>2. CASE d = c
      <4>1. SlotsOf(d)' = {}
        BY <1>0, <2>1, <2>2, <3>2 DEF SlotsOf
      <4>2. Cardinality(SlotsOf(d)) = 1 /\ Cardinality(SlotsOf(d)') = 0
        BY <2>2, <3>2, <4>1, FS_Singleton, FS_EmptySet
      <4>3. refs'[d] = refs[d] - 1
        BY <1>0, <2>3, <3>2
      <4> QED  BY <3>1, <4>2, <4>3, SetsFinite DEF CountsAt
    <3>3. CASE d # c
      <4>1. SlotsOf(d)' = SlotsOf(d) /\ refs'[d] = refs[d]
        BY <1>0, <2>1, <2>3, <3>3 DEF SlotsOf
      <4> QED  BY <3>1, <4>1 DEF CountsAt
    <3> QED  BY <3>2, <3>3
  <2> QED  BY <1>9, <2>4 DEF Counts, Unregister
<1>10. ASSUME NEW c \in Clients, UnregisterPost(c)  PROVE Counts'
  BY <1>0, <1>10, Quiet DEF UnregisterPost, PostOne
<1>11. ASSUME Sighup  PROVE Counts'
  BY <1>0, <1>11, Quiet DEF Sighup
<1>12. ASSUME CountSlot  PROVE Counts'
  BY <1>0, <1>12, Quiet DEF CountSlot
<1>13. ASSUME SemInit  PROVE Counts'
  BY <1>0, <1>13, Quiet DEF SemInit
<1>14. ASSUME ReadSlot  PROVE Counts'
  BY <1>0, <1>14, Quiet DEF ReadSlot
<1>15. ASSUME TakeMarble  PROVE Counts'
  BY <1>0, <1>15, Quiet DEF TakeMarble
<1>16. ASSUME ShutSocket  PROVE Counts'
  BY <1>0, <1>16, Quiet DEF ShutSocket
<1>17. ASSUME WalkDone  PROVE Counts'
  BY <1>0, <1>17, Quiet DEF WalkDone
<1>18. ASSUME WaitMarble  PROVE Counts'
  BY <1>0, <1>18, Quiet DEF WaitMarble, AllOfThem, MarbleReady
<1>19. ASSUME ShutdownReturns  PROVE Counts'
  BY <1>19 DEF ShutdownReturns, Counts
<1>20. ASSUME FiniSlot  PROVE Counts'
  BY <1>20 DEF FiniSlot, Counts
<1>21. ASSUME Exit  PROVE Counts'
  BY <1>21 DEF Exit, Counts
<1>22. CASE UNCHANGED vars
  BY <1>0, <1>22, Quiet DEF vars
<1> QED  BY <1>1, <1>2, <1>3, <1>4, <1>5, <1>6, <1>7, <1>8, <1>9, <1>10,
            <1>11, <1>12, <1>13, <1>14, <1>15, <1>16, <1>17, <1>18, <1>19,
            <1>20, <1>21, <1>22
         DEF Next, ThreadStep, MainStep

\* Nobody is registered once creg_shutdown_all has returned, step by step: when
\* no unit is left to wait for, every client it has come to has posted.
LEMMA EmptiedStep ==
  ASSUME IInv, [Next]_vars
  PROVE  Emptied'
<1>0. TypeOK /\ SlotsOnce /\ Main /\ Balance /\ Emptied
  BY DEF IInv, RefsExact
<1> USE DEF TypeOK, SlotsOnce, Main, Emptied, Registered, thvars, mainvars,
            hvars, Goto
<1>1. ASSUME NEW c \in Clients, Accept(c)  PROVE Emptied'
  BY <1>0, <1>1 DEF Accept
<1>2. ASSUME NEW c \in Clients, Register(c)  PROVE Emptied'
  BY <1>0, <1>2 DEF Register, RegisterRefs
<1>3. ASSUME NEW c \in Clients, RegisterFull(c)  PROVE Emptied'
  BY <1>0, <1>3 DEF RegisterFull
<1>4. ASSUME NEW c \in Clients, AllClients(c)  PROVE Emptied'
  BY <1>0, <1>4 DEF AllClients, Registered
<1>5. ASSUME NEW c \in Clients, ReleaseEntry(c)  PROVE Emptied'
  BY <1>0, <1>5 DEF ReleaseEntry
<1>6. ASSUME NEW c \in Clients, ListDone(c)  PROVE Emptied'
  BY <1>0, <1>6 DEF ListDone
<1>7. ASSUME NEW c \in Clients, PeerCloses(c)  PROVE Emptied'
  BY <1>0, <1>7 DEF PeerCloses
<1>8. ASSUME NEW c \in Clients, LeaveUnref(c)  PROVE Emptied'
  BY <1>0, <1>8 DEF LeaveUnref
<1>9. ASSUME NEW c \in Clients, Unregister(c)  PROVE Emptied'
  BY <1>0, <1>9 DEF Unregister
<1>10. ASSUME NEW c \in Clients, UnregisterPost(c)  PROVE Emptied'
  BY <1>0, <1>10 DEF UnregisterPost, PostOne
<1>11. ASSUME Sighup  PROVE Emptied'
  BY <1>0, <1>11 DEF Sighup
<1>12. ASSUME CountSlot  PROVE Emptied'
  BY <1>0, <1>12 DEF CountSlot
<1>13. ASSUME SemInit  PROVE Emptied'
  BY <1>0, <1>13 DEF SemInit
<1>14. ASSUME ReadSlot  PROVE Emptied'
  BY <1>0, <1>14 DEF ReadSlot
<1>15. ASSUME TakeMarble  PROVE Emptied'
  BY <1>0, <1>15 DEF TakeMarble
<1>16. ASSUME ShutSocket  PROVE Emptied'
  BY <1>0, <1>16 DEF ShutSocket
<1>17. ASSUME WalkDone  PROVE Emptied'
  BY <1>0, <1>17 DEF WalkDone
<1>18. ASSUME WaitMarble  PROVE Emptied'
  BY <1>0, <1>18 DEF WaitMarble, AllOfThem, MarbleReady
<1>19. ASSUME ShutdownReturns  PROVE Emptied'
  <2>1. SUFFICES ASSUME ~late, ~early  PROVE \A c \in Clients : ~Registered(c)
    BY <1>19 DEF ShutdownReturns
  <2>2. sem + Cardinality(Visited) = Cardinality(Posted) /\ index = MaxClients
    BY <1>0, <1>19, <2>1, VisitedFinite DEF ShutdownReturns, AllOfThem, Balance
  <2>3. Posted \in SUBSET Visited
    BY DEF Posted, Visited
  <2>4. Cardinality(Posted) = Cardinality(Visited)
    <3>1. Cardinality(Posted) <= Cardinality(Visited)
      BY <2>3, VisitedFinite, FS_Subset
    <3> QED  BY <1>0, <2>2, <3>1, VisitedFinite
  <2>5. Posted = Visited
    BY <2>3, <2>4, VisitedFinite, FS_Subset
  <2>6. ASSUME NEW c \in Clients, Registered(c)  PROVE FALSE
    <3>1. c \in Visited
      BY <2>2, <2>6, MaxClientsAssumption DEF Visited, Slots
    <3> QED  BY <1>0, <2>5, <2>6, <3>1 DEF Posted
  <2> QED  BY <2>6
<1>20. ASSUME FiniSlot  PROVE Emptied'
  BY <1>0, <1>20 DEF FiniSlot
<1>21. ASSUME Exit  PROVE Emptied'
  BY <1>0, <1>21 DEF Exit
<1>22. CASE UNCHANGED vars
  BY <1>0, <1>22 DEF vars
<1> QED  BY <1>1, <1>2, <1>3, <1>4, <1>5, <1>6, <1>7, <1>8, <1>9, <1>10,
            <1>11, <1>12, <1>13, <1>14, <1>15, <1>16, <1>17, <1>18, <1>19,
            <1>20, <1>21, <1>22
         DEF Next, ThreadStep, MainStep

\* A step that moves no unit and takes no client off or onto the two sets
\* keeps the balance.
LEMMA SameUnits ==
  ASSUME Balance, UNCHANGED <<sem, count, late, early>>, Visited' = Visited, Posted' = Posted,
         mpc' \in {"walk", "take", "shut", "wait"} =>
           mpc \in {"walk", "take", "shut", "wait"} /\ (mpc' = "take" <=> mpc = "take")
  PROVE  Balance'
BY DEF Balance

\* No unit of the semaphore is lost, step by step.
LEMMA BalanceStep ==
  ASSUME IInv, [Next]_vars
  PROVE  Balance'
<1>0. TypeOK /\ SlotsOnce /\ Main /\ Balance
  BY DEF IInv, RefsExact
<1> USE DEF TypeOK, SlotsOnce, Main, thvars, mainvars, hvars, Goto
<1>1. ASSUME NEW c \in Clients, Accept(c)  PROVE Balance'
  BY <1>0, <1>1, SameUnits DEF Accept, Visited, Posted
<1>2. ASSUME NEW c \in Clients, Register(c)  PROVE Balance'
  BY <1>0, <1>2 DEF Register, Balance
<1>3. ASSUME NEW c \in Clients, RegisterFull(c)  PROVE Balance'
  BY <1>0, <1>3, SameUnits DEF RegisterFull, Visited, Posted
<1>4. ASSUME NEW c \in Clients, AllClients(c)  PROVE Balance'
  BY <1>0, <1>4, SameUnits DEF AllClients, Visited, Posted
<1>5. ASSUME NEW c \in Clients, ReleaseEntry(c)  PROVE Balance'
  BY <1>0, <1>5, SameUnits DEF ReleaseEntry, Visited, Posted
<1>6. ASSUME NEW c \in Clients, ListDone(c)  PROVE Balance'
  BY <1>0, <1>6, SameUnits DEF ListDone, Visited, Posted
<1>7. ASSUME NEW c \in Clients, PeerCloses(c)  PROVE Balance'
  BY <1>0, <1>7, SameUnits DEF PeerCloses, Visited, Posted
<1>8. ASSUME NEW c \in Clients, LeaveUnref(c)  PROVE Balance'
  BY <1>0, <1>8, SameUnits DEF LeaveUnref, Visited, Posted
<1>9. ASSUME NEW c \in Clients, Unregister(c)  PROVE Balance'
  <2>1. PICK i \in Slots :
          /\ slots[i] = c /\ slots' = [slots EXCEPT ![i] = NoClient]
          /\ missed' = IF mpc \in {"accept", "count"}
                          \/ (mpc \in {"walk", "take", "shut"} /\ i >= index)
                       THEN missed \cup {c} ELSE missed
    BY <1>9 DEF Unregister
  <2>2. ASSUME mpc \in {"walk", "take", "shut", "wait"}
        PROVE  Visited' = Visited /\ Posted' = Posted
    <3>1. i \in Int /\ index \in Int /\ i < MaxClients
      BY <1>0, MaxClientsAssumption DEF Slots
    <3>2. c \notin missed /\ (c \in missed' <=> ~(i < index))
      BY <1>0, <1>9, <2>1, <2>2, <3>1 DEF Unregister
    <3>3. \A d \in Clients \ {c} :
            /\ d \in missed' <=> d \in missed
            /\ pc'[d] = pc[d]
            /\ \A j \in Slots : slots'[j] = d <=> slots[j] = d
      <4>1. \A d \in Clients \ {c} : d \in missed' <=> d \in missed
        BY <2>1
      <4>2. \A d \in Clients \ {c} : pc'[d] = pc[d]
        BY <1>0, <1>9 DEF Unregister
      <4>3. \A d \in Clients \ {c}, j \in Slots : slots'[j] = d <=> slots[j] = d
        BY <1>0, <2>1, ClientsAssumption
      <4> QED  BY <4>1, <4>2, <4>3
    <3>4. \A d \in Clients \ {c} : d \in Visited' <=> d \in Visited
      BY <1>9, <3>3 DEF Visited, Unregister
    <3>5. c \in Visited' <=> c \in Visited
      <4>1. c \in Visited <=> i < index
        BY <1>0, <1>9, <2>1 DEF Visited, Unregister
      <4>2. pc'[c] = "post" /\ \A j \in Slots : slots'[j] # c
        BY <1>0, <1>9, <2>1, ClientsAssumption DEF Unregister
      <4>3. c \in Visited' <=> c \notin missed'
        BY <4>2 DEF Visited
      <4> QED  BY <3>2, <4>1, <4>3
    <3>6. Posted' = Posted
      BY <1>0, <1>9, <3>3 DEF Posted, Unregister
    <3>7. Visited' \in SUBSET Clients /\ Visited \in SUBSET Clients
      BY DEF Visited
    <3> QED  BY <3>4, <3>5, <3>6, <3>7
  <2> QED  BY <1>0, <1>9, <2>2 DEF Unregister, Balance
<1>10. ASSUME NEW c \in Clients, UnregisterPost(c)  PROVE Balance'
  <2>1. SUFFICES ASSUME mpc \in {"walk", "take", "shut", "wait"}, ~late, ~early'
               PROVE  sem' + Cardinality(Visited')
                        = count' + Cardinality(Posted') + (IF mpc' = "take" THEN 1 ELSE 0)
    BY <1>10 DEF UnregisterPost, Balance
  <2>2. c \notin missed /\ ~early
    BY <1>10, <2>1 DEF UnregisterPost
  <2>3. Visited' = Visited
    BY <1>0, <1>10, <2>2 DEF UnregisterPost, Visited
  <2>4. c \notin Posted /\ Posted' = Posted \cup {c}
    BY <1>0, <1>10, <2>2 DEF UnregisterPost, Posted
  <2>5. Cardinality(Posted') = Cardinality(Posted) + 1
    BY <2>4, VisitedFinite, FS_AddElement
  <2> QED  BY <1>0, <1>10, <2>1, <2>2, <2>3, <2>5, VisitedFinite DEF UnregisterPost, PostOne, Balance
<1>11. ASSUME Sighup  PROVE Balance'
  BY <1>11 DEF Sighup, Balance
<1>12. ASSUME CountSlot  PROVE Balance'
  BY <1>12 DEF CountSlot, Balance
<1>13. ASSUME SemInit  PROVE Balance'
  <2>1. Visited' = {} /\ Posted' = {}
    BY <1>0, <1>13 DEF SemInit, Visited, Posted, Slots
  <2> QED  BY <1>0, <1>13, <2>1, FS_EmptySet DEF SemInit, Balance
<1>14. ASSUME ReadSlot  PROVE Balance'
  <2>1. index \in Slots /\ \A i \in Slots : i < index + 1 <=> (i < index \/ i = index)
    BY <1>0, <1>14, MaxClientsAssumption DEF ReadSlot, Slots
  <2>2. Posted' = Posted
    BY <1>14 DEF ReadSlot, Posted
  <2>3. CASE slots[index] = NoClient
    <3>1. Visited' = Visited
      BY <1>0, <1>14, <2>1, <2>3, ClientsAssumption DEF ReadSlot, Visited
    <3> QED  BY <1>0, <1>14, <2>2, <2>3, <3>1 DEF ReadSlot, Balance
  <2>4. CASE slots[index] # NoClient
    <3>1. slots[index] \in Clients /\ slots[index] \notin Visited
      BY <1>0, <2>1, <2>4 DEF Visited
    <3>2. Visited' = Visited \cup {slots[index]}
      BY <1>0, <1>14, <2>1, <3>1 DEF ReadSlot, Visited
    <3>3. Cardinality(Visited') = Cardinality(Visited) + 1
      BY <3>1, <3>2, VisitedFinite, FS_AddElement
    <3> QED  BY <1>0, <1>14, <2>2, <2>4, <3>3, VisitedFinite DEF ReadSlot, Balance
  <2> QED  BY <2>3, <2>4
<1>15. ASSUME TakeMarble  PROVE Balance'
  <2>1. Visited' = Visited /\ Posted' = Posted
    BY <1>15 DEF TakeMarble, Visited, Posted
  <2> QED  BY <1>0, <1>15, <2>1, VisitedFinite DEF TakeMarble, Balance
<1>16. ASSUME ShutSocket  PROVE Balance'
  BY <1>0, <1>16, SameUnits DEF ShutSocket, Visited, Posted
<1>17. ASSUME WalkDone  PROVE Balance'
  <2>1. Visited' = Visited /\ Posted' = Posted
    BY <1>17 DEF WalkDone, Visited, Posted
  <2> QED  BY <1>0, <1>17, <2>1, VisitedFinite DEF WalkDone, Balance
<1>18. ASSUME WaitMarble  PROVE Balance'
  <2>1. Visited' = Visited /\ Posted' = Posted
    BY <1>18 DEF WaitMarble, Visited, Posted
  <2> QED  BY <1>0, <1>18, <2>1, VisitedFinite DEF WaitMarble, Balance, AllOfThem, MarbleReady
<1>19. ASSUME ShutdownReturns  PROVE Balance'
  BY <1>19 DEF ShutdownReturns, Balance
<1>20. ASSUME FiniSlot  PROVE Balance'
  BY <1>20 DEF FiniSlot, Balance
<1>21. ASSUME Exit  PROVE Balance'
  BY <1>21 DEF Exit, Balance
<1>22. CASE UNCHANGED vars
  BY <1>0, <1>22, SameUnits DEF vars, Visited, Posted
<1> QED  BY <1>1, <1>2, <1>3, <1>4, <1>5, <1>6, <1>7, <1>8, <1>9, <1>10,
            <1>11, <1>12, <1>13, <1>14, <1>15, <1>16, <1>17, <1>18, <1>19,
            <1>20, <1>21, <1>22
         DEF Next, ThreadStep, MainStep

-----------------------------------------------------------------------------
(* The theorems *)

\* IInv is inductive.
LEMMA Inductive == IInv /\ [Next]_vars => IInv'
<1> SUFFICES ASSUME IInv, [Next]_vars  PROVE IInv'
  OBVIOUS
<1>1. TypeOK' /\ Counts' /\ Lives'
  BY TypesStep, CountsStep, LivesStep
<1>2. (TypeOK /\ Counts /\ Lives => RefsExact)'
  BY RefsFromCounts, PTL
<1> QED  BY <1>1, <1>2, SlotsStep, MainStepKeeps, BalanceStep, EmptiedStep DEF IInv

\* IInv holds in every state the server can reach.
THEOREM Invariance == Spec => []IInv
<1> QED  BY Initially, Inductive, PTL DEF Spec

\* Until creg_fini the reference count of a CLIENT is the number of places
\* that keep a pointer to it, and it is freed exactly when there is none left
\* (client_ref and client_unref in client.c, client_registry.c).
THEOREM ClientReferences == Spec => []RefsExact
<1>1. IInv => RefsExact
  BY DEF IInv
<1> QED  BY <1>1, Invariance, PTL

\* creg_shutdown_all (client_registry.c) returns with no client registered,
\* but for the two races that late and early record.
THEOREM ShutdownWaits == Spec => []ShutdownWaitsForAll
<1>1. IInv => ShutdownWaitsForAll
  BY DEF IInv, Emptied, ShutdownWaitsForAll
<1> QED  BY <1>1, Invariance, PTL
=============================================================================
