--------------------------- MODULE ClientRegistry ---------------------------
(***************************************************************************)
(* The client registry of the Charla server (hw5/src/client_registry.c),   *)
(* the reference counts of CLIENT objects (client.c), and the shutdown of  *)
(* the server on SIGHUP (main.c, terminate): creg_shutdown_all counts the  *)
(* registered clients, shuts their sockets down one by one and waits on a  *)
(* semaphore that creg_unregister posts; then the registry is finalized.   *)
(*                                                                         *)
(* Each client is one connection with its CLIENT object and its service    *)
(* thread; main is the thread that runs the signal handler.  The registry  *)
(* mutex is held across no step boundary: register, all_clients and the    *)
(* part of unregister under it are one step each.  creg_shutdown_all never *)
(* takes it, so each of its accesses to a slot is a step of its own.       *)
(***************************************************************************)
EXTENDS Naturals, FiniteSets

CONSTANTS Clients,
          MaxClients,   \* MAX_CLIENTS, the length of the array
          MaxLists,     \* USERS requests over all connections (bound)
          NoClient

Slots == 0..(MaxClients - 1)

ASSUME ClientsAssumption == IsFiniteSet(Clients) /\ NoClient \notin Clients
ASSUME MaxClientsAssumption == MaxClients \in Nat /\ MaxClients > 0
ASSUME MaxListsAssumption == MaxLists \in Nat

VARIABLES
  slots,    \* slots[i]: cr->clients[i]
  refs,     \* refs[c]: CLIENT.referenceCount
  freed,    \* freed[c]: client_unref has freed the CLIENT
  open,     \* open[c]: the socket has not been shut down or closed by its peer
  pc,       \* pc[c]: control point of the service thread
  list,     \* list[c]: entries of its creg_all_clients array not yet released
  lists,    \* USERS requests so far
  mpc,      \* control point of main in creg_shutdown_all and terminate
  index,    \* the slot main looks at next
  count,    \* clientCount
  target,   \* the client main is about to shut down
  sem,      \* value of shutdownSemaphore
  late,     \* history: a client was registered after SIGHUP arrived
  missed,   \* history: clients that left their slot before creg_shutdown_all
            \* came to it
  early     \* history: one of them posted the semaphore after sem_init

thvars == <<pc, list, lists>>
mainvars == <<mpc, index, count, target>>
hvars == <<late, missed, early>>
vars == <<slots, refs, freed, open, thvars, mainvars, sem, hvars>>

Init ==
  /\ slots = [i \in Slots |-> NoClient]
  /\ refs = [c \in Clients |-> 0]
  /\ freed = [c \in Clients |-> FALSE]
  /\ open = [c \in Clients |-> FALSE]
  /\ pc = [c \in Clients |-> "none"]
  /\ list = [c \in Clients |-> {}]
  /\ lists = 0
  /\ mpc = "accept"
  /\ index = 0
  /\ count = 0
  /\ target = NoClient
  /\ sem = 0
  /\ late = FALSE
  /\ missed = {}
  /\ early = FALSE

Goto(c, label) == pc' = [pc EXCEPT ![c] = label]
Registered(c) == \E i \in Slots : slots[i] = c

\* client_unref.  The thread that drops the last reference frees the CLIENT
\* with its mutex taken, so an unref of a freed CLIENT never returns.
Unref(c) ==
  /\ ~freed[c]
  /\ refs' = [refs EXCEPT ![c] = @ - 1]
  /\ freed' = [freed EXCEPT ![c] = refs[c] = 1]

-----------------------------------------------------------------------------
(* Connections and their service threads *)

\* main accepts a connection and creates the client's service thread.
Accept(c) ==
  /\ mpc = "accept" /\ pc[c] = "none"
  /\ open' = [open EXCEPT ![c] = TRUE]
  /\ Goto(c, "start")
  /\ UNCHANGED <<slots, refs, freed, list, lists, mainvars, sem, hvars>>

\* The references of a CLIENT that creg_register returns.  (Faulty: the one of
\* the caller is not counted.)
RegistryRefOnly == 1
RegisterRefs == 2

\* creg_register: the first free slot; the new CLIENT has two references.
Register(c) ==
  /\ pc[c] = "start"
  /\ \E i \in Slots :
       /\ slots[i] = NoClient
       /\ \A j \in Slots : slots[j] = NoClient => i <= j
       /\ slots' = [slots EXCEPT ![i] = c]
  /\ refs' = [refs EXCEPT ![c] = RegisterRefs]
  /\ Goto(c, "serve")
  /\ late' = (late \/ mpc # "accept")
  /\ UNCHANGED <<freed, open, list, lists, mainvars, sem, missed, early>>

\* creg_register with no slot free: NULL, which chla_client_service does not
\* test and client_logout dereferences when the connection ends.
RegisterFull(c) ==
  /\ pc[c] = "start"
  /\ \A i \in Slots : slots[i] # NoClient
  /\ Goto(c, "null")
  /\ UNCHANGED <<slots, refs, freed, open, list, lists, mainvars, sem, hvars>>

\* A USERS request: creg_all_clients takes a reference to every registered
\* client.  (A client that creg_fini freed would block it.)
AllClients(c) ==
  /\ pc[c] = "serve" /\ open[c] /\ lists < MaxLists
  /\ \A d \in Clients : Registered(d) => ~freed[d]
  /\ lists' = lists + 1
  /\ list' = [list EXCEPT ![c] = {d \in Clients : Registered(d)}]
  /\ refs' = [d \in Clients |-> IF Registered(d) THEN refs[d] + 1 ELSE refs[d]]
  /\ Goto(c, "list")
  /\ UNCHANGED <<slots, freed, open, mainvars, sem, hvars>>

\* client_unref on the next entry of that array.
ReleaseEntry(c) ==
  /\ pc[c] = "list"
  /\ \E d \in list[c] :
       /\ Unref(d)
       /\ list' = [list EXCEPT ![c] = @ \ {d}]
  /\ UNCHANGED <<slots, open, pc, lists, mainvars, sem, hvars>>

ListDone(c) ==
  /\ pc[c] = "list" /\ list[c] = {}
  /\ Goto(c, "serve")
  /\ UNCHANGED <<slots, refs, freed, open, list, lists, mainvars, sem, hvars>>

\* The peer closes the connection.
PeerCloses(c) ==
  /\ open[c]
  /\ open' = [open EXCEPT ![c] = FALSE]
  /\ UNCHANGED <<slots, refs, freed, thvars, mainvars, sem, hvars>>

\* proto_recv_packet returns -1; client_logout and pthread_join (ClientSession)
\* follow, then client_unref of the thread's own reference.
LeaveUnref(c) ==
  /\ pc[c] = "serve" /\ ~open[c]
  /\ Unref(c)
  /\ Goto(c, "leave")
  /\ UNCHANGED <<slots, open, list, lists, mainvars, sem, hvars>>

\* creg_unregister under the registry mutex: drop the registry's reference and
\* clear the slot.
Unregister(c) ==
  /\ pc[c] = "leave"
  /\ \E i \in Slots :
       /\ slots[i] = c
       /\ slots' = [slots EXCEPT ![i] = NoClient]
       /\ missed' = IF mpc \in {"accept", "count"}
                       \/ (mpc \in {"walk", "take", "shut"} /\ i >= index)
                    THEN missed \cup {c} ELSE missed
  /\ Unref(c)
  /\ Goto(c, "post")
  /\ UNCHANGED <<open, list, lists, mainvars, sem, late, early>>

\* sem_post(&shutdownSemaphore) of creg_unregister.  (Faulty: left out.)
PostNone(n) == n
PostOne(n) == n + 1

\* creg_unregister has given the mutex back and posts the semaphore.
UnregisterPost(c) ==
  /\ pc[c] = "post"
  /\ sem' = PostOne(sem)
  /\ early' = (early \/ (c \in missed /\ mpc \notin {"accept", "count"}))
  /\ Goto(c, "done")
  /\ UNCHANGED <<slots, refs, freed, open, list, lists, mainvars, late, missed>>

-----------------------------------------------------------------------------
(* SIGHUP: terminate in the signal handler, on the main thread *)

Sighup ==
  /\ mpc = "accept"
  /\ mpc' = "count" /\ index' = 0 /\ count' = 0
  /\ UNCHANGED <<slots, refs, freed, open, thvars, target, sem, hvars>>

\* creg_shutdown_all: look at one slot and count it, without the mutex.
CountSlot ==
  /\ mpc = "count" /\ index < MaxClients
  /\ count' = IF slots[index] = NoClient THEN count ELSE count + 1
  /\ index' = index + 1
  /\ UNCHANGED <<slots, refs, freed, open, thvars, mpc, target, sem, hvars>>

\* sem_init(&shutdownSemaphore, 0, clientCount)
SemInit ==
  /\ mpc = "count" /\ index = MaxClients
  /\ sem' = count
  /\ index' = 0
  /\ mpc' = "walk"
  /\ UNCHANGED <<slots, refs, freed, open, thvars, count, target, hvars>>

\* Read the next slot again.
ReadSlot ==
  /\ mpc = "walk" /\ index < MaxClients
  /\ index' = index + 1
  /\ target' = slots[index]
  /\ mpc' = IF slots[index] = NoClient THEN "walk" ELSE "take"
  /\ UNCHANGED <<slots, refs, freed, open, thvars, count, sem, hvars>>

\* Take one unit for it,
TakeMarble ==
  /\ mpc = "take" /\ sem > 0
  /\ sem' = sem - 1
  /\ mpc' = "shut"
  /\ UNCHANGED <<slots, refs, freed, open, thvars, index, count, target, hvars>>

\* then read its descriptor and shut the connection down.
ShutSocket ==
  /\ mpc = "shut"
  /\ open' = [open EXCEPT ![target] = FALSE]
  /\ target' = NoClient
  /\ mpc' = "walk"
  /\ UNCHANGED <<slots, refs, freed, thvars, index, count, sem, hvars>>

WalkDone ==
  /\ mpc = "walk" /\ index = MaxClients
  /\ mpc' = "wait"
  /\ UNCHANGED <<slots, refs, freed, open, thvars, index, count, target, sem, hvars>>

\* The units still to be waited for.  (Faulty: one less.)
AllButOne(n) == IF n > 0 THEN n - 1 ELSE 0
AllOfThem(n) == n

\* A unit of the semaphore may be taken.
MarbleReady == sem > 0

\* while(clientCount != 0) sem_wait
WaitMarble ==
  /\ mpc = "wait" /\ AllOfThem(count) > 0 /\ MarbleReady
  /\ sem' = sem - 1
  /\ count' = count - 1
  /\ UNCHANGED <<slots, refs, freed, open, thvars, mpc, index, target, hvars>>

\* creg_shutdown_all returns.
ShutdownReturns ==
  /\ mpc = "wait" /\ AllOfThem(count) = 0
  /\ mpc' = "fini" /\ index' = 0
  /\ UNCHANGED <<slots, refs, freed, open, thvars, count, target, sem, hvars>>

\* creg_fini: client_unref on what is left in the slots, again without the
\* mutex; then the process exits.
FiniSlot ==
  /\ mpc = "fini" /\ index < MaxClients
  /\ index' = index + 1
  /\ \/ slots[index] = NoClient /\ UNCHANGED <<refs, freed>>
     \/ slots[index] # NoClient /\ Unref(slots[index])
  /\ UNCHANGED <<slots, open, thvars, mpc, count, target, sem, hvars>>

Exit ==
  /\ mpc = "fini" /\ index = MaxClients
  /\ mpc' = "exit"
  /\ UNCHANGED <<slots, refs, freed, open, thvars, index, count, target, sem, hvars>>

-----------------------------------------------------------------------------
ThreadStep(c) ==
  \/ Register(c) \/ RegisterFull(c) \/ ReleaseEntry(c) \/ ListDone(c)
  \/ LeaveUnref(c) \/ Unregister(c) \/ UnregisterPost(c)

MainStep ==
  \/ CountSlot \/ SemInit \/ ReadSlot \/ TakeMarble \/ ShutSocket \/ WalkDone
  \/ WaitMarble \/ ShutdownReturns \/ FiniSlot \/ Exit

Next ==
  /\ mpc # "exit"
  /\ \/ \E c \in Clients : Accept(c) \/ AllClients(c) \/ PeerCloses(c) \/ ThreadStep(c)
     \/ Sighup
     \/ MainStep

Spec == Init /\ [][Next]_vars
\* Threads are scheduled fairly; a peer may stay connected for ever.
FairSpec ==
  /\ Spec
  /\ WF_vars(MainStep /\ mpc # "exit")
  /\ \A c \in Clients : WF_vars(ThreadStep(c) /\ mpc # "exit")

-----------------------------------------------------------------------------
(* Properties *)

TypeOK ==
  /\ slots \in [Slots -> Clients \cup {NoClient}]
  /\ refs \in [Clients -> Nat]
  /\ freed \in [Clients -> BOOLEAN]
  /\ open \in [Clients -> BOOLEAN]
  /\ pc \in [Clients -> {"none", "start", "null", "serve", "list", "leave",
                         "post", "done"}]
  /\ list \in [Clients -> SUBSET Clients]
  /\ lists \in 0..MaxLists
  /\ mpc \in {"accept", "count", "walk", "take", "shut", "wait", "fini", "exit"}
  /\ index \in 0..MaxClients
  /\ count \in 0..MaxClients
  /\ target \in Clients \cup {NoClient}
  /\ sem \in Nat
  /\ late \in BOOLEAN /\ missed \subseteq Clients /\ early \in BOOLEAN

\* Until the registry is finalized, referenceCount counts the slot, the
\* service thread and the arrays of creg_all_clients that point to the CLIENT,
\* and the CLIENT is freed exactly when the last of them is gone.  So neither
\* creg_unregister nor the release of an array touches a freed CLIENT.
RefsExact ==
  /\ TypeOK
  /\ mpc \notin {"fini", "exit"} =>
       \A c \in Clients :
         /\ refs[c] = Cardinality({i \in Slots : slots[i] = c})
                    + (IF pc[c] \in {"serve", "list"} THEN 1 ELSE 0)
                    + Cardinality({d \in Clients : c \in list[d]})
         /\ freed[c] <=> (pc[c] \in {"leave", "post", "done"} /\ refs[c] = 0)

\* creg_shutdown_all returns with no client registered, except when a client
\* was registered after SIGHUP, or a client that left on its own before its slot
\* was visited posts the semaphore after sem_init.  That it left while clients
\* were being counted, and posted before sem_init wiped it out, does no harm.
ShutdownWaitsForAll ==
  (mpc = "fini" /\ index = 0 /\ ~late /\ ~early) => \A c \in Clients : ~Registered(c)

\* After SIGHUP the server terminates, though no peer closes its connection,
\* unless a client was registered after SIGHUP.
TerminatesUnlessLate == (mpc = "count") ~> (mpc = "exit" \/ late)

-----------------------------------------------------------------------------
(* What a test says and the code does not do: TLC refutes it. *)

\* tests/charla_tests.c:61 fails with "Server did not terminate after SIGHUP".
TerminatesAfterSighup == (mpc = "count") ~> (mpc = "exit")
=============================================================================
