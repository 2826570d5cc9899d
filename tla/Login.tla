------------------------------- MODULE Login -------------------------------
(***************************************************************************)
(* Logging in and out of the Charla server: client_login, client_logout    *)
(* and client_get_user (hw5/src/client.c), the user registry               *)
(* (user_registry.c) and the reference counts of USER objects (user.c),    *)
(* with the client service threads that call them (server.c).              *)
(*                                                                         *)
(* There is one thread per client, named by the client.  client_login runs *)
(* under one global loginMutex but reads loginState and user of the other  *)
(* clients without their mutexes; client_logout runs under the client's    *)
(* own mutex only.  Registry operations are one step each: they run under  *)
(* the registry mutex and wait for nothing a thread keeps.  References on  *)
(* CLIENT objects are the subject of ClientRegistry, mailboxes of Mailbox. *)
(*                                                                         *)
(* Reading a USER that was freed gives any handle, or one that matches     *)
(* none; reading through a NULL pointer stops the process.  Freed storage  *)
(* is not handed out again (Users are allocated at most once each).        *)
(***************************************************************************)
EXTENDS Naturals, FiniteSets

CONSTANTS Clients,      \* connections, each with its CLIENT object and thread
          Handles,
          Users,        \* USER objects that user_create may return (bound)
          MaxRequests,  \* requests the clients send in all (bound)
          NoClient, NoUser, NoHandle

ASSUME ClientsAssumption == IsFiniteSet(Clients) /\ NoClient \notin Clients
ASSUME UsersAssumption == NoUser \notin Users
ASSUME HandlesAssumption == NoHandle \notin Handles
ASSUME MaxRequestsAssumption == MaxRequests \in Nat

VARIABLES
  loginState,   \* loginState[c]: CLIENT.loginState
  user,         \* user[c]: CLIENT.user
  cmutex,       \* cmutex[c]: the thread that keeps c's mutex between steps
  loginMutex,   \* the thread inside client_login
  registry,     \* registry[h]: the USER registered under h
  uhandle,      \* uhandle[u]: the handle u was created with, NoHandle before
  urefs,        \* urefs[u]: USER.referenceCount
  pc, arg, todo, peek, seen,  \* each thread: control point, handle asked for,
                              \* clients still to look at, the one looked at, its
                              \* USER; cleared when they are no longer used
  requests,     \* requests received, on all connections
  crashed       \* the process died on a NULL pointer

clvars == <<loginState, user, cmutex, loginMutex>>
uvars == <<registry, uhandle, urefs>>
thvars == <<pc, arg, todo, peek, seen, requests>>
vars == <<clvars, uvars, thvars, crashed>>

Init ==
  /\ loginState = [c \in Clients |-> FALSE]
  /\ user = [c \in Clients |-> NoUser]
  /\ cmutex = [c \in Clients |-> NoClient]
  /\ loginMutex = NoClient
  /\ registry = [h \in Handles |-> NoUser]
  /\ uhandle = [u \in Users |-> NoHandle]
  /\ urefs = [u \in Users |-> 0]
  /\ pc = [c \in Clients |-> "new"]
  /\ arg = [c \in Clients |-> NoHandle]
  /\ todo = [c \in Clients |-> {}]
  /\ peek = [c \in Clients |-> NoClient]
  /\ seen = [c \in Clients |-> NoUser]
  /\ requests = 0
  /\ crashed = FALSE

Goto(c, label) == pc' = [pc EXCEPT ![c] = label]

\* What creg_all_clients returns: the clients that are registered.
Connected == {c \in Clients : pc[c] \notin {"new", "gone"}}

Freed(u) == uhandle[u] # NoHandle /\ urefs[u] = 0

\* What reading u's handle may give.
HandleRead(u) == IF Freed(u) THEN Handles \cup {NoHandle} ELSE {uhandle[u]}

-----------------------------------------------------------------------------
(* The user registry, as functions of its state *)

\* The USER that user_create returns: one that was never allocated.
Fresh == CHOOSE u \in Users : uhandle[u] = NoHandle

\* user_unref.
UserUnref(refs, u) == [refs EXCEPT ![u] = @ - 1]

\* user_ref.  (Faulty: none for a USER found in the registry.)
NoUserRef(refs, u) == refs
UserRef(refs, u) == [refs EXCEPT ![u] = @ + 1]

\* ureg_register: the registered USER with one more reference, or a new one
\* with two, the registry's and the caller's.
UregRegister(h, u) ==
  \/ /\ registry[h] # NoUser /\ u = registry[h]
     /\ urefs' = UserRef(urefs, u)
     /\ UNCHANGED <<registry, uhandle>>
  \/ /\ registry[h] = NoUser
     /\ uhandle[u] = NoHandle /\ u = Fresh
     /\ urefs' = [urefs EXCEPT ![u] = 2]
     /\ uhandle' = [uhandle EXCEPT ![u] = h]
     /\ registry' = [registry EXCEPT ![h] = u]

\* ureg_unregister: drop the registry's reference and the entry, if any.
UregUnregister(h) ==
  \/ /\ h \in Handles /\ registry[h] # NoUser
     /\ urefs' = UserUnref(urefs, registry[h])
     /\ registry' = [registry EXCEPT ![h] = NoUser]
  \/ /\ h \in Handles => registry[h] = NoUser
     /\ UNCHANGED <<urefs, registry>>

-----------------------------------------------------------------------------
(* Connections and requests *)

\* creg_register, at the start of chla_client_service.
Connect(c) ==
  /\ pc[c] = "new"
  /\ Goto(c, "idle")
  /\ UNCHANGED <<clvars, uvars, arg, todo, peek, seen, requests, crashed>>

\* A request packet arrives.
Request(c) ==
  /\ pc[c] = "idle" /\ requests < MaxRequests
  /\ requests' = requests + 1
  /\ \/ /\ \E h \in Handles : arg' = [arg EXCEPT ![c] = h]
        /\ Goto(c, "login")
        /\ UNCHANGED todo
     \/ Goto(c, "logout") /\ UNCHANGED <<arg, todo>>
     \/ /\ Goto(c, "look")
        /\ todo' = [todo EXCEPT ![c] = Connected]
        /\ UNCHANGED arg
  /\ UNCHANGED <<clvars, uvars, peek, seen, crashed>>

\* End of file on the connection: log out, then leave the registry.
Disconnect(c) ==
  /\ pc[c] = "idle"
  /\ Goto(c, "leave")
  /\ UNCHANGED <<clvars, uvars, arg, todo, peek, seen, requests, crashed>>

-----------------------------------------------------------------------------
(* client_login *)

\* sem_wait(&loginMutex) may go on.  (Faulty: the login is not serialized.)
LoginUnguarded == TRUE
LoginFree == loginMutex = NoClient

\* Take loginMutex; fail at once if this client is logged in, otherwise take
\* the list of clients.
LoginEnter(c) ==
  /\ pc[c] = "login" /\ LoginFree
  /\ \/ /\ loginState[c]
        /\ arg' = [arg EXCEPT ![c] = NoHandle]
        /\ Goto(c, "idle")
        /\ UNCHANGED <<loginMutex, todo>>
     \/ /\ ~loginState[c]
        /\ loginMutex' = c
        /\ todo' = [todo EXCEPT ![c] = Connected]
        /\ Goto(c, "scan")
        /\ UNCHANGED arg
  /\ UNCHANGED <<loginState, user, cmutex, uvars, peek, seen, requests, crashed>>

\* Read loginState of the next client, without its mutex.
ScanState(c) ==
  /\ pc[c] = "scan"
  /\ \E d \in todo[c] :
       \/ /\ loginState[d]
          /\ peek' = [peek EXCEPT ![c] = d]
          /\ Goto(c, "compare")
          /\ UNCHANGED todo
       \/ /\ ~loginState[d]
          /\ todo' = [todo EXCEPT ![c] = @ \ {d}]
          /\ UNCHANGED <<pc, peek>>
  /\ UNCHANGED <<clvars, uvars, arg, seen, requests, crashed>>

\* Give loginMutex back when the handle was found.  (Faulty: return -1 without.)
LoginKept == UNCHANGED loginMutex
LoginReleased == loginMutex' = NoClient

\* Read user of that client, again without its mutex, and compare handles.  A
\* match ends the login with -1.
ScanCompare(c) ==
  LET d == peek[c] IN
  /\ pc[c] = "compare"
  /\ \/ /\ user[d] = NoUser
        /\ crashed' = TRUE
        /\ UNCHANGED <<loginMutex, pc, arg, todo, peek>>
     \/ /\ user[d] # NoUser
        /\ \E h \in HandleRead(user[d]) :
             \/ /\ h = arg[c]
                /\ LoginReleased
                /\ arg' = [arg EXCEPT ![c] = NoHandle]
                /\ todo' = [todo EXCEPT ![c] = {}]
                /\ Goto(c, "idle")
             \/ /\ h # arg[c]
                /\ todo' = [todo EXCEPT ![c] = @ \ {d}]
                /\ Goto(c, "scan")
                /\ UNCHANGED <<loginMutex, arg>>
        /\ peek' = [peek EXCEPT ![c] = NoClient]
        /\ UNCHANGED crashed
  /\ UNCHANGED <<loginState, user, cmutex, uvars, seen, requests>>

\* No client has the handle: register it and mark the client logged in.
LoginCommit(c) ==
  /\ pc[c] = "scan" /\ todo[c] = {}
  /\ cmutex[c] = NoClient
  /\ \E u \in Users :
       /\ UregRegister(arg[c], u)
       /\ user' = [user EXCEPT ![c] = u]
  /\ loginState' = [loginState EXCEPT ![c] = TRUE]
  /\ loginMutex' = NoClient
  /\ arg' = [arg EXCEPT ![c] = NoHandle]
  /\ Goto(c, "idle")
  /\ UNCHANGED <<cmutex, todo, peek, seen, requests, crashed>>

-----------------------------------------------------------------------------
(* client_logout: from "logout" for a LOGOUT request, from "leave" when the
   connection has ended, after which the thread is "gone".  The labels of the
   second case end in 2. *)

LogoutFails(c) ==
  /\ cmutex[c] = NoClient /\ ~loginState[c]
  /\ \/ pc[c] = "logout" /\ Goto(c, "idle")
     \/ pc[c] = "leave" /\ Goto(c, "gone")
  /\ UNCHANGED <<clvars, uvars, arg, todo, peek, seen, requests, crashed>>

LogoutEnter(c) ==
  /\ cmutex[c] = NoClient /\ loginState[c]
  /\ \/ pc[c] = "logout" /\ Goto(c, "unref")
     \/ pc[c] = "leave" /\ Goto(c, "unref2")
  /\ cmutex' = [cmutex EXCEPT ![c] = c]
  /\ loginState' = [loginState EXCEPT ![c] = FALSE]
  /\ UNCHANGED <<user, loginMutex, uvars, arg, todo, peek, seen, requests, crashed>>

\* user_unref(client->user); a USER already freed would never let go of its mutex.
LogoutUnref(c) ==
  /\ \/ pc[c] = "unref" /\ Goto(c, "unregister")
     \/ pc[c] = "unref2" /\ Goto(c, "unregister2")
  /\ ~Freed(user[c])
  /\ urefs' = UserUnref(urefs, user[c])
  /\ UNCHANGED <<clvars, registry, uhandle, arg, todo, peek, seen, requests, crashed>>

\* ureg_unregister(user_registry, user_get_handle(client->user))
LogoutUnregister(c) ==
  /\ \/ pc[c] = "unregister" /\ Goto(c, "detach")
     \/ pc[c] = "unregister2" /\ Goto(c, "detach2")
  /\ \E h \in HandleRead(user[c]) : UregUnregister(h)
  /\ UNCHANGED <<clvars, uhandle, arg, todo, peek, seen, requests, crashed>>

\* Shut the mailbox down (Mailbox), clear the pointers, release the mutex.
LogoutDetach(c) ==
  /\ \/ pc[c] = "detach" /\ Goto(c, "idle")
     \/ pc[c] = "detach2" /\ Goto(c, "gone")
  /\ user' = [user EXCEPT ![c] = NoUser]
  /\ cmutex' = [cmutex EXCEPT ![c] = NoClient]
  /\ UNCHANGED <<loginState, loginMutex, uvars, arg, todo, peek, seen, requests, crashed>>

-----------------------------------------------------------------------------
(* The loop of a USERS or SEND request over all clients: client_get_user(d, 1)
   and user_get_handle on what it returns. *)

\* client_get_user up to sem_post: take the mutex of d, test loginState.
LookLock(c) ==
  /\ pc[c] = "look"
  /\ \E d \in todo[c] :
       /\ cmutex[d] = NoClient
       /\ \/ /\ loginState[d]
             /\ peek' = [peek EXCEPT ![c] = d]
             /\ Goto(c, "fetch")
             /\ UNCHANGED todo
          \/ /\ ~loginState[d]
             /\ todo' = [todo EXCEPT ![c] = @ \ {d}]
             /\ UNCHANGED <<pc, peek>>
  /\ UNCHANGED <<clvars, uvars, arg, seen, requests, crashed>>

\* return client->user, after the mutex was released.
LookFetch(c) ==
  /\ pc[c] = "fetch"
  /\ seen' = [seen EXCEPT ![c] = user[peek[c]]]
  /\ Goto(c, "use")
  /\ UNCHANGED <<clvars, uvars, arg, todo, peek, requests, crashed>>

\* The caller skips NULL and otherwise reads the handle.
LookUse(c) ==
  /\ pc[c] = "use"
  /\ todo' = [todo EXCEPT ![c] = @ \ {peek[c]}]
  /\ peek' = [peek EXCEPT ![c] = NoClient]
  /\ seen' = [seen EXCEPT ![c] = NoUser]
  /\ Goto(c, "look")
  /\ UNCHANGED <<clvars, uvars, arg, requests, crashed>>

LookEnd(c) ==
  /\ pc[c] = "look" /\ todo[c] = {}
  /\ Goto(c, "idle")
  /\ UNCHANGED <<clvars, uvars, arg, todo, peek, seen, requests, crashed>>

-----------------------------------------------------------------------------
\* What a thread does on its own, once a request has arrived.
Serve(c) ==
  \/ LoginEnter(c) \/ ScanState(c) \/ ScanCompare(c) \/ LoginCommit(c)
  \/ LogoutFails(c) \/ LogoutEnter(c) \/ LogoutUnref(c) \/ LogoutUnregister(c)
  \/ LogoutDetach(c) \/ LookLock(c) \/ LookFetch(c) \/ LookUse(c) \/ LookEnd(c)

Next ==
  /\ ~crashed
  /\ \E c \in Clients : Connect(c) \/ Request(c) \/ Disconnect(c) \/ Serve(c)

Spec == Init /\ [][Next]_vars
FairSpec == Spec /\ \A c \in Clients : WF_vars(~crashed /\ Serve(c))
-----------------------------------------------------------------------------
(* Properties *)

Labels == {"new", "idle", "login", "scan", "compare", "logout", "leave",
           "unref", "unref2", "unregister", "unregister2", "detach", "detach2",
           "look", "fetch", "use", "gone"}

\* Every variable has its type; in particular no count goes below zero.
TypeOK ==
  /\ loginState \in [Clients -> BOOLEAN]
  /\ user \in [Clients -> Users \cup {NoUser}]
  /\ cmutex \in [Clients -> Clients \cup {NoClient}]
  /\ loginMutex \in Clients \cup {NoClient}
  /\ registry \in [Handles -> Users \cup {NoUser}]
  /\ uhandle \in [Users -> Handles \cup {NoHandle}]
  /\ urefs \in [Users -> Nat]
  /\ pc \in [Clients -> Labels]
  /\ arg \in [Clients -> Handles \cup {NoHandle}]
  /\ todo \in [Clients -> SUBSET Clients]
  /\ peek \in [Clients -> Clients \cup {NoClient}]
  /\ seen \in [Clients -> Users \cup {NoUser}]
  /\ requests \in 0..MaxRequests
  /\ crashed \in BOOLEAN

\* No two clients are logged in under one handle, although client_login reads
\* the other clients without their mutexes while they log out, and may even
\* compare with a handle that was freed.
HandleUnique ==
  \A c, d \in Clients :
    (c # d /\ loginState[c] /\ loginState[d]) => uhandle[user[c]] # uhandle[user[d]]

\* The client holds the reference it got from ureg_register: from login up to
\* the user_unref of client_logout.
Holds(c, u) ==
  user[c] = u /\ pc[c] \notin {"unregister", "unregister2", "detach", "detach2"}

\* referenceCount is the number of clients that hold the USER, and one more
\* while it is registered.  So no client's or registry's USER is ever freed,
\* whatever order logins, logouts and unregistrations under a wrong handle
\* take, and every USER is freed once nobody holds it.
UserRefsExact ==
  /\ TypeOK
  /\ \A u \in Users :
       urefs[u] = Cardinality({c \in Clients : Holds(c, u)})
                + Cardinality({h \in Handles : registry[h] = u})

\* Every request, and every disconnection, is carried out to its end unless
\* the process dies: no thread waits for ever for a mutex.
Busy(c) == pc[c] \notin {"new", "idle", "gone"}
RequestsFinish == \A c \in Clients : Busy(c) ~> (~Busy(c) \/ crashed)

-----------------------------------------------------------------------------
(* What a header says and the code does not do: TLC refutes it. *)

\* client.h:114: no_ref is for a caller that "knows that the CLIENT cannot be
\* logged out until the USER object is no longer needed".
LookReadsLiveUser ==
  \A c \in Clients : (pc[c] = "use" /\ seen[c] # NoUser) => ~Freed(seen[c])
=============================================================================
