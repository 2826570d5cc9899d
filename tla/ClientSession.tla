--------------------------- MODULE ClientSession ---------------------------
(***************************************************************************)
(* One connection to the Charla server from creg_register to               *)
(* creg_unregister: the client service thread (hw5/src/server.c,           *)
(* chla_client_service), the mailbox service thread each login creates     *)
(* (chla_mailbox_service), and the reference counts of the CLIENT and      *)
(* MAILBOX objects they share.                                             *)
(*                                                                         *)
(* The n-th login of client c makes mailbox <<c, n>> and mailbox thread    *)
(* <<c, n>>.  The thread is given the CLIENT, not the mailbox: it asks for *)
(* the mailbox when it first runs.  pthread_join waits for the thread of   *)
(* the last login only.  Nothing in server.c calls mb_add_message, so the  *)
(* items semaphore of a mailbox is posted by mb_shutdown alone; what       *)
(* mailboxes do with entries is in Mailbox, which handles are free in      *)
(* Login, the array of creg_all_clients in ClientRegistry.                 *)
(*                                                                         *)
(* client_unref and mb_unref free the object with its mutex taken, so a    *)
(* thread that then locks it waits for ever.                               *)
(***************************************************************************)
EXTENDS Naturals, FiniteSets

CONSTANTS Clients,
          MaxLogins,    \* LOGIN requests that succeed, per connection (bound)
          MaxSends,     \* SEND requests, per connection (bound)
          NoMailbox, NoClient

Mailboxes == Clients \X (1..MaxLogins)

ASSUME ClientsAssumption == IsFiniteSet(Clients) /\ NoClient \notin Clients
ASSUME BoundsAssumption == MaxLogins \in Nat /\ MaxSends \in Nat
ASSUME NoMailboxAssumption == NoMailbox \notin Mailboxes

VARIABLES
  crefs, cfreed,  \* CLIENT: referenceCount, freed by client_unref
  mailbox,        \* CLIENT.mailbox while logged in, NoMailbox otherwise
  logins,         \* logins[c]: logins so far
  sends,          \* sends[c]: SEND requests so far
  pc, tid, rcpt,  \* client service thread: control point, mailbox_thread_id,
                  \* recipientClient
  mrefs, mfreed,  \* MAILBOX: referenceCount, freed by mb_unref
  items, defunct, \* MAILBOX: items semaphore, defuncted
  tpc, serves     \* mailbox service thread: control point, mbPtr

cvars == <<crefs, cfreed, mailbox, logins, sends>>
svars == <<pc, tid, rcpt>>
mvars == <<mrefs, mfreed, items, defunct>>
tvars == <<tpc, serves>>
vars == <<cvars, svars, mvars, tvars>>

Init ==
  /\ crefs = [c \in Clients |-> 0]
  /\ cfreed = [c \in Clients |-> FALSE]
  /\ mailbox = [c \in Clients |-> NoMailbox]
  /\ logins = [c \in Clients |-> 0]
  /\ sends = [c \in Clients |-> 0]
  /\ pc = [c \in Clients |-> "start"]
  /\ tid = [c \in Clients |-> NoMailbox]
  /\ rcpt = [c \in Clients |-> NoClient]
  /\ mrefs = [m \in Mailboxes |-> 0]
  /\ mfreed = [m \in Mailboxes |-> FALSE]
  /\ items = [m \in Mailboxes |-> 0]
  /\ defunct = [m \in Mailboxes |-> FALSE]
  /\ tpc = [t \in Mailboxes |-> "none"]
  /\ serves = [t \in Mailboxes |-> NoMailbox]

Goto(c, label) == pc' = [pc EXCEPT ![c] = label]
TGoto(t, label) == tpc' = [tpc EXCEPT ![t] = label]
LoggedIn(c) == mailbox[c] # NoMailbox

\* client_ref, client_unref.  (Faulty: client_ref does not count.)
ClientRefNone(c) == ~cfreed[c] /\ UNCHANGED crefs
ClientRef(c) == ~cfreed[c] /\ crefs' = [crefs EXCEPT ![c] = @ + 1]
ClientUnref(c) ==
  /\ ~cfreed[c]
  /\ crefs' = [crefs EXCEPT ![c] = @ - 1]
  /\ cfreed' = [cfreed EXCEPT ![c] = crefs[c] = 1]

\* mb_ref, mb_unref.  (Faulty: a reference is not counted.)
MbRefNone(m) == ~mfreed[m] /\ UNCHANGED mrefs
MbRef(m) == ~mfreed[m] /\ mrefs' = [mrefs EXCEPT ![m] = @ + 1]
MbUnref(m) ==
  /\ ~mfreed[m]
  /\ mrefs' = [mrefs EXCEPT ![m] = @ - 1]
  /\ mfreed' = [mfreed EXCEPT ![m] = mrefs[m] = 1]

-----------------------------------------------------------------------------
(* The client service thread *)

\* creg_register: one reference for the registry, one for the thread.
Register(c) ==
  /\ pc[c] = "start"
  /\ crefs' = [crefs EXCEPT ![c] = 2]
  /\ Goto(c, "serve")
  /\ UNCHANGED <<cfreed, mailbox, logins, sends, tid, rcpt, mvars, tvars>>

\* LOGIN that succeeds: client_login makes the mailbox.  (One that fails only
\* sends a NACK.)
Login(c) ==
  /\ pc[c] = "serve" /\ ~LoggedIn(c) /\ logins[c] < MaxLogins
  /\ LET m == <<c, logins[c] + 1>> IN
       /\ mailbox' = [mailbox EXCEPT ![c] = m]
       /\ mrefs' = [mrefs EXCEPT ![m] = 1]
  /\ logins' = [logins EXCEPT ![c] = @ + 1]
  /\ Goto(c, "spawn")
  /\ UNCHANGED <<crefs, cfreed, sends, tid, rcpt, mfreed, items, defunct, tvars>>

\* pthread_create(&mailbox_thread_id, ...): the id of an earlier thread is lost.
Spawn(c) ==
  /\ pc[c] = "spawn"
  /\ tid' = [tid EXCEPT ![c] = mailbox[c]]
  /\ TGoto(mailbox[c], "created")
  /\ Goto(c, "serve")
  /\ UNCHANGED <<cvars, rcpt, mvars, serves>>

\* The items semaphore after mb_shutdown.  (Faulty: without the post.)
NoWakeup(n) == n
Wakeup(n) == n + 1

\* What client_logout does to the mailbox, under the client's mutex:
\* mb_shutdown, then mb_unref.
DetachMailbox(c) ==
  LET m == mailbox[c] IN
  /\ LoggedIn(c)
  /\ defunct' = [defunct EXCEPT ![m] = TRUE]
  /\ items' = [items EXCEPT ![m] = Wakeup(@)]
  /\ MbUnref(m)
  /\ mailbox' = [mailbox EXCEPT ![c] = NoMailbox]

Logout(c) ==
  /\ pc[c] = "serve"
  /\ DetachMailbox(c)
  /\ UNCHANGED <<crefs, cfreed, logins, sends, svars, tvars>>

\* SEND: find the client logged in under the recipient's handle and take a
\* reference to it.  (With none, or when the sender is not logged in, only a
\* NACK is sent.)
FindRecipient(c) ==
  /\ pc[c] = "serve" /\ LoggedIn(c) /\ sends[c] < MaxSends
  /\ sends' = [sends EXCEPT ![c] = @ + 1]
  /\ \E d \in Clients :
       /\ LoggedIn(d)
       /\ ClientRef(d)
       /\ rcpt' = [rcpt EXCEPT ![c] = d]
  /\ Goto(c, "drop")
  /\ UNCHANGED <<cfreed, mailbox, logins, tid, mvars, tvars>>

\* SEND: client_unref(recipientClient), before it is used.
DropRecipient(c) ==
  /\ pc[c] = "drop"
  /\ ClientUnref(rcpt[c])
  /\ Goto(c, "push")
  /\ UNCHANGED <<mailbox, logins, sends, tid, rcpt, mvars, tvars>>

\* SEND: client_send_packet(recipientClient, ...), under the recipient's mutex.
PushPacket(c) ==
  /\ pc[c] = "push"
  /\ ~cfreed[rcpt[c]]
  /\ rcpt' = [rcpt EXCEPT ![c] = NoClient]
  /\ Goto(c, "serve")
  /\ UNCHANGED <<cvars, tid, mvars, tvars>>

\* proto_recv_packet returns -1: leave the loop, client_logout.
Disconnect(c) ==
  /\ pc[c] = "serve"
  /\ \/ DetachMailbox(c)
     \/ ~LoggedIn(c) /\ UNCHANGED <<mailbox, mvars>>
  /\ Goto(c, "join")
  /\ UNCHANGED <<crefs, cfreed, logins, sends, tid, rcpt, tvars>>

\* pthread_join on the thread of the last login, if there was one, returns.
\* (Faulty: it is left out.)
NotJoined(c) == TRUE
Joined(c) == tid[c] # NoMailbox => tpc[tid[c]] = "done"

Join(c) ==
  /\ pc[c] = "join"
  /\ Joined(c)
  /\ Goto(c, "unref")
  /\ UNCHANGED <<cvars, tid, rcpt, mvars, tvars>>

LeaveUnref(c) ==
  /\ pc[c] = "unref"
  /\ ClientUnref(c)
  /\ Goto(c, "unregister")
  /\ UNCHANGED <<mailbox, logins, sends, tid, rcpt, mvars, tvars>>

Unregister(c) ==
  /\ pc[c] = "unregister"
  /\ ClientUnref(c)
  /\ Goto(c, "done")
  /\ UNCHANGED <<mailbox, logins, sends, tid, rcpt, mvars, tvars>>

-----------------------------------------------------------------------------
(* The mailbox service thread t = <<c, n>> *)

\* client_ref, the first thing the thread does.
ThreadStart(t) ==
  /\ tpc[t] = "created"
  /\ ClientRef(t[1])
  /\ TGoto(t, "get")
  /\ UNCHANGED <<cfreed, mailbox, logins, sends, svars, mvars, serves>>

\* client_get_mailbox(clientPtr, 0): the mailbox the client has now, or NULL.
GetMailbox(t) ==
  /\ tpc[t] = "get"
  /\ \/ /\ LoggedIn(t[1])
        /\ MbRef(mailbox[t[1]])
        /\ serves' = [serves EXCEPT ![t] = mailbox[t[1]]]
        /\ TGoto(t, "wait")
     \/ /\ ~LoggedIn(t[1])
        /\ TGoto(t, "end")
        /\ UNCHANGED <<mrefs, serves>>
  /\ UNCHANGED <<cvars, svars, mfreed, items, defunct>>

\* mb_next_entry returns NULL: one unit of items, and the mailbox is defunct.
NextEntry(t) ==
  /\ tpc[t] = "wait"
  /\ items[serves[t]] > 0 /\ defunct[serves[t]]
  /\ items' = [items EXCEPT ![serves[t]] = @ - 1]
  /\ TGoto(t, "end")
  /\ UNCHANGED <<cvars, svars, mrefs, mfreed, defunct, serves>>

\* Where a mailbox thread goes from client_unref: a thread that got a mailbox
\* has to mb_unref it.
AfterUnref(t) == IF serves[t] = NoMailbox THEN "done" ELSE "endmb"

ThreadUnrefClient(t) ==
  /\ tpc[t] = "end"
  /\ ClientUnref(t[1])
  /\ TGoto(t, AfterUnref(t))
  /\ UNCHANGED <<mailbox, logins, sends, svars, mvars, serves>>

ThreadUnrefMailbox(t) ==
  /\ tpc[t] = "endmb"
  /\ MbUnref(serves[t])
  /\ TGoto(t, "done")
  /\ UNCHANGED <<cvars, svars, items, defunct, serves>>

-----------------------------------------------------------------------------
\* What the client service thread does without waiting for a request.
ServiceStep(c) ==
  \/ Register(c) \/ Spawn(c) \/ DropRecipient(c) \/ PushPacket(c)
  \/ Join(c) \/ LeaveUnref(c) \/ Unregister(c)

Received(c) == Login(c) \/ Logout(c) \/ FindRecipient(c) \/ Disconnect(c)

ThreadStep(t) ==
  \/ ThreadStart(t) \/ GetMailbox(t) \/ NextEntry(t)
  \/ ThreadUnrefClient(t) \/ ThreadUnrefMailbox(t)

Next ==
  \/ \E c \in Clients : ServiceStep(c) \/ Received(c)
  \/ \E t \in Mailboxes : ThreadStep(t)

Spec == Init /\ [][Next]_vars
FairSpec ==
  /\ Spec
  /\ \A c \in Clients : WF_vars(ServiceStep(c))
  /\ \A t \in Mailboxes : WF_vars(ThreadStep(t))
-----------------------------------------------------------------------------
(* Properties *)

TypeOK ==
  /\ crefs \in [Clients -> Nat]
  /\ cfreed \in [Clients -> BOOLEAN]
  /\ mailbox \in [Clients -> Mailboxes \cup {NoMailbox}]
  /\ logins \in [Clients -> 0..MaxLogins]
  /\ sends \in [Clients -> 0..MaxSends]
  /\ pc \in [Clients -> {"start", "serve", "spawn", "drop", "push", "join",
                         "unref", "unregister", "done"}]
  /\ tid \in [Clients -> Mailboxes \cup {NoMailbox}]
  /\ rcpt \in [Clients -> Clients \cup {NoClient}]
  /\ mrefs \in [Mailboxes -> Nat]
  /\ mfreed \in [Mailboxes -> BOOLEAN]
  /\ items \in [Mailboxes -> Nat]
  /\ defunct \in [Mailboxes -> BOOLEAN]
  /\ tpc \in [Mailboxes -> {"none", "created", "get", "wait", "end", "endmb", "done"}]
  /\ serves \in [Mailboxes -> Mailboxes \cup {NoMailbox}]

\* The CLIENT's count is the registry's pointer, the service thread's, one for
\* each mailbox thread that has started and not ended, and one for each SEND
\* between client_ref and client_unref.
ClientRefsExact ==
  \A c \in Clients :
    crefs[c] = (CASE pc[c] \in {"start", "done"} -> 0
                  [] pc[c] = "unregister" -> 1
                  [] OTHER -> 2)
             + Cardinality({t \in Mailboxes : t[1] = c /\ tpc[t] \in {"get", "wait", "end"}})
             + Cardinality({d \in Clients : pc[d] = "drop" /\ rcpt[d] = c})

\* The MAILBOX's count is the CLIENT's pointer and those of the threads that
\* serve it; it is freed only when the last of them is gone, and when a client
\* is gone and its mailbox threads are done nothing of it is left allocated.
MailboxRefsExact ==
  /\ TypeOK
  /\ \A m \in Mailboxes :
       /\ mrefs[m] = Cardinality({c \in Clients : mailbox[c] = m})
                   + Cardinality({t \in Mailboxes : serves[t] = m /\ tpc[t] # "done"})
       /\ mfreed[m] => (defunct[m] /\ mrefs[m] = 0)
  /\ \A c \in Clients :
       (pc[c] = "done" /\ \A t \in Mailboxes : t[1] = c => tpc[t] \in {"none", "done"}) =>
         \A n \in 1 .. logins[c] : mfreed[<<c, n>>]

\* A CLIENT is freed only after the mailbox thread of its last login is done, so
\* that thread never touches a freed one: join keeps the service thread's
\* reference until then.  A thread of an earlier login has no such protection: it
\* may run client_ref on a CLIENT that is gone, whose id pthread_join lost.
FreedAfterLastThread ==
  \A c \in Clients : cfreed[c] => (tid[c] # NoMailbox => tpc[tid[c]] = "done")

\* A mailbox thread of c got the mailbox of a later login.
Crossed(c) == \E t \in Mailboxes : t[1] = c /\ serves[t] \notin {NoMailbox, t}

\* A connection that ends leads to creg_unregister, with the last mailbox thread
\* joined, unless a mailbox thread of an earlier login took the mailbox of a
\* later one.
UnregistersUnlessCrossed ==
  \A c \in Clients : (pc[c] = "join") ~> (pc[c] = "done" \/ Crossed(c))

-----------------------------------------------------------------------------
(* What a header says and the code does not do: TLC refutes it. *)

\* client.h:28: CLIENTs are counted so that they can be passed around "without
\* fear of dangling references".  A packet is sent to a CLIENT that exists.
SendTargetLive == \A c \in Clients : pc[c] = "push" => ~cfreed[rcpt[c]]
=============================================================================
