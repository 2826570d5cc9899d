------------------------------ MODULE Mailbox ------------------------------
(***************************************************************************)
(* hw5/src/mailbox.c: the reference-counted mailbox of the Charla server,  *)
(* with the threads that use it.  One box is one MAILBOX object, from the  *)
(* mb_init of a login to its finalization.  Each box has two threads:      *)
(*                                                                         *)
(*   <<"owner", m>>    the client service thread that logged in.  It       *)
(*                     holds the reference mb_init returned, adds messages *)
(*                     to other boxes, and at logout shuts m down and      *)
(*                     drops that reference (client.c, client_logout).     *)
(*   <<"service", m>>  the mailbox service thread (server.c,               *)
(*                     chla_mailbox_service), the only caller of           *)
(*                     mb_next_entry on m.                                 *)
(*                                                                         *)
(* A step is what a thread does between two operations that may block: a   *)
(* sem_wait on a mailbox mutex or on its items semaphore.  The mutexes are *)
(* not recursive.  mb_unref that reaches zero keeps the mutex for ever     *)
(* (the object is freed while it is held), so a later sem_wait on it never *)
(* returns; that freed storage is not handed out again is an assumption.   *)
(***************************************************************************)
EXTENDS Naturals, Sequences, FiniteSets

CONSTANTS Boxes,          \* the MAILBOX objects of a run
          CanSend,        \* pairs <<m, to>>: owner of m may send to box to
          MaxMsgs,        \* messages each owner sends (bound)
          NoBox, NoThread \* absent values

ASSUME BoxesAssumption == IsFiniteSet(Boxes)
ASSUME CanSendAssumption == CanSend \subseteq Boxes \X Boxes
ASSUME MaxMsgsAssumption == MaxMsgs \in Nat
ASSUME NoBoxAssumption == NoBox \notin Boxes

Owner(m) == <<"owner", m>>
Service(m) == <<"service", m>>
Threads == {"owner", "service"} \X Boxes

ASSUME NoThreadAssumption == NoThread \notin Threads

VARIABLES
  queue,      \* queue[m]: the linked list of entries, head first
  items,      \* items[m]: value of the items semaphore
  mutex,      \* mutex[m]: the thread that holds the mutex, or NoThread
  refs,       \* refs[m]: referenceCount
  defunct,    \* defunct[m]: defuncted
  hook,       \* hook[m]: a discard hook is set
  live,       \* live[m]: allocated by mb_init and not freed
  attached,   \* attached[m]: the owner is logged in with this mailbox
  opc, dest, sent,   \* owner: control point, recipient, messages sent so far
  spc, cur,          \* service thread: control point, entry in hand
  fin,        \* fin[t]: the box thread t is finalizing inside mb_unref
  taken,      \* history: entries mb_next_entry returned, in order
  leaked      \* history: references held by messages that were discarded

boxvars == <<queue, items, mutex, refs, defunct, hook, live, attached>>
ownvars == <<opc, dest, sent>>
svcvars == <<spc, cur, taken>>
vars == <<boxvars, ownvars, svcvars, fin, leaked>>

\* Entries.  from and id name the message itself, or the message a notice is about:
\* the identifier the code stores in a notice is a clock value or 0 (server.c:14,
\* 51, 56) and tells nothing.
Ids == 1..MaxMsgs
Message(m, k) == [kind |-> "MESSAGE", from |-> m, id |-> k]
Notice(ntype, e) == [kind |-> ntype, from |-> e.from, id |-> e.id]
Entries == [kind : {"MESSAGE", "BOUNCE", "RRCPT"}, from : Boxes, id : Ids]
NoEntry == [kind |-> "NONE", from |-> NoBox, id |-> 0]

IsMessage(e) == e.kind = "MESSAGE"

Init ==
  /\ queue = [m \in Boxes |-> <<>>]
  /\ items = [m \in Boxes |-> 0]
  /\ mutex = [m \in Boxes |-> NoThread]
  /\ refs = [m \in Boxes |-> 0]
  /\ defunct = [m \in Boxes |-> FALSE]
  /\ hook = [m \in Boxes |-> FALSE]
  /\ live = [m \in Boxes |-> FALSE]
  /\ attached = [m \in Boxes |-> FALSE]
  /\ opc = [m \in Boxes |-> "start"]
  /\ dest = [m \in Boxes |-> NoBox]
  /\ sent = [m \in Boxes |-> 0]
  /\ spc = [m \in Boxes |-> "none"]
  /\ cur = [m \in Boxes |-> NoEntry]
  /\ fin = [t \in Threads |-> NoBox]
  /\ taken = [m \in Boxes |-> <<>>]
  /\ leaked = [m \in Boxes |-> 0]

Unlocked(m) == mutex[m] = NoThread
OwnerAt(m, pc) == opc[m] = pc /\ fin[Owner(m)] = NoBox
ServiceAt(m, pc) == spc[m] = pc /\ fin[Service(m)] = NoBox

-----------------------------------------------------------------------------
(* Reference counting *)

\* mb_ref: lock, count, unlock.  The caller adds UNCHANGED for the rest.
Ref(m) ==
  /\ Unlocked(m)
  /\ refs' = [refs EXCEPT ![m] = @ + 1]

\* The count after one reference is dropped.  (Faulty: dropped twice, as with
\* the second unref that client.c:205 has commented out.)
DroppedTwice(n) == n - 2
Dropped(n) == n - 1

\* mb_unref: the thread that drops the last reference keeps the mutex and
\* goes on to finalize the mailbox.
Unref(t, m) ==
  /\ Unlocked(m)
  /\ refs' = [refs EXCEPT ![m] = Dropped(@)]
  /\ \/ refs[m] # 1 /\ UNCHANGED <<mutex, fin>>
     \/ /\ refs[m] = 1
        /\ mutex' = [mutex EXCEPT ![m] = t]
        /\ fin' = [fin EXCEPT ![t] = m]

\* The queue with an entry linked in after the tail.  (Faulty: at the head.)
LinkedFirst(s, e) == <<e>> \o s
Linked(s, e) == Append(s, e)

\* mb_add_notice on the mailbox that sent message e; q is what the queues are
\* when it is called.
AddNotice(q, ntype, e) ==
  /\ Unlocked(e.from)
  /\ queue' = [q EXCEPT ![e.from] = Linked(@, Notice(ntype, e))]
  /\ items' = [items EXCEPT ![e.from] = @ + 1]

\* The hook of the server, mailbox_discard_hook_function, applied to the
\* head of m, which leaves the queue: mb_add_notice on the sender's mailbox,
\* which waits for that mailbox's mutex even when it is m itself.  (Faulty: no
\* notice.)
NoBounce(m) == queue' = [queue EXCEPT ![m] = Tail(@)] /\ UNCHANGED items
Bounce(m) == AddNotice([queue EXCEPT ![m] = Tail(@)], "BOUNCE", Head(queue[m]))

\* One turn of the loop of mb_unref over the entries that remain.  The
\* reference a message holds on its sender is not given back.
DiscardHead(t) ==
  LET m == fin[t]
      e == Head(queue[m])
  IN
  /\ m # NoBox /\ queue[m] # <<>>
  /\ \/ IsMessage(e) /\ hook[m] /\ Bounce(m)
     \/ /\ ~(IsMessage(e) /\ hook[m])
        /\ queue' = [queue EXCEPT ![m] = Tail(@)]
        /\ UNCHANGED items
  /\ leaked' = IF IsMessage(e) /\ e.from # m
               THEN [leaked EXCEPT ![e.from] = @ + 1] ELSE leaked
  /\ UNCHANGED <<mutex, refs, defunct, hook, live, attached, ownvars, svcvars, fin>>

\* The end of mb_unref's finalization: free(mb), its mutex still held.
Free(t) ==
  LET m == fin[t] IN
  /\ m # NoBox /\ queue[m] = <<>>
  /\ live' = [live EXCEPT ![m] = FALSE]
  /\ fin' = [fin EXCEPT ![t] = NoBox]
  /\ UNCHANGED <<queue, items, mutex, refs, defunct, hook, attached,
                 ownvars, svcvars, leaked>>

-----------------------------------------------------------------------------
(* The owner: login, send, logout *)

\* mb_init, called by client_login, after which the mailbox service thread
\* is created.
MbInit(m) ==
  /\ OwnerAt(m, "start")
  /\ refs' = [refs EXCEPT ![m] = 1]
  /\ live' = [live EXCEPT ![m] = TRUE]
  /\ attached' = [attached EXCEPT ![m] = TRUE]
  /\ opc' = [opc EXCEPT ![m] = "idle"]
  /\ spc' = [spc EXCEPT ![m] = "created"]
  /\ UNCHANGED <<queue, items, mutex, defunct, hook, dest, sent, cur, taken, fin, leaked>>

\* client_get_mailbox(recipient, 0): a reference to the mailbox of a client
\* that is logged in; the client mutex keeps its logout out meanwhile.
GetRecipient(m) ==
  /\ OwnerAt(m, "idle") /\ sent[m] < MaxMsgs
  /\ \E to \in Boxes :
       /\ <<m, to>> \in CanSend /\ attached[to]
       /\ Ref(to)
       /\ dest' = [dest EXCEPT ![m] = to]
  /\ opc' = [opc EXCEPT ![m] = "add"]
  /\ UNCHANGED <<queue, items, mutex, defunct, hook, live, attached, sent,
                 svcvars, fin, leaked>>

\* mb_add_message up to its call of mb_ref: take the recipient's mutex and
\* link the entry in.
AddMessage(m) ==
  LET to == dest[m] IN
  /\ OwnerAt(m, "add")
  /\ Unlocked(to)
  /\ mutex' = [mutex EXCEPT ![to] = Owner(m)]
  /\ queue' = [queue EXCEPT ![to] = Linked(@, Message(m, sent[m] + 1))]
  /\ sent' = [sent EXCEPT ![m] = @ + 1]
  /\ opc' = [opc EXCEPT ![m] = "ref"]
  /\ UNCHANGED <<items, refs, defunct, hook, live, attached, dest, svcvars, fin, leaked>>

\* mb_ref on the sender's mailbox, unless the message is to itself.  (Faulty:
\* no reference is taken.)
NoSenderRef(m, to) == UNCHANGED refs
SenderRef(m, to) ==
  \/ to # m /\ Ref(m)
  \/ to = m /\ UNCHANGED refs

\* The rest of mb_add_message: mb_ref on the sender's mailbox unless it is
\* the recipient's, still holding the recipient's mutex; then post items and
\* release.
AddMessageEnd(m) ==
  LET to == dest[m] IN
  /\ OwnerAt(m, "ref")
  /\ SenderRef(m, to)
  /\ items' = [items EXCEPT ![to] = @ + 1]
  /\ mutex' = [mutex EXCEPT ![to] = NoThread]
  /\ opc' = [opc EXCEPT ![m] = "drop"]
  /\ UNCHANGED <<queue, defunct, hook, live, attached, dest, sent, svcvars, fin, leaked>>

\* mb_unref of the reference GetRecipient took.
DropRecipient(m) ==
  /\ OwnerAt(m, "drop")
  /\ Unref(Owner(m), dest[m])
  /\ opc' = [opc EXCEPT ![m] = "idle"]
  /\ dest' = [dest EXCEPT ![m] = NoBox]
  /\ UNCHANGED <<queue, items, defunct, hook, live, attached, sent, svcvars, leaked>>

\* The items semaphore after mb_shutdown.  (Faulty: without the post.)
NoWakeup(n) == n
Wakeup(n) == n + 1

\* mb_shutdown, called by client_logout.
MbShutdown(m) ==
  /\ OwnerAt(m, "idle")
  /\ Unlocked(m)
  /\ defunct' = [defunct EXCEPT ![m] = TRUE]
  /\ items' = [items EXCEPT ![m] = Wakeup(@)]
  /\ attached' = [attached EXCEPT ![m] = FALSE]
  /\ opc' = [opc EXCEPT ![m] = "unref"]
  /\ UNCHANGED <<queue, mutex, refs, hook, live, dest, sent, svcvars, fin, leaked>>

\* client_logout drops the reference mb_init returned.
LogoutUnref(m) ==
  /\ OwnerAt(m, "unref")
  /\ Unref(Owner(m), m)
  /\ opc' = [opc EXCEPT ![m] = "out"]
  /\ UNCHANGED <<queue, items, defunct, hook, live, attached, dest, sent, svcvars, leaked>>

-----------------------------------------------------------------------------
(* The mailbox service thread *)

\* The start of chla_mailbox_service: client_get_mailbox gives NULL, and the
\* thread ends, when the client has logged out in the meantime.
ServiceStart(m) ==
  /\ ServiceAt(m, "created")
  /\ \/ /\ attached[m] /\ Ref(m)
        /\ spc' = [spc EXCEPT ![m] = "hook"]
     \/ /\ ~attached[m] /\ UNCHANGED refs
        /\ spc' = [spc EXCEPT ![m] = "done"]
  /\ UNCHANGED <<queue, items, mutex, defunct, hook, live, attached, ownvars,
                 cur, taken, fin, leaked>>

MbSetDiscardHook(m) ==
  /\ ServiceAt(m, "hook")
  /\ Unlocked(m)
  /\ hook' = [hook EXCEPT ![m] = TRUE]
  /\ spc' = [spc EXCEPT ![m] = "wait"]
  /\ UNCHANGED <<queue, items, mutex, refs, defunct, live, attached, ownvars,
                 cur, taken, fin, leaked>>

\* mb_next_entry: sem_wait(&mb->items).
WaitItem(m) ==
  /\ ServiceAt(m, "wait")
  /\ items[m] > 0
  /\ items' = [items EXCEPT ![m] = @ - 1]
  /\ spc' = [spc EXCEPT ![m] = "lock"]
  /\ UNCHANGED <<queue, mutex, refs, defunct, hook, live, attached, ownvars,
                 cur, taken, fin, leaked>>

\* mb_next_entry: a defunct mailbox gives NULL, entries or not.
NextIsNull(m) ==
  /\ ServiceAt(m, "lock")
  /\ Unlocked(m) /\ defunct[m]
  /\ spc' = [spc EXCEPT ![m] = "end"]
  /\ UNCHANGED <<boxvars, ownvars, cur, taken, fin, leaked>>

\* mb_next_entry: otherwise keep the mutex and look at the head.
LockHead(m) ==
  /\ ServiceAt(m, "lock")
  /\ Unlocked(m) /\ ~defunct[m]
  /\ mutex' = [mutex EXCEPT ![m] = Service(m)]
  /\ spc' = [spc EXCEPT ![m] = "unref"]
  /\ UNCHANGED <<queue, items, refs, defunct, hook, live, attached, ownvars,
                 cur, taken, fin, leaked>>

\* mb_next_entry: mb_unref on the sender of a message, holding the mutex of m.
UnrefSender(m) ==
  LET e == Head(queue[m]) IN
  /\ ServiceAt(m, "unref")
  /\ \/ IsMessage(e) /\ e.from # m /\ Unref(Service(m), e.from)
     \/ ~(IsMessage(e) /\ e.from # m) /\ UNCHANGED <<mutex, refs, fin>>
  /\ spc' = [spc EXCEPT ![m] = "pop"]
  /\ UNCHANGED <<queue, items, defunct, hook, live, attached, ownvars, cur, taken, leaked>>

\* The queue without its head.  (Faulty: the head is left in.)
NotUnlinked(s) == s
Unlinked(s) == Tail(s)

\* mb_next_entry: unlink the head, release the mutex, return the entry.
PopHead(m) ==
  /\ ServiceAt(m, "pop")
  /\ cur' = [cur EXCEPT ![m] = Head(queue[m])]
  /\ taken' = [taken EXCEPT ![m] = Append(@, Head(queue[m]))]
  /\ queue' = [queue EXCEPT ![m] = Unlinked(@)]
  /\ mutex' = [mutex EXCEPT ![m] = NoThread]
  /\ spc' = [spc EXCEPT ![m] = "send"]
  /\ UNCHANGED <<items, refs, defunct, hook, live, attached, ownvars, fin, leaked>>

\* chla_mailbox_service on a message: send the packet, then mb_add_notice on
\* the sender's mailbox, a receipt or, when the send failed, a bounce.
SendMessage(m) ==
  LET e == cur[m] IN
  /\ ServiceAt(m, "send") /\ IsMessage(e)
  /\ \E ntype \in {"RRCPT", "BOUNCE"} : AddNotice(queue, ntype, e)
  /\ cur' = [cur EXCEPT ![m] = NoEntry]
  /\ spc' = [spc EXCEPT ![m] = "wait"]
  /\ UNCHANGED <<mutex, refs, defunct, hook, live, attached, ownvars, taken, fin, leaked>>

\* chla_mailbox_service on a notice: two packets, no mailbox touched.
SendNotice(m) ==
  /\ ServiceAt(m, "send") /\ ~IsMessage(cur[m])
  /\ cur' = [cur EXCEPT ![m] = NoEntry]
  /\ spc' = [spc EXCEPT ![m] = "wait"]
  /\ UNCHANGED <<boxvars, ownvars, taken, fin, leaked>>

\* The end of chla_mailbox_service: mb_unref, exit.
ServiceEnd(m) ==
  /\ ServiceAt(m, "end")
  /\ Unref(Service(m), m)
  /\ spc' = [spc EXCEPT ![m] = "done"]
  /\ UNCHANGED <<queue, items, defunct, hook, live, attached, ownvars, cur, taken, leaked>>

-----------------------------------------------------------------------------
OwnerStep(m) ==
  \/ MbInit(m) \/ GetRecipient(m) \/ AddMessage(m) \/ AddMessageEnd(m)
  \/ DropRecipient(m) \/ MbShutdown(m) \/ LogoutUnref(m)

ServiceStep(m) ==
  \/ ServiceStart(m) \/ MbSetDiscardHook(m) \/ WaitItem(m) \/ NextIsNull(m)
  \/ LockHead(m) \/ UnrefSender(m) \/ PopHead(m) \/ SendMessage(m)
  \/ SendNotice(m) \/ ServiceEnd(m)

FinalizeStep(t) == DiscardHead(t) \/ Free(t)

Next ==
  \/ \E m \in Boxes : OwnerStep(m) \/ ServiceStep(m)
  \/ \E t \in Threads : FinalizeStep(t)

Spec == Init /\ [][Next]_vars
-----------------------------------------------------------------------------
(* Properties *)

OwnerPC == {"start", "idle", "add", "ref", "drop", "unref", "out"}
ServicePC == {"none", "created", "hook", "wait", "lock", "unref", "pop", "send",
              "end", "done"}

\* Every variable has its type; counts never go below zero.
TypeOK ==
  /\ queue \in [Boxes -> Seq(Entries)]
  /\ items \in [Boxes -> Nat]
  /\ mutex \in [Boxes -> Threads \cup {NoThread}]
  /\ refs \in [Boxes -> Nat]
  /\ defunct \in [Boxes -> BOOLEAN]
  /\ hook \in [Boxes -> BOOLEAN]
  /\ live \in [Boxes -> BOOLEAN]
  /\ attached \in [Boxes -> BOOLEAN]
  /\ opc \in [Boxes -> OwnerPC]
  /\ dest \in [Boxes -> Boxes \cup {NoBox}]
  /\ sent \in [Boxes -> 0..MaxMsgs]
  /\ spc \in [Boxes -> ServicePC]
  /\ cur \in [Boxes -> Entries \cup {NoEntry}]
  /\ fin \in [Threads -> Boxes \cup {NoBox}]
  /\ taken \in [Boxes -> Seq(Entries)]
  /\ leaked \in [Boxes -> Nat]

One(p) == IF p THEN 1 ELSE 0

\* A message is linked into m and items not yet posted for it.
Unposted(m) == \E b \in Boxes : opc[b] = "ref" /\ dest[b] = m

\* The semaphore counts the entries: one unit per entry, one for the shutdown,
\* less what the service thread has taken with sem_wait and not yet turned
\* into a removal, and less an entry linked but not yet posted.  So
\* mb_next_entry never looks at the head of an empty list, and the service
\* thread of a defunct mailbox is never left asleep in sem_wait.
ItemsCountEntries ==
  \A m \in Boxes :
    (live[m] /\ spc[m] \notin {"end", "done"} /\ \A t \in Threads : fin[t] # m) =>
      items[m] + One(spc[m] \in {"lock", "unref", "pop"})
               + One(Unposted(m))
        = Len(queue[m]) + One(defunct[m])

\* The messages of m that are in the queues q of other mailboxes: each of them
\* is a pointer to m.  A position is a mailbox and an index.
Positions(q, m) == UNION {{b} \X DOMAIN q[b] : b \in Boxes \ {m}}
MessageOf(m, e) == IsMessage(e) /\ e.from = m
Pointers(q, m) == {x \in Positions(q, m) : MessageOf(m, q[x[1]][x[2]])}

\* Mailboxes whose service thread has dropped the reference of the message at
\* the head, one of m, and has yet to unlink it.
Popping(m) == {b \in Boxes \ {m} : spc[b] = "pop" /\ MessageOf(m, Head(queue[b]))}

\* Owners with a pointer to m from client_get_mailbox.
Senders(m) == {b \in Boxes : dest[b] = m}

\* Every unit of referenceCount is one pointer: the owner's, the service
\* thread's, a sender's, or that of a message in another mailbox (taken by
\* AddMessageEnd, given back by UnrefSender), or a unit lost with a discarded
\* message.
RefsCountPointers ==
  \A m \in Boxes :
    refs[m] + One(opc[m] = "ref" /\ dest[m] # m) + Cardinality(Popping(m))
      = One(opc[m] \notin {"start", "out"})
        + One(spc[m] \notin {"none", "created", "done"})
        + Cardinality(Senders(m)) + Cardinality(Pointers(queue, m)) + leaked[m]

\* What the count is for: a mailbox that was freed is pointed to by nobody, but
\* for the message that mb_next_entry is unlinking at the head of a queue.
FreedIsUnreferenced ==
  \A m \in Boxes : (opc[m] # "start" /\ ~live[m]) =>
    /\ opc[m] = "out" /\ spc[m] \in {"created", "done"} /\ Senders(m) = {}
    /\ \A x \in Pointers(queue, m) : x[2] = 1 /\ x[1] \in Popping(m)

\* The entries of s for which p holds.
Places(s, p(_)) == {i \in DOMAIN s : p(s[i])}

\* The entries about one message of m, in a mailbox or received from it.
About(s, kinds, m, k) == Places(s, LAMBDA e : e.kind \in kinds /\ e.from = m /\ e.id = k)

\* A message is told of at most once: never a receipt and a bounce, and no
\* notice while the message is still in a mailbox; a receipt says that the
\* recipient's service thread did take the message out.
OneNoticePerMessage ==
  \A m \in Boxes : \A k \in 1..sent[m] :
    LET notices == Cardinality(About(queue[m] \o taken[m], {"RRCPT", "BOUNCE"}, m, k))
    IN /\ notices <= 1
       /\ notices = 1 => \A b \in Boxes : About(queue[b], {"MESSAGE"}, m, k) = {}
       /\ About(queue[m] \o taken[m], {"RRCPT"}, m, k) # {} =>
            \E b \in Boxes : About(taken[b], {"MESSAGE"}, m, k) # {}

\* Messages of one sender reach a recipient in the order they were sent, each
\* once, whatever other senders, receipts and shutdowns do in between.
SenderOrder ==
  \A b \in Boxes :
    LET s == taken[b] \o queue[b] IN
    \A i, j \in DOMAIN s :
      (i < j /\ IsMessage(s[i]) /\ IsMessage(s[j]) /\ s[i].from = s[j].from)
        => s[i].id < s[j].id

\* The mailbox implements the first-in-first-out channel.
phase == [m \in Boxes |->
            CASE opc[m] = "start" -> "new"
              [] opc[m] # "start" /\ ~live[m] -> "gone"
              [] opc[m] # "start" /\ live[m] /\ defunct[m] -> "shut"
              [] OTHER -> "open"]
Abstract == INSTANCE Channel WITH chan <- queue, got <- taken
ImplementsChannel == Abstract!ChannelSpec

-----------------------------------------------------------------------------
(* Fairness: every thread keeps running.  A mutex or semaphore a thread waits
   for is taken by it eventually if it stays available: each is contended by
   finitely many operations (MaxMsgs sends, one logout per box). *)
Fairness ==
  /\ \A m \in Boxes : WF_vars(ServiceStep(m))
  /\ \A m \in Boxes : WF_vars(AddMessage(m) \/ AddMessageEnd(m) \/ DropRecipient(m)
                             \/ LogoutUnref(m))
  /\ \A t \in Threads : WF_vars(FinalizeStep(t))

FairSpec == Spec /\ Fairness

\* The service thread of m owes a notice to a mailbox that was freed: its mutex
\* is never given back.  mb_next_entry has dropped the reference that would have
\* kept that mailbox, although mailbox.h:180 leaves this to its caller.
StuckOnFreed(m) ==
  /\ spc[m] = "send" /\ fin[Service(m)] = NoBox
  /\ IsMessage(cur[m]) /\ ~live[cur[m].from]

\* Thread t waits for the mutex of n while it holds that of m.
Holding(t, m, n) ==
  /\ mutex[m] = t
  /\ \/ \E b \in Boxes : t = Owner(b) /\ opc[b] = "ref" /\ dest[b] = m /\ b # m /\ n = b
     \/ /\ t = Service(m) /\ fin[t] = NoBox /\ spc[m] = "unref"
        /\ IsMessage(Head(queue[m])) /\ Head(queue[m]).from = n /\ n # m
     \/ /\ fin[t] = m /\ queue[m] # <<>> /\ hook[m]
        /\ IsMessage(Head(queue[m])) /\ Head(queue[m]).from = n

\* Two threads that each hold the mutex the other waits for, or one that waits
\* for a mutex it holds: mb_unref runs the discard hook on a message the dying
\* mailbox sent to itself, which mailbox.h:94 has the library keep away from it.
LockCycle ==
  \E t, u \in Threads : \E m, n \in Boxes :
    (t # u \/ m = n) /\ Holding(t, m, n) /\ Holding(u, n, m)

\* The service thread of a mailbox that is shut down terminates, whatever
\* messages and notices are on their way, the exceptions being a notice owed to
\* a mailbox already freed and threads that block one another for ever.
ServiceTerminates ==
  \A m \in Boxes :
    defunct[m] ~> \/ spc[m] = "done" /\ fin[Service(m)] = NoBox
                  \/ StuckOnFreed(m)
                  \/ LockCycle

\* A message is lost without a word only in a mailbox whose service thread never
\* set the discard hook, because the logout came before client_get_mailbox
\* (server.c:19-29): any other message is in a mailbox, was received, or has
\* bounced, as long as its sender is logged in.
LostOnlyWithoutHook ==
  \A m \in Boxes : \A k \in 1..sent[m] :
    attached[m] =>
      \/ \E b \in Boxes : About(queue[b] \o taken[b], {"MESSAGE"}, m, k) # {}
      \/ About(queue[m] \o taken[m], {"BOUNCE"}, m, k) # {}
      \/ \E b \in Boxes : spc[b] \in {"created", "done"} /\ defunct[b] /\ ~hook[b]
-----------------------------------------------------------------------------
(* What Doc/README.md says and the code does not do: TLC refutes it. *)

\* Doc/README.md:556: "all these functions have be thread-safe".  The functions
\* of a mailbox never deadlock.
NoLockCycle == ~LockCycle
=============================================================================
