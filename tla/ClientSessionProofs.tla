------------------------- MODULE ClientSessionProofs -------------------------
(***************************************************************************)
(* Proofs about ClientSession, for any finite set of clients and any       *)
(* number of logins and SEND requests: the reference counts of CLIENT and  *)
(* MAILBOX objects are exact, nothing of a connection that has ended stays *)
(* allocated, and a CLIENT outlives the mailbox thread of its last login.  *)
(*                                                                         *)
(* The counts are not inductive.  IInv adds what the control point of a    *)
(* client service thread implies (Sessions), whose mailbox a mailbox       *)
(* thread may have got (Threads), and that a mailbox that was made is      *)
(* freed exactly at count zero and defunct once its client has let go of   *)
(* it (Made).                                                              *)
(***************************************************************************)
EXTENDS ClientSession, FiniteSetTheorems, TLAPS

\* What the control point of the client service thread of c implies.
SessionAt(c) ==
  /\ pc[c] = "start" => logins[c] = 0 /\ ~cfreed[c] /\ crefs[c] = 0
  /\ pc[c] # "start" => (cfreed[c] <=> crefs[c] = 0)
  /\ mailbox[c] # NoMailbox =>
       mailbox[c] = <<c, logins[c]>> /\ pc[c] \in {"serve", "spawn", "drop", "push"}
  /\ pc[c] = "spawn" => mailbox[c] # NoMailbox /\ tpc[mailbox[c]] = "none"
  /\ pc[c] \in {"drop", "push"} => rcpt[c] \in Clients /\ pc[rcpt[c]] # "start"
  /\ tid[c] # NoMailbox => tid[c][1] = c /\ tpc[tid[c]] # "none"
  /\ pc[c] \in {"unref", "unregister", "done"} =>
       (tid[c] # NoMailbox => tpc[tid[c]] = "done")

\* What the control point of mailbox thread t implies; it only ever gets a
\* mailbox of its own client.
ThreadAt(t) ==
  /\ tpc[t] # "none" => t[2] <= logins[t[1]]
  /\ tpc[t] \in {"none", "created", "get"} => serves[t] = NoMailbox
  /\ tpc[t] \in {"wait", "endmb"} => serves[t] # NoMailbox
  /\ serves[t] # NoMailbox => serves[t][1] = t[1] /\ serves[t][2] <= logins[t[1]]

\* A mailbox not yet made has no state; one that was made is freed exactly at
\* count zero, and is defunct unless it is the one its client has.
MadeAt(m) ==
  /\ m[2] > logins[m[1]] => mrefs[m] = 0 /\ ~mfreed[m] /\ ~defunct[m]
  /\ m[2] <= logins[m[1]] => /\ mfreed[m] <=> mrefs[m] = 0
                             /\ mailbox[m[1]] # m => defunct[m]

Sessions == \A c \in Clients : SessionAt(c)
Threads == \A t \in Mailboxes : ThreadAt(t)
Made == \A m \in Mailboxes : MadeAt(m)

IInv == ClientRefsExact /\ MailboxRefsExact /\ Sessions /\ Threads /\ Made

-----------------------------------------------------------------------------
(* The sets that the reference counts count *)

Own(c) == CASE pc[c] \in {"start", "done"} -> 0
            [] pc[c] = "unregister" -> 1
            [] OTHER -> 2
Running(c) == {t \in Mailboxes : t[1] = c /\ tpc[t] \in {"get", "wait", "end"}}
Sending(c) == {d \in Clients : pc[d] = "drop" /\ rcpt[d] = c}
ClientCountAt(c) == crefs[c] = Own(c) + Cardinality(Running(c)) + Cardinality(Sending(c))
ClientCounts == \A c \in Clients : ClientCountAt(c)

Pointing(m) == {c \in Clients : mailbox[c] = m}
Serving(m) == {t \in Mailboxes : serves[t] = m /\ tpc[t] # "done"}
MailboxCountAt(m) == mrefs[m] = Cardinality(Pointing(m)) + Cardinality(Serving(m))
MailboxCounts == \A m \in Mailboxes : MailboxCountAt(m)

\* A mailbox is a pair of its client and the number of a login.
LEMMA Pairs ==
  /\ \A m \in Mailboxes : /\ m[1] \in Clients /\ m[2] \in 1..MaxLogins /\ m[2] \in Nat \ {0}
                          /\ m = <<m[1], m[2]>>
  /\ \A c \in Clients, n \in 1..MaxLogins :
       <<c, n>> \in Mailboxes /\ <<c, n>>[1] = c /\ <<c, n>>[2] = n
BY BoundsAssumption DEF Mailboxes

\* There are finitely many mailboxes.
LEMMA MailboxesFinite == IsFiniteSet(Mailboxes)
<1>1. IsFiniteSet(1..MaxLogins)
  BY BoundsAssumption, FS_Interval
<1> QED  BY <1>1, ClientsAssumption, FS_Product DEF Mailboxes

\* They are finite, and so they are after a step.
LEMMA ClientSetsFinite ==
  ASSUME NEW c \in Clients
  PROVE  /\ IsFiniteSet(Running(c)) /\ Cardinality(Running(c)) \in Nat
         /\ IsFiniteSet(Sending(c)) /\ Cardinality(Sending(c)) \in Nat
         /\ IsFiniteSet(Running(c)') /\ Cardinality(Running(c)') \in Nat
         /\ IsFiniteSet(Sending(c)') /\ Cardinality(Sending(c)') \in Nat
<1>1. Running(c) \in SUBSET Mailboxes /\ Running(c)' \in SUBSET Mailboxes
  BY DEF Running
<1>2. Sending(c) \in SUBSET Clients /\ Sending(c)' \in SUBSET Clients
  BY DEF Sending
<1> QED  BY <1>1, <1>2, MailboxesFinite, ClientsAssumption, FS_Subset, FS_CardinalityType

\* So are the sets that count the references to a mailbox.
LEMMA MailboxSetsFinite ==
  ASSUME NEW m \in Mailboxes
  PROVE  /\ IsFiniteSet(Pointing(m)) /\ Cardinality(Pointing(m)) \in Nat
         /\ IsFiniteSet(Serving(m)) /\ Cardinality(Serving(m)) \in Nat
         /\ IsFiniteSet(Pointing(m)') /\ Cardinality(Pointing(m)') \in Nat
         /\ IsFiniteSet(Serving(m)') /\ Cardinality(Serving(m)') \in Nat
<1>1. Pointing(m) \in SUBSET Clients /\ Pointing(m)' \in SUBSET Clients
  BY DEF Pointing
<1>2. Serving(m) \in SUBSET Mailboxes /\ Serving(m)' \in SUBSET Mailboxes
  BY DEF Serving
<1> QED  BY <1>1, <1>2, MailboxesFinite, ClientsAssumption, FS_Subset, FS_CardinalityType

\* client_unref takes one off a count that is not zero, and frees at zero.
LEMMA ClientUnrefKeeps ==
  ASSUME TypeOK, Sessions, NEW d \in Clients, pc[d] # "start", ClientUnref(d)
  PROVE  /\ crefs' \in [Clients -> Nat] /\ cfreed' \in [Clients -> BOOLEAN]
         /\ crefs[d] \in Nat \ {0} /\ crefs' = [crefs EXCEPT ![d] = crefs[d] - 1]
         /\ crefs'[d] = crefs[d] - 1 /\ (cfreed'[d] <=> crefs'[d] = 0)
         /\ \A e \in Clients \ {d} : crefs'[e] = crefs[e] /\ cfreed'[e] = cfreed[e]
<1>1. crefs[d] \in Nat \ {0}
  BY DEF TypeOK, Sessions, SessionAt, ClientUnref
<1>2. crefs' = [crefs EXCEPT ![d] = crefs[d] - 1] /\ cfreed' = [cfreed EXCEPT ![d] = (crefs[d] = 1)]
  BY DEF ClientUnref
<1>3. crefs' \in [Clients -> Nat] /\ crefs'[d] = crefs[d] - 1
  <2>1. crefs \in [Clients -> Nat] /\ crefs[d] - 1 \in Nat
    BY <1>1 DEF TypeOK
  <2> QED  BY <1>2, <2>1
<1>4. cfreed' \in [Clients -> BOOLEAN] /\ (cfreed'[d] <=> crefs[d] = 1)
  BY <1>2 DEF TypeOK
<1>5. \A e \in Clients \ {d} : crefs'[e] = crefs[e] /\ cfreed'[e] = cfreed[e]
  BY <1>2 DEF TypeOK
<1> QED  BY <1>1, <1>2, <1>3, <1>4, <1>5

\* mb_unref likewise.
LEMMA MbUnrefKeeps ==
  ASSUME TypeOK, Made, NEW m \in Mailboxes, m[2] <= logins[m[1]], MbUnref(m)
  PROVE  /\ mrefs' \in [Mailboxes -> Nat] /\ mfreed' \in [Mailboxes -> BOOLEAN]
         /\ mrefs[m] \in Nat \ {0} /\ mrefs' = [mrefs EXCEPT ![m] = mrefs[m] - 1]
         /\ mrefs'[m] = mrefs[m] - 1 /\ (mfreed'[m] <=> mrefs'[m] = 0)
         /\ \A e \in Mailboxes \ {m} : mrefs'[e] = mrefs[e] /\ mfreed'[e] = mfreed[e]
<1>1. mrefs[m] \in Nat \ {0}
  BY DEF TypeOK, Made, MadeAt, MbUnref
<1>2. mrefs' = [mrefs EXCEPT ![m] = mrefs[m] - 1] /\ mfreed' = [mfreed EXCEPT ![m] = (mrefs[m] = 1)]
  BY DEF MbUnref
<1>3. mrefs' \in [Mailboxes -> Nat] /\ mrefs'[m] = mrefs[m] - 1
  BY <1>1, <1>2 DEF TypeOK
<1>4. mfreed' \in [Mailboxes -> BOOLEAN] /\ (mfreed'[m] <=> mrefs[m] = 1)
  BY <1>2 DEF TypeOK
<1>5. \A e \in Mailboxes \ {m} : mrefs'[e] = mrefs[e] /\ mfreed'[e] = mfreed[e]
  BY <1>2 DEF TypeOK
<1> QED  BY <1>1, <1>2, <1>3, <1>4, <1>5

\* A mailbox thread is created by a client that has registered.
LEMMA ThreadsAfterStart ==
  ASSUME TypeOK, Sessions, Threads, NEW t \in Mailboxes, tpc[t] # "none"
  PROVE  t[1] \in Clients /\ pc[t[1]] # "start"
<1>1. t[1] \in Clients /\ t[2] \in Nat \ {0} /\ t[2] <= logins[t[1]]
  BY Pairs DEF Threads, ThreadAt
<1> QED  BY <1>1 DEF Sessions, SessionAt

\* Exact counts give the two properties: a mailbox is freed once its client
\* has let go of it and no thread serves it.
LEMMA RefsFromCounts ==
  TypeOK /\ Sessions /\ Threads /\ Made /\ ClientCounts /\ MailboxCounts
    => ClientRefsExact /\ MailboxRefsExact
<1> SUFFICES ASSUME TypeOK, Sessions, Threads, Made, ClientCounts, MailboxCounts
             PROVE  ClientRefsExact /\ MailboxRefsExact
  OBVIOUS
<1>1. ClientRefsExact
  BY DEF ClientRefsExact, ClientCounts, ClientCountAt, Own, Running, Sending
<1>2. \A m \in Mailboxes : MailboxCountAt(m)
  BY DEF MailboxCounts
<1>3. ASSUME NEW m \in Mailboxes, mfreed[m]  PROVE defunct[m] /\ mrefs[m] = 0
  <2>1. mrefs[m] = 0 /\ m[1] \in Clients /\ logins[m[1]] \in Nat /\ m[2] \in Nat
    BY <1>3, Pairs, BoundsAssumption DEF Made, MadeAt, TypeOK
  <2>2. Pointing(m) = {}
    BY <1>2, <2>1, MailboxSetsFinite, FS_EmptySet DEF MailboxCountAt
  <2>3. mailbox[m[1]] # m
    BY <2>1, <2>2 DEF Pointing
  <2> QED  BY <1>3, <2>1, <2>3 DEF Made, MadeAt
<1>4. ASSUME NEW c \in Clients, pc[c] = "done",
             \A t \in Mailboxes : t[1] = c => tpc[t] \in {"none", "done"},
             NEW n \in 1..logins[c]
      PROVE  mfreed[<<c, n>>]
  <2> DEFINE m == <<c, n>>
  <2>1. m \in Mailboxes /\ m[1] = c /\ m[2] = n /\ n <= logins[c]
    <3>1. logins[c] \in 0..MaxLogins
      BY DEF TypeOK
    <3>2. n \in 1..MaxLogins /\ n <= logins[c]
      BY <3>1, BoundsAssumption
    <3> QED  BY <3>2, Pairs
  <2> HIDE DEF m
  <2>2. Pointing(m) = {}
    BY <1>4, <2>1, Pairs, NoMailboxAssumption DEF Pointing, Sessions, SessionAt
  <2>3. Serving(m) = {}
    BY <1>4, <2>1, Pairs, NoMailboxAssumption DEF Serving, Threads, ThreadAt
  <2>4. mrefs[m] = 0
    BY <1>2, <2>1, <2>2, <2>3, FS_EmptySet DEF MailboxCountAt
  <2> QED  BY <2>1, <2>4 DEF Made, MadeAt, m
<1> QED  BY <1>1, <1>2, <1>3, <1>4
         DEF MailboxRefsExact, MailboxCountAt, Pointing, Serving

-----------------------------------------------------------------------------
(* The steps *)

\* The invariant holds when the server starts.
LEMMA Initially == Init => IInv
<1> SUFFICES ASSUME Init  PROVE IInv
  OBVIOUS
<1> USE ClientsAssumption, BoundsAssumption, NoMailboxAssumption, Pairs
<1>1. TypeOK
  <2>1. 0 \in 0..MaxLogins /\ 0 \in 0..MaxSends
    OBVIOUS
  <2> QED  BY <2>1 DEF Init, TypeOK
<1>2. Sessions /\ Threads /\ Made
  BY DEF Init, Sessions, SessionAt, Threads, ThreadAt, Made, MadeAt
<1>3. ASSUME NEW c \in Clients  PROVE Running(c) = {} /\ Sending(c) = {} /\ Own(c) = 0
  BY DEF Init, Running, Sending, Own
<1>4. ASSUME NEW m \in Mailboxes  PROVE Pointing(m) = {} /\ Serving(m) = {}
  BY DEF Init, Pointing, Serving
<1>5. ClientCounts
  <2>1. ASSUME NEW c \in Clients  PROVE ClientCountAt(c)
    <3>1. /\ Own(c) = 0 /\ Cardinality(Running(c)) = 0 /\ Cardinality(Sending(c)) = 0
          /\ crefs[c] = 0
      BY <1>3, FS_EmptySet DEF Init
    <3> QED  BY <3>1 DEF ClientCountAt
  <2> QED  BY <2>1 DEF ClientCounts
<1>6. MailboxCounts
  <2>1. ASSUME NEW m \in Mailboxes  PROVE MailboxCountAt(m)
    <3>1. Cardinality(Pointing(m)) = 0 /\ Cardinality(Serving(m)) = 0 /\ mrefs[m] = 0
      BY <1>4, FS_EmptySet DEF Init
    <3> QED  BY <3>1 DEF MailboxCountAt
  <2> QED  BY <2>1 DEF MailboxCounts
<1> QED  BY <1>1, <1>2, <1>5, <1>6, RefsFromCounts DEF IInv

\* Types, step by step.
LEMMA TypesStep ==
  ASSUME IInv, [Next]_vars
  PROVE  TypeOK'
<1>0. TypeOK /\ Sessions /\ Threads /\ Made
  BY DEF IInv, MailboxRefsExact
<1> USE ClientsAssumption, BoundsAssumption, NoMailboxAssumption, Pairs DEF
            TypeOK, Sessions, SessionAt, Threads, ThreadAt, Made, MadeAt,
            cvars, svars, mvars, tvars, Goto, TGoto
<1>1. ASSUME NEW c \in Clients, Register(c)  PROVE TypeOK'
  BY <1>0, <1>1 DEF Register
<1>2. ASSUME NEW c \in Clients, Login(c)  PROVE TypeOK'
  BY <1>0, <1>2 DEF Login, LoggedIn
<1>3. ASSUME NEW c \in Clients, Spawn(c)  PROVE TypeOK'
  BY <1>0, <1>3 DEF Spawn
<1>4. ASSUME NEW c \in Clients, Logout(c)  PROVE TypeOK'
  <2>1. CASE DetachMailbox(c)
    <3>1. mailbox[c] \in Mailboxes /\ MbUnref(mailbox[c]) /\ mailbox[c][2] <= logins[mailbox[c][1]]
      BY <1>0, <2>1 DEF DetachMailbox, LoggedIn
    <3>2. /\ defunct' = [defunct EXCEPT ![mailbox[c]] = TRUE]
          /\ items' = [items EXCEPT ![mailbox[c]] = items[mailbox[c]] + 1]
          /\ mailbox' = [mailbox EXCEPT ![c] = NoMailbox]
      BY <2>1 DEF DetachMailbox, Wakeup
    <3> QED  BY <1>0, <1>4, <3>1, <3>2, MbUnrefKeeps DEF Logout
  <2> QED  BY <1>4, <2>1 DEF Logout
<1>5. ASSUME NEW c \in Clients, FindRecipient(c)  PROVE TypeOK'
  BY <1>0, <1>5 DEF FindRecipient, LoggedIn, ClientRef
<1>6. ASSUME NEW c \in Clients, DropRecipient(c)  PROVE TypeOK'
  <2>1. rcpt[c] \in Clients /\ pc[rcpt[c]] # "start" /\ ClientUnref(rcpt[c])
    BY <1>0, <1>6 DEF DropRecipient
  <2> QED  BY <1>0, <1>6, <2>1, ClientUnrefKeeps DEF DropRecipient
<1>7. ASSUME NEW c \in Clients, PushPacket(c)  PROVE TypeOK'
  BY <1>0, <1>7 DEF PushPacket
<1>8. ASSUME NEW c \in Clients, Disconnect(c)  PROVE TypeOK'
  <2>1. CASE DetachMailbox(c)
    <3>1. mailbox[c] \in Mailboxes /\ MbUnref(mailbox[c]) /\ mailbox[c][2] <= logins[mailbox[c][1]]
      BY <1>0, <2>1 DEF DetachMailbox, LoggedIn
    <3>2. /\ defunct' = [defunct EXCEPT ![mailbox[c]] = TRUE]
          /\ items' = [items EXCEPT ![mailbox[c]] = items[mailbox[c]] + 1]
          /\ mailbox' = [mailbox EXCEPT ![c] = NoMailbox]
      BY <2>1 DEF DetachMailbox, Wakeup
    <3> QED  BY <1>0, <1>8, <3>1, <3>2, MbUnrefKeeps DEF Disconnect
  <2>2. CASE ~LoggedIn(c) /\ UNCHANGED <<mailbox, mvars>>
    BY <1>0, <1>8, <2>2 DEF Disconnect, LoggedIn
  <2> QED  BY <1>8, <2>1, <2>2 DEF Disconnect
<1>9. ASSUME NEW c \in Clients, Join(c)  PROVE TypeOK'
  BY <1>0, <1>9 DEF Join, Joined
<1>10. ASSUME NEW c \in Clients, LeaveUnref(c)  PROVE TypeOK'
  BY <1>0, <1>10, ClientUnrefKeeps DEF LeaveUnref
<1>11. ASSUME NEW c \in Clients, Unregister(c)  PROVE TypeOK'
  BY <1>0, <1>11, ClientUnrefKeeps DEF Unregister
<1>12. ASSUME NEW t \in Mailboxes, ThreadStart(t)  PROVE TypeOK'
  BY <1>0, <1>12 DEF ThreadStart, ClientRef
<1>13. ASSUME NEW t \in Mailboxes, GetMailbox(t)  PROVE TypeOK'
  <2>1. CASE LoggedIn(t[1]) /\ tpc' = [tpc EXCEPT ![t] = "wait"]
    <3>1. mailbox[t[1]] \in Mailboxes
      BY <1>0, <2>1 DEF LoggedIn
    <3>2. /\ mrefs' = [mrefs EXCEPT ![mailbox[t[1]]] = mrefs[mailbox[t[1]]] + 1]
          /\ serves' = [serves EXCEPT ![t] = mailbox[t[1]]] /\ ~mfreed[mailbox[t[1]]]
      BY <1>13, <2>1 DEF GetMailbox, MbRef
    <3> QED  BY <1>0, <1>13, <2>1, <3>1, <3>2 DEF GetMailbox
  <2>2. CASE tpc' = [tpc EXCEPT ![t] = "end"] /\ UNCHANGED <<mrefs, serves>>
    BY <1>0, <1>13, <2>2 DEF GetMailbox
  <2> QED  BY <1>13, <2>1, <2>2 DEF GetMailbox
<1>14. ASSUME NEW t \in Mailboxes, NextEntry(t)  PROVE TypeOK'
  BY <1>0, <1>14 DEF NextEntry
<1>15. ASSUME NEW t \in Mailboxes, ThreadUnrefClient(t)  PROVE TypeOK'
  <2>1. t[1] \in Clients /\ pc[t[1]] # "start" /\ ClientUnref(t[1])
    <3>1. tpc[t] # "none" /\ ClientUnref(t[1])
      BY <1>15 DEF ThreadUnrefClient
    <3> QED  BY <1>0, <3>1, ThreadsAfterStart
  <2>2. /\ tpc' \in [Mailboxes -> {"none", "created", "get", "wait", "end", "endmb", "done"}]
        /\ tpc[t] = "end" /\ tpc'[t] = (IF serves[t] = NoMailbox THEN "done" ELSE "endmb")
        /\ \A s \in Mailboxes \ {t} : tpc'[s] = tpc[s]
    BY <1>0, <1>15 DEF ThreadUnrefClient, AfterUnref
  <2>3. /\ crefs' \in [Clients -> Nat] /\ cfreed' \in [Clients -> BOOLEAN]
        /\ \A d \in Clients : (cfreed'[d] <=> crefs'[d] = 0) \/ (crefs'[d] = crefs[d] /\ cfreed'[d] = cfreed[d])
        /\ \A d \in Clients : pc[d] = "start" => crefs'[d] = crefs[d] /\ cfreed'[d] = cfreed[d]
    BY <1>0, <2>1, ClientUnrefKeeps
  <2>4. UNCHANGED <<mailbox, logins, sends, pc, tid, rcpt, mrefs, mfreed, items, defunct, serves>>
    BY <1>15 DEF ThreadUnrefClient
  <2> QED  BY <1>0, <2>2, <2>3, <2>4
<1>16. ASSUME NEW t \in Mailboxes, ThreadUnrefMailbox(t)  PROVE TypeOK'
  <2>1. serves[t] \in Mailboxes /\ serves[t][2] <= logins[serves[t][1]] /\ MbUnref(serves[t])
    BY <1>0, <1>16 DEF ThreadUnrefMailbox
  <2> QED  BY <1>0, <1>16, <2>1, MbUnrefKeeps DEF ThreadUnrefMailbox
<1>17. CASE UNCHANGED vars
  BY <1>0, <1>17 DEF vars
<1> QED  BY <1>1, <1>2, <1>3, <1>4, <1>5, <1>6, <1>7, <1>8, <1>9, <1>10,
            <1>11, <1>12, <1>13, <1>14, <1>15, <1>16, <1>17
         DEF Next, ServiceStep, Received, ThreadStep

\* What the service thread's control point implies, step by step.
LEMMA SessionsStep ==
  ASSUME IInv, [Next]_vars
  PROVE  Sessions'
<1>0. TypeOK /\ Sessions /\ Threads /\ Made
  BY DEF IInv, MailboxRefsExact
<1> USE ClientsAssumption, BoundsAssumption, NoMailboxAssumption, Pairs DEF
            TypeOK, Sessions, SessionAt, Threads, ThreadAt, Made, MadeAt,
            cvars, svars, mvars, tvars, Goto, TGoto
<1>1. ASSUME NEW c \in Clients, Register(c)  PROVE Sessions'
  BY <1>0, <1>1 DEF Register
<1>2. ASSUME NEW c \in Clients, Login(c)  PROVE Sessions'
  BY <1>0, <1>2 DEF Login, LoggedIn
<1>3. ASSUME NEW c \in Clients, Spawn(c)  PROVE Sessions'
  BY <1>0, <1>3 DEF Spawn
<1>4. ASSUME NEW c \in Clients, Logout(c)  PROVE Sessions'
  <2>1. CASE DetachMailbox(c)
    <3>1. mailbox[c] \in Mailboxes /\ MbUnref(mailbox[c]) /\ mailbox[c][2] <= logins[mailbox[c][1]]
      BY <1>0, <2>1 DEF DetachMailbox, LoggedIn
    <3>2. /\ defunct' = [defunct EXCEPT ![mailbox[c]] = TRUE]
          /\ items' = [items EXCEPT ![mailbox[c]] = items[mailbox[c]] + 1]
          /\ mailbox' = [mailbox EXCEPT ![c] = NoMailbox]
      BY <2>1 DEF DetachMailbox, Wakeup
    <3> QED  BY <1>0, <1>4, <3>1, <3>2, MbUnrefKeeps DEF Logout
  <2> QED  BY <1>4, <2>1 DEF Logout
<1>5. ASSUME NEW c \in Clients, FindRecipient(c)  PROVE Sessions'
  BY <1>0, <1>5 DEF FindRecipient, LoggedIn, ClientRef
<1>6. ASSUME NEW c \in Clients, DropRecipient(c)  PROVE Sessions'
  <2>1. rcpt[c] \in Clients /\ pc[rcpt[c]] # "start" /\ ClientUnref(rcpt[c])
    BY <1>0, <1>6 DEF DropRecipient
  <2> QED  BY <1>0, <1>6, <2>1, ClientUnrefKeeps DEF DropRecipient
<1>7. ASSUME NEW c \in Clients, PushPacket(c)  PROVE Sessions'
  BY <1>0, <1>7 DEF PushPacket
<1>8. ASSUME NEW c \in Clients, Disconnect(c)  PROVE Sessions'
  <2>1. CASE DetachMailbox(c)
    <3>1. mailbox[c] \in Mailboxes /\ MbUnref(mailbox[c]) /\ mailbox[c][2] <= logins[mailbox[c][1]]
      BY <1>0, <2>1 DEF DetachMailbox, LoggedIn
    <3>2. /\ defunct' = [defunct EXCEPT ![mailbox[c]] = TRUE]
          /\ items' = [items EXCEPT ![mailbox[c]] = items[mailbox[c]] + 1]
          /\ mailbox' = [mailbox EXCEPT ![c] = NoMailbox]
      BY <2>1 DEF DetachMailbox, Wakeup
    <3> QED  BY <1>0, <1>8, <3>1, <3>2, MbUnrefKeeps DEF Disconnect
  <2>2. CASE ~LoggedIn(c) /\ UNCHANGED <<mailbox, mvars>>
    BY <1>0, <1>8, <2>2 DEF Disconnect, LoggedIn
  <2> QED  BY <1>8, <2>1, <2>2 DEF Disconnect
<1>9. ASSUME NEW c \in Clients, Join(c)  PROVE Sessions'
  BY <1>0, <1>9 DEF Join, Joined
<1>10. ASSUME NEW c \in Clients, LeaveUnref(c)  PROVE Sessions'
  BY <1>0, <1>10, ClientUnrefKeeps DEF LeaveUnref
<1>11. ASSUME NEW c \in Clients, Unregister(c)  PROVE Sessions'
  BY <1>0, <1>11, ClientUnrefKeeps DEF Unregister
<1>12. ASSUME NEW t \in Mailboxes, ThreadStart(t)  PROVE Sessions'
  BY <1>0, <1>12 DEF ThreadStart, ClientRef
<1>13. ASSUME NEW t \in Mailboxes, GetMailbox(t)  PROVE Sessions'
  <2>1. CASE LoggedIn(t[1]) /\ tpc' = [tpc EXCEPT ![t] = "wait"]
    <3>1. mailbox[t[1]] \in Mailboxes
      BY <1>0, <2>1 DEF LoggedIn
    <3>2. /\ mrefs' = [mrefs EXCEPT ![mailbox[t[1]]] = mrefs[mailbox[t[1]]] + 1]
          /\ serves' = [serves EXCEPT ![t] = mailbox[t[1]]] /\ ~mfreed[mailbox[t[1]]]
      BY <1>13, <2>1 DEF GetMailbox, MbRef
    <3> QED  BY <1>0, <1>13, <2>1, <3>1, <3>2 DEF GetMailbox
  <2>2. CASE tpc' = [tpc EXCEPT ![t] = "end"] /\ UNCHANGED <<mrefs, serves>>
    BY <1>0, <1>13, <2>2 DEF GetMailbox
  <2> QED  BY <1>13, <2>1, <2>2 DEF GetMailbox
<1>14. ASSUME NEW t \in Mailboxes, NextEntry(t)  PROVE Sessions'
  BY <1>0, <1>14 DEF NextEntry
<1>15. ASSUME NEW t \in Mailboxes, ThreadUnrefClient(t)  PROVE Sessions'
  <2>1. t[1] \in Clients /\ pc[t[1]] # "start" /\ ClientUnref(t[1])
    <3>1. tpc[t] # "none" /\ ClientUnref(t[1])
      BY <1>15 DEF ThreadUnrefClient
    <3> QED  BY <1>0, <3>1, ThreadsAfterStart
  <2>2. /\ tpc' \in [Mailboxes -> {"none", "created", "get", "wait", "end", "endmb", "done"}]
        /\ tpc[t] = "end" /\ tpc'[t] = (IF serves[t] = NoMailbox THEN "done" ELSE "endmb")
        /\ \A s \in Mailboxes \ {t} : tpc'[s] = tpc[s]
    BY <1>0, <1>15 DEF ThreadUnrefClient, AfterUnref
  <2>3. /\ crefs' \in [Clients -> Nat] /\ cfreed' \in [Clients -> BOOLEAN]
        /\ \A d \in Clients : (cfreed'[d] <=> crefs'[d] = 0) \/ (crefs'[d] = crefs[d] /\ cfreed'[d] = cfreed[d])
        /\ \A d \in Clients : pc[d] = "start" => crefs'[d] = crefs[d] /\ cfreed'[d] = cfreed[d]
    BY <1>0, <2>1, ClientUnrefKeeps
  <2>4. UNCHANGED <<mailbox, logins, sends, pc, tid, rcpt, mrefs, mfreed, items, defunct, serves>>
    BY <1>15 DEF ThreadUnrefClient
  <2> QED  BY <1>0, <2>2, <2>3, <2>4
<1>16. ASSUME NEW t \in Mailboxes, ThreadUnrefMailbox(t)  PROVE Sessions'
  <2>1. serves[t] \in Mailboxes /\ serves[t][2] <= logins[serves[t][1]] /\ MbUnref(serves[t])
    BY <1>0, <1>16 DEF ThreadUnrefMailbox
  <2> QED  BY <1>0, <1>16, <2>1, MbUnrefKeeps DEF ThreadUnrefMailbox
<1>17. CASE UNCHANGED vars
  BY <1>0, <1>17 DEF vars
<1> QED  BY <1>1, <1>2, <1>3, <1>4, <1>5, <1>6, <1>7, <1>8, <1>9, <1>10,
            <1>11, <1>12, <1>13, <1>14, <1>15, <1>16, <1>17
         DEF Next, ServiceStep, Received, ThreadStep

\* What a mailbox thread's control point implies, step by step.
LEMMA ThreadsStep ==
  ASSUME IInv, [Next]_vars
  PROVE  Threads'
<1>0. TypeOK /\ Sessions /\ Threads /\ Made
  BY DEF IInv, MailboxRefsExact
<1> USE ClientsAssumption, BoundsAssumption, NoMailboxAssumption, Pairs DEF
            TypeOK, Sessions, SessionAt, Threads, ThreadAt, Made, MadeAt,
            cvars, svars, mvars, tvars, Goto, TGoto
<1>1. ASSUME NEW c \in Clients, Register(c)  PROVE Threads'
  BY <1>0, <1>1 DEF Register
<1>2. ASSUME NEW c \in Clients, Login(c)  PROVE Threads'
  BY <1>0, <1>2 DEF Login, LoggedIn
<1>3. ASSUME NEW c \in Clients, Spawn(c)  PROVE Threads'
  BY <1>0, <1>3 DEF Spawn
<1>4. ASSUME NEW c \in Clients, Logout(c)  PROVE Threads'
  <2>1. CASE DetachMailbox(c)
    <3>1. mailbox[c] \in Mailboxes /\ MbUnref(mailbox[c]) /\ mailbox[c][2] <= logins[mailbox[c][1]]
      BY <1>0, <2>1 DEF DetachMailbox, LoggedIn
    <3>2. /\ defunct' = [defunct EXCEPT ![mailbox[c]] = TRUE]
          /\ items' = [items EXCEPT ![mailbox[c]] = items[mailbox[c]] + 1]
          /\ mailbox' = [mailbox EXCEPT ![c] = NoMailbox]
      BY <2>1 DEF DetachMailbox, Wakeup
    <3> QED  BY <1>0, <1>4, <3>1, <3>2, MbUnrefKeeps DEF Logout
  <2> QED  BY <1>4, <2>1 DEF Logout
<1>5. ASSUME NEW c \in Clients, FindRecipient(c)  PROVE Threads'
  BY <1>0, <1>5 DEF FindRecipient, LoggedIn, ClientRef
<1>6. ASSUME NEW c \in Clients, DropRecipient(c)  PROVE Threads'
  <2>1. rcpt[c] \in Clients /\ pc[rcpt[c]] # "start" /\ ClientUnref(rcpt[c])
    BY <1>0, <1>6 DEF DropRecipient
  <2> QED  BY <1>0, <1>6, <2>1, ClientUnrefKeeps DEF DropRecipient
<1>7. ASSUME NEW c \in Clients, PushPacket(c)  PROVE Threads'
  BY <1>0, <1>7 DEF PushPacket
<1>8. ASSUME NEW c \in Clients, Disconnect(c)  PROVE Threads'
  <2>1. CASE DetachMailbox(c)
    <3>1. mailbox[c] \in Mailboxes /\ MbUnref(mailbox[c]) /\ mailbox[c][2] <= logins[mailbox[c][1]]
      BY <1>0, <2>1 DEF DetachMailbox, LoggedIn
    <3>2. /\ defunct' = [defunct EXCEPT ![mailbox[c]] = TRUE]
          /\ items' = [items EXCEPT ![mailbox[c]] = items[mailbox[c]] + 1]
          /\ mailbox' = [mailbox EXCEPT ![c] = NoMailbox]
      BY <2>1 DEF DetachMailbox, Wakeup
    <3> QED  BY <1>0, <1>8, <3>1, <3>2, MbUnrefKeeps DEF Disconnect
  <2>2. CASE ~LoggedIn(c) /\ UNCHANGED <<mailbox, mvars>>
    BY <1>0, <1>8, <2>2 DEF Disconnect, LoggedIn
  <2> QED  BY <1>8, <2>1, <2>2 DEF Disconnect
<1>9. ASSUME NEW c \in Clients, Join(c)  PROVE Threads'
  BY <1>0, <1>9 DEF Join, Joined
<1>10. ASSUME NEW c \in Clients, LeaveUnref(c)  PROVE Threads'
  BY <1>0, <1>10, ClientUnrefKeeps DEF LeaveUnref
<1>11. ASSUME NEW c \in Clients, Unregister(c)  PROVE Threads'
  BY <1>0, <1>11, ClientUnrefKeeps DEF Unregister
<1>12. ASSUME NEW t \in Mailboxes, ThreadStart(t)  PROVE Threads'
  BY <1>0, <1>12 DEF ThreadStart, ClientRef
<1>13. ASSUME NEW t \in Mailboxes, GetMailbox(t)  PROVE Threads'
  <2>1. CASE LoggedIn(t[1]) /\ tpc' = [tpc EXCEPT ![t] = "wait"]
    <3>1. mailbox[t[1]] \in Mailboxes
      BY <1>0, <2>1 DEF LoggedIn
    <3>2. /\ mrefs' = [mrefs EXCEPT ![mailbox[t[1]]] = mrefs[mailbox[t[1]]] + 1]
          /\ serves' = [serves EXCEPT ![t] = mailbox[t[1]]] /\ ~mfreed[mailbox[t[1]]]
      BY <1>13, <2>1 DEF GetMailbox, MbRef
    <3> QED  BY <1>0, <1>13, <2>1, <3>1, <3>2 DEF GetMailbox
  <2>2. CASE tpc' = [tpc EXCEPT ![t] = "end"] /\ UNCHANGED <<mrefs, serves>>
    BY <1>0, <1>13, <2>2 DEF GetMailbox
  <2> QED  BY <1>13, <2>1, <2>2 DEF GetMailbox
<1>14. ASSUME NEW t \in Mailboxes, NextEntry(t)  PROVE Threads'
  BY <1>0, <1>14 DEF NextEntry
<1>15. ASSUME NEW t \in Mailboxes, ThreadUnrefClient(t)  PROVE Threads'
  <2>1. t[1] \in Clients /\ pc[t[1]] # "start" /\ ClientUnref(t[1])
    <3>1. tpc[t] # "none" /\ ClientUnref(t[1])
      BY <1>15 DEF ThreadUnrefClient
    <3> QED  BY <1>0, <3>1, ThreadsAfterStart
  <2>2. /\ tpc' \in [Mailboxes -> {"none", "created", "get", "wait", "end", "endmb", "done"}]
        /\ tpc[t] = "end" /\ tpc'[t] = (IF serves[t] = NoMailbox THEN "done" ELSE "endmb")
        /\ \A s \in Mailboxes \ {t} : tpc'[s] = tpc[s]
    BY <1>0, <1>15 DEF ThreadUnrefClient, AfterUnref
  <2>3. /\ crefs' \in [Clients -> Nat] /\ cfreed' \in [Clients -> BOOLEAN]
        /\ \A d \in Clients : (cfreed'[d] <=> crefs'[d] = 0) \/ (crefs'[d] = crefs[d] /\ cfreed'[d] = cfreed[d])
        /\ \A d \in Clients : pc[d] = "start" => crefs'[d] = crefs[d] /\ cfreed'[d] = cfreed[d]
    BY <1>0, <2>1, ClientUnrefKeeps
  <2>4. UNCHANGED <<mailbox, logins, sends, pc, tid, rcpt, mrefs, mfreed, items, defunct, serves>>
    BY <1>15 DEF ThreadUnrefClient
  <2> QED  BY <1>0, <2>2, <2>3, <2>4
<1>16. ASSUME NEW t \in Mailboxes, ThreadUnrefMailbox(t)  PROVE Threads'
  <2>1. serves[t] \in Mailboxes /\ serves[t][2] <= logins[serves[t][1]] /\ MbUnref(serves[t])
    BY <1>0, <1>16 DEF ThreadUnrefMailbox
  <2> QED  BY <1>0, <1>16, <2>1, MbUnrefKeeps DEF ThreadUnrefMailbox
<1>17. CASE UNCHANGED vars
  BY <1>0, <1>17 DEF vars
<1> QED  BY <1>1, <1>2, <1>3, <1>4, <1>5, <1>6, <1>7, <1>8, <1>9, <1>10,
            <1>11, <1>12, <1>13, <1>14, <1>15, <1>16, <1>17
         DEF Next, ServiceStep, Received, ThreadStep

\* When mailboxes are freed and defunct, step by step.
LEMMA MadeStep ==
  ASSUME IInv, [Next]_vars
  PROVE  Made'
<1>0. TypeOK /\ Sessions /\ Threads /\ Made
  BY DEF IInv, MailboxRefsExact
<1> USE ClientsAssumption, BoundsAssumption, NoMailboxAssumption, Pairs DEF
            TypeOK, Sessions, SessionAt, Threads, ThreadAt, Made, MadeAt,
            cvars, svars, mvars, tvars, Goto, TGoto
<1>1. ASSUME NEW c \in Clients, Register(c)  PROVE Made'
  BY <1>0, <1>1 DEF Register
<1>2. ASSUME NEW c \in Clients, Login(c)  PROVE Made'
  <2> DEFINE n == <<c, logins[c] + 1>>
  <2>1. /\ n \in Mailboxes /\ n[1] = c /\ n[2] = logins[c] + 1
        /\ mailbox' = [mailbox EXCEPT ![c] = n] /\ mrefs' = [mrefs EXCEPT ![n] = 1]
        /\ logins' = [logins EXCEPT ![c] = logins[c] + 1] /\ mailbox[c] = NoMailbox
        /\ UNCHANGED <<mfreed, defunct>>
    <3>1. /\ mailbox' = [mailbox EXCEPT ![c] = n] /\ mrefs' = [mrefs EXCEPT ![n] = 1]
          /\ logins' = [logins EXCEPT ![c] = logins[c] + 1] /\ mailbox[c] = NoMailbox
          /\ logins[c] < MaxLogins /\ UNCHANGED <<mfreed, defunct>>
      BY <1>2 DEF Login, LoggedIn
    <3>2. logins[c] \in 0..MaxLogins
      BY <1>0
    <3>3. logins[c] + 1 \in 1..MaxLogins
      BY <3>1, <3>2
    <3> QED  BY <3>1, <3>3
  <2>2. \A m \in Mailboxes : m # n /\ m[1] = c => m[2] # logins[c] + 1
    BY <2>1
  <2> HIDE DEF n
  <2>3. ASSUME NEW m \in Mailboxes  PROVE MadeAt(m)'
    <3>1. CASE m = n
      BY <1>0, <2>1, <3>1
    <3>2. CASE m # n /\ m[1] = c
      <4>1. m[2] \in Nat /\ logins[c] \in Nat /\ logins'[c] = logins[c] + 1 /\ m[2] # logins[c] + 1
        BY <1>0, <2>1, <2>2, <3>2
      <4>2. m[2] <= logins'[c] <=> m[2] <= logins[c]
        BY <4>1
      <4> QED  BY <1>0, <2>1, <3>2, <4>1, <4>2
    <3>3. CASE m[1] # c
      BY <1>0, <2>1, <3>3
    <3> QED  BY <3>1, <3>2, <3>3
  <2> QED  BY <2>3
<1>3. ASSUME NEW c \in Clients, Spawn(c)  PROVE Made'
  BY <1>0, <1>3 DEF Spawn
<1>4. ASSUME NEW c \in Clients, Logout(c)  PROVE Made'
  <2>1. CASE DetachMailbox(c)
    <3>1. mailbox[c] \in Mailboxes /\ MbUnref(mailbox[c]) /\ mailbox[c][2] <= logins[mailbox[c][1]]
      BY <1>0, <2>1 DEF DetachMailbox, LoggedIn
    <3>2. /\ defunct' = [defunct EXCEPT ![mailbox[c]] = TRUE]
          /\ items' = [items EXCEPT ![mailbox[c]] = items[mailbox[c]] + 1]
          /\ mailbox' = [mailbox EXCEPT ![c] = NoMailbox]
      BY <2>1 DEF DetachMailbox, Wakeup
    <3> QED  BY <1>0, <1>4, <3>1, <3>2, MbUnrefKeeps DEF Logout
  <2> QED  BY <1>4, <2>1 DEF Logout
<1>5. ASSUME NEW c \in Clients, FindRecipient(c)  PROVE Made'
  BY <1>0, <1>5 DEF FindRecipient, LoggedIn, ClientRef
<1>6. ASSUME NEW c \in Clients, DropRecipient(c)  PROVE Made'
  <2>1. rcpt[c] \in Clients /\ pc[rcpt[c]] # "start" /\ ClientUnref(rcpt[c])
    BY <1>0, <1>6 DEF DropRecipient
  <2> QED  BY <1>0, <1>6, <2>1, ClientUnrefKeeps DEF DropRecipient
<1>7. ASSUME NEW c \in Clients, PushPacket(c)  PROVE Made'
  BY <1>0, <1>7 DEF PushPacket
<1>8. ASSUME NEW c \in Clients, Disconnect(c)  PROVE Made'
  <2>1. CASE DetachMailbox(c)
    <3>1. mailbox[c] \in Mailboxes /\ MbUnref(mailbox[c]) /\ mailbox[c][2] <= logins[mailbox[c][1]]
      BY <1>0, <2>1 DEF DetachMailbox, LoggedIn
    <3>2. /\ defunct' = [defunct EXCEPT ![mailbox[c]] = TRUE]
          /\ items' = [items EXCEPT ![mailbox[c]] = items[mailbox[c]] + 1]
          /\ mailbox' = [mailbox EXCEPT ![c] = NoMailbox]
      BY <2>1 DEF DetachMailbox, Wakeup
    <3> QED  BY <1>0, <1>8, <3>1, <3>2, MbUnrefKeeps DEF Disconnect
  <2>2. CASE ~LoggedIn(c) /\ UNCHANGED <<mailbox, mvars>>
    BY <1>0, <1>8, <2>2 DEF Disconnect, LoggedIn
  <2> QED  BY <1>8, <2>1, <2>2 DEF Disconnect
<1>9. ASSUME NEW c \in Clients, Join(c)  PROVE Made'
  BY <1>0, <1>9 DEF Join, Joined
<1>10. ASSUME NEW c \in Clients, LeaveUnref(c)  PROVE Made'
  BY <1>0, <1>10, ClientUnrefKeeps DEF LeaveUnref
<1>11. ASSUME NEW c \in Clients, Unregister(c)  PROVE Made'
  BY <1>0, <1>11, ClientUnrefKeeps DEF Unregister
<1>12. ASSUME NEW t \in Mailboxes, ThreadStart(t)  PROVE Made'
  BY <1>0, <1>12 DEF ThreadStart, ClientRef
<1>13. ASSUME NEW t \in Mailboxes, GetMailbox(t)  PROVE Made'
  <2>1. CASE LoggedIn(t[1]) /\ tpc' = [tpc EXCEPT ![t] = "wait"]
    <3>1. mailbox[t[1]] \in Mailboxes
      BY <1>0, <2>1 DEF LoggedIn
    <3>2. /\ mrefs' = [mrefs EXCEPT ![mailbox[t[1]]] = mrefs[mailbox[t[1]]] + 1]
          /\ serves' = [serves EXCEPT ![t] = mailbox[t[1]]] /\ ~mfreed[mailbox[t[1]]]
      BY <1>13, <2>1 DEF GetMailbox, MbRef
    <3> QED  BY <1>0, <1>13, <2>1, <3>1, <3>2 DEF GetMailbox
  <2>2. CASE tpc' = [tpc EXCEPT ![t] = "end"] /\ UNCHANGED <<mrefs, serves>>
    BY <1>0, <1>13, <2>2 DEF GetMailbox
  <2> QED  BY <1>13, <2>1, <2>2 DEF GetMailbox
<1>14. ASSUME NEW t \in Mailboxes, NextEntry(t)  PROVE Made'
  BY <1>0, <1>14 DEF NextEntry
<1>15. ASSUME NEW t \in Mailboxes, ThreadUnrefClient(t)  PROVE Made'
  <2>1. t[1] \in Clients /\ pc[t[1]] # "start" /\ ClientUnref(t[1])
    <3>1. tpc[t] # "none" /\ ClientUnref(t[1])
      BY <1>15 DEF ThreadUnrefClient
    <3> QED  BY <1>0, <3>1, ThreadsAfterStart
  <2>2. /\ tpc' \in [Mailboxes -> {"none", "created", "get", "wait", "end", "endmb", "done"}]
        /\ tpc[t] = "end" /\ tpc'[t] = (IF serves[t] = NoMailbox THEN "done" ELSE "endmb")
        /\ \A s \in Mailboxes \ {t} : tpc'[s] = tpc[s]
    BY <1>0, <1>15 DEF ThreadUnrefClient, AfterUnref
  <2>3. /\ crefs' \in [Clients -> Nat] /\ cfreed' \in [Clients -> BOOLEAN]
        /\ \A d \in Clients : (cfreed'[d] <=> crefs'[d] = 0) \/ (crefs'[d] = crefs[d] /\ cfreed'[d] = cfreed[d])
        /\ \A d \in Clients : pc[d] = "start" => crefs'[d] = crefs[d] /\ cfreed'[d] = cfreed[d]
    BY <1>0, <2>1, ClientUnrefKeeps
  <2>4. UNCHANGED <<mailbox, logins, sends, pc, tid, rcpt, mrefs, mfreed, items, defunct, serves>>
    BY <1>15 DEF ThreadUnrefClient
  <2> QED  BY <1>0, <2>2, <2>3, <2>4
<1>16. ASSUME NEW t \in Mailboxes, ThreadUnrefMailbox(t)  PROVE Made'
  <2>1. serves[t] \in Mailboxes /\ serves[t][2] <= logins[serves[t][1]] /\ MbUnref(serves[t])
    BY <1>0, <1>16 DEF ThreadUnrefMailbox
  <2> QED  BY <1>0, <1>16, <2>1, MbUnrefKeeps DEF ThreadUnrefMailbox
<1>17. CASE UNCHANGED vars
  BY <1>0, <1>17 DEF vars
<1> QED  BY <1>1, <1>2, <1>3, <1>4, <1>5, <1>6, <1>7, <1>8, <1>9, <1>10,
            <1>11, <1>12, <1>13, <1>14, <1>15, <1>16, <1>17
         DEF Next, ServiceStep, Received, ThreadStep

\* A step that changes no CLIENT's count and neither set keeps them exact.
LEMMA QuietClients ==
  ASSUME ClientCounts, UNCHANGED crefs, \A c \in Clients : Own(c)' = Own(c),
         \A c \in Clients, t \in Mailboxes :
           (t[1] = c /\ tpc'[t] \in {"get", "wait", "end"})
             <=> (t[1] = c /\ tpc[t] \in {"get", "wait", "end"}),
         \A c, d \in Clients :
           (pc'[d] = "drop" /\ rcpt'[d] = c) <=> (pc[d] = "drop" /\ rcpt[d] = c)
  PROVE  ClientCounts'
<1> SUFFICES ASSUME NEW c \in Clients  PROVE ClientCountAt(c)'
  BY DEF ClientCounts
<1>1. Running(c)' = Running(c)
  BY DEF Running
<1>2. Sending(c)' = Sending(c)
  BY DEF Sending
<1>3. Own(c)' = Own(c) /\ crefs'[c] = crefs[c]
  OBVIOUS
<1>4. ClientCountAt(c)
  BY DEF ClientCounts
<1> HIDE DEF Own
<1> QED  BY <1>1, <1>2, <1>3, <1>4 DEF ClientCountAt

\* The number of references a client service thread has is a number.
LEMMA OwnType == \A c \in Clients : Own(c) \in 0..2 /\ Own(c)' \in 0..2
BY DEF Own

\* The counts of CLIENT objects stay exact, step by step.
LEMMA ClientCountsStep ==
  ASSUME IInv, [Next]_vars
  PROVE  ClientCounts'
<1>0. TypeOK /\ Sessions /\ Threads /\ Made
  BY DEF IInv, MailboxRefsExact
<1>p. /\ ClientCounts /\ MailboxCounts
  BY DEF IInv, MailboxRefsExact, ClientRefsExact, ClientCounts, ClientCountAt, Own,
         Running, Sending, MailboxCounts, MailboxCountAt, Pointing, Serving
<1> USE ClientsAssumption, BoundsAssumption, NoMailboxAssumption, Pairs DEF
            TypeOK, Sessions, SessionAt, Threads, ThreadAt, cvars, svars,
            mvars, tvars, Goto, TGoto
<1>1. ASSUME NEW c \in Clients, Register(c)  PROVE ClientCounts'
  <2>1. ASSUME NEW d \in Clients  PROVE ClientCountAt(d)'
    <3>1. Running(d)' = Running(d)
      BY <1>1 DEF Register, Running
    <3>2. Sending(d)' = Sending(d)
      BY <1>0, <1>1 DEF Register, Sending
    <3>3. CASE d = c
      <4>0. \A t \in Mailboxes : t[1] = c => tpc[t] = "none"
        BY <1>0, <1>1 DEF Register
      <4>1. Running(d) = {} /\ Sending(d) = {}
        BY <1>0, <1>1, <3>3, <4>0 DEF Register, Running, Sending
      <4>2. Cardinality(Running(d)') = 0 /\ Cardinality(Sending(d)') = 0
        BY <3>1, <3>2, <4>1, FS_EmptySet
      <4>3. Own(d)' = 2 /\ crefs'[d] = 2
        BY <1>0, <1>1, <3>3 DEF Register, Own
      <4> QED  BY <4>2, <4>3 DEF ClientCountAt
    <3>4. CASE d # c
      <4>1. Own(d)' = Own(d) /\ crefs'[d] = crefs[d]
        BY <1>0, <1>1, <3>4 DEF Register, Own
      <4> QED  BY <1>p, <3>1, <3>2, <4>1 DEF ClientCounts, ClientCountAt
    <3> QED  BY <3>3, <3>4
  <2> QED  BY <2>1 DEF ClientCounts
<1>2. ASSUME NEW c \in Clients, Login(c)  PROVE ClientCounts'
  BY <1>0, <1>2, <1>p, QuietClients DEF Login, LoggedIn, Own
<1>3. ASSUME NEW c \in Clients, Spawn(c)  PROVE ClientCounts'
  BY <1>0, <1>3, <1>p, QuietClients DEF Spawn, Own
<1>4. ASSUME NEW c \in Clients, Logout(c)  PROVE ClientCounts'
  BY <1>0, <1>4, <1>p, QuietClients
     DEF Logout, DetachMailbox, LoggedIn, Wakeup, Own
<1>5. ASSUME NEW c \in Clients, FindRecipient(c)  PROVE ClientCounts'
  <2>1. PICK e \in Clients : LoggedIn(e) /\ ClientRef(e) /\ rcpt' = [rcpt EXCEPT ![c] = e]
    BY <1>5 DEF FindRecipient
  <2>2. /\ pc[c] = "serve" /\ pc' = [pc EXCEPT ![c] = "drop"]
        /\ crefs' = [crefs EXCEPT ![e] = crefs[e] + 1] /\ UNCHANGED tpc
    BY <1>5, <2>1 DEF FindRecipient, ClientRef
  <2>3. ASSUME NEW d \in Clients  PROVE ClientCountAt(d)'
    <3>1. Running(d)' = Running(d) /\ Own(d)' = Own(d) /\ ClientCountAt(d)
      BY <1>0, <1>p, <2>2 DEF Running, Own, ClientCounts
    <3>2. c \notin Sending(d) /\ Sending(d)' = Sending(d) \cup (IF d = e THEN {c} ELSE {})
      BY <1>0, <2>1, <2>2 DEF Sending
    <3>3. CASE d = e
      <4>1. Cardinality(Sending(d)') = Cardinality(Sending(d)) + 1
        BY <3>2, <3>3, ClientSetsFinite, FS_AddElement
      <4>2. crefs'[d] = crefs[d] + 1
        BY <1>0, <2>2, <3>3
      <4> QED  BY <3>1, <4>1, <4>2, ClientSetsFinite, OwnType DEF ClientCountAt
    <3>4. CASE d # e
      <4>1. Sending(d)' = Sending(d) /\ crefs'[d] = crefs[d]
        BY <1>0, <2>2, <3>2, <3>4
      <4> QED  BY <3>1, <4>1 DEF ClientCountAt
    <3> QED  BY <3>3, <3>4
  <2> QED  BY <2>3 DEF ClientCounts
<1>6. ASSUME NEW c \in Clients, DropRecipient(c)  PROVE ClientCounts'
  <2> DEFINE e == rcpt[c]
  <2>1. /\ pc[c] = "drop" /\ pc' = [pc EXCEPT ![c] = "push"] /\ UNCHANGED <<tpc, rcpt>>
        /\ e \in Clients /\ pc[e] # "start" /\ ClientUnref(e)
    BY <1>0, <1>6 DEF DropRecipient
  <2> HIDE DEF e
  <2>2. crefs' = [crefs EXCEPT ![e] = crefs[e] - 1]
    BY <1>0, <2>1, ClientUnrefKeeps
  <2>3. ASSUME NEW d \in Clients  PROVE ClientCountAt(d)'
    <3>1. Running(d)' = Running(d) /\ Own(d)' = Own(d) /\ ClientCountAt(d)
      BY <1>0, <1>p, <2>1 DEF Running, Own, ClientCounts
    <3>2. Sending(d)' = Sending(d) \ (IF d = e THEN {c} ELSE {})
      BY <1>0, <2>1 DEF Sending, e
    <3>3. CASE d = e
      <4>1. c \in Sending(d)
        BY <2>1, <3>3 DEF Sending, e
      <4>2. Cardinality(Sending(d)') = Cardinality(Sending(d)) - 1
        <5>1. Sending(d)' = Sending(d) \ {c} /\ IsFiniteSet(Sending(d))
          BY <3>2, <3>3, ClientSetsFinite
        <5> QED  BY <4>1, <5>1, FS_RemoveElement
      <4>3. crefs'[d] = crefs[d] - 1
        BY <1>0, <2>2, <3>3
      <4> QED  BY <3>1, <4>2, <4>3, ClientSetsFinite, OwnType DEF ClientCountAt
    <3>4. CASE d # e
      <4>1. Sending(d)' = Sending(d) /\ crefs'[d] = crefs[d]
        BY <1>0, <2>2, <3>2, <3>4
      <4> QED  BY <3>1, <4>1 DEF ClientCountAt
    <3> QED  BY <3>3, <3>4
  <2> QED  BY <2>3 DEF ClientCounts
<1>7. ASSUME NEW c \in Clients, PushPacket(c)  PROVE ClientCounts'
  BY <1>0, <1>7, <1>p, QuietClients DEF PushPacket, Own
<1>8. ASSUME NEW c \in Clients, Disconnect(c)  PROVE ClientCounts'
  BY <1>0, <1>8, <1>p, QuietClients
     DEF Disconnect, DetachMailbox, LoggedIn, Wakeup, Own
<1>9. ASSUME NEW c \in Clients, Join(c)  PROVE ClientCounts'
  BY <1>0, <1>9, <1>p, QuietClients DEF Join, Joined, Own
<1>10. ASSUME NEW c \in Clients, LeaveUnref(c)  PROVE ClientCounts'
  <2>1. pc[c] # "start" /\ ClientUnref(c) /\ UNCHANGED <<tpc, rcpt>>
    BY <1>10 DEF LeaveUnref
  <2>2. crefs' = [crefs EXCEPT ![c] = crefs[c] - 1]
    BY <1>0, <2>1, ClientUnrefKeeps
  <2>3. ASSUME NEW d \in Clients  PROVE ClientCountAt(d)'
    <3>1. Running(d)' = Running(d) /\ Sending(d)' = Sending(d) /\ ClientCountAt(d)
      BY <1>0, <1>p, <1>10, <2>1 DEF LeaveUnref, Running, Sending, ClientCounts
    <3>2. /\ crefs'[d] = IF d = c THEN crefs[d] - 1 ELSE crefs[d]
          /\ Own(d) = IF d = c THEN Own(d)' + 1 ELSE Own(d)'
      BY <1>0, <1>10, <2>2 DEF LeaveUnref, Own
    <3> QED  BY <3>1, <3>2, ClientSetsFinite, OwnType DEF ClientCountAt
  <2> QED  BY <2>3 DEF ClientCounts
<1>11. ASSUME NEW c \in Clients, Unregister(c)  PROVE ClientCounts'
  <2>1. pc[c] # "start" /\ ClientUnref(c) /\ UNCHANGED <<tpc, rcpt>>
    BY <1>11 DEF Unregister
  <2>2. crefs' = [crefs EXCEPT ![c] = crefs[c] - 1]
    BY <1>0, <2>1, ClientUnrefKeeps
  <2>3. ASSUME NEW d \in Clients  PROVE ClientCountAt(d)'
    <3>1. Running(d)' = Running(d) /\ Sending(d)' = Sending(d) /\ ClientCountAt(d)
      BY <1>0, <1>p, <1>11, <2>1 DEF Unregister, Running, Sending, ClientCounts
    <3>2. /\ crefs'[d] = IF d = c THEN crefs[d] - 1 ELSE crefs[d]
          /\ Own(d) = IF d = c THEN Own(d)' + 1 ELSE Own(d)'
      BY <1>0, <1>11, <2>2 DEF Unregister, Own
    <3> QED  BY <3>1, <3>2, ClientSetsFinite, OwnType DEF ClientCountAt
  <2> QED  BY <2>3 DEF ClientCounts
<1>12. ASSUME NEW t \in Mailboxes, ThreadStart(t)  PROVE ClientCounts'
  <2> DEFINE e == t[1]
  <2>1. e \in Clients /\ tpc[t] = "created" /\ tpc' = [tpc EXCEPT ![t] = "get"] /\ UNCHANGED <<pc, rcpt>>
    BY <1>0, <1>12 DEF ThreadStart
  <2>2. crefs' = [crefs EXCEPT ![e] = crefs[e] + 1]
    BY <1>0, <1>12 DEF ThreadStart, ClientRef
  <2> HIDE DEF e
  <2>3. ASSUME NEW d \in Clients  PROVE ClientCountAt(d)'
    <3>1. Sending(d)' = Sending(d) /\ Own(d)' = Own(d) /\ ClientCountAt(d)
      BY <1>p, <2>1 DEF Sending, Own, ClientCounts
    <3>2. Running(d)' = Running(d) \cup (IF d = e THEN {t} ELSE {})
      BY <1>0, <2>1 DEF Running, e
    <3>3. CASE d = e
      <4>1. t \notin Running(d)
        BY <2>1, <3>3 DEF Running, e
      <4>2. Cardinality(Running(d)') = Cardinality(Running(d)) + 1
        BY <3>2, <3>3, <4>1, ClientSetsFinite, FS_AddElement
      <4>3. crefs'[d] = crefs[d] + 1
        BY <1>0, <2>2, <3>3
      <4> QED  BY <3>1, <4>2, <4>3, ClientSetsFinite, OwnType DEF ClientCountAt
    <3>4. CASE d # e
      <4>1. Running(d)' = Running(d) /\ crefs'[d] = crefs[d]
        BY <1>0, <2>2, <3>2, <3>4
      <4> QED  BY <3>1, <4>1 DEF ClientCountAt
    <3> QED  BY <3>3, <3>4
  <2> QED  BY <2>3 DEF ClientCounts
<1>13. ASSUME NEW t \in Mailboxes, GetMailbox(t)  PROVE ClientCounts'
  BY <1>0, <1>13, <1>p, QuietClients DEF GetMailbox, LoggedIn, MbRef, Own
<1>14. ASSUME NEW t \in Mailboxes, NextEntry(t)  PROVE ClientCounts'
  BY <1>0, <1>14, <1>p, QuietClients DEF NextEntry, Own
<1>15. ASSUME NEW t \in Mailboxes, ThreadUnrefClient(t)  PROVE ClientCounts'
  <2> DEFINE e == t[1]
  <2>1. e \in Clients /\ tpc[t] = "end" /\ tpc' = [tpc EXCEPT ![t] = AfterUnref(t)] /\ UNCHANGED <<pc, rcpt>>
    BY <1>0, <1>15 DEF ThreadUnrefClient
  <2>2. crefs' = [crefs EXCEPT ![e] = crefs[e] - 1]
    <3>1. pc[e] # "start" /\ ClientUnref(e)
      BY <1>0, <1>15, <2>1, ThreadsAfterStart DEF ThreadUnrefClient
    <3> QED  BY <1>0, <2>1, <3>1, ClientUnrefKeeps
  <2> HIDE DEF e
  <2>3. ASSUME NEW d \in Clients  PROVE ClientCountAt(d)'
    <3>1. Sending(d)' = Sending(d) /\ Own(d)' = Own(d) /\ ClientCountAt(d)
      BY <1>p, <2>1 DEF Sending, Own, ClientCounts
    <3>2. Running(d)' = Running(d) \ (IF d = e THEN {t} ELSE {})
      BY <1>0, <2>1 DEF Running, e, AfterUnref
    <3>3. CASE d = e
      <4>1. t \in Running(d)
        BY <2>1, <3>3 DEF Running, e
      <4>2. Cardinality(Running(d)') = Cardinality(Running(d)) - 1
        BY <3>2, <3>3, <4>1, ClientSetsFinite, FS_RemoveElement
      <4>3. crefs'[d] = crefs[d] - 1
        BY <1>0, <2>2, <3>3
      <4> QED  BY <3>1, <4>2, <4>3, ClientSetsFinite, OwnType DEF ClientCountAt
    <3>4. CASE d # e
      <4>1. Running(d)' = Running(d) /\ crefs'[d] = crefs[d]
        BY <1>0, <2>2, <3>2, <3>4
      <4> QED  BY <3>1, <4>1 DEF ClientCountAt
    <3> QED  BY <3>3, <3>4
  <2> QED  BY <2>3 DEF ClientCounts
<1>16. ASSUME NEW t \in Mailboxes, ThreadUnrefMailbox(t)  PROVE ClientCounts'
  BY <1>0, <1>16, <1>p, QuietClients DEF ThreadUnrefMailbox, Own
<1>17. CASE UNCHANGED vars
  BY <1>p, <1>17, QuietClients DEF vars, Own
<1> QED  BY <1>1, <1>2, <1>3, <1>4, <1>5, <1>6, <1>7, <1>8, <1>9, <1>10,
            <1>11, <1>12, <1>13, <1>14, <1>15, <1>16, <1>17
         DEF Next, ServiceStep, Received, ThreadStep

\* A step that changes no MAILBOX's count and neither set keeps them exact.
LEMMA QuietMailboxes ==
  ASSUME MailboxCounts, UNCHANGED <<mrefs, mailbox>>,
         \A t, m \in Mailboxes : (serves'[t] = m /\ tpc'[t] # "done")
                                   <=> (serves[t] = m /\ tpc[t] # "done")
  PROVE  MailboxCounts'
<1> SUFFICES ASSUME NEW m \in Mailboxes  PROVE MailboxCountAt(m)'
  BY DEF MailboxCounts
<1>1. Pointing(m)' = Pointing(m) /\ Serving(m)' = Serving(m)
  BY DEF Pointing, Serving
<1> QED  BY <1>1 DEF MailboxCounts, MailboxCountAt

\* client_logout drops the CLIENT's reference and its pointer.
LEMMA DetachCounts ==
  ASSUME TypeOK, Sessions, Made, MailboxCounts, NEW c \in Clients, DetachMailbox(c),
         UNCHANGED <<tpc, serves>>
  PROVE  MailboxCounts'
<1> DEFINE n == mailbox[c]
<1>1. n \in Mailboxes /\ n[2] <= logins[n[1]] /\ MbUnref(n)
  BY Pairs, BoundsAssumption DEF DetachMailbox, LoggedIn, TypeOK, Sessions, SessionAt
<1>2. mailbox' = [mailbox EXCEPT ![c] = NoMailbox]
  BY DEF DetachMailbox
<1> HIDE DEF n
<1>3. mrefs' = [mrefs EXCEPT ![n] = mrefs[n] - 1]
  BY <1>1, MbUnrefKeeps
<1>4. ASSUME NEW m \in Mailboxes  PROVE MailboxCountAt(m)'
  <2>1. Serving(m)' = Serving(m) /\ MailboxCountAt(m)
    BY DEF Serving, MailboxCounts
  <2>2. Pointing(m)' = Pointing(m) \ (IF m = n THEN {c} ELSE {})
    BY <1>2, NoMailboxAssumption DEF TypeOK, Pointing, n
  <2>3. CASE m = n
    <3>1. c \in Pointing(m)
      BY <2>3 DEF Pointing, n
    <3>2. Cardinality(Pointing(m)') = Cardinality(Pointing(m)) - 1
      BY <2>2, <2>3, <3>1, MailboxSetsFinite, FS_RemoveElement
    <3>3. mrefs'[m] = mrefs[m] - 1
      BY <1>3, <2>3 DEF TypeOK
    <3> QED  BY <2>1, <3>2, <3>3, MailboxSetsFinite DEF MailboxCountAt
  <2>4. CASE m # n
    <3>1. Pointing(m)' = Pointing(m) /\ mrefs'[m] = mrefs[m]
      BY <1>3, <2>2, <2>4 DEF TypeOK
    <3> QED  BY <2>1, <3>1 DEF MailboxCountAt
  <2> QED  BY <2>3, <2>4
<1> QED  BY <1>4 DEF MailboxCounts

\* The counts of MAILBOX objects stay exact, step by step.
LEMMA MailboxCountsStep ==
  ASSUME IInv, [Next]_vars
  PROVE  MailboxCounts'
<1>0. TypeOK /\ Sessions /\ Threads /\ Made
  BY DEF IInv, MailboxRefsExact
<1>p. /\ ClientCounts /\ MailboxCounts
  BY DEF IInv, MailboxRefsExact, ClientRefsExact, ClientCounts, ClientCountAt, Own,
         Running, Sending, MailboxCounts, MailboxCountAt, Pointing, Serving
<1> USE ClientsAssumption, BoundsAssumption, NoMailboxAssumption, Pairs DEF
            TypeOK, Sessions, SessionAt, Threads, ThreadAt, Made, cvars,
            svars, mvars, tvars, Goto, TGoto
<1>1. ASSUME NEW c \in Clients, Register(c)  PROVE MailboxCounts'
  BY <1>0, <1>1, <1>p, QuietMailboxes DEF Register
<1>2. ASSUME NEW c \in Clients, Login(c)  PROVE MailboxCounts'
  <2> DEFINE n == <<c, logins[c] + 1>>
  <2>1. /\ n \in Mailboxes /\ n[1] = c /\ n[2] = logins[c] + 1
        /\ mailbox' = [mailbox EXCEPT ![c] = n] /\ mrefs' = [mrefs EXCEPT ![n] = 1]
        /\ mailbox[c] = NoMailbox /\ UNCHANGED <<tpc, serves>>
    BY <1>0, <1>2 DEF Login, LoggedIn
  <2>2. logins[c] \in Nat
    BY <1>0
  <2> HIDE DEF n
  <2>3. ASSUME NEW m \in Mailboxes  PROVE MailboxCountAt(m)'
    <3>1. Serving(m)' = Serving(m) /\ MailboxCountAt(m)
      BY <1>p, <2>1 DEF Serving, MailboxCounts
    <3>2. CASE m = n
      <4>0. ~(n[2] <= logins[n[1]])
        BY <2>1, <2>2
      <4>1. Serving(m) = {}
        <5>1. \A t \in Mailboxes : serves[t] = n => n[1] = t[1] /\ n[2] <= logins[n[1]]
          BY <1>0, <2>1
        <5> QED  BY <3>2, <4>0, <5>1 DEF Serving
      <4>2. \A d \in Clients : mailbox[d] # n
        BY <1>0, <2>1, <2>2, <4>0
      <4>3. Pointing(m)' = {c}
        BY <1>0, <2>1, <3>2, <4>2 DEF Pointing
      <4>4. Cardinality(Serving(m)') = 0 /\ Cardinality(Pointing(m)') = 1
        BY <3>1, <4>1, <4>3, FS_EmptySet, FS_Singleton
      <4>5. mrefs'[m] = 1
        BY <1>0, <2>1, <3>2
      <4> QED  BY <4>4, <4>5 DEF MailboxCountAt
    <3>3. CASE m # n
      <4>1. Pointing(m)' = Pointing(m) /\ mrefs'[m] = mrefs[m]
        BY <1>0, <2>1, <3>3 DEF Pointing
      <4> QED  BY <3>1, <4>1 DEF MailboxCountAt
    <3> QED  BY <3>2, <3>3
  <2> QED  BY <2>3 DEF MailboxCounts
<1>3. ASSUME NEW c \in Clients, Spawn(c)  PROVE MailboxCounts'
  BY <1>0, <1>3, <1>p, QuietMailboxes DEF Spawn
<1>4. ASSUME NEW c \in Clients, Logout(c)  PROVE MailboxCounts'
  BY <1>0, <1>p, <1>4, DetachCounts DEF Logout
<1>5. ASSUME NEW c \in Clients, FindRecipient(c)  PROVE MailboxCounts'
  BY <1>0, <1>5, <1>p, QuietMailboxes DEF FindRecipient, LoggedIn, ClientRef
<1>6. ASSUME NEW c \in Clients, DropRecipient(c)  PROVE MailboxCounts'
  BY <1>0, <1>6, <1>p, QuietMailboxes DEF DropRecipient
<1>7. ASSUME NEW c \in Clients, PushPacket(c)  PROVE MailboxCounts'
  BY <1>0, <1>7, <1>p, QuietMailboxes DEF PushPacket
<1>8. ASSUME NEW c \in Clients, Disconnect(c)  PROVE MailboxCounts'
  BY <1>0, <1>p, <1>8, DetachCounts, QuietMailboxes DEF Disconnect
<1>9. ASSUME NEW c \in Clients, Join(c)  PROVE MailboxCounts'
  BY <1>0, <1>9, <1>p, QuietMailboxes DEF Join, Joined
<1>10. ASSUME NEW c \in Clients, LeaveUnref(c)  PROVE MailboxCounts'
  BY <1>0, <1>10, <1>p, QuietMailboxes DEF LeaveUnref
<1>11. ASSUME NEW c \in Clients, Unregister(c)  PROVE MailboxCounts'
  BY <1>0, <1>11, <1>p, QuietMailboxes DEF Unregister
<1>12. ASSUME NEW t \in Mailboxes, ThreadStart(t)  PROVE MailboxCounts'
  BY <1>0, <1>12, <1>p, QuietMailboxes DEF ThreadStart, ClientRef
<1>13. ASSUME NEW t \in Mailboxes, GetMailbox(t)  PROVE MailboxCounts'
  <2>1. CASE /\ LoggedIn(t[1]) /\ MbRef(mailbox[t[1]])
             /\ serves' = [serves EXCEPT ![t] = mailbox[t[1]]]
             /\ tpc' = [tpc EXCEPT ![t] = "wait"]
    <3> DEFINE n == mailbox[t[1]]
    <3>1. n \in Mailboxes /\ mrefs' = [mrefs EXCEPT ![n] = mrefs[n] + 1] /\ UNCHANGED mailbox
      BY <1>0, <1>13, <2>1 DEF GetMailbox, LoggedIn, MbRef
    <3>2. serves[t] = NoMailbox /\ serves' = [serves EXCEPT ![t] = n]
      BY <1>0, <1>13, <2>1 DEF GetMailbox
    <3> HIDE DEF n
    <3>3. ASSUME NEW m \in Mailboxes  PROVE MailboxCountAt(m)'
      <4>1. Pointing(m)' = Pointing(m) /\ MailboxCountAt(m)
        BY <1>p, <3>1 DEF Pointing, MailboxCounts
      <4>2. t \notin Serving(m) /\ Serving(m)' = Serving(m) \cup (IF m = n THEN {t} ELSE {})
        BY <1>0, <2>1, <3>1, <3>2 DEF Serving
      <4>3. CASE m = n
        <5>1. Cardinality(Serving(m)') = Cardinality(Serving(m)) + 1
          BY <4>2, <4>3, MailboxSetsFinite, FS_AddElement
        <5>2. mrefs'[m] = mrefs[m] + 1
          BY <1>0, <3>1, <4>3
        <5> QED  BY <4>1, <5>1, <5>2, MailboxSetsFinite DEF MailboxCountAt
      <4>4. CASE m # n
        <5>1. Serving(m)' = Serving(m) /\ mrefs'[m] = mrefs[m]
          BY <1>0, <3>1, <4>2, <4>4
        <5> QED  BY <4>1, <5>1 DEF MailboxCountAt
      <4> QED  BY <4>3, <4>4
    <3> QED  BY <3>3 DEF MailboxCounts
  <2>2. CASE tpc' = [tpc EXCEPT ![t] = "end"] /\ UNCHANGED <<mrefs, serves>>
    BY <1>0, <1>p, <1>13, <2>2, QuietMailboxes DEF GetMailbox
  <2> QED  BY <1>13, <2>1, <2>2 DEF GetMailbox
<1>14. ASSUME NEW t \in Mailboxes, NextEntry(t)  PROVE MailboxCounts'
  BY <1>0, <1>14, <1>p, QuietMailboxes DEF NextEntry
<1>15. ASSUME NEW t \in Mailboxes, ThreadUnrefClient(t)  PROVE MailboxCounts'
  BY <1>0, <1>15, <1>p, QuietMailboxes DEF ThreadUnrefClient, AfterUnref
<1>16. ASSUME NEW t \in Mailboxes, ThreadUnrefMailbox(t)  PROVE MailboxCounts'
  <2> DEFINE n == serves[t]
  <2>1. /\ n \in Mailboxes /\ n[2] <= logins[n[1]] /\ MbUnref(n)
        /\ tpc[t] = "endmb" /\ tpc' = [tpc EXCEPT ![t] = "done"] /\ UNCHANGED <<mailbox, serves>>
    BY <1>0, <1>16 DEF ThreadUnrefMailbox
  <2> HIDE DEF n
  <2>2. mrefs' = [mrefs EXCEPT ![n] = mrefs[n] - 1]
    BY <1>0, <2>1, MbUnrefKeeps
  <2>3. ASSUME NEW m \in Mailboxes  PROVE MailboxCountAt(m)'
    <3>1. Pointing(m)' = Pointing(m) /\ MailboxCountAt(m)
      BY <1>p, <2>1 DEF Pointing, MailboxCounts
    <3>2. Serving(m)' = Serving(m) \ (IF m = n THEN {t} ELSE {})
      BY <1>0, <2>1 DEF Serving, n
    <3>3. CASE m = n
      <4>1. t \in Serving(m)
        BY <2>1, <3>3 DEF Serving, n
      <4>2. Cardinality(Serving(m)') = Cardinality(Serving(m)) - 1
        <5>1. Serving(m)' = Serving(m) \ {t} /\ IsFiniteSet(Serving(m))
          BY <3>2, <3>3, MailboxSetsFinite
        <5> QED  BY <4>1, <5>1, FS_RemoveElement
      <4>3. mrefs'[m] = mrefs[m] - 1
        BY <1>0, <2>2, <3>3
      <4> QED  BY <3>1, <4>2, <4>3, MailboxSetsFinite DEF MailboxCountAt
    <3>4. CASE m # n
      <4>1. Serving(m)' = Serving(m) /\ mrefs'[m] = mrefs[m]
        BY <1>0, <2>2, <3>2, <3>4
      <4> QED  BY <3>1, <4>1 DEF MailboxCountAt
    <3> QED  BY <3>3, <3>4
  <2> QED  BY <2>3 DEF MailboxCounts
<1>17. CASE UNCHANGED vars
  BY <1>p, <1>17, QuietMailboxes DEF vars
<1> QED  BY <1>1, <1>2, <1>3, <1>4, <1>5, <1>6, <1>7, <1>8, <1>9, <1>10,
            <1>11, <1>12, <1>13, <1>14, <1>15, <1>16, <1>17
         DEF Next, ServiceStep, Received, ThreadStep

-----------------------------------------------------------------------------
(* The theorems *)

\* IInv is inductive.
LEMMA Inductive == IInv /\ [Next]_vars => IInv'
<1> SUFFICES ASSUME IInv, [Next]_vars  PROVE IInv'
  OBVIOUS
<1>1. TypeOK' /\ Sessions' /\ Threads' /\ Made' /\ ClientCounts' /\ MailboxCounts'
  BY TypesStep, SessionsStep, ThreadsStep, MadeStep, ClientCountsStep, MailboxCountsStep
<1>2. (TypeOK /\ Sessions /\ Threads /\ Made /\ ClientCounts /\ MailboxCounts
         => ClientRefsExact /\ MailboxRefsExact)'
  BY RefsFromCounts, PTL
<1> QED  BY <1>1, <1>2 DEF IInv

\* IInv holds in every state the server can reach.
THEOREM Invariance == Spec => []IInv
<1> QED  BY Initially, Inductive, PTL DEF Spec

\* The reference count of a CLIENT is the number of places that keep a pointer
\* to it (client_ref and client_unref in client.c, called from server.c).
THEOREM ClientReferences == Spec => []ClientRefsExact
<1>1. IInv => ClientRefsExact
  BY DEF IInv
<1> QED  BY <1>1, Invariance, PTL

\* The reference count of a MAILBOX is exact, it is freed only when nobody
\* points to it any more, and a connection that has ended, with its mailbox
\* threads, leaves none of its mailboxes allocated (client_logout in client.c,
\* chla_mailbox_service in server.c, mb_ref and mb_unref in mailbox.c).
THEOREM MailboxReferences == Spec => []MailboxRefsExact
<1>1. IInv => MailboxRefsExact
  BY DEF IInv
<1> QED  BY <1>1, Invariance, PTL

\* A CLIENT outlives the mailbox thread of its last login: pthread_join in
\* chla_client_service (server.c) comes before the thread's client_unref.
THEOREM Outlived == Spec => []FreedAfterLastThread
<1>1. IInv => FreedAfterLastThread
  <2> SUFFICES ASSUME IInv, NEW c \in Clients, cfreed[c], tid[c] # NoMailbox
               PROVE  tpc[tid[c]] = "done"
    BY DEF FreedAfterLastThread
  <2>0. TypeOK /\ Sessions /\ ClientCountAt(c)
    BY DEF IInv, MailboxRefsExact, ClientRefsExact, ClientCountAt, Own, Running, Sending
  <2>1. pc[c] # "start" /\ crefs[c] = 0
    BY <2>0 DEF Sessions, SessionAt
  <2>2. Own(c) = 0
    BY <2>0, <2>1, ClientSetsFinite, OwnType DEF ClientCountAt
  <2>3. pc[c] = "done"
    BY <2>0, <2>1, <2>2 DEF Own, TypeOK
  <2> QED  BY <2>0, <2>3 DEF Sessions, SessionAt
<1> QED  BY <1>1, Invariance, PTL
=============================================================================
