---------------------------- MODULE MailboxProofs ----------------------------
(***************************************************************************)
(* Proofs about Mailbox, for any finite set of mailboxes, any relation of  *)
(* who sends to whom and any number of messages: types, the accounting of  *)
(* the items semaphore and of the reference counts; the order of delivery, *)
(* the notices a sender gets and the messages that may be lost; and that   *)
(* the mailboxes implement the channels of module Channel.                 *)
(*                                                                         *)
(* None of these is inductive.  IInv adds what the threads know of one     *)
(* another: the control points that go together (Control), that nobody     *)
(* holds a pointer to a mailbox not yet made (Started), who owns a mutex   *)
(* and that the mutex of a dying mailbox is never given back (Mutexes).    *)
(* Delivery adds what became of the entries: where a message is, and that  *)
(* all that went through a mailbox, received and queued, is in order.      *)
(***************************************************************************)
EXTENDS Mailbox, FiniteSetTheorems, FunctionTheorems, TLAPS

\* No thread is finalizing m.
NotFin(m) == \A t \in Threads : fin[t] # m

\* What the control points of the two threads of m imply.
ControlAt(m) ==
  /\ opc[m] = "start" <=> spc[m] = "none"
  /\ opc[m] = "start" =>
       /\ ~live[m] /\ ~attached[m] /\ ~defunct[m]
       /\ items[m] = 0 /\ refs[m] = 0 /\ mutex[m] = NoThread
       /\ queue[m] = <<>> /\ NotFin(m)
  /\ defunct[m] <=> opc[m] \in {"unref", "out"}
  /\ attached[m] => opc[m] \in {"idle", "add", "ref", "drop"}
  /\ dest[m] \in Boxes <=> opc[m] \in {"add", "ref", "drop"}
  /\ opc[m] = "add" => sent[m] < MaxMsgs
  /\ cur[m] \in Entries <=> spc[m] = "send"

\* The mailboxes the entries of s come from.
Froms(s) == {s[i].from : i \in DOMAIN s}

\* Nothing points to a mailbox that has not been made.
StartedAt(m) ==
  /\ \A b \in Froms(queue[m]) : opc[b] # "start"
  /\ cur[m] \in Entries => opc[cur[m].from] # "start"
  /\ dest[m] \in Boxes => opc[dest[m]] # "start"

\* Who holds the mutex of m: a sender between linking its message and posting
\* items, the service thread that looks at the head, or for ever the thread
\* that finalized m.
MutexAt(m) ==
  /\ opc[m] = "ref" =>
       /\ mutex[dest[m]] = Owner(m) /\ live[dest[m]] /\ NotFin(dest[m])
       /\ queue[dest[m]] # <<>>
       /\ MessageOf(m, queue[dest[m]][Len(queue[dest[m]])])
  /\ spc[m] \in {"unref", "pop"} =>
       mutex[m] = Service(m) /\ live[m] /\ NotFin(m) /\ ~defunct[m]
  /\ (opc[m] # "start" /\ mutex[m] = NoThread) => live[m] /\ NotFin(m)
  /\ \A t \in Threads : fin[t] = m => mutex[m] = t /\ live[m] /\ refs[m] = 0
  /\ (opc[m] # "start" /\ ~live[m]) => refs[m] = 0

Control == \A m \in Boxes : ControlAt(m)
Started == \A m \in Boxes : StartedAt(m)
Mutexes == \A m \in Boxes : MutexAt(m)

IInv ==
  TypeOK /\ Control /\ Started /\ Mutexes /\ ItemsCountEntries /\ RefsCountPointers

-----------------------------------------------------------------------------
(* Lemmas about Pointers: how appending to a queue and removing its head     *)
(* change the set of messages of m that wait in other mailboxes.             *)

Queues == [Boxes -> Seq(Entries)]

\* There are finitely many pointers to a mailbox.
LEMMA PointersFinite ==
  ASSUME NEW q \in Queues, NEW m \in Boxes
  PROVE  IsFiniteSet(Pointers(q, m)) /\ Cardinality(Pointers(q, m)) \in Nat
<1> DEFINE B == Boxes \ {m}
           F == {{b} \X DOMAIN q[b] : b \in B}
           f == [b \in B |-> {b} \X DOMAIN q[b]]
<1>1. IsFiniteSet(B)
  BY BoxesAssumption, FS_Difference
<1>2. IsFiniteSet(F)
  <2>1. f \in Surjection(B, F)
    BY DEF Surjection
  <2> QED  BY <1>1, <2>1, FS_Surjection
<1>3. ASSUME NEW T \in F  PROVE IsFiniteSet(T)
  <2>1. PICK b \in B : T = {b} \X DOMAIN q[b]
    BY <1>3
  <2>2. DOMAIN q[b] = 1..Len(q[b]) /\ Len(q[b]) \in Nat
    BY <2>1 DEF Queues
  <2>3. IsFiniteSet(DOMAIN q[b])
    BY <2>2, FS_Interval
  <2> QED  BY <2>1, <2>3, FS_Singleton, FS_Product
<1>4. IsFiniteSet(Positions(q, m))
  BY <1>2, <1>3, FS_UNION DEF Positions
<1>5. Pointers(q, m) \in SUBSET Positions(q, m)
  BY DEF Pointers
<1> QED  BY <1>4, <1>5, FS_Subset, FS_CardinalityType

\* The positions that hold a message of m, one queue at a time.
LEMMA PointersIn ==
  \A q \in Queues, m \in Boxes, b \in Boxes, i \in Nat :
    <<b, i>> \in Pointers(q, m) <=> b # m /\ i \in DOMAIN q[b] /\ MessageOf(m, q[b][i])
<1> SUFFICES ASSUME NEW q \in Queues, NEW m \in Boxes, NEW b \in Boxes, NEW i \in Nat
             PROVE  <<b, i>> \in Pointers(q, m) <=>
                      b # m /\ i \in DOMAIN q[b] /\ MessageOf(m, q[b][i])
  OBVIOUS
<1>1. <<b, i>> \in Positions(q, m) <=> b # m /\ i \in DOMAIN q[b]
  BY DEF Positions
<1> QED  BY <1>1 DEF Pointers

\* A pointer is a place in the queue of a mailbox.
LEMMA PointersArePairs ==
  \A q \in Queues, m \in Boxes : \A x \in Pointers(q, m) :
    \E b \in Boxes, i \in Nat : x = <<b, i>>
<1> SUFFICES ASSUME NEW q \in Queues, NEW m \in Boxes, NEW x \in Pointers(q, m)
             PROVE  \E b \in Boxes, i \in Nat : x = <<b, i>>
  OBVIOUS
<1>1. x \in Positions(q, m)
  BY DEF Pointers
<1>2. PICK b \in Boxes \ {m} : x \in {b} \X DOMAIN q[b]
  BY <1>1 DEF Positions
<1>3. DOMAIN q[b] = 1..Len(q[b])
  BY DEF Queues
<1> QED  BY <1>2, <1>3

\* An entry linked in at the end of b.
LEMMA PointersAppend ==
  ASSUME NEW q \in Queues, NEW r \in Queues, NEW m \in Boxes, NEW b \in Boxes,
         NEW e \in Entries, r[b] = Append(q[b], e), \A c \in Boxes \ {b} : r[c] = q[c]
  PROVE  Cardinality(Pointers(r, m)) = Cardinality(Pointers(q, m))
           + One(b # m /\ MessageOf(m, e))
<1> DEFINE n == Len(q[b]) + 1
           p == <<b, n>>
<1>1. q[b] \in Seq(Entries) /\ Len(q[b]) \in Nat
  BY DEF Queues
<1>2. /\ DOMAIN r[b] = 1..n /\ DOMAIN q[b] = 1..(n - 1) /\ n \in Nat \ {0}
      /\ r[b][n] = e
      /\ \A i \in DOMAIN q[b] : r[b][i] = q[b][i]
  BY <1>1
<1> HIDE DEF n
<1>3. \A c \in Boxes, i \in Nat : <<c, i>> # p =>
        (<<c, i>> \in Pointers(r, m) <=> <<c, i>> \in Pointers(q, m))
  <2> SUFFICES ASSUME NEW c \in Boxes, NEW i \in Nat, <<c, i>> # p
               PROVE  <<c, i>> \in Pointers(r, m) <=> <<c, i>> \in Pointers(q, m)
    OBVIOUS
  <2>1. CASE c # b
    BY <2>1, PointersIn
  <2>2. CASE c = b
    <3>1. i # n
      BY <2>2
    <3>2. i \in DOMAIN r[b] <=> i \in DOMAIN q[b]
      BY <1>2, <3>1
    <3> QED  BY <1>2, <2>2, <3>2, PointersIn
  <2> QED  BY <2>1, <2>2
<1>4. Pointers(r, m) \ {p} = Pointers(q, m) \ {p}
  BY <1>3, PointersArePairs
<1>5. p \notin Pointers(q, m)
  BY <1>2, PointersIn
<1>6. p \in Pointers(r, m) <=> b # m /\ MessageOf(m, e)
  BY <1>2, PointersIn
<1> HIDE DEF p
<1>7. CASE b # m /\ MessageOf(m, e)
  <2>1. Pointers(r, m) = Pointers(q, m) \cup {p}
    BY <1>4, <1>5, <1>6, <1>7
  <2>2. Cardinality(Pointers(r, m)) = Cardinality(Pointers(q, m)) + 1
    BY <1>5, <2>1, PointersFinite, FS_AddElement
  <2> QED  BY <1>7, <2>2, PointersFinite DEF One
<1>8. CASE ~(b # m /\ MessageOf(m, e))
  <2>0. p \notin Pointers(r, m)
    BY <1>6, <1>8, Zenon
  <2>1. Pointers(r, m) = Pointers(q, m)
    <3>1. Pointers(r, m) \ {p} = Pointers(r, m) /\ Pointers(q, m) \ {p} = Pointers(q, m)
      BY <1>5, <2>0
    <3> QED  BY <1>4, <3>1
  <2> QED  BY <1>8, <2>1, PointersFinite DEF One
<1> QED  BY <1>7, <1>8

\* The head of b unlinked.
LEMMA PointersTail ==
  ASSUME NEW q \in Queues, NEW r \in Queues, NEW m \in Boxes, NEW b \in Boxes,
         q[b] # <<>>, r[b] = Tail(q[b]), \A c \in Boxes \ {b} : r[c] = q[c]
  PROVE  Cardinality(Pointers(q, m)) = Cardinality(Pointers(r, m))
           + One(b # m /\ MessageOf(m, Head(q[b])))
<1> DEFINE n == Len(q[b])
           p == <<b, 1>>
           P == Pointers(q, m) \ {p}
           R == Pointers(r, m)
           f == [x \in R |-> IF x[1] = b THEN <<b, x[2] + 1>> ELSE x]
<1>1. q[b] \in Seq(Entries) /\ n \in Nat /\ n > 0
  BY DEF Queues
<1>2. /\ DOMAIN q[b] = 1..n /\ DOMAIN r[b] = 1..(n - 1) /\ n \in Nat \ {0}
      /\ q[b][1] = Head(q[b])
      /\ \A i \in 1..(n - 1) : r[b][i] = q[b][i + 1]
  BY <1>1
<1> HIDE DEF n
<1>3. \A c \in Boxes \ {b}, i \in Nat : <<c, i>> \in R <=> <<c, i>> \in P
  BY PointersIn
<1>4. \A i \in Nat : <<b, i>> \in R <=> i \in 1..(n - 1) /\ <<b, i + 1>> \in P
  <2> SUFFICES ASSUME NEW i \in Nat
               PROVE  <<b, i>> \in R <=> i \in 1..(n - 1) /\ <<b, i + 1>> \in P
    OBVIOUS
  <2>1. CASE i \in 1..(n - 1)
    <3>1. i + 1 \in DOMAIN q[b] /\ i + 1 # 1 /\ i \in DOMAIN r[b]
      BY <1>2, <2>1
    <3>2. <<b, i + 1>> \in P <=> <<b, i + 1>> \in Pointers(q, m)
      BY <3>1
    <3>3. <<b, i + 1>> \in Pointers(q, m) <=> b # m /\ MessageOf(m, q[b][i + 1])
      BY <3>1, PointersIn
    <3>4. <<b, i>> \in R <=> b # m /\ MessageOf(m, r[b][i])
      BY <3>1, PointersIn
    <3>5. r[b][i] = q[b][i + 1]
      BY <1>2, <2>1
    <3> HIDE DEF P, R
    <3> QED  BY <2>1, <3>2, <3>3, <3>4, <3>5
  <2>2. CASE i \notin 1..(n - 1)
    BY <1>2, <2>2, PointersIn
  <2> QED  BY <2>1, <2>2
<1>5. \A x \in R : \E c \in Boxes, i \in Nat : x = <<c, i>>
  BY PointersArePairs
<1>6. \A x \in P : \E c \in Boxes, i \in Nat : x = <<c, i>>
  BY PointersArePairs
<1>7. \A i \in Nat : <<b, i>> \in P => i \in 2..n /\ <<b, i - 1>> \in R
  <2> SUFFICES ASSUME NEW i \in Nat, <<b, i>> \in P
               PROVE  i \in 2..n /\ <<b, i - 1>> \in R
    OBVIOUS
  <2>1. i \in 1..n /\ i # 1
    BY <1>2, PointersIn
  <2>2. i - 1 \in 1..(n - 1) /\ (i - 1) + 1 = i
    BY <1>2, <2>1
  <2> QED  BY <1>4, <2>1, <2>2
<1>8. f \in Bijection(R, P)
  <2>1. ASSUME NEW c \in Boxes, NEW i \in Nat, <<c, i>> \in R
        PROVE  f[<<c, i>>] = IF c = b THEN <<b, i + 1>> ELSE <<c, i>>
    BY <2>1
  <2>2. \A x \in R : f[x] \in P
    BY <1>3, <1>4, <1>5, <2>1
  <2>3. \A x, y \in R : f[x] = f[y] => x = y
    <3> SUFFICES ASSUME NEW x \in R, NEW y \in R, f[x] = f[y]  PROVE x = y
      OBVIOUS
    <3>1. PICK c \in Boxes, i \in Nat : x = <<c, i>>
      BY <1>5
    <3>2. PICK d \in Boxes, k \in Nat : y = <<d, k>>
      BY <1>5
    <3>3. CASE c = b /\ d = b
      <4>1. i \in 1..(n - 1) /\ k \in 1..(n - 1)
        BY <1>4, <3>1, <3>2, <3>3
      <4>2. i + 1 = k + 1
        BY <2>1, <3>1, <3>2, <3>3
      <4> QED  BY <1>2, <3>1, <3>2, <3>3, <4>1, <4>2
    <3>4. CASE ~(c = b /\ d = b)
      BY <2>1, <3>1, <3>2, <3>4
    <3> QED  BY <3>3, <3>4
  <2>4. \A y \in P : \E x \in R : f[x] = y
    <3> SUFFICES ASSUME NEW y \in P  PROVE \E x \in R : f[x] = y
      OBVIOUS
    <3>1. PICK c \in Boxes, i \in Nat : y = <<c, i>>
      BY <1>6
    <3>2. CASE c # b
      BY <1>3, <2>1, <3>1, <3>2
    <3>3. CASE c = b
      <4>1. i \in 2..n /\ <<b, i - 1>> \in R
        BY <1>7, <3>1, <3>3
      <4>2. (i - 1) + 1 = i
        BY <1>2, <4>1
      <4>3. f[<<b, i - 1>>] = y
        BY <2>1, <3>1, <3>3, <4>1, <4>2
      <4> QED  BY <4>1, <4>3
    <3> QED  BY <3>2, <3>3
  <2> HIDE DEF R, P
  <2>5. f \in [R -> P]
    BY <2>2
  <2> HIDE DEF f
  <2> QED  BY <2>3, <2>4, <2>5 DEF Bijection, Injection, Surjection, IsInjective
<1>9. Cardinality(P) = Cardinality(R)
  BY <1>8, PointersFinite, FS_Bijection DEF ExistsBijection
<1>10. p \in Pointers(q, m) <=> b # m /\ MessageOf(m, Head(q[b]))
  BY <1>2, PointersIn
<1> HIDE DEF p, f
<1>11. Cardinality(P) = IF p \in Pointers(q, m) THEN Cardinality(Pointers(q, m)) - 1
                        ELSE Cardinality(Pointers(q, m))
  BY PointersFinite, FS_RemoveElement
<1> QED  BY <1>9, <1>10, <1>11, PointersFinite DEF One

-----------------------------------------------------------------------------
(* Types *)

\* Messages and notices are entries, told apart by their kind.
LEMMA EntryFacts ==
  /\ \A e \in Entries : e.from \in Boxes /\ (MessageOf(e.from, e) <=> IsMessage(e))
  /\ NoEntry \notin Entries
  /\ \A m \in Boxes, k \in Ids : Message(m, k) \in Entries /\ IsMessage(Message(m, k))
                               /\ Message(m, k).from = m
  /\ \A e \in Entries, ntype \in {"BOUNCE", "RRCPT"} :
       Notice(ntype, e) \in Entries /\ ~IsMessage(Notice(ntype, e))
       /\ Notice(ntype, e).from = e.from
BY NoBoxAssumption DEF Entries, NoEntry, Message, Notice, IsMessage, MessageOf

\* Each mailbox has an owner and a service thread, all of them different.
LEMMA ThreadFacts ==
  /\ \A m \in Boxes : Owner(m) \in Threads /\ Service(m) \in Threads
  /\ \A m, n \in Boxes : Owner(m) # Service(n)
  /\ \A m, n \in Boxes : (Owner(m) = Owner(n) \/ Service(m) = Service(n)) => m = n
  /\ NoThread \notin Threads
BY NoThreadAssumption DEF Threads, Owner, Service

\* The service thread that looks at the head finds one: the semaphore told it.
LEMMA HeadExists ==
  ASSUME TypeOK, Mutexes, ItemsCountEntries, NEW m \in Boxes, spc[m] \in {"unref", "pop"}
  PROVE  queue[m] # <<>> /\ Head(queue[m]) \in Entries
<1>1. live[m] /\ (\A t \in Threads : fin[t] # m) /\ ~defunct[m]
  BY DEF Mutexes, MutexAt, NotFin
<1>2. items[m] + One(spc[m] \in {"lock", "unref", "pop"}) + One(Unposted(m))
        = Len(queue[m]) + One(defunct[m])
  BY <1>1 DEF ItemsCountEntries
<1>3. One(spc[m] \in {"lock", "unref", "pop"}) = 1 /\ One(defunct[m]) = 0
  BY <1>1 DEF One
<1>4. One(Unposted(m)) \in Nat
  BY DEF One
<1>5. queue[m] \in Seq(Entries) /\ items[m] \in Nat
  BY DEF TypeOK
<1>6. Len(queue[m]) > 0
  BY <1>2, <1>3, <1>4, <1>5
<1> QED  BY <1>5, <1>6

-----------------------------------------------------------------------------
(* Every message whose reference is not there, or not there any more, is one *)
(* of those that Pointers counts.                                            *)

\* Mailboxes other than m whose service thread looks at a message of m.
Reading(m) ==
  {b \in Boxes \ {m} : spc[b] \in {"unref", "pop"} /\ MessageOf(m, Head(queue[b]))}

\* The sets that are counted are finite.
LEMMA SetsFinite ==
  ASSUME NEW m \in Boxes
  PROVE  /\ IsFiniteSet(Popping(m)) /\ Cardinality(Popping(m)) \in Nat
         /\ IsFiniteSet(Reading(m)) /\ Cardinality(Reading(m)) \in Nat
         /\ IsFiniteSet(Senders(m)) /\ Cardinality(Senders(m)) \in Nat
<1>1. Popping(m) \in SUBSET Boxes /\ Reading(m) \in SUBSET Boxes /\ Senders(m) \in SUBSET Boxes
  BY DEF Popping, Reading, Senders
<1> QED  BY <1>1, BoxesAssumption, FS_Subset, FS_CardinalityType

\* Service threads that read the head of their queue read different entries.
LEMMA Heads ==
  ASSUME TypeOK, Mutexes, ItemsCountEntries, NEW m \in Boxes
  PROVE  [b \in Reading(m) |-> <<b, 1>>] \in Injection(Reading(m), Pointers(queue, m))
<1> DEFINE f == [b \in Reading(m) |-> <<b, 1>>]
<1>1. queue \in Queues
  BY DEF TypeOK, Queues
<1>2. ASSUME NEW b \in Reading(m)  PROVE f[b] \in Pointers(queue, m)
  <2>1. b \in Boxes /\ b # m /\ spc[b] \in {"unref", "pop"} /\ MessageOf(m, Head(queue[b]))
    BY DEF Reading
  <2>2. queue[b] \in Seq(Entries) /\ queue[b] # <<>>
    BY <2>1, HeadExists DEF TypeOK
  <2>3. 1 \in DOMAIN queue[b] /\ queue[b][1] = Head(queue[b])
    BY <2>2
  <2> QED  BY <1>1, <2>1, <2>3, PointersIn
<1>3. \A b, c \in Reading(m) : f[b] = f[c] => b = c
  OBVIOUS
<1> QED  BY <1>2, <1>3 DEF Injection, IsInjective

\* The references that senders and readers hold are those of entries in queues.
LEMMA Borrowed ==
  ASSUME TypeOK, Control, Mutexes, ItemsCountEntries, NEW m \in Boxes
  PROVE  One(opc[m] = "ref" /\ dest[m] # m) + Cardinality(Reading(m))
           <= Cardinality(Pointers(queue, m))
<1> DEFINE P == Pointers(queue, m)
           f == [b \in Reading(m) |-> <<b, 1>>]
<1>1. queue \in Queues
  BY DEF TypeOK, Queues
<1>2. IsFiniteSet(P) /\ Cardinality(P) \in Nat
  BY <1>1, PointersFinite
<1>3. CASE ~(opc[m] = "ref" /\ dest[m] # m)
  <2>1. Cardinality(Reading(m)) <= Cardinality(P)
    BY <1>2, Heads, FS_Injection
  <2> QED  BY <1>2, <1>3, <2>1, SetsFinite DEF One
<1>4. CASE opc[m] = "ref" /\ dest[m] # m
  <2> DEFINE d == dest[m]
             p == <<d, Len(queue[d])>>
  <2>0. d \in Boxes
    BY <1>4 DEF Control, ControlAt, TypeOK
  <2>1. /\ mutex[d] = Owner(m) /\ queue[d] # <<>>
        /\ MessageOf(m, queue[d][Len(queue[d])])
    BY <1>4 DEF Mutexes, MutexAt
  <2>2. queue[d] \in Seq(Entries)
    BY <2>0 DEF TypeOK
  <2>3. Len(queue[d]) \in DOMAIN queue[d] /\ Len(queue[d]) \in Nat
    BY <2>1, <2>2
  <2>4. p \in P
    BY <1>1, <1>4, <2>0, <2>1, <2>3, PointersIn
  <2>5. d \notin Reading(m)
    BY <2>0, <2>1, ThreadFacts DEF Mutexes, MutexAt, Reading
  <2> HIDE DEF P
  <2>6. f \in Injection(Reading(m), P \ {p})
    <3>1. f \in Injection(Reading(m), P)
      BY Heads DEF P
    <3>2. \A b \in Reading(m) : f[b] # p
      BY <2>5
    <3> QED  BY <3>1, <3>2 DEF Injection, IsInjective
  <2> HIDE DEF p, f
  <2>7. Cardinality(Reading(m)) <= Cardinality(P \ {p}) /\ IsFiniteSet(P \ {p})
    BY <1>2, <2>6, FS_Injection, FS_RemoveElement
  <2>8. Cardinality(P \ {p}) = Cardinality(P) - 1
    BY <1>2, <2>4, FS_RemoveElement
  <2>9. One(opc[m] = "ref" /\ dest[m] # m) = 1
    BY <1>4 DEF One
  <2> QED  BY <1>2, <2>7, <2>8, <2>9, SetsFinite DEF P
<1> QED  BY <1>3, <1>4

\* No thread drops a reference that is not there: referenceCount is positive
\* whenever mb_unref is called.
LEMMA RefsPositive ==
  ASSUME TypeOK, Control, Mutexes, ItemsCountEntries, RefsCountPointers, NEW m \in Boxes,
         \/ opc[m] \in {"idle", "add", "ref", "drop", "unref"}
         \/ spc[m] \notin {"none", "created", "done"}
         \/ \E b \in Boxes : dest[b] = m
         \/ \E b \in Boxes \ {m} : spc[b] = "unref" /\ MessageOf(m, Head(queue[b]))
  PROVE  refs[m] >= 1
<1> DEFINE O == One(opc[m] \notin {"start", "out"})
           S == One(spc[m] \notin {"none", "created", "done"})
           R == One(opc[m] = "ref" /\ dest[m] # m)
<1>1. refs[m] + R + Cardinality(Popping(m))
        = O + S + Cardinality(Senders(m)) + Cardinality(Pointers(queue, m)) + leaked[m]
  BY DEF RefsCountPointers
<1>2. R + Cardinality(Reading(m)) <= Cardinality(Pointers(queue, m))
  BY Borrowed
<1>3. O \in Nat /\ S \in Nat /\ R \in Nat /\ leaked[m] \in Nat /\ refs[m] \in Nat
  BY DEF One, TypeOK
<1>4. /\ Popping(m) \in SUBSET Reading(m)
      /\ Cardinality(Popping(m)) <= Cardinality(Reading(m))
      /\ Cardinality(Popping(m)) = Cardinality(Reading(m)) => Popping(m) = Reading(m)
  <2>1. Popping(m) \in SUBSET Reading(m)
    BY DEF Popping, Reading
  <2> QED  BY <2>1, SetsFinite, FS_Subset
<1>5. Cardinality(Pointers(queue, m)) \in Nat
  BY PointersFinite DEF TypeOK, Queues
<1>6. O >= 1 \/ S >= 1 \/ Cardinality(Senders(m)) >= 1
      \/ Cardinality(Popping(m)) < Cardinality(Reading(m))
  <2>1. CASE opc[m] \in {"idle", "add", "ref", "drop", "unref"}
    BY <2>1 DEF One
  <2>2. CASE spc[m] \notin {"none", "created", "done"}
    BY <2>2 DEF One
  <2>3. CASE \E b \in Boxes : dest[b] = m
    <3>1. Senders(m) # {}
      BY <2>3 DEF Senders
    <3> QED  BY <3>1, SetsFinite, FS_EmptySet
  <2>4. CASE \E b \in Boxes \ {m} : spc[b] = "unref" /\ MessageOf(m, Head(queue[b]))
    <3>1. Popping(m) # Reading(m)
      BY <2>4 DEF Popping, Reading
    <3> QED  BY <1>4, <3>1, SetsFinite
  <2> QED  BY <2>1, <2>2, <2>3, <2>4
<1> HIDE DEF O, S, R
<1> QED  BY <1>1, <1>2, <1>3, <1>4, <1>5, <1>6, SetsFinite

-----------------------------------------------------------------------------
(* Type correctness of a step *)

\* What the control state says of the variables that a step uses.
LEMMA Controlled ==
  ASSUME TypeOK, Control, NEW m \in Boxes
  PROVE  /\ opc[m] \in {"add", "ref", "drop"} => dest[m] \in Boxes
         /\ opc[m] = "add" => sent[m] + 1 \in Ids
         /\ spc[m] = "send" => cur[m] \in Entries
BY MaxMsgsAssumption DEF Control, ControlAt, TypeOK, Ids

\* mb_ref leaves counts.
LEMMA RefType ==
  ASSUME TypeOK, NEW m \in Boxes, Ref(m)
  PROVE  refs' \in [Boxes -> Nat]
BY DEF TypeOK, Ref

\* mb_unref, when the count is positive.
LEMMA UnrefType ==
  ASSUME TypeOK, NEW t \in Threads, NEW m \in Boxes, refs[m] >= 1, Unref(t, m)
  PROVE  /\ refs' \in [Boxes -> Nat]
         /\ mutex' \in [Boxes -> Threads \cup {NoThread}]
         /\ fin' \in [Threads -> Boxes \cup {NoBox}]
<1>1. refs' \in [Boxes -> Nat]
  BY DEF TypeOK, Unref, Dropped
<1>2. mutex' \in [Boxes -> Threads \cup {NoThread}] /\ fin' \in [Threads -> Boxes \cup {NoBox}]
  <2>1. CASE refs[m] # 1
    BY <2>1 DEF TypeOK, Unref
  <2>2. CASE refs[m] = 1
    <3>1. mutex' = [mutex EXCEPT ![m] = t] /\ fin' = [fin EXCEPT ![t] = m]
      BY <2>2 DEF Unref
    <3> QED  BY <3>1 DEF TypeOK
  <2> QED  BY <2>1, <2>2
<1> QED  BY <1>1, <1>2

\* mb_add_notice.
LEMMA NoticeType ==
  ASSUME NEW q \in Queues, items \in [Boxes -> Nat], NEW e \in Entries,
         NEW ntype \in {"RRCPT", "BOUNCE"}, AddNotice(q, ntype, e)
  PROVE  queue' \in Queues /\ items' \in [Boxes -> Nat]
<1> DEFINE x == Notice(ntype, e)
           b == e.from
<1>1. x \in Entries /\ b \in Boxes
  BY EntryFacts
<1>2. queue' = [q EXCEPT ![b] = Append(@, x)] /\ items' = [items EXCEPT ![b] = @ + 1]
  BY DEF AddNotice, Linked
<1> HIDE DEF x, b
<1> QED  BY <1>1, <1>2 DEF Queues

\* Every step keeps the types.
LEMMA TypeStep ==
  ASSUME TypeOK, Control, Mutexes, ItemsCountEntries, RefsCountPointers, [Next]_vars
  PROVE  TypeOK'
<1> USE DEF OwnerPC, ServicePC
<1>1. ASSUME NEW m \in Boxes, MbInit(m)  PROVE TypeOK'
  BY <1>1 DEF TypeOK, MbInit, ownvars
<1>2. ASSUME NEW m \in Boxes, GetRecipient(m)  PROVE TypeOK'
  <2>1. PICK to \in Boxes : Ref(to) /\ dest' = [dest EXCEPT ![m] = to]
    BY <1>2 DEF GetRecipient
  <2>2. /\ opc' = [opc EXCEPT ![m] = "add"]
        /\ UNCHANGED <<queue, items, mutex, defunct, hook, live, attached, sent,
                       spc, cur, taken, fin, leaked>>
    BY <1>2 DEF GetRecipient, svcvars
  <2>3. refs' \in [Boxes -> Nat] /\ dest' \in [Boxes -> Boxes \cup {NoBox}]
    BY <2>1 DEF TypeOK, Ref
  <2>4. opc' \in [Boxes -> OwnerPC]
    BY <2>2 DEF TypeOK
  <2> QED  BY <2>2, <2>3, <2>4 DEF TypeOK
<1>3. ASSUME NEW m \in Boxes, AddMessage(m)  PROVE TypeOK'
  <2>1. dest[m] \in Boxes
    BY <1>3, Controlled DEF AddMessage, OwnerAt
  <2>2. sent[m] + 1 \in Ids /\ Message(m, sent[m] + 1) \in Entries
    BY <1>3, Controlled, EntryFacts DEF AddMessage, OwnerAt, TypeOK, Ids
  <2> DEFINE e == Message(m, sent[m] + 1)
  <2> HIDE DEF e
  <2>3. queue' = [queue EXCEPT ![dest[m]] = Append(@, e)]
    BY <1>3 DEF AddMessage, Linked, e
  <2>4. sent' \in [Boxes -> 0..MaxMsgs]
    BY <1>3, <2>2, MaxMsgsAssumption DEF TypeOK, AddMessage, Ids
  <2>5. queue' \in [Boxes -> Seq(Entries)]
    BY <2>1, <2>2, <2>3 DEF TypeOK, e
  <2> QED  BY <1>3, <2>4, <2>5, ThreadFacts DEF TypeOK, AddMessage, svcvars
<1>4. ASSUME NEW m \in Boxes, AddMessageEnd(m)  PROVE TypeOK'
  <2>1. refs' \in [Boxes -> Nat]
    <3>1. Ref(m) \/ UNCHANGED refs
      BY <1>4 DEF AddMessageEnd, SenderRef
    <3> QED  BY <3>1, RefType DEF TypeOK
  <2>0. dest[m] \in Boxes
    BY <1>4, Controlled DEF AddMessageEnd, OwnerAt
  <2>2. items' \in [Boxes -> Nat] /\ mutex' \in [Boxes -> Threads \cup {NoThread}]
    BY <1>4, <2>0 DEF TypeOK, AddMessageEnd
  <2> QED  BY <1>4, <2>1, <2>2 DEF TypeOK, AddMessageEnd, svcvars
<1>5. ASSUME NEW m \in Boxes, DropRecipient(m)  PROVE TypeOK'
  <2>1. dest[m] \in Boxes
    BY <1>5 DEF DropRecipient, OwnerAt, Control, ControlAt
  <2>2. refs[dest[m]] >= 1
    BY <2>1, RefsPositive
  <2> QED  BY <1>5, <2>1, <2>2, UnrefType, ThreadFacts
           DEF TypeOK, DropRecipient, svcvars
<1>6. ASSUME NEW m \in Boxes, MbShutdown(m)  PROVE TypeOK'
  BY <1>6 DEF TypeOK, MbShutdown, svcvars, Wakeup
<1>7. ASSUME NEW m \in Boxes, LogoutUnref(m)  PROVE TypeOK'
  <2>1. refs[m] >= 1
    BY <1>7, RefsPositive DEF LogoutUnref, OwnerAt
  <2> QED  BY <1>7, <2>1, UnrefType, ThreadFacts DEF TypeOK, LogoutUnref, svcvars
<1>8. ASSUME NEW m \in Boxes, ServiceStart(m)  PROVE TypeOK'
  <2>1. refs' \in [Boxes -> Nat]
    <3>1. Ref(m) \/ UNCHANGED refs
      BY <1>8 DEF ServiceStart
    <3> QED  BY <3>1, RefType DEF TypeOK
  <2>2. spc' \in [Boxes -> ServicePC]
    BY <1>8 DEF TypeOK, ServiceStart
  <2> QED  BY <1>8, <2>1, <2>2 DEF TypeOK, ServiceStart, ownvars
<1>9. ASSUME NEW m \in Boxes, MbSetDiscardHook(m)  PROVE TypeOK'
  BY <1>9 DEF TypeOK, MbSetDiscardHook, ownvars
<1>10. ASSUME NEW m \in Boxes, WaitItem(m)  PROVE TypeOK'
  BY <1>10 DEF TypeOK, WaitItem, ownvars
<1>11. ASSUME NEW m \in Boxes, NextIsNull(m)  PROVE TypeOK'
  BY <1>11 DEF TypeOK, NextIsNull, ownvars, boxvars
<1>12. ASSUME NEW m \in Boxes, LockHead(m)  PROVE TypeOK'
  BY <1>12, ThreadFacts DEF TypeOK, LockHead, ownvars
<1>13. ASSUME NEW m \in Boxes, UnrefSender(m)  PROVE TypeOK'
  <2> DEFINE e == Head(queue[m])
  <2>1. e \in Entries
    BY <1>13, HeadExists DEF UnrefSender, ServiceAt
  <2>2. CASE IsMessage(e) /\ e.from # m
    <3>1. e.from \in Boxes /\ MessageOf(e.from, e) /\ spc[m] = "unref"
      BY <1>13, <2>1, <2>2, EntryFacts DEF UnrefSender, ServiceAt
    <3>2. refs[e.from] >= 1
      BY <2>2, <3>1, RefsPositive
    <3>3. Unref(Service(m), e.from)
      BY <1>13, <2>2 DEF UnrefSender
    <3> HIDE DEF e
    <3> QED  BY <1>13, <3>1, <3>2, <3>3, UnrefType, ThreadFacts
             DEF TypeOK, UnrefSender, ownvars
  <2>3. CASE ~(IsMessage(e) /\ e.from # m)
    BY <1>13, <2>3 DEF TypeOK, UnrefSender, ownvars
  <2> QED  BY <2>2, <2>3
<1>14. ASSUME NEW m \in Boxes, PopHead(m)  PROVE TypeOK'
  <2>1. Head(queue[m]) \in Entries /\ queue[m] # <<>>
    BY <1>14, HeadExists DEF PopHead, ServiceAt
  <2> QED  BY <1>14, <2>1 DEF TypeOK, PopHead, ownvars, Unlinked
<1>15. ASSUME NEW m \in Boxes, SendMessage(m)  PROVE TypeOK'
  <2>1. cur[m] \in Entries
    BY <1>15, Controlled DEF SendMessage, ServiceAt
  <2>2. PICK ntype \in {"RRCPT", "BOUNCE"} : AddNotice(queue, ntype, cur[m])
    BY <1>15 DEF SendMessage
  <2>3. queue' \in [Boxes -> Seq(Entries)] /\ items' \in [Boxes -> Nat]
    BY <2>1, <2>2, NoticeType DEF TypeOK, Queues
  <2> QED  BY <1>15, <2>3 DEF TypeOK, SendMessage, ownvars
<1>16. ASSUME NEW m \in Boxes, SendNotice(m)  PROVE TypeOK'
  BY <1>16 DEF TypeOK, SendNotice, ownvars, boxvars
<1>17. ASSUME NEW m \in Boxes, ServiceEnd(m)  PROVE TypeOK'
  <2>1. refs[m] >= 1
    BY <1>17, RefsPositive DEF ServiceEnd, ServiceAt
  <2> QED  BY <1>17, <2>1, UnrefType, ThreadFacts DEF TypeOK, ServiceEnd, ownvars
<1>18. ASSUME NEW t \in Threads, DiscardHead(t)  PROVE TypeOK'
  <2> DEFINE m == fin[t]
             e == Head(queue[m])
             q == [queue EXCEPT ![m] = Tail(@)]
  <2>1. m \in Boxes /\ queue[m] \in Seq(Entries) /\ queue[m] # <<>> /\ e \in Entries
    BY <1>18 DEF DiscardHead, TypeOK
  <2>2. q \in [Boxes -> Seq(Entries)]
    BY <2>1 DEF TypeOK
  <2>3. e.from \in Boxes
    BY <2>1, EntryFacts
  <2>4. queue' \in [Boxes -> Seq(Entries)] /\ items' \in [Boxes -> Nat]
    <3>1. CASE IsMessage(e) /\ hook[m]
      <4>1. AddNotice(q, "BOUNCE", e)
        BY <1>18, <3>1 DEF DiscardHead, Bounce
      <4> HIDE DEF q, e
      <4> QED  BY <2>1, <2>2, <4>1, NoticeType DEF TypeOK, Queues
    <3>2. CASE ~(IsMessage(e) /\ hook[m])
      <4>1. queue' = q /\ items' = items
        BY <1>18, <3>2 DEF DiscardHead
      <4> QED  BY <2>2, <4>1 DEF TypeOK
    <3> QED  BY <3>1, <3>2
  <2>5. leaked' \in [Boxes -> Nat]
    <3>1. leaked' = leaked \/ leaked' = [leaked EXCEPT ![e.from] = @ + 1]
      BY <1>18 DEF DiscardHead
    <3> HIDE DEF e
    <3>2. CASE leaked' = [leaked EXCEPT ![e.from] = @ + 1]
      BY <2>3, <3>2 DEF TypeOK
    <3> QED  BY <3>1, <3>2 DEF TypeOK
  <2> QED  BY <1>18, <2>4, <2>5 DEF TypeOK, DiscardHead, ownvars, svcvars
<1>19. ASSUME NEW t \in Threads, Free(t)  PROVE TypeOK'
  BY <1>19 DEF TypeOK, Free, ownvars, svcvars
<1>20. CASE UNCHANGED vars
  BY <1>20 DEF TypeOK, vars, boxvars, ownvars, svcvars
<1> QED
  BY <1>1, <1>2, <1>3, <1>4, <1>5, <1>6, <1>7, <1>8, <1>9, <1>10, <1>11, <1>12, <1>13, <1>14, <1>15, <1>16, <1>17, <1>18, <1>19, <1>20
     DEF Next, OwnerStep, ServiceStep, FinalizeStep

-----------------------------------------------------------------------------
(* The effect of mb_unref and of mb_add_notice on each mailbox and thread *)

\* mb_unref drops one reference, and the last one locks the mailbox to finalize it.
LEMMA UnrefEffect ==
  ASSUME TypeOK, NEW t \in Threads, NEW m \in Boxes, Unref(t, m)
  PROVE  /\ mutex[m] = NoThread
         /\ refs'[m] = refs[m] - 1
         /\ \A n \in Boxes : n # m => refs'[n] = refs[n] /\ mutex'[n] = mutex[n]
         /\ \A u \in Threads : u # t => fin'[u] = fin[u]
         /\ refs[m] # 1 => mutex' = mutex /\ fin' = fin
         /\ refs[m] = 1 => mutex'[m] = t /\ fin'[t] = m
<1>1. mutex[m] = NoThread /\ refs' = [refs EXCEPT ![m] = @ - 1]
  BY DEF Unref, Unlocked, Dropped
<1>2. CASE refs[m] # 1
  <2>1. mutex' = mutex /\ fin' = fin
    BY <1>2 DEF Unref
  <2> QED  BY <1>1, <1>2, <2>1 DEF TypeOK
<1>3. CASE refs[m] = 1
  <2>1. mutex' = [mutex EXCEPT ![m] = t] /\ fin' = [fin EXCEPT ![t] = m]
    BY <1>3 DEF Unref
  <2> QED  BY <1>1, <1>3, <2>1 DEF TypeOK
<1> QED  BY <1>2, <1>3

\* mb_add_notice appends one entry to the queue of the sender.
LEMMA NoticeEffect ==
  ASSUME NEW q \in Queues, items \in [Boxes -> Nat], NEW e \in Entries,
         NEW ntype \in {"RRCPT", "BOUNCE"}, AddNotice(q, ntype, e)
  PROVE  /\ mutex[e.from] = NoThread
         /\ \A n \in Boxes : n # e.from => queue'[n] = q[n] /\ items'[n] = items[n]
         /\ queue'[e.from] = Append(q[e.from], Notice(ntype, e))
         /\ items'[e.from] = items[e.from] + 1
<1> DEFINE x == Notice(ntype, e)
           b == e.from
<1>1. x \in Entries /\ b \in Boxes
  BY EntryFacts
<1>2. queue' = [q EXCEPT ![b] = Append(@, x)] /\ items' = [items EXCEPT ![b] = @ + 1]
      /\ mutex[b] = NoThread
  BY DEF AddNotice, Linked, Unlocked
<1> HIDE DEF x, b
<1>3. /\ mutex[b] = NoThread
      /\ \A n \in Boxes : n # b => queue'[n] = q[n] /\ items'[n] = items[n]
      /\ queue'[b] = Append(q[b], x)
      /\ items'[b] = items[b] + 1
  BY <1>1, <1>2 DEF Queues
<1> QED  BY <1>3 DEF x, b

\* Whose entries a queue has, after one is appended and after the first is removed.
LEMMA FromsFacts ==
  ASSUME NEW s \in Seq(Entries)
  PROVE  /\ \A e \in Entries : Froms(Append(s, e)) = Froms(s) \cup {e.from}
         /\ s # <<>> => Froms(Tail(s)) \subseteq Froms(s) /\ Head(s).from \in Froms(s)
<1>1. ASSUME NEW e \in Entries  PROVE Froms(Append(s, e)) = Froms(s) \cup {e.from}
  <2>1. /\ DOMAIN Append(s, e) = DOMAIN s \cup {Len(s) + 1}
        /\ \A i \in DOMAIN s : Append(s, e)[i] = s[i]
        /\ Append(s, e)[Len(s) + 1] = e
    OBVIOUS
  <2> DEFINE r == Append(s, e)
             k == Len(s) + 1
  <2> HIDE DEF r, k
  <2>2. DOMAIN r = DOMAIN s \cup {k} /\ (\A i \in DOMAIN s : r[i] = s[i]) /\ r[k] = e
    BY <2>1 DEF r, k
  <2>3. Froms(r) = Froms(s) \cup {e.from}
    BY <2>2 DEF Froms
  <2> QED  BY <2>3 DEF r
<1>2. ASSUME s # <<>>  PROVE Froms(Tail(s)) \subseteq Froms(s) /\ Head(s).from \in Froms(s)
  <2>1. /\ \A i \in DOMAIN Tail(s) : i + 1 \in DOMAIN s /\ Tail(s)[i] = s[i + 1]
        /\ 1 \in DOMAIN s /\ Head(s) = s[1]
    BY <1>2
  <2> DEFINE r == Tail(s)
             h == Head(s)
  <2> HIDE DEF r, h
  <2>2. Froms(r) \subseteq Froms(s) /\ h.from \in Froms(s)
    <3>1. (\A i \in DOMAIN r : i + 1 \in DOMAIN s /\ r[i] = s[i + 1]) /\ 1 \in DOMAIN s /\ h = s[1]
      BY <2>1 DEF r, h
    <3> QED  BY <3>1 DEF Froms
  <2> QED  BY <2>2 DEF r, h
<1> QED  BY <1>1, <1>2

\* The mailbox an entry at the head of a queue comes from has been made.
LEMMA HeadStarted ==
  ASSUME TypeOK, Started, NEW m \in Boxes, queue[m] # <<>>
  PROVE  Head(queue[m]).from \in Boxes /\ opc[Head(queue[m]).from] # "start"
<1>1. queue[m] \in Seq(Entries) /\ Head(queue[m]) \in Entries
  BY DEF TypeOK
<1>2. Head(queue[m]).from \in Froms(queue[m])
  BY <1>1, FromsFacts
<1> QED  BY <1>1, <1>2, EntryFacts DEF Started, StartedAt

-----------------------------------------------------------------------------
(* Control is preserved *)

\* Every step keeps Control.
LEMMA ControlStep ==
  ASSUME TypeOK, Control, Started, Mutexes, ItemsCountEntries, TypeOK', [Next]_vars
  PROVE  Control'
<1> SUFFICES ASSUME NEW n \in Boxes  PROVE ControlAt(n)'
  BY DEF Control
<1> USE DEF ControlAt, NotFin
<1>1. ASSUME NEW m \in Boxes, MbInit(m)  PROVE ControlAt(n)'
  BY <1>1 DEF TypeOK, Control, MbInit, OwnerAt, boxvars, ownvars, svcvars
<1>2. ASSUME NEW m \in Boxes, GetRecipient(m)  PROVE ControlAt(n)'
  <2>1. PICK to \in Boxes : attached[to] /\ Ref(to) /\ dest' = [dest EXCEPT ![m] = to]
    BY <1>2 DEF GetRecipient
  <2>2. opc[to] # "start"
    BY <2>1 DEF Control
  <2>3. refs' = [refs EXCEPT ![to] = @ + 1]
    BY <2>1 DEF Ref
  <2>4. /\ opc[m] = "idle" /\ opc' = [opc EXCEPT ![m] = "add"] /\ sent[m] < MaxMsgs
        /\ UNCHANGED <<queue, items, mutex, defunct, live, attached, sent, spc, cur, fin>>
    BY <1>2 DEF GetRecipient, OwnerAt, svcvars
  <2>5. CASE n = m
    BY SMTT(30), <2>1, <2>2, <2>3, <2>4, <2>5 DEF TypeOK, Control
  <2>6. CASE n # m
    <3>1. /\ opc'[n] = opc[n] /\ dest'[n] = dest[n]
          /\ n # to => refs'[n] = refs[n]
      BY <2>1, <2>3, <2>4, <2>6 DEF TypeOK
    <3> QED  BY <2>2, <2>4, <3>1 DEF Control
  <2> QED  BY <2>5, <2>6
<1>3. ASSUME NEW m \in Boxes, AddMessage(m)  PROVE ControlAt(n)'
  <2>1. dest[m] \in Boxes /\ opc[dest[m]] # "start"
    BY <1>3, Controlled DEF AddMessage, OwnerAt, Started, StartedAt
  <2>2. \A b \in Boxes : b # dest[m] => queue'[b] = queue[b] /\ mutex'[b] = mutex[b]
    BY <1>3, <2>1 DEF TypeOK, AddMessage
  <2>3. opc' = [opc EXCEPT ![m] = "ref"] /\ opc[m] = "add" /\ sent' = [sent EXCEPT ![m] = @ + 1]
    BY <1>3 DEF AddMessage, OwnerAt
  <2>4. UNCHANGED <<items, refs, defunct, hook, live, attached, dest, spc, cur, fin>>
    BY <1>3 DEF AddMessage, svcvars
  <2>5. CASE n = m
    BY SMTT(30), <2>1, <2>2, <2>3, <2>4, <2>5 DEF TypeOK, Control
  <2>6. CASE n # m
    <3>1. opc'[n] = opc[n] /\ sent'[n] = sent[n]
      BY <2>3, <2>6 DEF TypeOK
    <3> QED  BY <2>1, <2>2, <2>4, <3>1 DEF Control
  <2> QED  BY <2>5, <2>6
<1>4. ASSUME NEW m \in Boxes, AddMessageEnd(m)  PROVE ControlAt(n)'
  <2>1. dest[m] \in Boxes /\ opc[dest[m]] # "start"
    BY <1>4, Controlled DEF AddMessageEnd, OwnerAt, Started, StartedAt
  <2>2. /\ \A b \in Boxes : b # dest[m] => items'[b] = items[b] /\ mutex'[b] = mutex[b]
        /\ \A b \in Boxes : b # m => refs'[b] = refs[b]
    BY <1>4, <2>1 DEF TypeOK, AddMessageEnd, SenderRef, Ref
  <2>3. opc' = [opc EXCEPT ![m] = "drop"] /\ opc[m] = "ref"
    BY <1>4 DEF AddMessageEnd, OwnerAt
  <2>4. UNCHANGED <<queue, defunct, live, attached, dest, sent, spc, cur, fin>>
    BY <1>4 DEF AddMessageEnd, svcvars
  <2>5. CASE n = m
    BY SMTT(30), <2>1, <2>2, <2>3, <2>4, <2>5 DEF TypeOK, Control
  <2>6. CASE n # m
    <3>1. /\ opc'[n] = opc[n] /\ refs'[n] = refs[n]
          /\ n # dest[m] => items'[n] = items[n] /\ mutex'[n] = mutex[n]
      BY <2>2, <2>3, <2>6 DEF TypeOK
    <3> QED  BY <2>1, <2>4, <3>1 DEF Control
  <2> QED  BY <2>5, <2>6
<1>5. ASSUME NEW m \in Boxes, DropRecipient(m)  PROVE ControlAt(n)'
  <2>1. dest[m] \in Boxes /\ opc[dest[m]] # "start" /\ Unref(Owner(m), dest[m])
    BY <1>5, Controlled DEF DropRecipient, OwnerAt, Started, StartedAt
  <2>2. \A b \in Boxes : b # dest[m] =>
          refs'[b] = refs[b] /\ mutex'[b] = mutex[b] /\ (NotFin(b) => NotFin(b)')
    BY <2>1, UnrefEffect, ThreadFacts
  <2>3. /\ opc[m] = "drop" /\ opc' = [opc EXCEPT ![m] = "idle"]
        /\ dest' = [dest EXCEPT ![m] = NoBox]
        /\ UNCHANGED <<queue, items, defunct, live, attached, sent, spc, cur>>
    BY <1>5 DEF DropRecipient, OwnerAt, svcvars
  <2>4. CASE n = m
    BY SMTT(30), <2>1, <2>2, <2>3, <2>4, NoBoxAssumption DEF TypeOK, Control
  <2>5. CASE n # m
    <3>1. /\ opc'[n] = opc[n] /\ dest'[n] = dest[n] /\ spc'[n] = spc[n] /\ live'[n] = live[n]
          /\ attached'[n] = attached[n] /\ defunct'[n] = defunct[n] /\ items'[n] = items[n]
          /\ queue'[n] = queue[n] /\ sent'[n] = sent[n] /\ cur'[n] = cur[n]
      BY <2>3, <2>5 DEF TypeOK
    <3>2. opc[n] = "start" =>
            refs'[n] = refs[n] /\ mutex'[n] = mutex[n] /\ (NotFin(n) => NotFin(n)')
      BY <2>1, <2>2
    <3> QED  BY <3>1, <3>2 DEF Control
  <2> QED  BY <2>4, <2>5
<1>6. ASSUME NEW m \in Boxes, MbShutdown(m)  PROVE ControlAt(n)'
  BY <1>6 DEF TypeOK, Control, MbShutdown, OwnerAt, boxvars, ownvars, svcvars, Wakeup
<1>7. ASSUME NEW m \in Boxes, LogoutUnref(m)  PROVE ControlAt(n)'
  <2>1. opc[m] # "start" /\ Unref(Owner(m), m)
    BY <1>7 DEF LogoutUnref, OwnerAt
  <2>2. \A b \in Boxes : b # m =>
          refs'[b] = refs[b] /\ mutex'[b] = mutex[b] /\ (NotFin(b) => NotFin(b)')
    BY <2>1, UnrefEffect, ThreadFacts
  <2> QED  BY ZenonT(60), <1>7, <2>1, <2>2 DEF TypeOK, Control, LogoutUnref, OwnerAt, svcvars
<1>8. ASSUME NEW m \in Boxes, ServiceStart(m)  PROVE ControlAt(n)'
  <2>1. opc[m] # "start" /\ spc[m] = "created"
    BY <1>8 DEF ServiceStart, ServiceAt, Control
  <2>2. /\ \A b \in Boxes : b # m => refs'[b] = refs[b] /\ spc'[b] = spc[b]
        /\ spc'[m] \in {"hook", "done"}
    BY <1>8 DEF ServiceStart, TypeOK, Ref
  <2> QED  BY <1>8, <2>1, <2>2 DEF TypeOK, Control, ServiceStart, ownvars
<1>9. ASSUME NEW m \in Boxes, MbSetDiscardHook(m)  PROVE ControlAt(n)'
  BY <1>9 DEF TypeOK, Control, MbSetDiscardHook, ServiceAt, boxvars, ownvars, svcvars
<1>10. ASSUME NEW m \in Boxes, WaitItem(m)  PROVE ControlAt(n)'
  BY <1>10 DEF TypeOK, Control, WaitItem, ServiceAt, boxvars, ownvars, svcvars
<1>11. ASSUME NEW m \in Boxes, NextIsNull(m)  PROVE ControlAt(n)'
  BY <1>11 DEF TypeOK, Control, NextIsNull, ServiceAt, boxvars, ownvars, svcvars
<1>12. ASSUME NEW m \in Boxes, LockHead(m)  PROVE ControlAt(n)'
  BY <1>12 DEF TypeOK, Control, LockHead, ServiceAt, boxvars, ownvars, svcvars
<1>13. ASSUME NEW m \in Boxes, UnrefSender(m)  PROVE ControlAt(n)'
  <2> DEFINE e == Head(queue[m])
  <2>1. e.from \in Boxes /\ opc[e.from] # "start"
    BY <1>13, HeadExists, HeadStarted DEF UnrefSender, ServiceAt
  <2>2. opc[m] # "start" /\ spc[m] = "unref"
    BY <1>13 DEF UnrefSender, ServiceAt, Control
  <2>3. ASSUME NEW b \in Boxes, opc[b] = "start"
        PROVE  refs'[b] = refs[b] /\ mutex'[b] = mutex[b] /\ (NotFin(b) => NotFin(b)')
    <3>1. CASE Unref(Service(m), e.from)
      BY <2>1, <2>3, <3>1, UnrefEffect, ThreadFacts
    <3>2. CASE UNCHANGED <<mutex, refs, fin>>
      BY <3>2
    <3> QED  BY <1>13, <3>1, <3>2 DEF UnrefSender
  <2> QED  BY ZenonT(60), <1>13, <2>2, <2>3 DEF TypeOK, Control, UnrefSender, ownvars
<1>14. ASSUME NEW m \in Boxes, PopHead(m)  PROVE ControlAt(n)'
  <2>1. opc[m] # "start" /\ spc[m] = "pop"
    BY <1>14 DEF PopHead, ServiceAt, Control
  <2>2. Head(queue[m]) \in Entries
    BY <2>1, HeadExists
  <2>3. \A b \in Boxes : b # m => queue'[b] = queue[b] /\ cur'[b] = cur[b]
    BY <1>14 DEF PopHead, TypeOK
  <2>4. cur'[m] \in Entries
    BY <1>14, <2>2 DEF PopHead, TypeOK
  <2> QED  BY SMTT(30), <1>14, <2>1, <2>3, <2>4 DEF TypeOK, Control, PopHead, ownvars
<1>15. ASSUME NEW m \in Boxes, SendMessage(m)  PROVE ControlAt(n)'
  <2>1. opc[m] # "start" /\ spc[m] = "send" /\ cur[m] \in Entries
    BY <1>15, Controlled DEF SendMessage, ServiceAt, Control
  <2>2. opc[cur[m].from] # "start"
    BY <2>1 DEF Started, StartedAt
  <2>3. PICK ntype \in {"RRCPT", "BOUNCE"} : AddNotice(queue, ntype, cur[m])
    BY <1>15 DEF SendMessage
  <2>4. \A b \in Boxes : b # cur[m].from => queue'[b] = queue[b] /\ items'[b] = items[b]
    BY <2>1, <2>3, NoticeEffect DEF TypeOK, Queues
  <2>5. /\ spc' = [spc EXCEPT ![m] = "wait"] /\ cur' = [cur EXCEPT ![m] = NoEntry]
        /\ UNCHANGED <<mutex, refs, defunct, live, attached, opc, dest, sent, fin>>
    BY <1>15 DEF SendMessage, ownvars
  <2>6. CASE n = m
    BY SMTT(30), <2>1, <2>2, <2>4, <2>5, <2>6, EntryFacts DEF TypeOK, Control
  <2>7. CASE n # m
    <3>1. /\ spc'[n] = spc[n] /\ cur'[n] = cur[n]
          /\ n # cur[m].from => queue'[n] = queue[n] /\ items'[n] = items[n]
      BY <2>4, <2>5, <2>7 DEF TypeOK
    <3> QED  BY <2>2, <2>5, <3>1 DEF Control
  <2> QED  BY <2>6, <2>7
<1>16. ASSUME NEW m \in Boxes, SendNotice(m)  PROVE ControlAt(n)'
  <2>1. opc[m] # "start" /\ spc[m] = "send"
    BY <1>16 DEF SendNotice, ServiceAt, Control
  <2> QED  BY <1>16, <2>1, EntryFacts DEF TypeOK, Control, SendNotice, boxvars, ownvars
<1>17. ASSUME NEW m \in Boxes, ServiceEnd(m)  PROVE ControlAt(n)'
  <2>1. opc[m] # "start" /\ Unref(Service(m), m)
    BY <1>17 DEF ServiceEnd, ServiceAt, Control
  <2>2. \A b \in Boxes : b # m =>
          refs'[b] = refs[b] /\ mutex'[b] = mutex[b] /\ (NotFin(b) => NotFin(b)')
    BY <2>1, UnrefEffect, ThreadFacts
  <2> QED  BY ZenonT(60), <1>17, <2>1, <2>2 DEF TypeOK, Control, ServiceEnd, ServiceAt, ownvars
<1>18. ASSUME NEW t \in Threads, DiscardHead(t)  PROVE ControlAt(n)'
  <2> DEFINE m == fin[t]
             e == Head(queue[m])
             q == [queue EXCEPT ![m] = Tail(@)]
  <2>1. m \in Boxes /\ queue[m] # <<>> /\ e \in Entries /\ opc[m] # "start"
    <3>1. m # NoBox /\ queue[m] # <<>>
      BY <1>18 DEF DiscardHead
    <3>2. m \in Boxes
      BY <3>1 DEF TypeOK
    <3>3. queue[m] \in Seq(Entries)
      BY <3>2 DEF TypeOK
    <3>4. e \in Entries
      BY <3>1, <3>3
    <3>5. opc[m] # "start"
      BY <3>1, <3>2 DEF Control
    <3> QED  BY <3>1, <3>2, <3>4, <3>5
  <2>2. e.from \in Boxes /\ opc[e.from] # "start"
    BY <2>1, HeadStarted
  <2>3. q \in Queues /\ \A b \in Boxes : b # m => q[b] = queue[b]
    BY <2>1 DEF TypeOK, Queues
  <2>4. ASSUME NEW b \in Boxes, opc[b] = "start"
        PROVE  queue'[b] = queue[b] /\ items'[b] = items[b]
    <3>1. CASE AddNotice(q, "BOUNCE", e)
      <4> HIDE DEF q, e, m
      <4> QED  BY <2>1, <2>2, <2>3, <2>4, <3>1, NoticeEffect DEF TypeOK
    <3>2. CASE queue' = q /\ items' = items
      BY <2>1, <2>3, <2>4, <3>2
    <3> QED  BY <1>18, <3>1, <3>2 DEF DiscardHead, Bounce
  <2> QED  BY <1>18, <2>4 DEF TypeOK, Control, DiscardHead, ownvars, svcvars
<1>19. ASSUME NEW t \in Threads, Free(t)  PROVE ControlAt(n)'
  BY <1>19 DEF TypeOK, Control, Free, boxvars, ownvars, svcvars
<1>20. CASE UNCHANGED vars
  BY <1>20 DEF Control, vars, boxvars, ownvars, svcvars
<1> QED
  BY <1>1, <1>2, <1>3, <1>4, <1>5, <1>6, <1>7, <1>8, <1>9, <1>10, <1>11, <1>12, <1>13, <1>14, <1>15, <1>16, <1>17, <1>18, <1>19, <1>20
     DEF Next, OwnerStep, ServiceStep, FinalizeStep

-----------------------------------------------------------------------------
(* Started is preserved: no step takes a mailbox back to "start", and a step  *)
(* copies pointers only to mailboxes that have been made.                     *)

\* A mailbox that has been made stays made.
LEMMA StaysStarted ==
  ASSUME TypeOK, [Next]_vars, NEW b \in Boxes, opc[b] # "start"
  PROVE  opc'[b] # "start"
<1> USE DEF ownvars
<1>1. ASSUME NEW m \in Boxes, OwnerStep(m)  PROVE opc'[b] # "start"
  BY <1>1 DEF TypeOK, OwnerStep, MbInit, GetRecipient, AddMessage, AddMessageEnd,
              DropRecipient, MbShutdown, LogoutUnref
<1>2. ASSUME NEW m \in Boxes, ServiceStep(m)  PROVE opc' = opc
  BY <1>2 DEF ServiceStep, ServiceStart, MbSetDiscardHook, WaitItem, NextIsNull, LockHead,
              UnrefSender, PopHead, SendMessage, SendNotice, ServiceEnd
<1>3. ASSUME NEW t \in Threads, FinalizeStep(t)  PROVE opc' = opc
  BY <1>3 DEF FinalizeStep, DiscardHead, Free
<1>4. CASE UNCHANGED vars
  BY <1>4 DEF vars
<1> QED  BY <1>1, <1>2, <1>3, <1>4 DEF Next

\* How queues change: an entry e linked in at the end of that of b, or the
\* head of that of b unlinked.
Grows(q, r, b, e) == r[b] = Append(q[b], e) /\ \A c \in Boxes \ {b} : r[c] = q[c]
Shrinks(q, r, b) == q[b] # <<>> /\ r[b] = Tail(q[b]) /\ \A c \in Boxes \ {b} : r[c] = q[c]

\* A queue that grows has entries from one more mailbox.
LEMMA FromsGrow ==
  ASSUME NEW q \in Queues, NEW r \in Queues, NEW b \in Boxes, NEW e \in Entries,
         Grows(q, r, b, e), NEW n \in Boxes
  PROVE  Froms(r[n]) \subseteq Froms(q[n]) \cup {e.from}
<1>1. q[n] \in Seq(Entries)
  BY DEF Queues
<1>2. CASE n = b
  <2>1. r[n] = Append(q[n], e)
    BY <1>2 DEF Grows
  <2>2. Froms(Append(q[n], e)) = Froms(q[n]) \cup {e.from}
    BY <1>1, FromsFacts
  <2> QED  BY <2>1, <2>2
<1>3. CASE n # b
  <2>1. r[n] = q[n]
    BY <1>3 DEF Grows
  <2> QED  BY <2>1
<1> QED  BY <1>2, <1>3

\* A queue that shrinks has entries from no more mailboxes.
LEMMA FromsShrink ==
  ASSUME NEW q \in Queues, NEW r \in Queues, NEW b \in Boxes, Shrinks(q, r, b), NEW n \in Boxes
  PROVE  Froms(r[n]) \subseteq Froms(q[n])
<1>1. q[n] \in Seq(Entries)
  BY DEF Queues
<1>2. CASE n = b
  <2>1. r[n] = Tail(q[n]) /\ q[n] # <<>>
    BY <1>2 DEF Shrinks
  <2>2. Froms(Tail(q[n])) \subseteq Froms(q[n])
    BY <1>1, <2>1, FromsFacts
  <2> QED  BY <2>1, <2>2
<1>3. CASE n # b
  <2>1. r[n] = q[n]
    BY <1>3 DEF Shrinks
  <2> QED  BY <2>1
<1> QED  BY <1>2, <1>3

\* The effect of the steps that change queues.
LEMMA AddEffect ==
  ASSUME TypeOK, Control, NEW m \in Boxes, AddMessage(m)
  PROVE  \E e \in Entries :
           MessageOf(m, e) /\ e.from = m /\ dest[m] \in Boxes /\ Grows(queue, queue', dest[m], e)
<1> DEFINE e == Message(m, sent[m] + 1)
<1>1. e \in Entries /\ e.from = m /\ MessageOf(m, e) /\ dest[m] \in Boxes
  BY Controlled, EntryFacts DEF AddMessage, OwnerAt
<1>2. queue' = [queue EXCEPT ![dest[m]] = Append(@, e)]
  BY DEF AddMessage, Linked
<1> HIDE DEF e
<1>3. Grows(queue, queue', dest[m], e)
  BY <1>1, <1>2 DEF TypeOK, Grows
<1> QED  BY <1>1, <1>3

\* The service thread removes the head of its own queue.
LEMMA PopEffect ==
  ASSUME TypeOK, Mutexes, ItemsCountEntries, NEW m \in Boxes, PopHead(m)
  PROVE  Shrinks(queue, queue', m) /\ Head(queue[m]) \in Entries
<1>1. queue[m] # <<>> /\ Head(queue[m]) \in Entries
  BY HeadExists DEF PopHead, ServiceAt
<1>2. queue' = [queue EXCEPT ![m] = Tail(@)]
  BY DEF PopHead, Unlinked
<1> QED  BY <1>1, <1>2 DEF TypeOK, Shrinks

\* A notice about entry x: queues q become r, items become those of the next state.
Notified(q, r, x) ==
  \E e \in Entries :
    /\ ~IsMessage(e) /\ e.from = x.from /\ mutex[x.from] = NoThread
    /\ Grows(q, r, x.from, e)
    /\ items'[x.from] = items[x.from] + 1
    /\ \A c \in Boxes \ {x.from} : items'[c] = items[c]

\* A notice grows the queue of the sender, and the value of its semaphore.
LEMMA NoticeGrows ==
  ASSUME TypeOK, NEW q \in Queues, NEW x \in Entries,
         NEW ntype \in {"RRCPT", "BOUNCE"}, AddNotice(q, ntype, x)
  PROVE  Notified(q, queue', x)
<1> DEFINE e == Notice(ntype, x)
<1>1. e \in Entries /\ ~IsMessage(e) /\ e.from = x.from /\ x.from \in Boxes
  BY EntryFacts
<1>2. /\ mutex[x.from] = NoThread
      /\ \A n \in Boxes : n # x.from => queue'[n] = q[n] /\ items'[n] = items[n]
      /\ queue'[x.from] = Append(q[x.from], e)
      /\ items'[x.from] = items[x.from] + 1
  BY NoticeEffect DEF TypeOK
<1> HIDE DEF e
<1> QED  BY <1>1, <1>2 DEF Notified, Grows

\* The service thread that has sent a message tells its sender.
LEMMA SendEffect ==
  ASSUME TypeOK, Control, NEW m \in Boxes, SendMessage(m)
  PROVE  cur[m] \in Entries /\ cur[m].from \in Boxes /\ Notified(queue, queue', cur[m])
<1>1. cur[m] \in Entries /\ cur[m].from \in Boxes
  BY Controlled, EntryFacts DEF SendMessage, ServiceAt
<1>2. PICK ntype \in {"RRCPT", "BOUNCE"} : AddNotice(queue, ntype, cur[m])
  BY DEF SendMessage
<1>3. queue \in Queues
  BY DEF TypeOK, Queues
<1> QED  BY <1>1, <1>2, <1>3, NoticeGrows

\* mb_fini removes the head of the queue, and the hook may tell its sender.
LEMMA DiscardEffect ==
  ASSUME TypeOK, NEW t \in Threads, DiscardHead(t)
  PROVE  /\ fin[t] \in Boxes /\ queue[fin[t]] # <<>>
         /\ Head(queue[fin[t]]) \in Entries /\ Head(queue[fin[t]]).from \in Boxes
         /\ \E q \in Queues :
              /\ Shrinks(queue, q, fin[t])
              /\ \/ queue' = q /\ items' = items
                 \/ Notified(q, queue', Head(queue[fin[t]])) /\ IsMessage(Head(queue[fin[t]]))
<1> DEFINE m == fin[t]
           h == Head(queue[m])
           q == [queue EXCEPT ![m] = Tail(@)]
<1>1. m \in Boxes /\ queue[m] \in Seq(Entries) /\ queue[m] # <<>>
  BY DEF DiscardHead, TypeOK
<1>2. h \in Entries /\ h.from \in Boxes
  BY <1>1, EntryFacts
<1>3. q \in Queues
  BY <1>1 DEF TypeOK, Queues
<1>4. Shrinks(queue, q, m)
  BY <1>1 DEF TypeOK, Shrinks
<1>5. (queue' = q /\ items' = items) \/ (AddNotice(q, "BOUNCE", h) /\ IsMessage(h))
  BY DEF DiscardHead, Bounce
<1> HIDE DEF m, h, q
<1>6. (queue' = q /\ items' = items) \/ (Notified(q, queue', h) /\ IsMessage(h))
  BY <1>2, <1>3, <1>5, NoticeGrows
<1> QED  BY <1>1, <1>2, <1>3, <1>4, <1>6 DEF m, h

\* Every step keeps Started.
LEMMA StartedStep ==
  ASSUME TypeOK, Control, Started, Mutexes, ItemsCountEntries, TypeOK', [Next]_vars
  PROVE  Started'
<1> SUFFICES ASSUME NEW n \in Boxes  PROVE StartedAt(n)'
  BY DEF Started
<1>0. /\ \A b \in Boxes : opc[b] # "start" => opc'[b] # "start"
      /\ StartedAt(n) /\ queue \in Queues /\ queue' \in Queues
      /\ \A b \in Froms(queue[n]) : b \in Boxes
      /\ cur[n] \in Entries => cur[n].from \in Boxes
  <2>1. queue[n] \in Seq(Entries)
    BY DEF TypeOK
  <2>2. \A i \in DOMAIN queue[n] : queue[n][i] \in Entries
    BY <2>1
  <2>3. queue \in Queues /\ queue' \in Queues
    BY DEF TypeOK, Queues
  <2> QED  BY <2>1, <2>2, <2>3, StaysStarted, EntryFacts DEF Started, Froms
<1>1. ASSUME NEW m \in Boxes, MbInit(m)  PROVE StartedAt(n)'
  <2>1. UNCHANGED <<queue, cur, dest>>
    BY <1>1 DEF MbInit, boxvars, ownvars, svcvars
  <2> QED  BY <1>0, <2>1 DEF StartedAt
<1>2. ASSUME NEW m \in Boxes, GetRecipient(m)  PROVE StartedAt(n)'
  <2>1. PICK to \in Boxes : attached[to] /\ dest' = [dest EXCEPT ![m] = to]
    BY <1>2 DEF GetRecipient
  <2>2. opc[to] # "start" /\ UNCHANGED <<queue, cur>>
    BY <1>2, <2>1 DEF Control, ControlAt, GetRecipient, svcvars
  <2>3. dest'[n] = to \/ dest'[n] = dest[n]
    BY <2>1 DEF TypeOK
  <2> QED  BY <1>0, <2>2, <2>3 DEF StartedAt
<1>3. ASSUME NEW m \in Boxes, AddMessage(m)  PROVE StartedAt(n)'
  <2>1. PICK e \in Entries : e.from = m /\ dest[m] \in Boxes /\ Grows(queue, queue', dest[m], e)
    BY <1>3, AddEffect
  <2>2. opc[m] # "start" /\ UNCHANGED <<cur, dest>>
    BY <1>3 DEF AddMessage, OwnerAt, svcvars
  <2>3. Froms(queue'[n]) \subseteq Froms(queue[n]) \cup {m}
    BY <1>0, <2>1, FromsGrow
  <2> QED  BY <1>0, <2>2, <2>3 DEF StartedAt
<1>4. ASSUME NEW m \in Boxes, AddMessageEnd(m)  PROVE StartedAt(n)'
  <2>1. UNCHANGED <<queue, cur, dest>>
    BY <1>4 DEF AddMessageEnd, boxvars, ownvars, svcvars
  <2> QED  BY <1>0, <2>1 DEF StartedAt
<1>5. ASSUME NEW m \in Boxes, DropRecipient(m)  PROVE StartedAt(n)'
  <2>1. dest' = [dest EXCEPT ![m] = NoBox] /\ UNCHANGED <<queue, cur>>
    BY <1>5 DEF DropRecipient, svcvars
  <2>2. dest'[n] = NoBox \/ dest'[n] = dest[n]
    BY <2>1 DEF TypeOK
  <2> QED  BY <1>0, <2>1, <2>2, NoBoxAssumption DEF StartedAt
<1>6. ASSUME NEW m \in Boxes, MbShutdown(m)  PROVE StartedAt(n)'
  <2>1. UNCHANGED <<queue, cur, dest>>
    BY <1>6 DEF MbShutdown, boxvars, ownvars, svcvars
  <2> QED  BY <1>0, <2>1 DEF StartedAt
<1>7. ASSUME NEW m \in Boxes, LogoutUnref(m)  PROVE StartedAt(n)'
  <2>1. UNCHANGED <<queue, cur, dest>>
    BY <1>7 DEF LogoutUnref, boxvars, ownvars, svcvars
  <2> QED  BY <1>0, <2>1 DEF StartedAt
<1>8. ASSUME NEW m \in Boxes, ServiceStart(m)  PROVE StartedAt(n)'
  <2>1. UNCHANGED <<queue, cur, dest>>
    BY <1>8 DEF ServiceStart, boxvars, ownvars, svcvars
  <2> QED  BY <1>0, <2>1 DEF StartedAt
<1>9. ASSUME NEW m \in Boxes, MbSetDiscardHook(m)  PROVE StartedAt(n)'
  <2>1. UNCHANGED <<queue, cur, dest>>
    BY <1>9 DEF MbSetDiscardHook, boxvars, ownvars, svcvars
  <2> QED  BY <1>0, <2>1 DEF StartedAt
<1>10. ASSUME NEW m \in Boxes, WaitItem(m)  PROVE StartedAt(n)'
  <2>1. UNCHANGED <<queue, cur, dest>>
    BY <1>10 DEF WaitItem, boxvars, ownvars, svcvars
  <2> QED  BY <1>0, <2>1 DEF StartedAt
<1>11. ASSUME NEW m \in Boxes, NextIsNull(m)  PROVE StartedAt(n)'
  <2>1. UNCHANGED <<queue, cur, dest>>
    BY <1>11 DEF NextIsNull, boxvars, ownvars, svcvars
  <2> QED  BY <1>0, <2>1 DEF StartedAt
<1>12. ASSUME NEW m \in Boxes, LockHead(m)  PROVE StartedAt(n)'
  <2>1. UNCHANGED <<queue, cur, dest>>
    BY <1>12 DEF LockHead, boxvars, ownvars, svcvars
  <2> QED  BY <1>0, <2>1 DEF StartedAt
<1>13. ASSUME NEW m \in Boxes, UnrefSender(m)  PROVE StartedAt(n)'
  <2>1. UNCHANGED <<queue, cur, dest>>
    BY <1>13 DEF UnrefSender, boxvars, ownvars, svcvars
  <2> QED  BY <1>0, <2>1 DEF StartedAt
<1>14. ASSUME NEW m \in Boxes, PopHead(m)  PROVE StartedAt(n)'
  <2>1. Shrinks(queue, queue', m) /\ Head(queue[m]) \in Entries /\ queue[m] # <<>>
    BY <1>14, PopEffect DEF Shrinks
  <2>2. /\ UNCHANGED dest
        /\ n # m => cur'[n] = cur[n]
        /\ n = m => cur'[n] = Head(queue[m])
    BY <1>14 DEF PopHead, ownvars, TypeOK
  <2>3. Froms(queue'[n]) \subseteq Froms(queue[n])
    BY <1>0, <2>1, FromsShrink
  <2>4. Head(queue[m]).from \in Boxes /\ opc[Head(queue[m]).from] # "start"
    BY <2>1, HeadStarted
  <2>5. CASE n = m
    BY <1>0, <2>2, <2>3, <2>4, <2>5 DEF StartedAt
  <2>6. CASE n # m
    BY <1>0, <2>2, <2>3, <2>6 DEF StartedAt
  <2> QED  BY <2>5, <2>6
<1>15. ASSUME NEW m \in Boxes, SendMessage(m)  PROVE StartedAt(n)'
  <2>1. cur[m] \in Entries /\ cur[m].from \in Boxes /\ Notified(queue, queue', cur[m])
    BY <1>15, SendEffect
  <2>2. opc[cur[m].from] # "start"
    BY <2>1 DEF Started, StartedAt
  <2>3. PICK e \in Entries : e.from = cur[m].from /\ Grows(queue, queue', cur[m].from, e)
    BY <2>1 DEF Notified
  <2>4. Froms(queue'[n]) \subseteq Froms(queue[n]) \cup {cur[m].from}
    BY <1>0, <2>1, <2>3, FromsGrow
  <2>5. UNCHANGED dest /\ (cur'[n] = cur[n] \/ cur'[n] = NoEntry)
    BY <1>15 DEF SendMessage, ownvars, TypeOK
  <2> QED  BY <1>0, <2>1, <2>2, <2>4, <2>5, EntryFacts DEF StartedAt
<1>16. ASSUME NEW m \in Boxes, SendNotice(m)  PROVE StartedAt(n)'
  <2>1. UNCHANGED <<queue, dest>> /\ (cur'[n] = cur[n] \/ cur'[n] = NoEntry)
    BY <1>16 DEF SendNotice, boxvars, ownvars, TypeOK
  <2> QED  BY <1>0, <2>1, EntryFacts DEF StartedAt
<1>17. ASSUME NEW m \in Boxes, ServiceEnd(m)  PROVE StartedAt(n)'
  <2>1. UNCHANGED <<queue, cur, dest>>
    BY <1>17 DEF ServiceEnd, boxvars, ownvars, svcvars
  <2> QED  BY <1>0, <2>1 DEF StartedAt
<1>18. ASSUME NEW t \in Threads, DiscardHead(t)  PROVE StartedAt(n)'
  <2> DEFINE h == Head(queue[fin[t]])
  <2>1. fin[t] \in Boxes /\ queue[fin[t]] # <<>> /\ h \in Entries /\ h.from \in Boxes
    BY <1>18, DiscardEffect
  <2>2. PICK q \in Queues : Shrinks(queue, q, fin[t]) /\ (queue' = q \/ Notified(q, queue', h))
    BY <1>18, DiscardEffect
  <2>3. opc[h.from] # "start"
    BY <2>1, HeadStarted
  <2>4. Froms(q[n]) \subseteq Froms(queue[n])
    BY <1>0, <2>1, <2>2, FromsShrink
  <2>5. Froms(queue'[n]) \subseteq Froms(queue[n]) \cup {h.from}
    <3>1. CASE queue' = q
      BY <2>4, <3>1
    <3>2. CASE Notified(q, queue', h)
      <4>1. PICK e \in Entries : e.from = h.from /\ Grows(q, queue', h.from, e)
        BY <3>2 DEF Notified
      <4>2. Froms(queue'[n]) \subseteq Froms(q[n]) \cup {e.from}
        BY <1>0, <2>1, <4>1, FromsGrow
      <4> QED  BY <2>4, <4>1, <4>2
    <3> QED  BY <2>2, <3>1, <3>2
  <2>6. UNCHANGED <<cur, dest>>
    BY <1>18 DEF DiscardHead, ownvars, svcvars
  <2> HIDE DEF h
  <2> QED  BY <1>0, <2>1, <2>3, <2>5, <2>6 DEF StartedAt
<1>19. ASSUME NEW t \in Threads, Free(t)  PROVE StartedAt(n)'
  <2>1. UNCHANGED <<queue, cur, dest>>
    BY <1>19 DEF Free, boxvars, ownvars, svcvars
  <2> QED  BY <1>0, <2>1 DEF StartedAt
<1>20. CASE UNCHANGED vars
  BY <1>0, <1>20 DEF StartedAt, vars, boxvars, ownvars, svcvars
<1> QED
  BY <1>1, <1>2, <1>3, <1>4, <1>5, <1>6, <1>7, <1>8, <1>9, <1>10, <1>11, <1>12, <1>13, <1>14, <1>15, <1>16, <1>17, <1>18, <1>19, <1>20
     DEF Next, OwnerStep, ServiceStep, FinalizeStep

-----------------------------------------------------------------------------
(* Mutexes is preserved *)

\* The step sets nobody to a place where it holds a mutex.
NoEntering ==
  \A n \in Boxes :
    /\ opc'[n] = "start" <=> opc[n] = "start"
    /\ opc'[n] = "ref" => opc[n] = "ref" /\ dest'[n] = dest[n]
    /\ spc'[n] \in {"unref", "pop"} => spc[n] \in {"unref", "pop"}

\* What is known of a mailbox whose mutex is free.
LEMMA FreeMutex ==
  ASSUME TypeOK, Control, Mutexes, NEW b \in Boxes, mutex[b] = NoThread
  PROVE  /\ NotFin(b)
         /\ opc[b] # "start" => live[b]
         /\ spc[b] \notin {"unref", "pop"}
         /\ \A n \in Boxes : opc[n] = "ref" => dest[n] # b
<1>1. NotFin(b)
  BY DEF Control, ControlAt, Mutexes, MutexAt
<1> QED  BY <1>1, ThreadFacts DEF Mutexes, MutexAt

\* A step that leaves mutexes, counts and finalizations alone.
LEMMA QuietMutex ==
  ASSUME TypeOK, Control, Mutexes, NoEntering, UNCHANGED <<mutex, live, fin, refs>>,
         \A c \in Boxes : (mutex[c] # NoThread /\ NotFin(c)) =>
           queue'[c] = queue[c] /\ defunct'[c] = defunct[c]
  PROVE  Mutexes'
<1> SUFFICES ASSUME NEW n \in Boxes  PROVE MutexAt(n)'
  BY DEF Mutexes
<1>1. MutexAt(n) /\ \A c \in Boxes : NotFin(c)' <=> NotFin(c)
  BY DEF Mutexes, NotFin
<1>2. opc'[n] = "ref" => opc[n] = "ref" /\ dest'[n] = dest[n] /\ dest[n] \in Boxes
  BY Controlled DEF NoEntering
<1>3. opc'[n] = "ref" => queue'[dest[n]] = queue[dest[n]]
  BY <1>1, <1>2, ThreadFacts DEF MutexAt
<1>4. spc'[n] \in {"unref", "pop"} => spc[n] \in {"unref", "pop"} /\ defunct'[n] = defunct[n]
  BY <1>1, ThreadFacts DEF MutexAt, NoEntering
<1> QED  BY <1>1, <1>2, <1>3, <1>4 DEF MutexAt, NoEntering

\* A reference is taken: the mailbox is live.
LEMMA RefMutex ==
  ASSUME TypeOK, Control, Mutexes, NoEntering, NEW b \in Boxes, opc[b] # "start", Ref(b),
         UNCHANGED <<mutex, live, fin, queue, defunct>>
  PROVE  Mutexes'
<1> SUFFICES ASSUME NEW n \in Boxes  PROVE MutexAt(n)'
  BY DEF Mutexes
<1>1. MutexAt(n) /\ (\A c \in Boxes : NotFin(c)' <=> NotFin(c)) /\ NotFin(b) /\ live[b]
  BY FreeMutex DEF Mutexes, NotFin, Ref, Unlocked
<1>2. n # b => refs'[n] = refs[n]
  BY DEF Ref, TypeOK
<1> QED  BY <1>1, <1>2 DEF MutexAt, NoEntering, NotFin

\* A reference is dropped, perhaps the last one.
LEMMA UnrefMutex ==
  ASSUME TypeOK, Control, Mutexes, NoEntering, NEW t \in Threads, NEW b \in Boxes,
         opc[b] # "start", Unref(t, b), UNCHANGED <<live, queue, defunct>>
  PROVE  Mutexes'
<1> SUFFICES ASSUME NEW n \in Boxes  PROVE MutexAt(n)'
  BY DEF Mutexes
<1>1. /\ mutex[b] = NoThread /\ refs'[b] = refs[b] - 1
      /\ \A c \in Boxes : c # b => refs'[c] = refs[c] /\ mutex'[c] = mutex[c]
      /\ \A u \in Threads : u # t => fin'[u] = fin[u]
      /\ refs[b] # 1 => mutex' = mutex /\ fin' = fin
      /\ refs[b] = 1 => mutex'[b] = t /\ fin'[t] = b
  BY UnrefEffect
<1>2. /\ NotFin(b) /\ live[b] /\ spc[b] \notin {"unref", "pop"}
      /\ opc[n] = "ref" => dest[n] # b /\ dest[n] \in Boxes
  BY <1>1, FreeMutex, Controlled
<1>3. MutexAt(n) /\ \A c \in Boxes : c # b /\ NotFin(c) => NotFin(c)'
  BY <1>1 DEF Mutexes, NotFin
<1>4. CASE n # b
  <2>1. /\ refs'[n] = refs[n] /\ mutex'[n] = mutex[n]
        /\ \A u \in Threads : fin'[u] = n => fin[u] = n
    BY <1>1, <1>4
  <2>2. opc'[n] = "ref" => mutex'[dest[n]] = mutex[dest[n]] /\ NotFin(dest[n])'
    BY <1>1, <1>2, <1>3 DEF MutexAt, NoEntering
  <2> QED  BY <1>3, <1>4, <2>1, <2>2 DEF MutexAt, NoEntering
<1>5. CASE n = b
  <2>1. \A u \in Threads : fin'[u] = b => refs[b] = 1 /\ u = t
    BY <1>1, <1>2 DEF NotFin
  <2>2. opc'[n] = "ref" => mutex'[dest[n]] = mutex[dest[n]] /\ NotFin(dest[n])'
    BY <1>1, <1>2, <1>3 DEF MutexAt, NoEntering
  <2>3. mutex'[b] = NoThread => NotFin(b)'
    BY <1>1, <1>2, ThreadFacts DEF NotFin
  <2> QED  BY <1>1, <1>2, <1>3, <1>5, <2>1, <2>2, <2>3 DEF MutexAt, NoEntering
<1> QED  BY <1>4, <1>5

\* Every step keeps Mutexes.
LEMMA MutexStep ==
  ASSUME IInv, TypeOK', [Next]_vars
  PROVE  Mutexes'
<1> USE DEF IInv
<1>0. TypeOK
  OBVIOUS
<1>1. ASSUME NEW m \in Boxes, MbInit(m)  PROVE Mutexes'
  <2> SUFFICES ASSUME NEW n \in Boxes  PROVE MutexAt(n)'
    BY DEF Mutexes
  <2>1. /\ opc[m] = "start" /\ opc' = [opc EXCEPT ![m] = "idle"]
        /\ spc[m] = "none" /\ spc' = [spc EXCEPT ![m] = "created"]
        /\ live' = [live EXCEPT ![m] = TRUE] /\ refs' = [refs EXCEPT ![m] = 1]
        /\ UNCHANGED <<queue, mutex, defunct, dest, fin>>
    BY <1>1 DEF MbInit, OwnerAt, Control, ControlAt
  <2>2. NotFin(m) /\ MutexAt(n) /\ \A c \in Boxes : NotFin(c)' <=> NotFin(c)
    BY <2>1 DEF Control, ControlAt, Mutexes, NotFin
  <2>3. opc[n] = "ref" => dest[n] \in Boxes /\ dest[n] # m
    BY <2>1, Controlled DEF Started, StartedAt
  <2>4. CASE n = m
    BY <2>1, <2>2, <2>4 DEF MutexAt, TypeOK, NotFin
  <2>5. CASE n # m
    <3>1. /\ opc'[n] = opc[n] /\ spc'[n] = spc[n] /\ live'[n] = live[n] /\ refs'[n] = refs[n]
          /\ opc[n] = "ref" => live'[dest[n]] = live[dest[n]]
      BY ZenonT(60), <2>1, <2>3, <2>5 DEF TypeOK
    <3> QED  BY <2>1, <2>2, <3>1, <2>3 DEF MutexAt
  <2> QED  BY <2>4, <2>5
<1>2. ASSUME NEW m \in Boxes, GetRecipient(m)  PROVE Mutexes'
  <2>1. PICK to \in Boxes : attached[to] /\ Ref(to) /\ dest' = [dest EXCEPT ![m] = to]
    BY <1>2 DEF GetRecipient
  <2>2. opc[to] # "start"
    BY <2>1 DEF Control, ControlAt
  <2>3. NoEntering
    BY <1>2, <2>1 DEF GetRecipient, OwnerAt, NoEntering, TypeOK, svcvars
  <2>4. UNCHANGED <<mutex, live, fin, queue, defunct>>
    BY <1>2 DEF GetRecipient
  <2> QED  BY <2>1, <2>2, <2>3, <2>4, RefMutex
<1>3. ASSUME NEW m \in Boxes, AddMessage(m)  PROVE Mutexes'
  <2> SUFFICES ASSUME NEW n \in Boxes  PROVE MutexAt(n)'
    BY DEF Mutexes
  <2> DEFINE to == dest[m]
  <2>1. PICK e \in Entries : MessageOf(m, e) /\ to \in Boxes /\ Grows(queue, queue', to, e)
    BY <1>3, AddEffect
  <2> HIDE DEF to
  <2>2. opc[m] = "add" /\ opc[to] # "start" /\ mutex[to] = NoThread
    BY <1>3, <2>1 DEF AddMessage, OwnerAt, Started, StartedAt, Unlocked, to
  <2>3. /\ mutex' = [mutex EXCEPT ![to] = Owner(m)] /\ opc' = [opc EXCEPT ![m] = "ref"]
        /\ UNCHANGED <<refs, defunct, live, dest, spc, fin>>
    BY <1>3 DEF AddMessage, svcvars, to
  <2>4. /\ NotFin(to) /\ live[to] /\ spc[to] \notin {"unref", "pop"}
        /\ opc[n] = "ref" => dest[n] # to /\ dest[n] \in Boxes
    BY <2>1, <2>2, FreeMutex, Controlled
  <2>5. MutexAt(n) /\ \A c \in Boxes : NotFin(c)' <=> NotFin(c)
    BY <2>3 DEF Mutexes, NotFin
  <2>6. /\ mutex'[to] = Owner(m) /\ \A c \in Boxes : c # to => mutex'[c] = mutex[c] /\ queue'[c] = queue[c]
    BY <2>1, <2>3 DEF TypeOK, Grows
  <2>7. ASSUME opc'[n] = "ref"
        PROVE  /\ mutex'[dest[n]] = Owner(n) /\ live[dest[n]] /\ NotFin(dest[n])
               /\ queue'[dest[n]] # <<>>
               /\ MessageOf(n, queue'[dest[n]][Len(queue'[dest[n]])])
    <3>1. CASE n = m
      <4>1. queue[to] \in Seq(Entries) /\ queue'[to] = Append(queue[to], e)
        BY <2>1 DEF TypeOK, Grows
      <4>2. queue'[to] # <<>> /\ queue'[to][Len(queue'[to])] = e
        BY <4>1
      <4> QED  BY <2>1, <2>4, <2>6, <3>1, <4>2 DEF to
    <3>2. CASE n # m
      <4>1. opc[n] = "ref"
        BY <2>3, <2>7, <3>2 DEF TypeOK
      <4> QED  BY <2>4, <2>5, <2>6, <4>1 DEF MutexAt
    <3> QED  BY <3>1, <3>2
  <2>8. opc'[n] = "start" <=> opc[n] = "start"
    BY <2>2, <2>3 DEF TypeOK
  <2>9. \A t \in Threads : fin[t] = n => n # to
    BY <2>4 DEF NotFin
  <2>10. spc[n] \in {"unref", "pop"} => n # to
    BY <2>4
  <2>11. dest' = dest /\ live' = live /\ spc' = spc /\ fin' = fin /\ refs' = refs /\ defunct' = defunct
    BY <2>3
  <2> HIDE DEF IInv
  <2>12. CASE n = to
    BY <2>2, <2>4, <2>5, <2>6, <2>7, <2>8, <2>9, <2>10, <2>11, <2>12, ThreadFacts DEF MutexAt, NotFin
  <2>13. CASE n # to
    BY <2>5, <2>6, <2>7, <2>8, <2>9, <2>10, <2>11, <2>13 DEF MutexAt, NotFin
  <2> QED  BY <2>12, <2>13
<1>4. ASSUME NEW m \in Boxes, AddMessageEnd(m)  PROVE Mutexes'
  <2> SUFFICES ASSUME NEW n \in Boxes  PROVE MutexAt(n)'
    BY DEF Mutexes
  <2> DEFINE to == dest[m]
  <2>1. opc[m] = "ref" /\ to \in Boxes
    BY <1>4, Controlled DEF AddMessageEnd, OwnerAt
  <2>2. mutex[to] = Owner(m) /\ live[to] /\ NotFin(to)
    BY <2>1 DEF Mutexes, MutexAt
  <2> HIDE DEF to
  <2>3. /\ mutex' = [mutex EXCEPT ![to] = NoThread] /\ opc' = [opc EXCEPT ![m] = "drop"]
        /\ UNCHANGED <<queue, defunct, live, dest, spc, fin>>
        /\ Ref(m) \/ UNCHANGED refs
    BY <1>4 DEF AddMessageEnd, SenderRef, svcvars, to
  <2>4. MutexAt(n) /\ \A c \in Boxes : NotFin(c)' <=> NotFin(c)
    BY <2>3 DEF Mutexes, NotFin
  <2>5. mutex'[to] = NoThread /\ \A c \in Boxes : c # to => mutex'[c] = mutex[c]
    BY <2>1, <2>3 DEF TypeOK
  <2>6. opc'[n] = "ref" => opc[n] = "ref" /\ dest[n] # to /\ dest[n] \in Boxes
    <3>1. opc'[n] = "ref" => opc[n] = "ref" /\ n # m
      BY <2>3 DEF TypeOK
    <3> QED  BY <2>2, <2>4, <3>1, ThreadFacts, Controlled DEF MutexAt
  <2>7. spc[n] \in {"unref", "pop"} => n # to
    BY <2>2, <2>4, ThreadFacts DEF MutexAt
  <2>8. opc'[n] = "start" <=> opc[n] = "start"
    BY <2>1, <2>3 DEF TypeOK
  <2>9. refs'[n] = refs[n] \/ (NotFin(n) /\ live[n])
    <3>1. CASE Ref(m)
      <4>1. NotFin(m) /\ live[m] /\ (n # m => refs'[n] = refs[n])
        BY ZenonT(60), <2>1, <3>1, FreeMutex DEF Ref, Unlocked, TypeOK
      <4> QED  BY <4>1
    <3> QED  BY <2>3, <3>1
  <2>10. \A t \in Threads : fin[t] = n => n # to /\ refs'[n] = refs[n]
    BY <2>2, <2>9 DEF NotFin
  <2> QED  BY <2>2, <2>3, <2>4, <2>5, <2>6, <2>7, <2>8, <2>9, <2>10 DEF MutexAt
<1>5. ASSUME NEW m \in Boxes, DropRecipient(m)  PROVE Mutexes'
  <2>1. dest[m] \in Boxes /\ opc[dest[m]] # "start" /\ Unref(Owner(m), dest[m])
    BY <1>5, Controlled DEF DropRecipient, OwnerAt, Started, StartedAt
  <2>2. NoEntering
    BY <1>5, <2>1, NoBoxAssumption DEF DropRecipient, OwnerAt, NoEntering, TypeOK, ownvars, svcvars
  <2>3. UNCHANGED <<live, queue, defunct>>
    BY <1>5 DEF DropRecipient
  <2> QED  BY <2>1, <2>2, <2>3, UnrefMutex, ThreadFacts
<1>6. ASSUME NEW m \in Boxes, MbShutdown(m)  PROVE Mutexes'
  <2>1. NoEntering
    BY <1>6 DEF MbShutdown, OwnerAt, NoEntering, TypeOK, ownvars, svcvars
  <2>2. UNCHANGED <<mutex, live, fin, refs, queue>>
    BY <1>6 DEF MbShutdown, boxvars, ownvars, svcvars
  <2>3. mutex[m] = NoThread /\ \A c \in Boxes : c # m => defunct'[c] = defunct[c]
    BY <1>6 DEF MbShutdown, Unlocked, TypeOK
  <2> QED  BY <2>1, <2>2, <2>3, QuietMutex
<1>7. ASSUME NEW m \in Boxes, LogoutUnref(m)  PROVE Mutexes'
  <2>1. opc[m] # "start" /\ Unref(Owner(m), m)
    BY <1>7 DEF LogoutUnref, OwnerAt
  <2>2. NoEntering
    BY <1>7, <2>1, NoBoxAssumption DEF LogoutUnref, OwnerAt, NoEntering, TypeOK, ownvars, svcvars
  <2>3. UNCHANGED <<live, queue, defunct>>
    BY <1>7 DEF LogoutUnref
  <2> QED  BY <2>1, <2>2, <2>3, UnrefMutex, ThreadFacts
<1>8. ASSUME NEW m \in Boxes, ServiceStart(m)  PROVE Mutexes'
  <2>1. opc[m] # "start"
    BY <1>8 DEF ServiceStart, ServiceAt, Control, ControlAt
  <2>2. NoEntering
    BY <1>8 DEF ServiceStart, ServiceAt, NoEntering, TypeOK, ownvars
  <2>3. UNCHANGED <<mutex, live, fin, queue, defunct>>
    BY <1>8 DEF ServiceStart
  <2>4. CASE Ref(m)
    BY <2>1, <2>2, <2>3, <2>4, RefMutex
  <2>5. CASE UNCHANGED refs
    BY <2>2, <2>3, <2>5, QuietMutex
  <2> QED  BY <1>8, <2>4, <2>5 DEF ServiceStart
<1>9. ASSUME NEW m \in Boxes, MbSetDiscardHook(m)  PROVE Mutexes'
  <2>1. NoEntering
    BY <1>9 DEF MbSetDiscardHook, ServiceAt, NoEntering, TypeOK, ownvars, svcvars
  <2>2. UNCHANGED <<mutex, live, fin, refs, queue, defunct>>
    BY <1>9 DEF MbSetDiscardHook, boxvars, ownvars, svcvars
  <2> QED  BY <2>1, <2>2, QuietMutex
<1>10. ASSUME NEW m \in Boxes, WaitItem(m)  PROVE Mutexes'
  <2>1. NoEntering
    BY <1>10 DEF WaitItem, ServiceAt, NoEntering, TypeOK, ownvars, svcvars
  <2>2. UNCHANGED <<mutex, live, fin, refs, queue, defunct>>
    BY <1>10 DEF WaitItem, boxvars, ownvars, svcvars
  <2> QED  BY <2>1, <2>2, QuietMutex
<1>11. ASSUME NEW m \in Boxes, NextIsNull(m)  PROVE Mutexes'
  <2>1. NoEntering
    BY <1>11 DEF NextIsNull, ServiceAt, NoEntering, TypeOK, ownvars, svcvars
  <2>2. UNCHANGED <<mutex, live, fin, refs, queue, defunct>>
    BY <1>11 DEF NextIsNull, boxvars, ownvars, svcvars
  <2> QED  BY <2>1, <2>2, QuietMutex
<1>12. ASSUME NEW m \in Boxes, LockHead(m)  PROVE Mutexes'
  <2> SUFFICES ASSUME NEW n \in Boxes  PROVE MutexAt(n)'
    BY DEF Mutexes
  <2>1. /\ spc[m] = "lock" /\ opc[m] # "start" /\ mutex[m] = NoThread /\ ~defunct[m]
        /\ mutex' = [mutex EXCEPT ![m] = Service(m)] /\ spc' = [spc EXCEPT ![m] = "unref"]
        /\ UNCHANGED <<queue, refs, defunct, live, opc, dest, fin>>
    BY <1>12 DEF LockHead, ServiceAt, Unlocked, Control, ControlAt, ownvars
  <2>2. /\ NotFin(m) /\ live[m] /\ spc[m] \notin {"unref", "pop"}
        /\ opc[n] = "ref" => dest[n] # m /\ dest[n] \in Boxes
    BY <2>1, FreeMutex, Controlled
  <2>3. MutexAt(n) /\ \A c \in Boxes : NotFin(c)' <=> NotFin(c)
    BY <2>1 DEF Mutexes, NotFin
  <2>4. mutex'[m] = Service(m) /\ \A c \in Boxes : c # m => mutex'[c] = mutex[c] /\ spc'[c] = spc[c]
    BY <2>1 DEF TypeOK
  <2>5. CASE n = m
    BY <2>1, <2>2, <2>3, <2>4, <2>5, ThreadFacts DEF MutexAt, NotFin
  <2>6. CASE n # m
    BY <2>1, <2>2, <2>3, <2>4, <2>6 DEF MutexAt
  <2> QED  BY <2>5, <2>6
<1>13. ASSUME NEW m \in Boxes, UnrefSender(m)  PROVE Mutexes'
  <2> DEFINE e == Head(queue[m])
  <2>1. e.from \in Boxes /\ opc[e.from] # "start"
    BY <1>13, HeadExists, HeadStarted DEF UnrefSender, ServiceAt
  <2>2. NoEntering
    BY <1>13 DEF UnrefSender, ServiceAt, NoEntering, TypeOK, ownvars
  <2>3. UNCHANGED <<live, queue, defunct>>
    BY <1>13 DEF UnrefSender
  <2>4. CASE Unref(Service(m), e.from)
    BY <2>1, <2>2, <2>3, <2>4, UnrefMutex, ThreadFacts
  <2>5. CASE UNCHANGED <<mutex, refs, fin>>
    BY <2>2, <2>3, <2>5, QuietMutex
  <2> QED  BY <1>13, <2>4, <2>5 DEF UnrefSender
<1>14. ASSUME NEW m \in Boxes, PopHead(m)  PROVE Mutexes'
  <2> SUFFICES ASSUME NEW n \in Boxes  PROVE MutexAt(n)'
    BY DEF Mutexes
  <2>1. /\ spc[m] = "pop" /\ mutex' = [mutex EXCEPT ![m] = NoThread]
        /\ spc' = [spc EXCEPT ![m] = "send"]
        /\ UNCHANGED <<refs, defunct, live, opc, dest, fin>>
        /\ \A c \in Boxes : c # m => queue'[c] = queue[c]
    BY <1>14, PopEffect DEF PopHead, ServiceAt, ownvars, Shrinks
  <2>2. mutex[m] = Service(m) /\ live[m] /\ NotFin(m)
    BY <2>1 DEF Mutexes, MutexAt
  <2>3. MutexAt(n) /\ \A c \in Boxes : NotFin(c)' <=> NotFin(c)
    BY <2>1 DEF Mutexes, NotFin
  <2>4. opc[n] = "ref" => dest[n] \in Boxes /\ dest[n] # m
    BY <2>2, <2>3, ThreadFacts, Controlled DEF MutexAt
  <2>5. mutex'[m] = NoThread /\ \A c \in Boxes : c # m => mutex'[c] = mutex[c] /\ spc'[c] = spc[c]
    BY <2>1 DEF TypeOK
  <2>6. CASE n = m
    <3>1. spc'[m] = "send"
      BY <2>1 DEF TypeOK
    <3> QED  BY <2>1, <2>2, <2>3, <2>4, <2>5, <2>6, <3>1 DEF MutexAt, NotFin
  <2>7. CASE n # m
    BY <2>1, <2>2, <2>3, <2>4, <2>5, <2>7 DEF MutexAt
  <2> QED  BY <2>6, <2>7
<1>15. ASSUME NEW m \in Boxes, SendMessage(m)  PROVE Mutexes'
  <2>1. NoEntering
    BY <1>15 DEF SendMessage, ServiceAt, NoEntering, TypeOK, ownvars, svcvars
  <2>2. UNCHANGED <<mutex, live, fin, refs, defunct>>
    BY <1>15 DEF SendMessage
  <2>3. mutex[cur[m].from] = NoThread /\ \A c \in Boxes : c # cur[m].from => queue'[c] = queue[c]
    BY <1>15, SendEffect DEF Notified, Grows
  <2> QED  BY <2>1, <2>2, <2>3, QuietMutex
<1>16. ASSUME NEW m \in Boxes, SendNotice(m)  PROVE Mutexes'
  <2>1. NoEntering
    BY <1>16 DEF SendNotice, ServiceAt, NoEntering, TypeOK, ownvars, svcvars
  <2>2. UNCHANGED <<mutex, live, fin, refs, queue, defunct>>
    BY <1>16 DEF SendNotice, boxvars, ownvars, svcvars
  <2> QED  BY <2>1, <2>2, QuietMutex
<1>17. ASSUME NEW m \in Boxes, ServiceEnd(m)  PROVE Mutexes'
  <2>1. opc[m] # "start" /\ Unref(Service(m), m)
    BY <1>17 DEF ServiceEnd, ServiceAt, Control, ControlAt
  <2>2. NoEntering
    BY <1>17, <2>1, NoBoxAssumption DEF ServiceEnd, ServiceAt, NoEntering, TypeOK, ownvars, svcvars
  <2>3. UNCHANGED <<live, queue, defunct>>
    BY <1>17 DEF ServiceEnd
  <2> QED  BY <2>1, <2>2, <2>3, UnrefMutex, ThreadFacts
<1>18. ASSUME NEW t \in Threads, DiscardHead(t)  PROVE Mutexes'
  <2>1. NoEntering /\ UNCHANGED <<mutex, live, fin, refs, defunct>>
    BY <1>18 DEF DiscardHead, NoEntering, ownvars, svcvars
  <2> DEFINE h == Head(queue[fin[t]])
  <2>2. PICK q \in Queues : Shrinks(queue, q, fin[t]) /\ (queue' = q \/ Notified(q, queue', h))
    BY <1>18, DiscardEffect
  <2>3. \A c \in Boxes : mutex[c] # NoThread /\ c # fin[t] => queue'[c] = queue[c]
    BY <2>2 DEF Shrinks, Notified, Grows
  <2>4. \A c \in Boxes : NotFin(c) => c # fin[t]
    BY DEF NotFin
  <2> QED  BY <2>1, <2>3, <2>4, QuietMutex
<1>19. ASSUME NEW t \in Threads, Free(t)  PROVE Mutexes'
  <2> SUFFICES ASSUME NEW n \in Boxes  PROVE MutexAt(n)'
    BY DEF Mutexes
  <2> DEFINE m == fin[t]
  <2>1. m \in Boxes /\ mutex[m] = t /\ refs[m] = 0
    BY <1>19 DEF Free, TypeOK, Mutexes, MutexAt
  <2>2. \A u \in Threads : fin[u] = m => u = t
    BY <2>1 DEF Mutexes, MutexAt
  <2>3. live' = [live EXCEPT ![m] = FALSE] /\ fin' = [fin EXCEPT ![t] = NoBox]
        /\ UNCHANGED <<queue, mutex, refs, defunct, opc, dest, spc>>
    BY <1>19 DEF Free, ownvars, svcvars
  <2>4. MutexAt(n) /\ ~NotFin(m)
    BY <2>1 DEF Mutexes, NotFin
  <2> HIDE DEF m
  <2>5. /\ \A u \in Threads : fin'[u] \in Boxes => fin'[u] = fin[u] /\ fin[u] # m
        /\ \A c \in Boxes : c # m => live'[c] = live[c]
    BY <2>1, <2>2, <2>3, NoBoxAssumption DEF TypeOK
  <2>6. \A c \in Boxes : NotFin(c) => NotFin(c)'
    BY <2>5 DEF NotFin
  <2>7. (opc[n] = "ref" => dest[n] \in Boxes /\ dest[n] # m) /\ (spc[n] \in {"unref", "pop"} => n # m)
    BY <2>4, Controlled DEF MutexAt
  <2>8. CASE n = m
    BY <2>1, <2>3, <2>4, <2>5, <2>6, <2>7, <2>8, ThreadFacts DEF MutexAt
  <2>9. CASE n # m
    BY <2>3, <2>4, <2>5, <2>6, <2>7, <2>9 DEF MutexAt
  <2> QED  BY <2>8, <2>9
<1>20. CASE UNCHANGED vars
  BY <1>20, QuietMutex DEF NoEntering, vars, boxvars, ownvars, svcvars
<1> QED
  BY <1>1, <1>2, <1>3, <1>4, <1>5, <1>6, <1>7, <1>8, <1>9, <1>10, <1>11, <1>12, <1>13, <1>14, <1>15, <1>16, <1>17, <1>18, <1>19, <1>20
     DEF Next, OwnerStep, ServiceStep, FinalizeStep

-----------------------------------------------------------------------------
(* ItemsCountEntries is preserved *)

\* The premise of ItemsCountEntries for one mailbox, and its terms.
Served(m) == live[m] /\ spc[m] \notin {"end", "done"} /\ NotFin(m)
Hand(m) == One(spc[m] \in {"lock", "unref", "pop"})
Owed(m) == One(Unposted(m))
Shut(m) == One(defunct[m])
ItemsAt(m) == Served(m) => items[m] + Hand(m) + Owed(m) = Len(queue[m]) + Shut(m)

\* ItemsCountEntries, mailbox by mailbox.
LEMMA ItemsEach == ItemsCountEntries <=> \A m \in Boxes : ItemsAt(m)
BY DEF ItemsCountEntries, ItemsAt, Served, Hand, Owed, Shut, NotFin

\* Its terms are numbers.
LEMMA ItemsTerms ==
  ASSUME TypeOK, NEW n \in Boxes
  PROVE  /\ Hand(n) \in Nat /\ Owed(n) \in Nat /\ Shut(n) \in Nat
         /\ items[n] \in Nat /\ Len(queue[n]) \in Nat
BY DEF Hand, Owed, Shut, One, TypeOK

\* A mailbox none of whose numbers change.
LEMMA ItemsFrame ==
  ASSUME NEW n \in Boxes, ItemsAt(n), Served(n)' => Served(n),
         Hand(n)' = Hand(n), Owed(n)' = Owed(n), Shut(n)' = Shut(n),
         items'[n] = items[n], Len(queue'[n]) = Len(queue[n])
  PROVE  ItemsAt(n)'
BY DEF ItemsAt

\* A mailbox that gets one more entry and one more unit of the semaphore.
LEMMA ItemsNoticed ==
  ASSUME TypeOK, NEW n \in Boxes, ItemsAt(n), Served(n)' => Served(n),
         Hand(n)' = Hand(n), Owed(n)' = Owed(n), Shut(n)' = Shut(n),
         items'[n] = items[n] + 1, Len(queue'[n]) = Len(queue[n]) + 1
  PROVE  ItemsAt(n)'
<1>1. /\ Hand(n) \in Nat /\ Owed(n) \in Nat /\ Shut(n) \in Nat
      /\ items[n] \in Nat /\ Len(queue[n]) \in Nat
  BY ItemsTerms
<1>2. CASE Served(n)'
  <2>1. items[n] + Hand(n) + Owed(n) = Len(queue[n]) + Shut(n)
    BY <1>2 DEF ItemsAt
  <2> DEFINE i == items[n]   h == Hand(n)   o == Owed(n)   l == Len(queue[n])   s == Shut(n)
  <2>2. i \in Nat /\ h \in Nat /\ o \in Nat /\ l \in Nat /\ s \in Nat /\ i + h + o = l + s
    BY <1>1, <2>1
  <2> HIDE DEF i, h, o, l, s
  <2>3. (i + 1) + h + o = (l + 1) + s
    BY <2>2
  <2>4. items'[n] + Hand(n)' + Owed(n)' = Len(queue'[n]) + Shut(n)'
    BY <2>3 DEF i, h, o, l, s
  <2> QED  BY <2>4 DEF ItemsAt
<1>3. CASE ~Served(n)'
  BY <1>3 DEF ItemsAt
<1> QED  BY <1>2, <1>3

\* No owner starts or ends adding a message.
SameAdding ==
  \A b \in Boxes : /\ opc'[b] = "ref" <=> opc[b] = "ref"
                   /\ opc[b] = "ref" => dest'[b] = dest[b]

\* Nothing more is owed to a semaphore while the adding threads stay where they are.
LEMMA SameOwed ==
  ASSUME SameAdding, NEW n \in Boxes
  PROVE  Owed(n)' = Owed(n)
BY DEF SameAdding, Unposted, Owed, One

\* The finalization that mb_unref may begin.
LEMMA UnrefFin ==
  ASSUME TypeOK, NEW t \in Threads, fin[t] = NoBox, NEW b \in Boxes, Unref(t, b),
         NEW n \in Boxes, NotFin(n)'
  PROVE  NotFin(n)
BY UnrefEffect, NoBoxAssumption DEF NotFin

\* Every step keeps the value of each semaphore in step with its queue.
LEMMA ItemsStep ==
  ASSUME IInv, [Next]_vars
  PROVE  ItemsCountEntries'
<1> SUFFICES ASSUME NEW n \in Boxes  PROVE ItemsAt(n)'
  BY DEF ItemsCountEntries, ItemsAt, Served, NotFin, Hand, Owed, Shut
<1>0. TypeOK /\ Control /\ Started /\ Mutexes /\ ItemsCountEntries /\ ItemsAt(n)
  BY ItemsEach DEF IInv
<1>1. ASSUME NEW m \in Boxes, MbInit(m)  PROVE ItemsAt(n)'
  <2>1. /\ opc[m] = "start" /\ spc[m] = "none" /\ spc'[m] = "created"
        /\ items[m] = 0 /\ queue[m] = <<>> /\ ~defunct[m] /\ NotFin(m)
        /\ items' = items /\ queue' = queue /\ defunct' = defunct /\ fin' = fin
    BY <1>0, <1>1 DEF MbInit, OwnerAt, Control, ControlAt, TypeOK
  <2>2. SameAdding
    BY <1>0, <1>1 DEF MbInit, OwnerAt, SameAdding, TypeOK
  <2>3. CASE n = m
    <3>1. ~Unposted(n)
      BY <1>0, <2>1, <2>3, Controlled DEF Unposted, Started, StartedAt
    <3>2. Owed(n)' = 0
      BY <2>2, <3>1, SameOwed DEF Owed, One
    <3>3. Hand(n)' = 0 /\ Shut(n)' = 0 /\ Len(queue'[n]) = 0 /\ items'[n] = 0
      BY <2>1, <2>3 DEF Hand, Shut, One
    <3> QED  BY <3>2, <3>3 DEF ItemsAt
  <2>4. CASE n # m
    <3>1. (Served(n)' => Served(n)) /\ Hand(n)' = Hand(n) /\ Shut(n)' = Shut(n)
      BY <1>0, <1>1, <2>4 DEF MbInit, Served, Hand, Shut, One, NotFin, TypeOK
    <3> QED  BY <1>0, <2>1, <2>2, <3>1, SameOwed, ItemsFrame
  <2> QED  BY <2>3, <2>4
<1>2. ASSUME NEW m \in Boxes, GetRecipient(m)  PROVE ItemsAt(n)'
  <2>1. SameAdding
    BY <1>0, <1>2 DEF GetRecipient, OwnerAt, SameAdding, TypeOK, ownvars, svcvars
  <2>2. items' = items /\ queue' = queue /\ Shut(n)' = Shut(n)
    BY <1>2 DEF GetRecipient, boxvars, Shut
  <2>3. (Served(n)' => Served(n)) /\ Hand(n)' = Hand(n)
    BY <1>0, <1>2 DEF GetRecipient, OwnerAt, Served, Hand, One, NotFin, TypeOK, boxvars, ownvars, svcvars
  <2> QED  BY <1>0, <2>1, <2>2, <2>3, SameOwed, ItemsFrame
<1>3. ASSUME NEW m \in Boxes, AddMessage(m)  PROVE ItemsAt(n)'
  <2> DEFINE to == dest[m]
  <2>1. PICK e \in Entries : to \in Boxes /\ Grows(queue, queue', to, e)
    BY <1>0, <1>3, AddEffect
  <2> HIDE DEF to
  <2>2. /\ mutex[to] = NoThread /\ opc[m] = "add" /\ opc' = [opc EXCEPT ![m] = "ref"]
        /\ UNCHANGED <<items, defunct, live, dest, spc, fin>>
    BY <1>3 DEF AddMessage, OwnerAt, Unlocked, svcvars, to
  <2>3. (Served(n)' => Served(n)) /\ Hand(n)' = Hand(n) /\ Shut(n)' = Shut(n)
    BY <2>2 DEF Served, Hand, Shut, One, NotFin
  <2>4. CASE n = to
    <3>1. ~Unposted(n)
      BY <1>0, <2>1, <2>2, <2>4, FreeMutex DEF Unposted
    <3>2. Unposted(n)'
      BY <1>0, <2>2, <2>4 DEF Unposted, TypeOK, to
    <3>3. Len(queue'[n]) = Len(queue[n]) + 1 /\ items'[n] = items[n]
      BY <1>0, <2>1, <2>2, <2>4 DEF TypeOK, Grows
    <3>4. Owed(n) = 0 /\ Owed(n)' = 1
      BY <3>1, <3>2 DEF Owed, One
    <3> QED  BY <1>0, <2>3, <3>3, <3>4, ItemsTerms DEF ItemsAt
  <2>5. CASE n # to
    <3>1. Owed(n)' = Owed(n)
      BY <1>0, <2>2, <2>5 DEF Owed, Unposted, One, TypeOK, to
    <3>2. queue'[n] = queue[n] /\ items'[n] = items[n]
      BY <2>1, <2>2, <2>5 DEF Grows
    <3> QED  BY <1>0, <2>3, <3>1, <3>2, ItemsFrame
  <2> QED  BY <2>4, <2>5
<1>4. ASSUME NEW m \in Boxes, AddMessageEnd(m)  PROVE ItemsAt(n)'
  <2> DEFINE to == dest[m]
  <2>1. opc[m] = "ref" /\ to \in Boxes
    BY <1>0, <1>4, Controlled DEF AddMessageEnd, OwnerAt
  <2>2. mutex[to] = Owner(m)
    BY <1>0, <2>1 DEF Mutexes, MutexAt
  <2> HIDE DEF to
  <2>3. /\ opc' = [opc EXCEPT ![m] = "drop"] /\ items' = [items EXCEPT ![to] = @ + 1]
        /\ UNCHANGED <<queue, defunct, live, dest, spc, fin>>
    BY <1>4 DEF AddMessageEnd, svcvars, to
  <2>4. (Served(n)' => Served(n)) /\ Hand(n)' = Hand(n) /\ Shut(n)' = Shut(n)
    BY <2>3 DEF Served, Hand, Shut, One, NotFin
  <2>5. CASE n = to
    <3>1. Unposted(n)
      BY <2>1, <2>5 DEF Unposted, to
    <3>2. ~Unposted(n)'
      <4> SUFFICES ASSUME NEW b \in Boxes, opc'[b] = "ref", dest'[b] = n  PROVE FALSE
        BY DEF Unposted
      <4>1. b # m /\ opc[b] = "ref" /\ dest[b] = to
        BY <1>0, <2>1, <2>3, <2>5 DEF TypeOK
      <4>2. mutex[to] = Owner(b)
        BY <1>0, <4>1 DEF Mutexes, MutexAt
      <4> QED  BY <2>2, <4>1, <4>2, ThreadFacts
    <3>3. items'[n] = items[n] + 1 /\ queue'[n] = queue[n]
      BY <1>0, <2>1, <2>3, <2>5 DEF TypeOK
    <3>4. Owed(n) = 1 /\ Owed(n)' = 0
      BY <3>1, <3>2 DEF Owed, One
    <3> QED  BY <1>0, <2>4, <3>3, <3>4, ItemsTerms DEF ItemsAt
  <2>6. CASE n # to
    <3>1. Owed(n)' = Owed(n)
      BY <1>0, <2>3, <2>6 DEF Owed, Unposted, One, TypeOK, to
    <3>2. items'[n] = items[n] /\ queue'[n] = queue[n]
      BY <1>0, <2>3, <2>6 DEF TypeOK
    <3> QED  BY <1>0, <2>4, <3>1, <3>2, ItemsFrame
  <2> QED  BY <2>5, <2>6
<1>5. ASSUME NEW m \in Boxes, DropRecipient(m)  PROVE ItemsAt(n)'
  <2>1. dest[m] \in Boxes /\ Unref(Owner(m), dest[m]) /\ fin[Owner(m)] = NoBox
    BY <1>0, <1>5, Controlled DEF DropRecipient, OwnerAt
  <2>2. SameAdding
    BY <1>0, <1>5 DEF DropRecipient, OwnerAt, SameAdding, TypeOK, ownvars, svcvars
  <2>3. items' = items /\ queue' = queue /\ Shut(n)' = Shut(n) /\ live' = live
    BY <1>5 DEF DropRecipient, boxvars, Shut
  <2>4. NotFin(n)' => NotFin(n)
    BY <1>0, <2>1, ThreadFacts, UnrefFin
  <2>5. (Served(n)' => Served(n)) /\ (Served(n)' => Hand(n)' = Hand(n))
    BY <1>0, <1>5, <2>3, <2>4 DEF DropRecipient, OwnerAt, Served, Hand, One, TypeOK, svcvars
  <2>6. CASE Served(n)'
    BY <1>0, <2>2, <2>3, <2>5, <2>6, SameOwed, ItemsFrame
  <2>7. CASE ~Served(n)'
    BY <2>7 DEF ItemsAt
  <2> QED  BY <2>6, <2>7
<1>6. ASSUME NEW m \in Boxes, MbShutdown(m)  PROVE ItemsAt(n)'
  <2>1. /\ opc[m] = "idle" /\ ~defunct[m] /\ defunct' = [defunct EXCEPT ![m] = TRUE]
        /\ items' = [items EXCEPT ![m] = @ + 1] /\ opc' = [opc EXCEPT ![m] = "unref"]
        /\ UNCHANGED <<queue, live, dest, spc, fin>>
    BY <1>0, <1>6 DEF MbShutdown, OwnerAt, Wakeup, Control, ControlAt, svcvars
  <2>2. SameAdding
    BY <1>0, <2>1 DEF SameAdding, TypeOK
  <2>3. (Served(n)' => Served(n)) /\ Hand(n)' = Hand(n) /\ Owed(n)' = Owed(n)
    BY <2>1, <2>2, SameOwed DEF Served, Hand, One, NotFin
  <2>4. CASE n = m
    <3>1. items'[n] = items[n] + 1 /\ queue'[n] = queue[n] /\ Shut(n)' = 1 /\ Shut(n) = 0
      BY <1>0, <2>1, <2>4 DEF TypeOK, Shut, One
    <3>8. /\ Hand(n) \in Nat /\ Owed(n) \in Nat /\ Shut(n) \in Nat
          /\ items[n] \in Nat /\ Len(queue[n]) \in Nat
      BY <1>0, ItemsTerms
    <3>9. Served(n)' => items'[n] + Hand(n)' + Owed(n)' = Len(queue'[n]) + Shut(n)'
      <4> SUFFICES ASSUME Served(n)'
                   PROVE  items'[n] + Hand(n)' + Owed(n)' = Len(queue'[n]) + Shut(n)'
        OBVIOUS
      <4>1. items[n] + Hand(n) + Owed(n) = Len(queue[n]) + Shut(n)
        BY <1>0, <2>3 DEF ItemsAt
      <4> QED  BY <2>3, <3>1, <3>8, <4>1
    <3> QED  BY <3>9 DEF ItemsAt
  <2>5. CASE n # m
    <3>1. items'[n] = items[n] /\ queue'[n] = queue[n] /\ Shut(n)' = Shut(n)
      BY <1>0, <2>1, <2>5 DEF TypeOK, Shut, One
    <3> QED  BY <1>0, <2>3, <3>1, ItemsFrame
  <2> QED  BY <2>4, <2>5
<1>7. ASSUME NEW m \in Boxes, LogoutUnref(m)  PROVE ItemsAt(n)'
  <2>1. Unref(Owner(m), m) /\ fin[Owner(m)] = NoBox
    BY <1>7 DEF LogoutUnref, OwnerAt
  <2>2. SameAdding
    BY <1>0, <1>7 DEF LogoutUnref, OwnerAt, SameAdding, TypeOK, ownvars, svcvars
  <2>3. items' = items /\ queue' = queue /\ Shut(n)' = Shut(n) /\ live' = live
    BY <1>7 DEF LogoutUnref, boxvars, Shut
  <2>4. NotFin(n)' => NotFin(n)
    BY <1>0, <2>1, ThreadFacts, UnrefFin
  <2>5. (Served(n)' => Served(n)) /\ (Served(n)' => Hand(n)' = Hand(n))
    BY <1>0, <1>7, <2>3, <2>4 DEF LogoutUnref, OwnerAt, Served, Hand, One, TypeOK, svcvars
  <2>6. CASE Served(n)'
    BY <1>0, <2>2, <2>3, <2>5, <2>6, SameOwed, ItemsFrame
  <2>7. CASE ~Served(n)'
    BY <2>7 DEF ItemsAt
  <2> QED  BY <2>6, <2>7
<1>8. ASSUME NEW m \in Boxes, ServiceStart(m)  PROVE ItemsAt(n)'
  <2>1. SameAdding
    BY <1>0, <1>8 DEF ServiceStart, ServiceAt, SameAdding, TypeOK, ownvars, svcvars
  <2>2. items' = items /\ queue' = queue /\ Shut(n)' = Shut(n)
    BY <1>8 DEF ServiceStart, boxvars, Shut
  <2>3. (Served(n)' => Served(n)) /\ Hand(n)' = Hand(n)
    BY <1>0, <1>8 DEF ServiceStart, ServiceAt, Served, Hand, One, NotFin, TypeOK, boxvars, ownvars, svcvars
  <2> QED  BY <1>0, <2>1, <2>2, <2>3, SameOwed, ItemsFrame
<1>9. ASSUME NEW m \in Boxes, MbSetDiscardHook(m)  PROVE ItemsAt(n)'
  <2>1. SameAdding
    BY <1>0, <1>9 DEF MbSetDiscardHook, ServiceAt, SameAdding, TypeOK, ownvars, svcvars
  <2>2. items' = items /\ queue' = queue /\ Shut(n)' = Shut(n)
    BY <1>9 DEF MbSetDiscardHook, boxvars, Shut
  <2>3. (Served(n)' => Served(n)) /\ Hand(n)' = Hand(n)
    BY <1>0, <1>9 DEF MbSetDiscardHook, ServiceAt, Served, Hand, One, NotFin, TypeOK, boxvars, ownvars, svcvars
  <2> QED  BY <1>0, <2>1, <2>2, <2>3, SameOwed, ItemsFrame
<1>10. ASSUME NEW m \in Boxes, WaitItem(m)  PROVE ItemsAt(n)'
  <2>1. /\ spc[m] = "wait" /\ spc' = [spc EXCEPT ![m] = "lock"] /\ items[m] > 0
        /\ items' = [items EXCEPT ![m] = @ - 1]
        /\ UNCHANGED <<queue, live, defunct, opc, dest, fin>>
    BY <1>10 DEF WaitItem, ServiceAt, ownvars
  <2>2. SameAdding
    BY <2>1 DEF SameAdding
  <2>3. (Served(n)' => Served(n)) /\ Owed(n)' = Owed(n) /\ Shut(n)' = Shut(n)
    BY <1>0, <2>1, <2>2, SameOwed DEF Served, NotFin, Shut, TypeOK
  <2>4. CASE n = m
    <3>1. items'[n] = items[n] - 1 /\ queue'[n] = queue[n] /\ Hand(n)' = 1 /\ Hand(n) = 0
      BY <1>0, <2>1, <2>4 DEF TypeOK, Hand, One
    <3>8. /\ Hand(n) \in Nat /\ Owed(n) \in Nat /\ Shut(n) \in Nat
          /\ items[n] \in Nat /\ Len(queue[n]) \in Nat
      BY <1>0, ItemsTerms
    <3>9. Served(n)' => items'[n] + Hand(n)' + Owed(n)' = Len(queue'[n]) + Shut(n)'
      <4> SUFFICES ASSUME Served(n)'
                   PROVE  items'[n] + Hand(n)' + Owed(n)' = Len(queue'[n]) + Shut(n)'
        OBVIOUS
      <4>1. items[n] + Hand(n) + Owed(n) = Len(queue[n]) + Shut(n)
        BY <1>0, <2>3 DEF ItemsAt
      <4> QED  BY <2>3, <3>1, <3>8, <4>1
    <3> QED  BY <3>9 DEF ItemsAt
  <2>5. CASE n # m
    <3>1. items'[n] = items[n] /\ queue'[n] = queue[n] /\ Hand(n)' = Hand(n)
      BY <1>0, <2>1, <2>5 DEF TypeOK, Hand, One
    <3> QED  BY <1>0, <2>3, <3>1, ItemsFrame
  <2> QED  BY <2>4, <2>5
<1>11. ASSUME NEW m \in Boxes, NextIsNull(m)  PROVE ItemsAt(n)'
  <2>1. /\ spc[m] = "lock" /\ spc' = [spc EXCEPT ![m] = "end"]
        /\ UNCHANGED <<queue, items, live, defunct, opc, dest, fin>>
    BY <1>11 DEF NextIsNull, ServiceAt, boxvars, ownvars
  <2>2. SameAdding
    BY <2>1 DEF SameAdding
  <2>3. CASE n = m
    <3>1. ~Served(m)'
      BY <1>0, <2>1 DEF Served, TypeOK
    <3> QED  BY <2>3, <3>1 DEF ItemsAt
  <2>4. CASE n # m
    <3>1. (Served(n)' => Served(n)) /\ Hand(n)' = Hand(n) /\ Shut(n)' = Shut(n)
      BY <1>0, <2>1, <2>4 DEF Served, Hand, Shut, One, NotFin, TypeOK
    <3> QED  BY <1>0, <2>1, <2>2, <3>1, SameOwed, ItemsFrame
  <2> QED  BY <2>3, <2>4
<1>12. ASSUME NEW m \in Boxes, LockHead(m)  PROVE ItemsAt(n)'
  <2>1. SameAdding
    BY <1>0, <1>12 DEF LockHead, ServiceAt, SameAdding, TypeOK, ownvars, svcvars
  <2>2. items' = items /\ queue' = queue /\ Shut(n)' = Shut(n)
    BY <1>12 DEF LockHead, boxvars, Shut
  <2>3. (Served(n)' => Served(n)) /\ Hand(n)' = Hand(n)
    BY <1>0, <1>12 DEF LockHead, ServiceAt, Served, Hand, One, NotFin, TypeOK, boxvars, ownvars, svcvars
  <2> QED  BY <1>0, <2>1, <2>2, <2>3, SameOwed, ItemsFrame
<1>13. ASSUME NEW m \in Boxes, UnrefSender(m)  PROVE ItemsAt(n)'
  <2> DEFINE e == Head(queue[m])
  <2>0. e.from \in Boxes /\ fin[Service(m)] = NoBox
    BY <1>0, <1>13, HeadExists, HeadStarted DEF UnrefSender, ServiceAt
  <2>1. Unref(Service(m), e.from) \/ UNCHANGED fin
    BY <1>13 DEF UnrefSender
  <2>2. SameAdding
    BY <1>0, <1>13 DEF UnrefSender, ServiceAt, SameAdding, TypeOK, ownvars, svcvars
  <2>3. items' = items /\ queue' = queue /\ Shut(n)' = Shut(n) /\ live' = live
    BY <1>13 DEF UnrefSender, boxvars, Shut
  <2>4. NotFin(n)' => NotFin(n)
    <3>1. CASE Unref(Service(m), e.from)
      BY <1>0, <2>0, <3>1, ThreadFacts, UnrefFin
    <3>2. CASE UNCHANGED fin
      BY <3>2 DEF NotFin
    <3> QED  BY <2>1, <3>1, <3>2
  <2>5. (Served(n)' => Served(n)) /\ (Served(n)' => Hand(n)' = Hand(n))
    BY <1>0, <1>13, <2>3, <2>4 DEF UnrefSender, ServiceAt, Served, Hand, One, TypeOK, svcvars
  <2>6. CASE Served(n)'
    BY <1>0, <2>2, <2>3, <2>5, <2>6, SameOwed, ItemsFrame
  <2>7. CASE ~Served(n)'
    BY <2>7 DEF ItemsAt
  <2> QED  BY <2>6, <2>7
<1>14. ASSUME NEW m \in Boxes, PopHead(m)  PROVE ItemsAt(n)'
  <2>1. /\ spc[m] = "pop" /\ spc' = [spc EXCEPT ![m] = "send"]
        /\ UNCHANGED <<items, live, defunct, opc, dest, fin>>
        /\ Shrinks(queue, queue', m)
    BY <1>0, <1>14, PopEffect DEF PopHead, ServiceAt, ownvars
  <2>2. SameAdding
    BY <2>1 DEF SameAdding
  <2>3. (Served(n)' => Served(n)) /\ Owed(n)' = Owed(n) /\ Shut(n)' = Shut(n)
    BY <1>0, <2>1, <2>2, SameOwed DEF Served, NotFin, Shut, TypeOK
  <2>4. CASE n = m
    <3>1. items'[n] = items[n] /\ Hand(n)' = 0 /\ Hand(n) = 1
      BY <1>0, <2>1, <2>4 DEF TypeOK, Hand, One
    <3>2. Len(queue'[n]) = Len(queue[n]) - 1
      BY <1>0, <2>1, <2>4 DEF TypeOK, Shrinks
    <3>8. /\ Hand(n) \in Nat /\ Owed(n) \in Nat /\ Shut(n) \in Nat
          /\ items[n] \in Nat /\ Len(queue[n]) \in Nat
      BY <1>0, ItemsTerms
    <3>9. Served(n)' => items'[n] + Hand(n)' + Owed(n)' = Len(queue'[n]) + Shut(n)'
      <4> SUFFICES ASSUME Served(n)'
                   PROVE  items'[n] + Hand(n)' + Owed(n)' = Len(queue'[n]) + Shut(n)'
        OBVIOUS
      <4>1. items[n] + Hand(n) + Owed(n) = Len(queue[n]) + Shut(n)
        BY <1>0, <2>3 DEF ItemsAt
      <4> QED  BY SMTT(30), <2>3, <3>1, <3>2, <3>8, <4>1
    <3> QED  BY <3>9 DEF ItemsAt
  <2>5. CASE n # m
    <3>1. items'[n] = items[n] /\ queue'[n] = queue[n] /\ Hand(n)' = Hand(n)
      BY <1>0, <2>1, <2>5 DEF TypeOK, Hand, One, Shrinks
    <3> QED  BY <1>0, <2>3, <3>1, ItemsFrame
  <2> QED  BY <2>4, <2>5
<1>15. ASSUME NEW m \in Boxes, SendMessage(m)  PROVE ItemsAt(n)'
  <2>1. /\ spc[m] = "send" /\ spc' = [spc EXCEPT ![m] = "wait"]
        /\ UNCHANGED <<live, defunct, opc, dest, fin>>
        /\ cur[m].from \in Boxes /\ Notified(queue, queue', cur[m])
    BY <1>0, <1>15, SendEffect DEF SendMessage, ServiceAt, ownvars
  <2>2. SameAdding
    BY <2>1 DEF SameAdding
  <2>3. (Served(n)' => Served(n)) /\ Owed(n)' = Owed(n) /\ Hand(n)' = Hand(n)
        /\ Shut(n)' = Shut(n)
    BY <1>0, <2>1, <2>2, SameOwed DEF Served, NotFin, Hand, Shut, One, TypeOK
  <2>4. CASE n = cur[m].from
    <3>1. items'[n] = items[n] + 1 /\ Len(queue'[n]) = Len(queue[n]) + 1
      BY SMTT(30), <1>0, <2>1, <2>4 DEF Notified, Grows, TypeOK
    <3> QED  BY <1>0, <2>1, <2>3, <3>1, ItemsNoticed
  <2>5. CASE n # cur[m].from
    <3>1. items'[n] = items[n] /\ queue'[n] = queue[n]
      BY <2>1, <2>5 DEF Notified, Grows
    <3> QED  BY <1>0, <2>1, <2>3, <3>1, ItemsFrame
  <2> QED  BY <2>4, <2>5
<1>16. ASSUME NEW m \in Boxes, SendNotice(m)  PROVE ItemsAt(n)'
  <2>1. SameAdding
    BY <1>0, <1>16 DEF SendNotice, ServiceAt, SameAdding, TypeOK, ownvars, svcvars
  <2>2. items' = items /\ queue' = queue /\ Shut(n)' = Shut(n)
    BY <1>16 DEF SendNotice, boxvars, Shut
  <2>3. (Served(n)' => Served(n)) /\ Hand(n)' = Hand(n)
    BY <1>0, <1>16 DEF SendNotice, ServiceAt, Served, Hand, One, NotFin, TypeOK, boxvars, ownvars, svcvars
  <2> QED  BY <1>0, <2>1, <2>2, <2>3, SameOwed, ItemsFrame
<1>17. ASSUME NEW m \in Boxes, ServiceEnd(m)  PROVE ItemsAt(n)'
  <2>1. Unref(Service(m), m) /\ fin[Service(m)] = NoBox
    BY <1>17 DEF ServiceEnd, ServiceAt
  <2>2. SameAdding
    BY <1>0, <1>17 DEF ServiceEnd, ServiceAt, SameAdding, TypeOK, ownvars, svcvars
  <2>3. items' = items /\ queue' = queue /\ Shut(n)' = Shut(n) /\ live' = live
    BY <1>17 DEF ServiceEnd, boxvars, Shut
  <2>4. NotFin(n)' => NotFin(n)
    BY <1>0, <2>1, ThreadFacts, UnrefFin
  <2>5. (Served(n)' => Served(n)) /\ (Served(n)' => Hand(n)' = Hand(n))
    BY <1>0, <1>17, <2>3, <2>4 DEF ServiceEnd, ServiceAt, Served, Hand, One, TypeOK, svcvars
  <2>6. CASE Served(n)'
    BY <1>0, <2>2, <2>3, <2>5, <2>6, SameOwed, ItemsFrame
  <2>7. CASE ~Served(n)'
    BY <2>7 DEF ItemsAt
  <2> QED  BY <2>6, <2>7
<1>18. ASSUME NEW t \in Threads, DiscardHead(t)  PROVE ItemsAt(n)'
  <2> DEFINE h == Head(queue[fin[t]])
  <2>1. h.from \in Boxes /\ UNCHANGED <<live, defunct, opc, dest, spc, fin>>
    BY <1>0, <1>18, DiscardEffect DEF DiscardHead, ownvars, svcvars
  <2>2. PICK q \in Queues : /\ Shrinks(queue, q, fin[t])
                            /\ (queue' = q /\ items' = items) \/ Notified(q, queue', h)
    BY <1>0, <1>18, DiscardEffect
  <2> HIDE DEF h
  <2>3. SameAdding
    BY <2>1 DEF SameAdding
  <2>4. (Served(n)' => Served(n)) /\ Owed(n)' = Owed(n) /\ Hand(n)' = Hand(n)
        /\ Shut(n)' = Shut(n)
    BY <2>1, <2>3, SameOwed DEF Served, NotFin, Hand, Shut, One
  <2>5. CASE n = fin[t]
    <3>1. ~Served(n)'
      BY <2>1, <2>5 DEF Served, NotFin
    <3> QED  BY <3>1 DEF ItemsAt
  <2>6. CASE n # fin[t]
    <3>1. q[n] = queue[n]
      BY <2>2, <2>6 DEF Shrinks
    <3>2. CASE Notified(q, queue', h) /\ n = h.from
      <4>1. items'[n] = items[n] + 1 /\ Len(queue'[n]) = Len(queue[n]) + 1
        BY SMTT(30), <1>0, <3>1, <3>2 DEF Notified, Grows, TypeOK
      <4> QED  BY <1>0, <2>1, <2>4, <4>1, ItemsNoticed
    <3>3. CASE ~(Notified(q, queue', h) /\ n = h.from)
      <4>1. items'[n] = items[n] /\ queue'[n] = queue[n]
        BY <2>2, <3>1, <3>3 DEF Notified, Grows
      <4> QED  BY <1>0, <2>1, <2>4, <4>1, ItemsFrame
    <3> QED  BY <3>2, <3>3
  <2> QED  BY <2>5, <2>6
<1>19. ASSUME NEW t \in Threads, Free(t)  PROVE ItemsAt(n)'
  <2> DEFINE m == fin[t]
  <2>1. /\ m \in Boxes /\ live' = [live EXCEPT ![m] = FALSE] /\ fin' = [fin EXCEPT ![t] = NoBox]
        /\ UNCHANGED <<queue, items, defunct, opc, dest, spc>>
    BY <1>0, <1>19 DEF Free, TypeOK, ownvars, svcvars
  <2> HIDE DEF m
  <2>2. SameAdding
    BY <2>1 DEF SameAdding
  <2>3. Hand(n)' = Hand(n) /\ Shut(n)' = Shut(n)
    BY <2>1 DEF Hand, Shut, One
  <2>4. Served(n)' => Served(n)
    <3>1. Served(n)' => n # m
      BY <1>0, <2>1 DEF Served, TypeOK
    <3>2. n # m /\ NotFin(n)' => NotFin(n)
      BY <1>0, <2>1 DEF NotFin, TypeOK, m
    <3>3. n # m => live'[n] = live[n]
      BY <1>0, <2>1 DEF TypeOK
    <3> QED  BY <2>1, <3>1, <3>2, <3>3 DEF Served
  <2> QED  BY <1>0, <2>1, <2>2, <2>3, <2>4, SameOwed, ItemsFrame
<1>20. CASE UNCHANGED vars
  <2>1. SameAdding /\ UNCHANGED <<items, queue, defunct, live, spc, fin>>
    BY <1>20 DEF SameAdding, vars, boxvars, ownvars, svcvars
  <2>2. (Served(n)' => Served(n)) /\ Hand(n)' = Hand(n) /\ Shut(n)' = Shut(n)
    BY <2>1 DEF Served, Hand, Shut, One, NotFin
  <2> QED  BY <1>0, <2>1, <2>2, SameOwed, ItemsFrame
<1> QED
  BY <1>1, <1>2, <1>3, <1>4, <1>5, <1>6, <1>7, <1>8, <1>9, <1>10, <1>11, <1>12, <1>13, <1>14, <1>15, <1>16, <1>17, <1>18, <1>19, <1>20
     DEF Next, OwnerStep, ServiceStep, FinalizeStep

-----------------------------------------------------------------------------
(* RefsCountPointers is preserved *)

\* The terms of RefsCountPointers for one mailbox.
Lent(m) == One(opc[m] = "ref" /\ dest[m] # m)
Kept(m) == One(opc[m] \notin {"start", "out"})
Tended(m) == One(spc[m] \notin {"none", "created", "done"})
Popped(m) == Cardinality(Popping(m))
Aimed(m) == Cardinality(Senders(m))
Posted(m) == Cardinality(Pointers(queue, m))
RefsAt(m) ==
  refs[m] + Lent(m) + Popped(m) = Kept(m) + Tended(m) + Aimed(m) + Posted(m) + leaked[m]

\* RefsCountPointers, mailbox by mailbox.
LEMMA RefsEach == RefsCountPointers <=> \A m \in Boxes : RefsAt(m)
BY DEF RefsCountPointers, RefsAt, Lent, Kept, Tended, Popped, Aimed, Posted

\* Its terms are numbers.
LEMMA RefsTerms ==
  ASSUME TypeOK, NEW n \in Boxes
  PROVE  /\ refs[n] \in Nat /\ Lent(n) \in Nat /\ Popped(n) \in Nat /\ Kept(n) \in Nat
         /\ Tended(n) \in Nat /\ Aimed(n) \in Nat /\ Posted(n) \in Nat /\ leaked[n] \in Nat
<1>1. Popped(n) \in Nat /\ Aimed(n) \in Nat
  BY SetsFinite DEF Popped, Aimed
<1>2. Posted(n) \in Nat
  BY PointersFinite DEF Posted, TypeOK, Queues
<1> QED  BY <1>1, <1>2 DEF Lent, Kept, Tended, One, TypeOK

\* The ways in which the steps keep the sum: a reference moves from one term to
\* another, or is taken or given back with a pointer.
LEMMA Moves ==
  ASSUME TypeOK, NEW n \in Boxes, RefsAt(n)
  PROVE  LET r == refs[n]   l == Lent(n)   p == Popped(n)   k == Kept(n)
             a == Tended(n) s == Aimed(n)  q == Posted(n)   x == leaked[n]
         IN /\ (r + 1) + l + p = (k + 1) + a + s + q + x
            /\ (r + 1) + l + p = k + (a + 1) + s + q + x
            /\ (r + 1) + l + p = k + a + (s + 1) + q + x
            /\ (r + 1) + (l - 1) + p = k + a + s + q + x
            /\ (r - 1) + l + p = (k - 1) + a + s + q + x
            /\ (r - 1) + l + p = k + (a - 1) + s + q + x
            /\ (r - 1) + l + p = k + a + (s - 1) + q + x
            /\ (r - 1) + l + (p + 1) = k + a + s + q + x
            /\ r + (l + 1) + p = k + a + s + (q + 1) + x
            /\ r + l + (p - 1) = k + a + s + (q - 1) + x
            /\ r + l + p = k + a + s + (q - 1) + (x + 1)
<1> DEFINE r == refs[n]   l == Lent(n)   p == Popped(n)   k == Kept(n)
           a == Tended(n) s == Aimed(n)  q == Posted(n)   x == leaked[n]
<1>1. /\ r \in Nat /\ l \in Nat /\ p \in Nat /\ k \in Nat
      /\ a \in Nat /\ s \in Nat /\ q \in Nat /\ x \in Nat
  BY RefsTerms
<1>2. r + l + p = k + a + s + q + x
  BY DEF RefsAt
<1> HIDE DEF r, l, p, k, a, s, q, x
<1>3. /\ (r + 1) + l + p = (k + 1) + a + s + q + x
      /\ (r + 1) + l + p = k + (a + 1) + s + q + x
      /\ (r + 1) + l + p = k + a + (s + 1) + q + x
      /\ (r + 1) + (l - 1) + p = k + a + s + q + x
      /\ (r - 1) + l + p = (k - 1) + a + s + q + x
      /\ (r - 1) + l + p = k + (a - 1) + s + q + x
      /\ (r - 1) + l + p = k + a + (s - 1) + q + x
      /\ (r - 1) + l + (p + 1) = k + a + s + q + x
      /\ r + (l + 1) + p = k + a + s + (q + 1) + x
      /\ r + l + (p - 1) = k + a + s + (q - 1) + x
      /\ r + l + p = k + a + s + (q - 1) + (x + 1)
  BY <1>1, <1>2
<1> QED  BY <1>3 DEF r, l, p, k, a, s, q, x

\* No service thread begins or ends unlinking a head, and what is being
\* unlinked does not change.
SamePopping ==
  \A b \in Boxes : /\ spc'[b] = "pop" <=> spc[b] = "pop"
                   /\ spc[b] = "pop" => queue'[b] = queue[b]

\* Nothing more is popped while the service threads stay where they are.
LEMMA SamePopped ==
  ASSUME SamePopping, NEW n \in Boxes
  PROVE  Popped(n)' = Popped(n)
<1>1. Popping(n)' = Popping(n)
  BY DEF SamePopping, Popping
<1> QED  BY <1>1 DEF Popped

\* Terms that follow a variable that does not change.
LEMMA SameTerms ==
  ASSUME NEW n \in Boxes
  PROVE  /\ dest' = dest => Aimed(n)' = Aimed(n)
         /\ queue' = queue => Posted(n)' = Posted(n)
         /\ opc'[n] = opc[n] /\ dest'[n] = dest[n] => Lent(n)' = Lent(n)
         /\ opc'[n] = opc[n] => Kept(n)' = Kept(n)
         /\ spc'[n] = spc[n] => Tended(n)' = Tended(n)
BY DEF Aimed, Senders, Posted, Lent, Kept, Tended

\* A box with an entry appended, a box with its head removed.
LEMMA PostedGrows ==
  ASSUME TypeOK, TypeOK', NEW b \in Boxes, NEW e \in Entries, Grows(queue, queue', b, e),
         NEW n \in Boxes
  PROVE  /\ b # n /\ MessageOf(n, e) => Posted(n)' = Posted(n) + 1
         /\ ~(b # n /\ MessageOf(n, e)) => Posted(n)' = Posted(n)
<1>1. queue \in Queues /\ queue' \in Queues
  BY DEF TypeOK, Queues
<1>2. Cardinality(Pointers(queue', n)) = Cardinality(Pointers(queue, n)) + One(b # n /\ MessageOf(n, e))
  BY <1>1, PointersAppend DEF Grows
<1>3. Cardinality(Pointers(queue, n)) \in Nat
  BY <1>1, PointersFinite
<1> QED  BY <1>2, <1>3 DEF One, Posted

\* Removing the head removes at most one pointer to a mailbox.
LEMMA PostedShrinks ==
  ASSUME TypeOK, NEW r \in Queues, NEW b \in Boxes, Shrinks(queue, r, b), NEW n \in Boxes
  PROVE  /\ b # n /\ MessageOf(n, Head(queue[b])) => Cardinality(Pointers(r, n)) = Posted(n) - 1
         /\ ~(b # n /\ MessageOf(n, Head(queue[b]))) => Cardinality(Pointers(r, n)) = Posted(n)
<1>1. queue \in Queues
  BY DEF TypeOK, Queues
<1>2. Cardinality(Pointers(queue, n))
        = Cardinality(Pointers(r, n)) + One(b # n /\ MessageOf(n, Head(queue[b])))
  BY <1>1, PointersTail DEF Shrinks
<1>3. Cardinality(Pointers(r, n)) \in Nat
  BY PointersFinite
<1> QED  BY <1>2, <1>3 DEF One, Posted

\* Every step keeps each reference count in step with the references.
LEMMA RefsStep ==
  ASSUME IInv, TypeOK', [Next]_vars
  PROVE  RefsCountPointers'
<1> SUFFICES ASSUME NEW n \in Boxes  PROVE RefsAt(n)'
  BY DEF RefsCountPointers, RefsAt, Lent, Kept, Tended, Popped, Aimed, Posted
<1>0. /\ TypeOK /\ Control /\ Started /\ Mutexes /\ ItemsCountEntries /\ RefsCountPointers
      /\ RefsAt(n)
  BY RefsEach DEF IInv
<1>1. ASSUME NEW m \in Boxes, MbInit(m)  PROVE RefsAt(n)'
  <2>1. /\ UNCHANGED <<queue, leaked, dest>> /\ SamePopping
        /\ opc[m] = "start" /\ refs[m] = 0 /\ opc' = [opc EXCEPT ![m] = "idle"]
        /\ refs' = [refs EXCEPT ![m] = 1]
    BY <1>0, <1>1 DEF MbInit, OwnerAt, SamePopping, TypeOK, Control, ControlAt
  <2>2. Tended(n)' = Tended(n) /\ Lent(n)' = Lent(n)
    BY <1>0, <1>1, <2>1 DEF MbInit, Tended, Lent, One, TypeOK, Control, ControlAt
  <2>3. CASE n = m
    <3>1. refs'[n] = refs[n] + 1 /\ Kept(n)' = 1 /\ Kept(n) = 0
      BY <1>0, <2>1, <2>3 DEF Kept, One, TypeOK
    <3>2. Kept(n)' = Kept(n) + 1
      BY <3>1
    <3> QED  BY <1>0, <2>1, <2>2, <3>1, <3>2, SamePopped, SameTerms, Moves DEF RefsAt
  <2>4. CASE n # m
    <3>1. refs'[n] = refs[n] /\ opc'[n] = opc[n]
      BY <1>0, <2>1, <2>4 DEF TypeOK
    <3> QED  BY <1>0, <2>1, <2>2, <3>1, SamePopped, SameTerms DEF RefsAt
  <2> QED  BY <2>3, <2>4
<1>2. ASSUME NEW m \in Boxes, GetRecipient(m)  PROVE RefsAt(n)'
  <2>1. PICK to \in Boxes : Ref(to) /\ dest' = [dest EXCEPT ![m] = to]
    BY <1>2 DEF GetRecipient
  <2>2. /\ UNCHANGED <<queue, leaked, spc>> /\ SamePopping /\ dest[m] = NoBox
        /\ refs' = [refs EXCEPT ![to] = @ + 1]
    <3>1. UNCHANGED <<queue, leaked, spc>> /\ opc[m] = "idle"
      BY <1>2 DEF GetRecipient, OwnerAt, svcvars
    <3>2. SamePopping
      BY <3>1 DEF SamePopping
    <3>3. dest[m] = NoBox
      BY <1>0, <3>1 DEF Control, ControlAt, TypeOK
    <3> QED  BY <2>1, <3>1, <3>2, <3>3 DEF Ref
  <2>3. Lent(n)' = Lent(n) /\ Kept(n)' = Kept(n)
    BY <1>0, <1>2, <2>1 DEF GetRecipient, OwnerAt, Lent, Kept, One, TypeOK
  <2>4. CASE n = to
    <3>0. dest'[m] = n /\ dest[m] # n /\ \A b \in Boxes : b # m => dest'[b] = dest[b]
      BY <1>0, <2>1, <2>2, <2>4, NoBoxAssumption DEF TypeOK
    <3>1. Senders(n)' = Senders(n) \cup {m} /\ m \notin Senders(n)
      BY <3>0 DEF Senders
    <3>2. Aimed(n)' = Aimed(n) + 1
      BY <3>1, SetsFinite, FS_AddElement DEF Aimed
    <3>3. refs'[n] = refs[n] + 1
      BY <1>0, <2>2, <2>4 DEF TypeOK
    <3> QED  BY <1>0, <2>2, <2>3, <3>2, <3>3, SamePopped, SameTerms, Moves DEF RefsAt
  <2>5. CASE n # to
    <3>1. Senders(n)' = Senders(n)
      BY <1>0, <2>1, <2>2, <2>5, NoBoxAssumption DEF Senders, TypeOK
    <3>2. refs'[n] = refs[n] /\ Aimed(n)' = Aimed(n)
      BY <1>0, <2>2, <2>5, <3>1 DEF TypeOK, Aimed
    <3> QED  BY <1>0, <2>2, <2>3, <3>2, SamePopped, SameTerms DEF RefsAt
  <2> QED  BY <2>4, <2>5
<1>3. ASSUME NEW m \in Boxes, AddMessage(m)  PROVE RefsAt(n)'
  <2> DEFINE to == dest[m]
  <2>1. PICK e \in Entries : /\ MessageOf(m, e) /\ e.from = m /\ to \in Boxes
                            /\ Grows(queue, queue', to, e)
    BY <1>0, <1>3, AddEffect
  <2>2. /\ UNCHANGED <<refs, leaked, dest, spc>> /\ mutex[to] = NoThread
        /\ opc[m] = "add" /\ opc' = [opc EXCEPT ![m] = "ref"]
    BY <1>3 DEF AddMessage, OwnerAt, Unlocked, svcvars
  <2>3. SamePopping
    BY <1>0, <2>1, <2>2, FreeMutex DEF SamePopping, Grows
  <2>4. Kept(n)' = Kept(n)
    BY <1>0, <2>2 DEF Kept, One, TypeOK
  <2>5. CASE n = m /\ to # m
    <3>1. Posted(n)' = Posted(n) + 1
      BY <1>0, <2>1, <2>5, PostedGrows
    <3>2. Lent(n) = 0 /\ Lent(n)' = 1
      BY <1>0, <2>2, <2>5 DEF Lent, One, TypeOK
    <3>3. Lent(n)' = Lent(n) + 1
      BY <3>2
    <3> QED  BY <1>0, <2>2, <2>3, <2>4, <3>1, <3>3, SamePopped, SameTerms, Moves DEF RefsAt
  <2>6. CASE ~(n = m /\ to # m)
    <3>1. ~(to # n /\ MessageOf(n, e))
      BY <2>1, <2>6 DEF MessageOf
    <3>2. Posted(n)' = Posted(n)
      BY <1>0, <2>1, <3>1, PostedGrows
    <3>3. Lent(n)' = Lent(n)
      BY <1>0, <2>2, <2>6 DEF Lent, One, TypeOK
    <3> QED  BY <1>0, <2>2, <2>3, <2>4, <3>2, <3>3, SamePopped, SameTerms DEF RefsAt
  <2> QED  BY <2>5, <2>6
<1>4. ASSUME NEW m \in Boxes, AddMessageEnd(m)  PROVE RefsAt(n)'
  <2>1. /\ UNCHANGED <<queue, leaked, dest, spc>> /\ SamePopping
        /\ opc[m] = "ref" /\ opc' = [opc EXCEPT ![m] = "drop"] /\ SenderRef(m, dest[m])
    BY <1>4 DEF AddMessageEnd, OwnerAt, svcvars, SamePopping
  <2>2. Kept(n)' = Kept(n)
    BY <1>0, <2>1 DEF Kept, One, TypeOK
  <2>3. CASE n = m /\ dest[m] # m
    <3>1. refs'[n] = refs[n] + 1
      BY <1>0, <2>1, <2>3 DEF SenderRef, Ref, TypeOK
    <3>2. Lent(n) = 1 /\ Lent(n)' = 0
      BY <1>0, <2>1, <2>3 DEF Lent, One, TypeOK
    <3>3. Lent(n)' = Lent(n) - 1
      BY <3>2
    <3> QED  BY <1>0, <2>1, <2>2, <3>1, <3>3, SamePopped, SameTerms, Moves DEF RefsAt
  <2>4. CASE ~(n = m /\ dest[m] # m)
    <3>1. refs'[n] = refs[n]
      BY <1>0, <2>1, <2>4 DEF SenderRef, Ref, TypeOK
    <3>2. Lent(n)' = Lent(n)
      BY <1>0, <2>1, <2>4 DEF Lent, One, TypeOK
    <3> QED  BY <1>0, <2>1, <2>2, <3>1, <3>2, SamePopped, SameTerms DEF RefsAt
  <2> QED  BY <2>3, <2>4
<1>5. ASSUME NEW m \in Boxes, DropRecipient(m)  PROVE RefsAt(n)'
  <2> DEFINE d == dest[m]
  <2>1. d \in Boxes /\ Unref(Owner(m), d)
    BY <1>0, <1>5, Controlled DEF DropRecipient, OwnerAt
  <2>2. /\ UNCHANGED <<queue, leaked, spc>> /\ SamePopping /\ dest' = [dest EXCEPT ![m] = NoBox]
        /\ opc[m] = "drop" /\ opc' = [opc EXCEPT ![m] = "idle"]
    BY <1>5 DEF DropRecipient, OwnerAt, SamePopping, svcvars
  <2>3. Lent(n)' = Lent(n) /\ Kept(n)' = Kept(n)
    BY <1>0, <2>2 DEF Lent, Kept, One, TypeOK
  <2>4. refs'[d] = refs[d] - 1 /\ \A c \in Boxes : c # d => refs'[c] = refs[c]
    BY <1>0, <2>1, UnrefEffect, ThreadFacts
  <2>5. CASE n = d
    <3>1. Senders(n)' = Senders(n) \ {m} /\ m \in Senders(n)
      BY <1>0, <2>1, <2>2, <2>5, NoBoxAssumption DEF Senders, TypeOK
    <3>2. Aimed(n)' = Aimed(n) - 1
      BY <3>1, SetsFinite, FS_RemoveElement DEF Aimed
    <3> QED  BY <1>0, <2>2, <2>3, <2>4, <2>5, <3>2, SamePopped, SameTerms, Moves DEF RefsAt
  <2>6. CASE n # d
    <3>1. Senders(n)' = Senders(n)
      BY <1>0, <2>2, <2>6, NoBoxAssumption DEF Senders, TypeOK
    <3>2. Aimed(n)' = Aimed(n)
      BY <3>1 DEF Aimed
    <3> QED  BY <1>0, <2>2, <2>3, <2>4, <2>6, <3>2, SamePopped, SameTerms DEF RefsAt
  <2> QED  BY <2>5, <2>6
<1>6. ASSUME NEW m \in Boxes, MbShutdown(m)  PROVE RefsAt(n)'
  <2>1. /\ UNCHANGED <<queue, refs, leaked, dest>>
        /\ SamePopping
    BY <1>0, <1>6 DEF MbShutdown, OwnerAt, SamePopping, TypeOK, boxvars, ownvars, svcvars
  <2>2. Lent(n)' = Lent(n) /\ Kept(n)' = Kept(n) /\ Tended(n)' = Tended(n)
    BY <1>0, <1>6 DEF MbShutdown, OwnerAt, Lent, Kept, Tended, One, TypeOK, boxvars, ownvars, svcvars
  <2> QED  BY <1>0, <2>1, <2>2, SamePopped, SameTerms DEF RefsAt
<1>7. ASSUME NEW m \in Boxes, LogoutUnref(m)  PROVE RefsAt(n)'
  <2>1. /\ UNCHANGED <<queue, leaked, dest, spc>> /\ SamePopping
        /\ opc[m] = "unref" /\ opc' = [opc EXCEPT ![m] = "out"] /\ Unref(Owner(m), m)
    BY <1>7 DEF LogoutUnref, OwnerAt, SamePopping, svcvars
  <2>2. Lent(n)' = Lent(n)
    BY <1>0, <2>1 DEF Lent, One, TypeOK
  <2>3. refs'[m] = refs[m] - 1 /\ \A c \in Boxes : c # m => refs'[c] = refs[c]
    BY <1>0, <2>1, UnrefEffect, ThreadFacts
  <2>4. CASE n = m
    <3>1. Kept(n) = 1 /\ Kept(n)' = 0
      BY <1>0, <2>1, <2>4 DEF Kept, One, TypeOK
    <3>2. Kept(n)' = Kept(n) - 1
      BY <3>1
    <3> QED  BY <1>0, <2>1, <2>2, <2>3, <2>4, <3>2, SamePopped, SameTerms, Moves DEF RefsAt
  <2>5. CASE n # m
    <3>1. opc'[n] = opc[n]
      BY <1>0, <2>1, <2>5 DEF TypeOK
    <3> QED  BY <1>0, <2>1, <2>2, <2>3, <2>5, <3>1, SamePopped, SameTerms DEF RefsAt
  <2> QED  BY <2>4, <2>5
<1>8. ASSUME NEW m \in Boxes, ServiceStart(m)  PROVE RefsAt(n)'
  <2>1. /\ UNCHANGED <<queue, leaked, dest, opc>> /\ SamePopping /\ spc[m] = "created"
    BY <1>0, <1>8 DEF ServiceStart, ServiceAt, SamePopping, ownvars, TypeOK
  <2>2. CASE Ref(m) /\ spc' = [spc EXCEPT ![m] = "hook"]
    <3>1. CASE n = m
      <4>1. refs'[n] = refs[n] + 1 /\ Tended(n) = 0 /\ Tended(n)' = 1
        BY <1>0, <2>1, <2>2, <3>1 DEF Ref, Tended, One, TypeOK
      <4>2. Tended(n)' = Tended(n) + 1
        BY <4>1
      <4> QED  BY <1>0, <2>1, <4>1, <4>2, SamePopped, SameTerms, Moves DEF RefsAt
    <3>2. CASE n # m
      <4>1. refs'[n] = refs[n] /\ spc'[n] = spc[n]
        BY <1>0, <2>2, <3>2 DEF Ref, TypeOK
      <4> QED  BY <1>0, <2>1, <4>1, SamePopped, SameTerms DEF RefsAt
    <3> QED  BY <3>1, <3>2
  <2>3. CASE UNCHANGED refs /\ spc' = [spc EXCEPT ![m] = "done"]
    <3>1. Tended(n)' = Tended(n)
      BY <1>0, <2>1, <2>3 DEF Tended, One, TypeOK
    <3> QED  BY <1>0, <2>1, <2>3, <3>1, SamePopped, SameTerms DEF RefsAt
  <2> QED  BY <1>8, <2>2, <2>3 DEF ServiceStart
<1>9. ASSUME NEW m \in Boxes, MbSetDiscardHook(m)  PROVE RefsAt(n)'
  <2>1. /\ UNCHANGED <<queue, refs, leaked, dest>>
        /\ SamePopping
    BY <1>0, <1>9 DEF MbSetDiscardHook, ServiceAt, SamePopping, TypeOK, boxvars, ownvars, svcvars
  <2>2. Lent(n)' = Lent(n) /\ Kept(n)' = Kept(n) /\ Tended(n)' = Tended(n)
    BY <1>0, <1>9 DEF MbSetDiscardHook, ServiceAt, Lent, Kept, Tended, One, TypeOK, boxvars, ownvars, svcvars
  <2> QED  BY <1>0, <2>1, <2>2, SamePopped, SameTerms DEF RefsAt
<1>10. ASSUME NEW m \in Boxes, WaitItem(m)  PROVE RefsAt(n)'
  <2>1. /\ UNCHANGED <<queue, refs, leaked, dest>>
        /\ SamePopping
    BY <1>0, <1>10 DEF WaitItem, ServiceAt, SamePopping, TypeOK, boxvars, ownvars, svcvars
  <2>2. Lent(n)' = Lent(n) /\ Kept(n)' = Kept(n) /\ Tended(n)' = Tended(n)
    BY <1>0, <1>10 DEF WaitItem, ServiceAt, Lent, Kept, Tended, One, TypeOK, boxvars, ownvars, svcvars
  <2> QED  BY <1>0, <2>1, <2>2, SamePopped, SameTerms DEF RefsAt
<1>11. ASSUME NEW m \in Boxes, NextIsNull(m)  PROVE RefsAt(n)'
  <2>1. /\ UNCHANGED <<queue, refs, leaked, dest>>
        /\ SamePopping
    BY <1>0, <1>11 DEF NextIsNull, ServiceAt, SamePopping, TypeOK, boxvars, ownvars, svcvars
  <2>2. Lent(n)' = Lent(n) /\ Kept(n)' = Kept(n) /\ Tended(n)' = Tended(n)
    BY <1>0, <1>11 DEF NextIsNull, ServiceAt, Lent, Kept, Tended, One, TypeOK, boxvars, ownvars, svcvars
  <2> QED  BY <1>0, <2>1, <2>2, SamePopped, SameTerms DEF RefsAt
<1>12. ASSUME NEW m \in Boxes, LockHead(m)  PROVE RefsAt(n)'
  <2>1. /\ UNCHANGED <<queue, refs, leaked, dest>>
        /\ SamePopping
    BY <1>0, <1>12 DEF LockHead, ServiceAt, SamePopping, TypeOK, boxvars, ownvars, svcvars
  <2>2. Lent(n)' = Lent(n) /\ Kept(n)' = Kept(n) /\ Tended(n)' = Tended(n)
    BY <1>0, <1>12 DEF LockHead, ServiceAt, Lent, Kept, Tended, One, TypeOK, boxvars, ownvars, svcvars
  <2> QED  BY <1>0, <2>1, <2>2, SamePopped, SameTerms DEF RefsAt
<1>13. ASSUME NEW m \in Boxes, UnrefSender(m)  PROVE RefsAt(n)'
  <2> DEFINE e == Head(queue[m])
  <2>1. e \in Entries /\ e.from \in Boxes
    BY <1>0, <1>13, HeadExists, EntryFacts DEF UnrefSender, ServiceAt
  <2>2. /\ UNCHANGED <<queue, leaked, dest, opc>>
        /\ spc[m] = "unref" /\ spc' = [spc EXCEPT ![m] = "pop"]
        /\ \/ IsMessage(e) /\ e.from # m /\ Unref(Service(m), e.from)
           \/ ~(IsMessage(e) /\ e.from # m) /\ UNCHANGED refs
    BY <1>13 DEF UnrefSender, ServiceAt, ownvars
  <2>3. Tended(n)' = Tended(n)
    BY <1>0, <2>2 DEF Tended, One, TypeOK
  <2>4. CASE n # m /\ MessageOf(n, e)
    <3>1. n = e.from /\ Unref(Service(m), n)
      BY <2>2, <2>4 DEF MessageOf
    <3>2. refs'[n] = refs[n] - 1
      BY <1>0, <3>1, UnrefEffect, ThreadFacts
    <3>3. Popping(n)' = Popping(n) \cup {m} /\ m \notin Popping(n)
      <4>1. /\ queue' = queue /\ spc[m] # "pop" /\ spc'[m] = "pop"
            /\ \A b \in Boxes : b # m => spc'[b] = spc[b]
        BY <1>0, <2>2 DEF TypeOK
      <4> QED  BY <2>4, <4>1 DEF Popping
    <3>4. Popped(n)' = Popped(n) + 1
      BY <3>3, SetsFinite, FS_AddElement DEF Popped
    <3> QED  BY <1>0, <2>2, <2>3, <3>2, <3>4, SameTerms, Moves DEF RefsAt
  <2>5. CASE ~(n # m /\ MessageOf(n, e))
    <3>1. refs'[n] = refs[n]
      <4>1. CASE IsMessage(e) /\ e.from # m /\ Unref(Service(m), e.from)
        <5>1. n # e.from
          BY <2>5, <4>1 DEF MessageOf
        <5> QED  BY <1>0, <2>1, <4>1, <5>1, UnrefEffect, ThreadFacts
      <4> QED  BY <2>2, <4>1
    <3>2. Popping(n)' = Popping(n)
      BY <1>0, <2>2, <2>5 DEF Popping, TypeOK
    <3>3. Popped(n)' = Popped(n)
      BY <3>2 DEF Popped
    <3> QED  BY <1>0, <2>2, <2>3, <3>1, <3>3, SameTerms DEF RefsAt
  <2> QED  BY <2>4, <2>5
<1>14. ASSUME NEW m \in Boxes, PopHead(m)  PROVE RefsAt(n)'
  <2> DEFINE e == Head(queue[m])
  <2>1. /\ UNCHANGED <<refs, leaked, dest, opc>> /\ Shrinks(queue, queue', m)
        /\ spc[m] = "pop" /\ spc' = [spc EXCEPT ![m] = "send"]
    BY <1>0, <1>14, PopEffect DEF PopHead, ServiceAt, ownvars
  <2>2. Tended(n)' = Tended(n)
    BY <1>0, <2>1 DEF Tended, One, TypeOK
  <2>3. queue' \in Queues
    BY DEF TypeOK, Queues
  <2>4. CASE n # m /\ MessageOf(n, e)
    <3>1. Posted(n)' = Posted(n) - 1
      BY <1>0, <2>1, <2>3, <2>4, PostedShrinks DEF Posted
    <3>2. Popping(n)' = Popping(n) \ {m} /\ m \in Popping(n)
      BY ZenonT(60), <1>0, <2>1, <2>4 DEF Popping, Shrinks, TypeOK
    <3>3. Popped(n)' = Popped(n) - 1
      BY <3>2, SetsFinite, FS_RemoveElement DEF Popped
    <3> QED  BY <1>0, <2>1, <2>2, <3>1, <3>3, SameTerms, Moves DEF RefsAt
  <2>5. CASE ~(n # m /\ MessageOf(n, e))
    <3>1. Posted(n)' = Posted(n)
      BY <1>0, <2>1, <2>3, <2>5, PostedShrinks DEF Posted
    <3>2. Popping(n)' = Popping(n)
      BY <1>0, <2>1, <2>5 DEF Popping, Shrinks, TypeOK
    <3>3. Popped(n)' = Popped(n)
      BY <3>2 DEF Popped
    <3> QED  BY <1>0, <2>1, <2>2, <3>1, <3>3, SameTerms DEF RefsAt
  <2> QED  BY <2>4, <2>5
<1>15. ASSUME NEW m \in Boxes, SendMessage(m)  PROVE RefsAt(n)'
  <2>1. /\ spc[m] = "send" /\ spc' = [spc EXCEPT ![m] = "wait"]
        /\ UNCHANGED <<refs, leaked, opc, dest>>
        /\ cur[m].from \in Boxes /\ Notified(queue, queue', cur[m])
    BY <1>0, <1>15, SendEffect DEF SendMessage, ServiceAt, ownvars
  <2>2. PICK e \in Entries : /\ ~IsMessage(e) /\ mutex[cur[m].from] = NoThread
                            /\ Grows(queue, queue', cur[m].from, e)
    BY <2>1 DEF Notified
  <2>3. Tended(n)' = Tended(n)
    BY <1>0, <2>1 DEF Tended, One, TypeOK
  <2>4. SamePopping
    <3>1. spc[cur[m].from] # "pop"
      BY <1>0, <2>1, <2>2, FreeMutex
    <3> QED  BY <1>0, <2>1, <2>2, <3>1 DEF SamePopping, Grows, TypeOK
  <2>5. Posted(n)' = Posted(n)
    <3>1. ~MessageOf(n, e)
      BY <2>2 DEF MessageOf
    <3> QED  BY <1>0, <2>1, <2>2, <3>1, PostedGrows
  <2> QED  BY <1>0, <2>1, <2>3, <2>4, <2>5, SamePopped, SameTerms DEF RefsAt
<1>16. ASSUME NEW m \in Boxes, SendNotice(m)  PROVE RefsAt(n)'
  <2>1. /\ UNCHANGED <<queue, refs, leaked, dest>>
        /\ SamePopping
    BY <1>0, <1>16 DEF SendNotice, ServiceAt, SamePopping, TypeOK, boxvars, ownvars, svcvars
  <2>2. Lent(n)' = Lent(n) /\ Kept(n)' = Kept(n) /\ Tended(n)' = Tended(n)
    BY <1>0, <1>16 DEF SendNotice, ServiceAt, Lent, Kept, Tended, One, TypeOK, boxvars, ownvars, svcvars
  <2> QED  BY <1>0, <2>1, <2>2, SamePopped, SameTerms DEF RefsAt
<1>17. ASSUME NEW m \in Boxes, ServiceEnd(m)  PROVE RefsAt(n)'
  <2>1. /\ UNCHANGED <<queue, leaked, dest, opc>> /\ SamePopping
        /\ spc[m] = "end" /\ spc' = [spc EXCEPT ![m] = "done"] /\ Unref(Service(m), m)
    BY <1>0, <1>17 DEF ServiceEnd, ServiceAt, SamePopping, ownvars, TypeOK
  <2>2. refs'[m] = refs[m] - 1 /\ \A c \in Boxes : c # m => refs'[c] = refs[c]
    BY <1>0, <2>1, UnrefEffect, ThreadFacts
  <2>3. CASE n = m
    <3>1. Tended(n) = 1 /\ Tended(n)' = 0
      BY <1>0, <2>1, <2>3 DEF Tended, One, TypeOK
    <3>2. Tended(n)' = Tended(n) - 1
      BY <3>1
    <3> QED  BY <1>0, <2>1, <2>2, <2>3, <3>2, SamePopped, SameTerms, Moves DEF RefsAt
  <2>4. CASE n # m
    <3>1. spc'[n] = spc[n]
      BY <1>0, <2>1, <2>4 DEF TypeOK
    <3> QED  BY <1>0, <2>1, <2>2, <2>4, <3>1, SamePopped, SameTerms DEF RefsAt
  <2> QED  BY <2>3, <2>4
<1>18. ASSUME NEW t \in Threads, DiscardHead(t)  PROVE RefsAt(n)'
  <2> DEFINE m == fin[t]
             h == Head(queue[m])
  <2>1. m \in Boxes /\ h \in Entries /\ h.from \in Boxes
    BY <1>0, <1>18, DiscardEffect
  <2>2. PICK q \in Queues : Shrinks(queue, q, m) /\ (queue' = q \/ Notified(q, queue', h))
    BY <1>0, <1>18, DiscardEffect
  <2>3. /\ UNCHANGED <<refs, opc, dest, spc>>
        /\ leaked' = IF IsMessage(h) /\ h.from # m
                     THEN [leaked EXCEPT ![h.from] = @ + 1] ELSE leaked
    BY <1>18 DEF DiscardHead, ownvars, svcvars
  <2>4. spc[m] # "pop"
    BY <1>0, <1>18, <2>1 DEF Mutexes, MutexAt, NotFin
  <2> HIDE DEF m, h
  <2>5. SamePopping
    <3>1. \A b \in Boxes : spc[b] = "pop" => mutex[b] # NoThread
      BY <1>0, FreeMutex
    <3>2. \A b \in Boxes : spc[b] = "pop" => q[b] = queue[b]
      BY <2>2, <2>4 DEF Shrinks
    <3>3. \A b \in Boxes : spc[b] = "pop" => queue'[b] = q[b]
      BY <2>2, <3>1 DEF Notified, Grows
    <3> QED  BY <2>3, <3>2, <3>3 DEF SamePopping
  <2>6. Posted(n)' = Cardinality(Pointers(q, n))
    <3>1. CASE queue' = q
      BY <3>1 DEF Posted
    <3>2. CASE Notified(q, queue', h)
      <4>1. PICK e \in Entries : ~IsMessage(e) /\ Grows(q, queue', h.from, e)
        BY <3>2 DEF Notified
      <4>2. ~(h.from # n /\ MessageOf(n, e))
        BY <4>1 DEF MessageOf
      <4>3. queue' \in Queues
        BY DEF TypeOK, Queues
      <4>4. Cardinality(Pointers(queue', n))
              = Cardinality(Pointers(q, n)) + One(h.from # n /\ MessageOf(n, e))
        BY <2>1, <4>1, <4>3, PointersAppend DEF Grows
      <4>5. Cardinality(Pointers(q, n)) \in Nat /\ One(h.from # n /\ MessageOf(n, e)) = 0
        BY <4>2, PointersFinite DEF One
      <4> QED  BY <4>4, <4>5 DEF Posted
    <3> QED  BY <2>2, <3>1, <3>2
  <2>7. CASE m # n /\ MessageOf(n, h)
    <3>1. Posted(n)' = Posted(n) - 1
      BY <1>0, <2>1, <2>2, <2>6, <2>7, PostedShrinks DEF h
    <3>2. leaked'[n] = leaked[n] + 1
      BY <1>0, <2>3, <2>7 DEF MessageOf, TypeOK
    <3> QED  BY <1>0, <2>3, <2>5, <3>1, <3>2, SamePopped, SameTerms, Moves DEF RefsAt
  <2>8. CASE ~(m # n /\ MessageOf(n, h))
    <3>1. Posted(n)' = Posted(n)
      BY <1>0, <2>1, <2>2, <2>6, <2>8, PostedShrinks DEF h
    <3>2. leaked'[n] = leaked[n]
      BY <1>0, <2>1, <2>3, <2>8 DEF MessageOf, TypeOK
    <3> QED  BY <1>0, <2>3, <2>5, <3>1, <3>2, SamePopped, SameTerms DEF RefsAt
  <2> QED  BY <2>7, <2>8
<1>19. ASSUME NEW t \in Threads, Free(t)  PROVE RefsAt(n)'
  <2>1. UNCHANGED <<queue, refs, leaked, dest, opc, spc>> /\ SamePopping
    BY <1>19 DEF Free, SamePopping, ownvars, svcvars
  <2> QED  BY <1>0, <2>1, SamePopped, SameTerms DEF RefsAt
<1>20. CASE UNCHANGED vars
  <2>1. UNCHANGED <<queue, refs, leaked, dest, opc, spc>> /\ SamePopping
    BY <1>20 DEF SamePopping, vars, boxvars, ownvars, svcvars
  <2> QED  BY <1>0, <2>1, SamePopped, SameTerms DEF RefsAt
<1> QED
  BY <1>1, <1>2, <1>3, <1>4, <1>5, <1>6, <1>7, <1>8, <1>9, <1>10, <1>11, <1>12, <1>13, <1>14, <1>15, <1>16, <1>17, <1>18, <1>19, <1>20
     DEF Next, OwnerStep, ServiceStep, FinalizeStep

-----------------------------------------------------------------------------
(* The theorems *)

\* The invariant holds in the beginning.
LEMMA InitInv ==
  ASSUME Init
  PROVE  IInv
<1>1. TypeOK
  BY MaxMsgsAssumption DEF Init, TypeOK, OwnerPC, ServicePC
<1>2. Control
  BY NoBoxAssumption, EntryFacts DEF Init, Control, ControlAt, NotFin
<1>3. Started
  BY NoBoxAssumption, EntryFacts DEF Init, Started, StartedAt, Froms
<1>4. Mutexes
  BY NoBoxAssumption DEF Init, Mutexes, MutexAt, NotFin
<1>5. ItemsCountEntries
  BY DEF Init, ItemsCountEntries
<1>6. RefsCountPointers
  <2> SUFFICES ASSUME NEW n \in Boxes  PROVE RefsAt(n)
    BY RefsEach
  <2>1. Popping(n) = {} /\ Senders(n) = {}
    BY NoBoxAssumption DEF Init, Popping, Senders
  <2>2. Pointers(queue, n) = {}
    <3>1. \A b \in Boxes : DOMAIN queue[b] = {}
      BY DEF Init
    <3> QED  BY <3>1 DEF Pointers, Positions
  <2>3. Popped(n) = 0 /\ Aimed(n) = 0 /\ Posted(n) = 0
    BY <2>1, <2>2, FS_EmptySet DEF Popped, Aimed, Posted
  <2>4. Lent(n) = 0 /\ Kept(n) = 0 /\ Tended(n) = 0 /\ refs[n] = 0 /\ leaked[n] = 0
    BY DEF Init, Lent, Kept, Tended, One
  <2> QED  BY <2>3, <2>4 DEF RefsAt
<1> QED  BY <1>1, <1>2, <1>3, <1>4, <1>5, <1>6 DEF IInv

\* Every step keeps the invariant.
LEMMA StepInv ==
  ASSUME IInv, [Next]_vars
  PROVE  IInv'
<1>1. TypeOK'
  BY TypeStep DEF IInv
<1>2. Control'
  BY <1>1, ControlStep DEF IInv
<1>3. Started'
  BY <1>1, StartedStep DEF IInv
<1>4. Mutexes'
  BY <1>1, MutexStep
<1>5. ItemsCountEntries'
  BY ItemsStep
<1>6. RefsCountPointers'
  BY <1>1, RefsStep
<1> QED  BY <1>1, <1>2, <1>3, <1>4, <1>5, <1>6 DEF IInv

\* IInv is an invariant of the mailboxes.
THEOREM Invariance == Spec => []IInv
<1>1. Init => IInv
  BY InitInv
<1>2. IInv /\ [Next]_vars => IInv'
  BY StepInv
<1> QED  BY <1>1, <1>2, PTL DEF Spec

\* Types are respected; in particular referenceCount (mailbox.c:71) and the
\* semaphore never go below zero.
THEOREM Types == Spec => []TypeOK
<1>1. IInv => TypeOK
  BY DEF IInv
<1> QED  BY <1>1, Invariance, PTL

\* The semaphore of every mailbox in service counts its entries and its shutdown
\* (mb_add_message, mb_add_notice and mb_shutdown against mb_next_entry).
THEOREM Items == Spec => []ItemsCountEntries
<1>1. IInv => ItemsCountEntries
  BY DEF IInv
<1> QED  BY <1>1, Invariance, PTL

\* referenceCount of every mailbox counts the pointers to it (mb_ref and mb_unref
\* in mb_add_message, mb_next_entry, login, logout and the service thread).
THEOREM References == Spec => []RefsCountPointers
<1>1. IInv => RefsCountPointers
  BY DEF IInv
<1> QED  BY <1>1, Invariance, PTL

\* Where nothing is left of a sum, nothing is left of its terms.
LEMMA Squeeze ==
  \A l, p, k, a, s, q, x, c \in Nat :
    0 + l + p = k + a + s + q + x /\ p <= c /\ l + c <= q =>
      k = 0 /\ a = 0 /\ s = 0 /\ q = l + c /\ p = c
OBVIOUS

\* A mailbox whose count is zero has no pointers but those that are being
\* unlinked.
LEMMA NoReferences ==
  ASSUME IInv, NEW m \in Boxes, opc[m] # "start", refs[m] = 0
  PROVE  /\ opc[m] = "out" /\ spc[m] \in {"created", "done"} /\ Senders(m) = {}
         /\ \A x \in Pointers(queue, m) : x[2] = 1 /\ x[1] \in Popping(m)
<1>0. TypeOK /\ Control /\ Mutexes /\ ItemsCountEntries /\ RefsCountPointers
  BY DEF IInv
<1>1. refs[m] = 0
  OBVIOUS
<1>2. RefsAt(m)
  BY <1>0, RefsEach
<1>3. Lent(m) + Cardinality(Reading(m)) <= Posted(m)
  BY <1>0, Borrowed DEF Lent, Posted
<1>4. /\ Popping(m) \in SUBSET Reading(m) /\ Popped(m) <= Cardinality(Reading(m))
      /\ Popped(m) = Cardinality(Reading(m)) => Popping(m) = Reading(m)
  <2>1. Popping(m) \in SUBSET Reading(m)
    BY DEF Popping, Reading
  <2> QED  BY <2>1, SetsFinite, FS_Subset DEF Popped
<1>5. /\ Kept(m) = 0 /\ Tended(m) = 0 /\ Aimed(m) = 0
      /\ Cardinality(Reading(m)) = Posted(m) /\ Popped(m) = Cardinality(Reading(m))
  <2> DEFINE r == refs[m]   l == Lent(m)   p == Popped(m)   k == Kept(m)
             a == Tended(m) s == Aimed(m)  q == Posted(m)   x == leaked[m]
             c == Cardinality(Reading(m))
  <2>1. /\ r = 0 /\ l \in Nat /\ p \in Nat /\ k \in Nat /\ a \in Nat /\ s \in Nat
        /\ q \in Nat /\ x \in Nat /\ c \in Nat /\ p <= c /\ l + c <= q
    BY <1>0, <1>1, <1>3, <1>4, RefsTerms, SetsFinite
  <2>2. r + l + p = k + a + s + q + x
    BY <1>2 DEF RefsAt
  <2> HIDE DEF r, l, p, k, a, s, q, x, c
  <2>3. k = 0 /\ a = 0 /\ s = 0 /\ q = l + c /\ p = c
    BY <2>1, <2>2, Squeeze
  <2>4. Kept(m) = 0 /\ Tended(m) = 0 /\ Aimed(m) = 0
        /\ Posted(m) = Lent(m) + Cardinality(Reading(m)) /\ Popped(m) = Cardinality(Reading(m))
    BY <2>3 DEF k, a, s, c, q, p, l
  <2>5. Lent(m) = 0
    BY <2>4 DEF Kept, Lent, One
  <2>6. Posted(m) = Cardinality(Reading(m))
    BY <2>4, <2>5, SetsFinite
  <2> QED  BY <2>4, <2>6
<1>6. opc[m] = "out" /\ spc[m] \in {"created", "done"}
  <2>1. opc[m] \in {"start", "out"} /\ spc[m] \in {"none", "created", "done"}
    BY <1>5 DEF Kept, Tended, One
  <2> QED  BY <1>0, <2>1 DEF Control, ControlAt
<1>7. Senders(m) = {}
  BY <1>5, SetsFinite, FS_EmptySet DEF Aimed
<1>8. ASSUME NEW x \in Pointers(queue, m)  PROVE x[2] = 1 /\ x[1] \in Popping(m)
  <2> DEFINE f == [b \in Reading(m) |-> <<b, 1>>]
             R == Reading(m)
             P == Pointers(queue, m)
  <2>1. f \in Injection(R, P) /\ IsFiniteSet(R) /\ IsFiniteSet(P)
    BY <1>0, Heads, SetsFinite, PointersFinite DEF TypeOK, Queues
  <2>2. Cardinality(P) = Cardinality(R)
    BY <1>5 DEF Posted
  <2>3. \A b \in R : f[b] = <<b, 1>>
    OBVIOUS
  <2> HIDE DEF f, R, P
  <2>4. f \in Surjection(R, P)
    <3> DEFINE I == {f[b] : b \in R}
    <3>1. f \in Bijection(R, I)
      BY <2>1 DEF Injection, Bijection, Surjection, IsInjective
    <3>2. IsFiniteSet(I) /\ Cardinality(I) = Cardinality(R)
      BY <2>1, <3>1, FS_Bijection DEF ExistsBijection
    <3>3. I \in SUBSET P
      BY <2>1 DEF Injection
    <3>4. I = P
      BY <2>1, <2>2, <3>2, <3>3, FS_Subset
    <3> QED  BY <2>1, <3>4 DEF Surjection, Injection
  <2>5. PICK b \in R : f[b] = x
    BY <2>4 DEF Surjection, P
  <2>6. R = Popping(m)
    BY <1>4, <1>5 DEF R
  <2> QED  BY <2>3, <2>5, <2>6
<1> QED  BY <1>6, <1>7, <1>8

\* A freed mailbox has no count left.
LEMMA Unreferenced ==
  ASSUME IInv
  PROVE  FreedIsUnreferenced
<1>1. \A m \in Boxes : opc[m] # "start" /\ ~live[m] => refs[m] = 0
  BY DEF IInv, Mutexes, MutexAt
<1> QED  BY <1>1, NoReferences DEF FreedIsUnreferenced

\* A freed mailbox is pointed to by nobody, but for the message that
\* mb_next_entry is unlinking (mailbox.c:228 drops the reference before the
\* unlink).
THEOREM Freed == Spec => []FreedIsUnreferenced
<1>1. IInv => FreedIsUnreferenced
  BY Unreferenced
<1> QED  BY <1>1, Invariance, PTL

-----------------------------------------------------------------------------
(* What becomes of a message: where the entries of a mailbox are, in it or     *)
(* received from it, and in which order.                                       *)

\* The entries of a sequence.
Elems(s) == {s[i] : i \in DOMAIN s}

\* What holds of an entry d that comes before e: messages of one sender are
\* numbered upwards, and there are no two notices about one message.
Before(d, e) ==
  (d.from = e.from /\ (IsMessage(d) <=> IsMessage(e))) =>
    d.id # e.id /\ (IsMessage(e) => d.id < e.id)
Ordered(s) == \A i, j \in DOMAIN s : i < j => Before(s[i], s[j])

\* All that went through b, when k are the entries that were received and q the
\* queues, is in order, and about messages that were sent (s).
InOrder(q, k) == \A b \in Boxes : Ordered(k[b] \o q[b])
Known(q, k, s) == \A b \in Boxes : \A e \in Elems(k[b] \o q[b]) : e.id <= s[e.from]

\* A message is in one mailbox only; one in the hands (c) of a service thread was
\* received by it.
Single(q, k) ==
  \A b, d \in Boxes : \A e \in Elems(k[b] \o q[b]) \cap Elems(k[d] \o q[d]) :
    IsMessage(e) => b = d
Held(k, c) == \A b \in Boxes : IsMessage(c[b]) => c[b] \in Elems(k[b])

\* A message that its sender has a notice about is on its way no longer, and one
\* that is receipted was received.
OffTheRoad(q, c, e) == \A b \in Boxes : e \notin Elems(q[b]) /\ c[b] # e
Settled(q, k, c) ==
  \A m \in Boxes : \A e \in Elems(k[m] \o q[m]) : (~IsMessage(e) /\ e.from = m) =>
    /\ OffTheRoad(q, c, Message(m, e.id))
    /\ e.kind = "RRCPT" => \E b \in Boxes : Message(m, e.id) \in Elems(k[b])

Orderly(q, k, c, s) ==
  InOrder(q, k) /\ Known(q, k, s) /\ Single(q, k) /\ Held(k, c) /\ Settled(q, k, c)

\* A mailbox that was shut down before its service thread set the discard hook.
Unhooked(b) == spc[b] \in {"created", "done"} /\ defunct[b] /\ ~hook[b]

\* A message of m that is nowhere was in such a mailbox.
AccountedAt(m) ==
  /\ opc[m] = "start" => sent[m] = 0
  /\ \A k \in 1..sent[m] :
       attached[m] =>
         \/ \E b \in Boxes : Message(m, k) \in Elems(taken[b] \o queue[b])
         \/ Notice("BOUNCE", Message(m, k)) \in Elems(taken[m] \o queue[m])
         \/ \E b \in Boxes : Unhooked(b)
Accounted == \A m \in Boxes : AccountedAt(m)

Delivery == Orderly(queue, taken, cur, sent) /\ Accounted

-----------------------------------------------------------------------------
(* Lemmas about the entries of a sequence and their order *)

\* The entries of a sequence that is empty, appended to, or joined to another,
\* and of one whose head is removed.
LEMMA ElemsFacts ==
  ASSUME NEW s \in Seq(Entries), NEW r \in Seq(Entries)
  PROVE  /\ Elems(s) \subseteq Entries
         /\ Elems(s \o r) = Elems(s) \cup Elems(r)
         /\ \A e \in Entries : Elems(Append(s, e)) = Elems(s) \cup {e}
         /\ s # <<>> => Head(s) \in Elems(s) /\ Elems(s) = {Head(s)} \cup Elems(Tail(s))
<1>1. Elems(s) \subseteq Entries
  BY DEF Elems
<1>2. Elems(s \o r) = Elems(s) \cup Elems(r)
  <2> DEFINE j == s \o r
             n == Len(s)
  <2>1. /\ DOMAIN j = 1..(n + Len(r)) /\ DOMAIN s = 1..n /\ DOMAIN r = 1..Len(r)
        /\ n \in Nat /\ Len(r) \in Nat
        /\ \A i \in DOMAIN s : j[i] = s[i]
        /\ \A i \in DOMAIN r : j[n + i] = r[i]
    OBVIOUS
  <2> HIDE DEF j, n
  <2>2. ASSUME NEW i \in DOMAIN j  PROVE j[i] \in Elems(s) \cup Elems(r)
    <3>1. CASE i <= n
      BY <2>1, <3>1 DEF Elems
    <3>2. CASE ~(i <= n)
      <4>0. i - n \in DOMAIN r /\ i = n + (i - n)
        BY <2>1, <3>2
      <4>1. PICK k \in DOMAIN r : i = n + k
        BY <4>0
      <4>2. j[i] = r[k]
        BY <2>1, <4>1
      <4> QED  BY <4>2 DEF Elems
    <3> QED  BY <3>1, <3>2
  <2>3. Elems(s) \subseteq Elems(j)
    <3>1. DOMAIN s \subseteq DOMAIN j
      BY <2>1
    <3> QED  BY <2>1, <3>1 DEF Elems
  <2>4. Elems(r) \subseteq Elems(j)
    <3>1. \A i \in DOMAIN r : n + i \in DOMAIN j
      BY <2>1
    <3> QED  BY <2>1, <3>1 DEF Elems
  <2>5. Elems(j) \subseteq Elems(s) \cup Elems(r)
    BY <2>2 DEF Elems
  <2>6. Elems(j) = Elems(s) \cup Elems(r)
    BY <2>3, <2>4, <2>5
  <2> QED  BY <2>6 DEF j
<1>3. ASSUME NEW e \in Entries  PROVE Elems(Append(s, e)) = Elems(s) \cup {e}
  <2> DEFINE j == Append(s, e)
             n == Len(s) + 1
  <2>1. DOMAIN j = DOMAIN s \cup {n} /\ (\A i \in DOMAIN s : j[i] = s[i]) /\ j[n] = e
    OBVIOUS
  <2> HIDE DEF j, n
  <2>2. Elems(j) = Elems(s) \cup {e}
    BY <2>1 DEF Elems
  <2> QED  BY <2>2 DEF j
<1>4. ASSUME s # <<>>
      PROVE  Head(s) \in Elems(s) /\ Elems(s) = {Head(s)} \cup Elems(Tail(s))
  <2> DEFINE j == Tail(s)
             h == Head(s)
             n == Len(s)
  <2>1. /\ DOMAIN s = 1..n /\ DOMAIN j = 1..(n - 1) /\ n \in Nat /\ n > 0 /\ h = s[1]
        /\ \A i \in DOMAIN j : j[i] = s[i + 1]
    BY <1>4
  <2> HIDE DEF j, h, n
  <2>2. h \in Elems(s)
    <3>1. 1 \in DOMAIN s
      BY <2>1
    <3> QED  BY <2>1, <3>1 DEF Elems
  <2>3. Elems(j) \subseteq Elems(s)
    <3>1. \A i \in DOMAIN j : i + 1 \in DOMAIN s
      BY <2>1
    <3> QED  BY <2>1, <3>1 DEF Elems
  <2>4. ASSUME NEW i \in DOMAIN s  PROVE s[i] = h \/ s[i] \in Elems(j)
    <3>1. CASE i = 1
      BY <2>1, <3>1
    <3>2. CASE i # 1
      <4>1. i - 1 \in DOMAIN j /\ (i - 1) + 1 = i
        BY <2>1, <3>2
      <4>2. j[i - 1] = s[i]
        BY <2>1, <4>1
      <4> QED  BY <4>1, <4>2 DEF Elems
    <3> QED  BY <3>1, <3>2
  <2>5. Elems(s) = {h} \cup Elems(j)
    BY <2>2, <2>3, <2>4 DEF Elems
  <2> QED  BY <2>2, <2>5 DEF h, j
<1> QED  BY <1>1, <1>2, <1>3, <1>4

\* An entry that may come after all entries of s may be appended to it.
LEMMA OrderedAppend ==
  ASSUME NEW s \in Seq(Entries), NEW e \in Entries, Ordered(s),
         \A x \in Elems(s) : Before(x, e)
  PROVE  Ordered(Append(s, e))
<1> DEFINE r == Append(s, e)
           n == Len(s) + 1
<1>1. /\ DOMAIN r = 1..n /\ DOMAIN s = 1..(n - 1) /\ n \in Nat /\ r[n] = e
      /\ \A i \in DOMAIN s : r[i] = s[i]
  OBVIOUS
<1> HIDE DEF r, n
<1>2. ASSUME NEW i \in DOMAIN r, NEW j \in DOMAIN r, i < j  PROVE Before(r[i], r[j])
  <2>1. i \in DOMAIN s
    BY <1>1, <1>2
  <2>2. CASE j = n
    <3>1. s[i] \in Elems(s)
      BY <2>1 DEF Elems
    <3> QED  BY <1>1, <2>1, <2>2, <3>1
  <2>3. CASE j # n
    <3>1. j \in DOMAIN s
      BY <1>1, <2>3
    <3> QED  BY <1>1, <1>2, <2>1, <3>1 DEF Ordered
  <2> QED  BY <2>2, <2>3
<1>3. Ordered(r)
  BY <1>2 DEF Ordered
<1> QED  BY <1>3 DEF r

\* Where s and t are in order, so are they without the head of t.
LEMMA OrderedTail ==
  ASSUME NEW s \in Seq(Entries), NEW t \in Seq(Entries), Ordered(s \o t), t # <<>>
  PROVE  Ordered(s \o Tail(t))
<1> DEFINE u == s \o t
           v == s \o Tail(t)
           n == Len(s)
           k == Len(t)
<1>1. /\ DOMAIN u = 1..(n + k) /\ DOMAIN v = 1..(n + k - 1) /\ n \in Nat /\ k \in Nat /\ k > 0
      /\ \A i \in 1..n : u[i] = s[i] /\ v[i] = s[i]
      /\ \A i \in DOMAIN v : i > n => v[i] = u[i + 1]
  OBVIOUS
<1>2. Ordered(u)
  OBVIOUS
<1> HIDE DEF u, v, n, k
<1>3. ASSUME NEW i \in DOMAIN v, NEW j \in DOMAIN v, i < j  PROVE Before(v[i], v[j])
  <2>1. CASE j <= n
    <3>1. i \in DOMAIN u /\ j \in DOMAIN u /\ v[i] = u[i] /\ v[j] = u[j]
      BY <1>1, <1>3, <2>1
    <3> QED  BY <1>2, <1>3, <3>1 DEF Ordered
  <2>2. CASE i <= n /\ ~(j <= n)
    <3>1. i \in DOMAIN u /\ j + 1 \in DOMAIN u /\ v[i] = u[i] /\ v[j] = u[j + 1] /\ i < j + 1
      BY <1>1, <1>3, <2>2
    <3> QED  BY <1>2, <3>1 DEF Ordered
  <2>3. CASE ~(i <= n) /\ ~(j <= n)
    <3>1. i + 1 \in DOMAIN u /\ j + 1 \in DOMAIN u /\ v[i] = u[i + 1] /\ v[j] = u[j + 1]
          /\ i + 1 < j + 1
      BY <1>1, <1>3, <2>3
    <3> QED  BY <1>2, <3>1 DEF Ordered
  <2> QED  BY <1>1, <1>3, <2>1, <2>2, <2>3
<1>4. Ordered(v)
  BY <1>3 DEF Ordered
<1> QED  BY <1>4 DEF v

\* Where s and t are in order, no entry is in both, nor twice in t.
LEMMA OrderedOnce ==
  ASSUME NEW s \in Seq(Entries), NEW t \in Seq(Entries), Ordered(s \o t)
  PROVE  /\ Elems(s) \cap Elems(t) = {}
         /\ t # <<>> => Head(t) \notin Elems(Tail(t))
<1> DEFINE u == s \o t
           n == Len(s)
<1>1. /\ DOMAIN u = 1..(n + Len(t)) /\ n \in Nat /\ Len(t) \in Nat
      /\ DOMAIN s = 1..n /\ DOMAIN t = 1..Len(t)
      /\ \A i \in DOMAIN s : u[i] = s[i]
      /\ \A i \in DOMAIN t : u[n + i] = t[i]
  OBVIOUS
<1>2. Ordered(u)
  OBVIOUS
<1> HIDE DEF u, n
<1>3. \A e : ~Before(e, e)
  BY DEF Before
<1>4. ASSUME NEW i \in DOMAIN s, NEW j \in DOMAIN t, s[i] = t[j]  PROVE FALSE
  <2>1. i \in DOMAIN u /\ n + j \in DOMAIN u /\ i < n + j
    BY <1>1
  <2>2. Before(u[i], u[n + j])
    BY <1>2, <2>1 DEF Ordered
  <2> QED  BY <1>1, <1>3, <1>4, <2>2
<1>5. ASSUME t # <<>>  PROVE Head(t) \notin Elems(Tail(t))
  <2> DEFINE v == Tail(t)
  <2>1. Head(t) = t[1] /\ 1 \in DOMAIN t
        /\ \A i \in DOMAIN v : i \in Nat /\ i > 0 /\ i + 1 \in DOMAIN t /\ v[i] = t[i + 1]
    BY <1>5
  <2> HIDE DEF v
  <2>2. ASSUME NEW i \in DOMAIN v, t[1] = v[i]  PROVE FALSE
    <3>1. n + 1 \in DOMAIN u /\ n + (i + 1) \in DOMAIN u /\ n + 1 < n + (i + 1)
      BY <1>1, <2>1
    <3>2. Before(u[n + 1], u[n + (i + 1)])
      BY <1>2, <3>1 DEF Ordered
    <3>3. u[n + 1] = t[1] /\ u[n + (i + 1)] = t[i + 1]
      BY <1>1, <2>1
    <3> QED  BY <1>3, <2>1, <2>2, <3>2, <3>3
  <2>3. t[1] \notin Elems(v)
    BY <2>2 DEF Elems
  <2> QED  BY <2>1, <2>3 DEF v
<1> QED  BY <1>4, <1>5 DEF Elems

\* An entry that moves from the head of t to the end of s.
LEMMA Rejoined ==
  ASSUME NEW s \in Seq(Entries), NEW t \in Seq(Entries), t # <<>>
  PROVE  Append(s, Head(t)) \o Tail(t) = s \o t
<1> DEFINE u == Append(s, Head(t)) \o Tail(t)
           v == s \o t
<1>0. Append(s, Head(t)) \in Seq(Entries) /\ Tail(t) \in Seq(Entries)
      /\ Len(Append(s, Head(t))) = Len(s) + 1 /\ Len(Tail(t)) = Len(t) - 1
  OBVIOUS
<1>1. u \in Seq(Entries) /\ v \in Seq(Entries)
  BY <1>0
<1>2. Len(u) = Len(v) /\ Len(v) \in Nat
  BY <1>0
<1>3. \A i \in 1..Len(v) : u[i] = v[i]
  OBVIOUS
<1> QED  BY <1>1, <1>2, <1>3

\* An entry linked in at the end of a queue is one more entry of it.
LEMMA QueueGrows ==
  \A q, r \in Queues, b \in Boxes, e \in Entries : Grows(q, r, b, e) =>
    /\ \A c \in Boxes : c # b => r[c] = q[c]
    /\ Elems(r[b]) = Elems(q[b]) \cup {e}
<1> SUFFICES ASSUME NEW q \in Queues, NEW r \in Queues, NEW b \in Boxes, NEW e \in Entries,
                    Grows(q, r, b, e)
             PROVE  /\ \A c \in Boxes : c # b => r[c] = q[c]
                    /\ Elems(r[b]) = Elems(q[b]) \cup {e}
  BY Zenon
<1>1. q[b] \in Seq(Entries) /\ r[b] = Append(q[b], e)
      /\ \A c \in Boxes : c # b => r[c] = q[c]
  BY DEF Queues, Grows
<1>2. \A s \in Seq(Entries) : Elems(Append(s, e)) = Elems(s) \cup {e}
  BY ElemsFacts
<1> QED  BY <1>1, <1>2

\* It is the last of all that went through the mailbox.
LEMMA PathGrows ==
  \A k, q, r \in Queues, b \in Boxes, e \in Entries : Grows(q, r, b, e) =>
    k[b] \o r[b] = Append(k[b] \o q[b], e)
<1> SUFFICES ASSUME NEW k \in Queues, NEW q \in Queues, NEW r \in Queues, NEW b \in Boxes,
                    NEW e \in Entries, Grows(q, r, b, e)
             PROVE  k[b] \o r[b] = Append(k[b] \o q[b], e)
  BY Zenon
<1>1. k[b] \in Seq(Entries) /\ q[b] \in Seq(Entries) /\ r[b] = Append(q[b], e)
  BY DEF Queues, Grows
<1> DEFINE x == k[b]
           y == q[b]
<1>2. x \o Append(y, e) = Append(x \o y, e)
  <2>1. x \in Seq(Entries) /\ y \in Seq(Entries)
    BY <1>1
  <2> HIDE DEF x, y
  <2>2. x \o Append(y, e) \in Seq(Entries) /\ Append(x \o y, e) \in Seq(Entries)
        /\ Len(x \o Append(y, e)) = Len(Append(x \o y, e))
    BY <2>1
  <2>3. \A i \in 1..Len(Append(x \o y, e)) : (x \o Append(y, e))[i] = Append(x \o y, e)[i]
    BY <2>1
  <2> QED  BY <2>1, <2>2, <2>3
<1> QED  BY <1>1, <1>2

\* All that went through a mailbox is a sequence of entries.
LEMMA PathIsSequence ==
  \A k, q \in Queues, b \in Boxes :
    k[b] \o q[b] \in Seq(Entries) /\ Elems(k[b] \o q[b]) \subseteq Entries
<1>1. \A x, y \in Seq(Entries) : x \o y \in Seq(Entries) /\ Elems(x \o y) \subseteq Entries
  BY ElemsFacts
<1> QED  BY <1>1 DEF Queues

\* What went through a mailbox was received or is queued.
LEMMA Paths ==
  \A k, q \in Queues : \A b \in Boxes :
    Elems(k[b] \o q[b]) = Elems(k[b]) \cup Elems(q[b])
<1>1. \A x, y \in Seq(Entries) : Elems(x \o y) = Elems(x) \cup Elems(y)
  BY ElemsFacts
<1>2. SUFFICES ASSUME NEW k \in Queues, NEW q \in Queues, NEW b \in Boxes
               PROVE  Elems(k[b] \o q[b]) = Elems(k[b]) \cup Elems(q[b])
  BY Zenon
<1>3. k[b] \in Seq(Entries) /\ q[b] \in Seq(Entries)
  BY DEF Queues
<1> QED  BY <1>1, <1>3, Zenon

\* One more entry went through the mailbox.
LEMMA PathElems ==
  \A k, q, r \in Queues, b \in Boxes, e \in Entries : Grows(q, r, b, e) =>
    Elems(k[b] \o r[b]) = Elems(k[b] \o q[b]) \cup {e}
<1> SUFFICES ASSUME NEW k \in Queues, NEW q \in Queues, NEW r \in Queues, NEW b \in Boxes,
                    NEW e \in Entries, Grows(q, r, b, e)
             PROVE  Elems(k[b] \o r[b]) = Elems(k[b] \o q[b]) \cup {e}
  BY Zenon
<1>1. Elems(r[b]) = Elems(q[b]) \cup {e}
  BY QueueGrows
<1>2. Elems(k[b] \o r[b]) = Elems(k[b]) \cup Elems(r[b])
      /\ Elems(k[b] \o q[b]) = Elems(k[b]) \cup Elems(q[b])
  BY Paths
<1> QED  BY <1>1, <1>2

\* What goes through the mailboxes is more when an entry is linked in.
LEMMA PathsGrow ==
  ASSUME NEW k \in Queues, NEW q \in Queues, NEW r \in Queues, NEW b \in Boxes,
         NEW e \in Entries, Grows(q, r, b, e)
  PROVE  /\ e \in Elems(k[b] \o r[b])
         /\ \A c \in Boxes : Elems(k[c] \o q[c]) \subseteq Elems(k[c] \o r[c])
<1>1. Elems(k[b] \o r[b]) = Elems(k[b] \o q[b]) \cup {e}
  BY PathElems
<1>2. \A c \in Boxes : c # b => r[c] = q[c]
  BY QueueGrows
<1> QED  BY <1>1, <1>2

\* The head unlinked from b: order remains, and the head is nowhere else in b.
LEMMA PathShrinks ==
  ASSUME NEW k \in Queues, NEW q \in Queues, NEW r \in Queues, NEW b \in Boxes,
         Shrinks(q, r, b)
  PROVE  /\ \A c \in Boxes : c # b => r[c] = q[c]
         /\ Head(q[b]) \in Entries
         /\ Elems(q[b]) = Elems(r[b]) \cup {Head(q[b])}
         /\ Elems(k[b] \o q[b]) = Elems(k[b] \o r[b]) \cup {Head(q[b])}
         /\ Ordered(k[b] \o q[b]) =>
              /\ Ordered(k[b] \o r[b])
              /\ Elems(k[b]) \cap Elems(q[b]) = {}
              /\ Head(q[b]) \notin Elems(r[b])
<1>1. k[b] \in Seq(Entries) /\ q[b] \in Seq(Entries) /\ q[b] # <<>> /\ r[b] = Tail(q[b])
      /\ \A c \in Boxes : c # b => r[c] = q[c]
  BY DEF Queues, Shrinks
<1>2. Head(q[b]) \in Entries /\ Tail(q[b]) \in Seq(Entries)
  BY <1>1
<1>3. Elems(q[b]) = Elems(r[b]) \cup {Head(q[b])}
  BY <1>1, <1>2, ElemsFacts
<1>4. /\ Elems(k[b] \o q[b]) = Elems(k[b]) \cup Elems(q[b])
      /\ Elems(k[b] \o r[b]) = Elems(k[b]) \cup Elems(r[b])
  BY Paths
<1>5. ASSUME Ordered(k[b] \o q[b])
      PROVE  /\ Ordered(k[b] \o r[b])
             /\ Elems(k[b]) \cap Elems(q[b]) = {}
             /\ Head(q[b]) \notin Elems(r[b])
  BY <1>1, <1>5, OrderedTail, OrderedOnce
<1> QED  BY <1>1, <1>2, <1>3, <1>4, <1>5

-----------------------------------------------------------------------------
(* What keeps Orderly                                                        *)

\* Order remains when the entry linked in may come last.
LEMMA OrderGrows ==
  ASSUME NEW k \in Queues, NEW q \in Queues, NEW r \in Queues, NEW b \in Boxes,
         NEW e \in Entries, Grows(q, r, b, e), InOrder(q, k),
         \A y \in Elems(k[b] \o q[b]) : Before(y, e)
  PROVE  InOrder(r, k)
<1>1. k[b] \o q[b] \in Seq(Entries)
  BY PathIsSequence
<1>2. k[b] \o r[b] = Append(k[b] \o q[b], e)
  BY PathGrows
<1>3. Ordered(k[b] \o q[b])
  BY DEF InOrder
<1>4. Ordered(k[b] \o r[b])
  BY <1>1, <1>2, <1>3, OrderedAppend
<1>5. \A d \in Boxes : d # b => r[d] = q[d]
  BY QueueGrows
<1> QED  BY <1>4, <1>5 DEF InOrder

\* A message is told by its sender and number, a notice is like the message it
\* is about.
LEMMA MessageFacts ==
  /\ \A e \in Entries : IsMessage(e) => e = Message(e.from, e.id)
  /\ \A m, k : IsMessage(Message(m, k)) /\ Message(m, k).from = m /\ Message(m, k).id = k
  /\ \A e : \A ntype \in {"RRCPT", "BOUNCE"} :
       /\ ~IsMessage(Notice(ntype, e)) /\ Notice(ntype, e).kind = ntype
       /\ Notice(ntype, e).from = e.from /\ Notice(ntype, e).id = e.id
BY DEF Entries, IsMessage, Message, Notice

\* No notice about message x.
Untold(q, k, x) ==
  \A y \in Elems(k[x.from] \o q[x.from]) : ~IsMessage(y) /\ y.from = x.from => y.id # x.id

\* A message that is on its way has not been told of.
LEMMA OnTheRoad ==
  ASSUME NEW q \in Queues, NEW k \in Queues, NEW c, Settled(q, k, c),
         NEW x \in Entries, IsMessage(x),
         \E b \in Boxes : x \in Elems(q[b]) \/ c[b] = x
  PROVE  Untold(q, k, x)
<1> SUFFICES ASSUME NEW y \in Elems(k[x.from] \o q[x.from]), ~IsMessage(y), y.from = x.from,
                    y.id = x.id
             PROVE  FALSE
  BY DEF Untold
<1>1. x.from \in Boxes /\ Message(x.from, x.id) = x
  BY EntryFacts, MessageFacts
<1>2. OffTheRoad(q, c, Message(x.from, y.id))
  BY <1>1 DEF Settled
<1> QED  BY <1>1, <1>2 DEF OffTheRoad

\* A service thread lets go of the entry in its hands.
LEMMA OrderlyLeaves ==
  ASSUME NEW q, NEW k, NEW s, NEW c, NEW d, Orderly(q, k, c, s),
         \A b \in Boxes : d[b] \in {c[b], NoEntry}
  PROVE  Orderly(q, k, d, s)
<1>1. ~IsMessage(NoEntry) /\ \A m, i : Message(m, i) # NoEntry
  BY DEF IsMessage, NoEntry, Message
<1>2. Held(k, d)
  BY <1>1 DEF Orderly, Held
<1>3. \A m, i : OffTheRoad(q, c, Message(m, i)) => OffTheRoad(q, d, Message(m, i))
  BY <1>1 DEF OffTheRoad
<1>4. Settled(q, k, d)
  BY <1>3 DEF Orderly, Settled
<1> QED  BY <1>2, <1>4 DEF Orderly

\* The head of b is unlinked and discarded.
LEMMA OrderlyShrinks ==
  ASSUME NEW q \in Queues, NEW r \in Queues, NEW k \in Queues, NEW c, NEW s, NEW b \in Boxes,
         Shrinks(q, r, b), Orderly(q, k, c, s)
  PROVE  /\ Orderly(r, k, c, s)
         /\ Head(q[b]) \in Entries /\ Head(q[b]).id <= s[Head(q[b]).from]
         /\ IsMessage(Head(q[b])) => Untold(r, k, Head(q[b])) /\ OffTheRoad(r, c, Head(q[b]))
<1> DEFINE h == Head(q[b])
<1>0. InOrder(q, k) /\ Known(q, k, s) /\ Single(q, k) /\ Held(k, c) /\ Settled(q, k, c)
  BY DEF Orderly
<1>1. /\ \A d \in Boxes : d # b => r[d] = q[d]
      /\ h \in Entries
      /\ Elems(q[b]) = Elems(r[b]) \cup {h}
      /\ Elems(k[b] \o q[b]) = Elems(k[b] \o r[b]) \cup {h}
      /\ Ordered(k[b] \o q[b]) =>
           /\ Ordered(k[b] \o r[b]) /\ Elems(k[b]) \cap Elems(q[b]) = {} /\ h \notin Elems(r[b])
  BY PathShrinks
<1> HIDE DEF h
<1>2. Ordered(k[b] \o r[b]) /\ Elems(k[b]) \cap Elems(q[b]) = {} /\ h \notin Elems(r[b])
  BY <1>0, <1>1 DEF InOrder
<1>3. \A d \in Boxes : /\ Elems(r[d]) \subseteq Elems(q[d])
                       /\ Elems(k[d] \o r[d]) \subseteq Elems(k[d] \o q[d])
  BY <1>1
<1>4. InOrder(r, k)
  BY <1>0, <1>1, <1>2 DEF InOrder
<1>5. Known(r, k, s) /\ Single(r, k)
  BY <1>0, <1>3 DEF Known, Single
<1>6. \A e : OffTheRoad(q, c, e) => OffTheRoad(r, c, e)
  BY <1>3 DEF OffTheRoad
<1>7. Settled(r, k, c)
  BY <1>0, <1>3, <1>6 DEF Settled
<1>8. h.id <= s[h.from]
  BY <1>0, <1>1 DEF Known
<1>9. ASSUME IsMessage(h)  PROVE Untold(r, k, h) /\ OffTheRoad(r, c, h)
  <2>1. Untold(q, k, h)
    BY <1>0, <1>1, <1>9, OnTheRoad
  <2>2. Untold(r, k, h)
    BY <1>1, <1>3, <2>1, EntryFacts DEF Untold
  <2>3. \A d \in Boxes : h \in Elems(k[d] \o q[d]) => d = b
    BY <1>0, <1>1, <1>9 DEF Single
  <2>4. \A d \in Boxes : Elems(k[d] \o q[d]) = Elems(k[d]) \cup Elems(q[d])
    BY Paths
  <2>5. ASSUME NEW d \in Boxes  PROVE h \notin Elems(r[d])
    BY <1>2, <1>3, <2>3, <2>4
  <2>6. ASSUME NEW d \in Boxes  PROVE c[d] # h
    <3>1. c[d] = h => h \in Elems(k[d])
      BY <1>0, <1>9 DEF Held
    <3> QED  BY <1>1, <1>2, <2>3, <2>4, <3>1
  <2> QED  BY <2>2, <2>5, <2>6 DEF OffTheRoad
<1>10. Orderly(r, k, c, s)
  BY <1>0, <1>4, <1>5, <1>7 DEF Orderly
<1> QED  BY <1>1, <1>8, <1>9, <1>10 DEF h

\* The sender is told of a message that is on its way no longer.
LEMMA OrderlyNotice ==
  ASSUME NEW q \in Queues, NEW r \in Queues, NEW k \in Queues, NEW c, NEW s,
         NEW x \in Entries, NEW ntype \in {"RRCPT", "BOUNCE"},
         IsMessage(x), Grows(q, r, x.from, Notice(ntype, x)), Orderly(q, k, c, s),
         x.id <= s[x.from], Untold(q, k, x), OffTheRoad(q, c, x),
         ntype = "RRCPT" => \E b \in Boxes : x \in Elems(k[b])
  PROVE  Orderly(r, k, c, s)
<1>0. InOrder(q, k) /\ Known(q, k, s) /\ Single(q, k) /\ Held(k, c) /\ Settled(q, k, c)
  BY DEF Orderly
<1>1. PICK n, b : n = Notice(ntype, x) /\ b = x.from
  OBVIOUS
<1>2. /\ n \in Entries /\ ~IsMessage(n) /\ n.from = b /\ n.id = x.id /\ n.kind = ntype
      /\ b \in Boxes /\ x = Message(b, x.id)
  <2>1. Notice(ntype, x) \in Entries
    BY EntryFacts
  <2>2. /\ ~IsMessage(Notice(ntype, x)) /\ Notice(ntype, x).kind = ntype
        /\ Notice(ntype, x).from = x.from /\ Notice(ntype, x).id = x.id
    BY MessageFacts
  <2>3. x.from \in Boxes /\ x = Message(x.from, x.id)
    BY EntryFacts, MessageFacts
  <2> QED  BY <1>1, <2>1, <2>2, <2>3
<1>3. Grows(q, r, b, n)
  BY <1>1
<1>4. /\ \A d \in Boxes : d # b => r[d] = q[d]
      /\ Elems(r[b]) = Elems(q[b]) \cup {n}
      /\ Elems(k[b] \o r[b]) = Elems(k[b] \o q[b]) \cup {n}
  <2>1. b \in Boxes /\ n \in Entries
    BY <1>2
  <2>2. Elems(k[b] \o r[b]) = Elems(k[b] \o q[b]) \cup {n}
    BY <1>3, <2>1, PathElems
  <2> QED  BY <1>3, <2>1, <2>2, QueueGrows
<1>5. InOrder(r, k)
  <2>1. \A y \in Elems(k[b] \o q[b]) : Before(y, n)
    BY <1>1, <1>2 DEF Before, Untold
  <2>2. b \in Boxes /\ n \in Entries
    BY <1>2
  <2> QED  BY <1>0, <1>3, <2>1, <2>2, OrderGrows
<1>6. Known(r, k, s)
  <2>1. n.id <= s[n.from]
    BY <1>1, <1>2
  <2> QED  BY <1>0, <1>4, <2>1 DEF Known
<1>7. Single(r, k)
  <2>1. \A d \in Boxes : \A e \in Elems(k[d] \o r[d]) :
          IsMessage(e) => e \in Elems(k[d] \o q[d])
    BY <1>2, <1>4
  <2> QED  BY <1>0, <2>1 DEF Single
<1>8. \A m, i : OffTheRoad(q, c, Message(m, i)) => OffTheRoad(r, c, Message(m, i))
  <2>1. \A m, i : Message(m, i) # n
    BY <1>2, MessageFacts
  <2> QED  BY <1>4, <2>1 DEF OffTheRoad
<1>9. Settled(r, k, c)
  <2> SUFFICES ASSUME NEW m \in Boxes, NEW e \in Elems(k[m] \o r[m]), ~IsMessage(e), e.from = m
               PROVE  /\ OffTheRoad(r, c, Message(m, e.id))
                      /\ e.kind = "RRCPT" => \E d \in Boxes : Message(m, e.id) \in Elems(k[d])
    BY DEF Settled
  <2>1. CASE e \in Elems(k[m] \o q[m])
    BY <1>0, <1>8, <2>1 DEF Settled
  <2>2. CASE e \notin Elems(k[m] \o q[m])
    <3>1. m = b /\ e = n
      BY <1>4, <2>2
    <3>2. Message(m, e.id) = x
      BY <1>2, <3>1
    <3>3. OffTheRoad(r, c, x)
      BY <1>2, <1>8
    <3> QED  BY <1>2, <3>1, <3>2, <3>3
  <2> QED  BY <2>1, <2>2
<1> QED  BY <1>0, <1>5, <1>6, <1>7, <1>9 DEF Orderly

\* A new message, with the next number of its sender, is linked in.
LEMMA OrderlySends ==
  ASSUME NEW q \in Queues, NEW r \in Queues, NEW k \in Queues, NEW c,
         NEW s \in [Boxes -> Nat], NEW v \in [Boxes -> Nat],
         NEW m \in Boxes, NEW to \in Boxes, s[m] + 1 \in Ids,
         Grows(q, r, to, Message(m, s[m] + 1)), Orderly(q, k, c, s),
         v[m] = s[m] + 1, \A n \in Boxes : n # m => v[n] = s[n]
  PROVE  Orderly(r, k, c, v)
<1>0. InOrder(q, k) /\ Known(q, k, s) /\ Single(q, k) /\ Held(k, c) /\ Settled(q, k, c)
  BY DEF Orderly
<1>1. PICK e : e = Message(m, s[m] + 1)
  OBVIOUS
<1>2. e \in Entries /\ IsMessage(e) /\ e.from = m /\ e.id = s[m] + 1
  BY <1>1, EntryFacts, MessageFacts
<1>3. Grows(q, r, to, e)
  BY <1>1
<1>4. /\ \A d \in Boxes : d # to => r[d] = q[d]
      /\ Elems(r[to]) = Elems(q[to]) \cup {e}
      /\ Elems(k[to] \o r[to]) = Elems(k[to] \o q[to]) \cup {e}
  <2>1. to \in Boxes /\ e \in Entries
    BY <1>2
  <2>2. Elems(k[to] \o r[to]) = Elems(k[to] \o q[to]) \cup {e}
    BY <1>3, <2>1, PathElems
  <2> QED  BY <1>3, <2>1, <2>2, QueueGrows
<1>5. \A n \in Boxes : s[n] \in Nat /\ v[n] \in Nat /\ s[n] <= v[n]
  OBVIOUS
<1>6. ASSUME NEW d \in Boxes, NEW y \in Elems(k[d] \o q[d])
      PROVE  /\ y \in Entries /\ y.from \in Boxes /\ y.id \in Nat
             /\ y.id <= s[y.from] /\ y.id <= v[y.from] /\ (y.from = m => y.id < e.id)
  <2>2. y \in Entries
    BY PathIsSequence
  <2>3. y.from \in Boxes /\ y.id \in Nat
    BY <2>2 DEF Entries, Ids
  <2>4. y.id <= s[y.from]
    BY <1>0 DEF Known
  <2>5. y.id <= v[y.from]
    BY <1>5, <2>3, <2>4
  <2>6. y.from = m => y.id < e.id
    BY <1>2, <1>5, <2>3, <2>4
  <2> QED  BY <2>2, <2>3, <2>4, <2>5, <2>6
<1>7. InOrder(r, k)
  <2>1. \A y \in Elems(k[to] \o q[to]) : Before(y, e)
    <3>1. \A y \in Elems(k[to] \o q[to]) : y.from = m => y.id < e.id /\ y.id # e.id
      BY <1>2, <1>5, <1>6
    <3> QED  BY <1>2, <3>1 DEF Before
  <2>2. e \in Entries
    BY <1>2
  <2> QED  BY <1>0, <1>3, <2>1, <2>2, OrderGrows
<1>8. Known(r, k, v)
  <2>1. e.id <= v[e.from]
    BY <1>2, <1>5
  <2> QED  BY <1>4, <1>6, <2>1 DEF Known
<1>9. \A d \in Boxes : e \notin Elems(k[d] \o q[d])
  BY <1>2, <1>5, <1>6
<1>10. Single(r, k)
  <2>1. \A d \in Boxes : \A y \in Elems(k[d] \o r[d]) :
          y \in Elems(k[d] \o q[d]) \/ (y = e /\ d = to)
    BY <1>4
  <2> QED  BY <1>0, <1>9, <2>1 DEF Single
<1>11. Settled(r, k, c)
  <2> SUFFICES ASSUME NEW n \in Boxes, NEW y \in Elems(k[n] \o r[n]), ~IsMessage(y), y.from = n
               PROVE  /\ OffTheRoad(r, c, Message(n, y.id))
                      /\ y.kind = "RRCPT" => \E d \in Boxes : Message(n, y.id) \in Elems(k[d])
    BY DEF Settled
  <2>1. y \in Elems(k[n] \o q[n])
    BY <1>2, <1>4
  <2>2. /\ OffTheRoad(q, c, Message(n, y.id))
        /\ y.kind = "RRCPT" => \E d \in Boxes : Message(n, y.id) \in Elems(k[d])
    BY <1>0, <2>1 DEF Settled
  <2>3. Message(n, y.id) # e
    <3>1. n = m => y.id # e.id
      BY <1>2, <1>5, <1>6, <2>1
    <3> QED  BY <1>2, <3>1, MessageFacts
  <2>4. OffTheRoad(r, c, Message(n, y.id))
    BY <1>4, <2>2, <2>3 DEF OffTheRoad
  <2> QED  BY <2>2, <2>4
<1> QED  BY <1>0, <1>7, <1>8, <1>10, <1>11 DEF Orderly

\* The service thread of m takes the head of its queue.
LEMMA OrderlyTakes ==
  ASSUME NEW q \in Queues, NEW r \in Queues, NEW k \in Queues, NEW l \in Queues,
         NEW c, NEW d, NEW s, NEW m \in Boxes,
         Shrinks(q, r, m), Grows(k, l, m, Head(q[m])), Orderly(q, k, c, s),
         d[m] = Head(q[m]), \A b \in Boxes : b # m => d[b] = c[b]
  PROVE  Orderly(r, l, d, s)
<1>0. InOrder(q, k) /\ Known(q, k, s) /\ Single(q, k) /\ Held(k, c) /\ Settled(q, k, c)
  BY DEF Orderly
<1>1. PICK h : h = Head(q[m])
  OBVIOUS
<1>2. /\ q[m] \in Seq(Entries) /\ q[m] # <<>> /\ r[m] = Tail(q[m])
      /\ k[m] \in Seq(Entries) /\ l[m] = Append(k[m], h) /\ h \in Entries /\ d[m] = h
      /\ \A b \in Boxes : b # m => r[b] = q[b] /\ l[b] = k[b]
  BY <1>1 DEF Queues, Shrinks, Grows
<1>3. l[m] \o r[m] = k[m] \o q[m]
  <2>1. \A u, v \in Seq(Entries) : v # <<>> => Append(u, Head(v)) \o Tail(v) = u \o v
    BY Rejoined
  <2>2. Append(k[m], Head(q[m])) \o Tail(q[m]) = k[m] \o q[m]
    BY <1>2, <2>1
  <2> QED  BY <1>1, <1>2, <2>2
<1>4. \A b \in Boxes : l[b] \o r[b] = k[b] \o q[b]
  BY <1>2, <1>3
<1>5. InOrder(r, l) /\ Known(r, l, s) /\ Single(r, l)
  BY <1>0, <1>4 DEF InOrder, Known, Single
<1>6. Elems(q[m]) = {h} \cup Elems(r[m]) /\ Elems(l[m]) = Elems(k[m]) \cup {h}
  BY <1>1, <1>2, ElemsFacts
<1>7. Held(l, d)
  BY <1>0, <1>2, <1>6 DEF Held
<1>8. ASSUME NEW e, OffTheRoad(q, c, e)  PROVE OffTheRoad(r, d, e)
  BY <1>2, <1>6, <1>8 DEF OffTheRoad
<1>9. \A b \in Boxes : Elems(k[b]) \subseteq Elems(l[b])
  BY <1>2, <1>6
<1>10. Settled(r, l, d)
  <2> SUFFICES ASSUME NEW n \in Boxes, NEW y \in Elems(k[n] \o q[n]), ~IsMessage(y), y.from = n
               PROVE  /\ OffTheRoad(r, d, Message(n, y.id))
                      /\ y.kind = "RRCPT" => \E b \in Boxes : Message(n, y.id) \in Elems(l[b])
    BY <1>4 DEF Settled
  <2>1. /\ OffTheRoad(q, c, Message(n, y.id))
        /\ y.kind = "RRCPT" => \E b \in Boxes : Message(n, y.id) \in Elems(k[b])
    BY <1>0 DEF Settled
  <2> QED  BY <1>8, <1>9, <2>1
<1> QED  BY <1>5, <1>7, <1>10 DEF Orderly

-----------------------------------------------------------------------------
(* What a step does to the entries                                           *)

\* No entry moves, but that a service thread may be done with the one it has.
Rests ==
  /\ UNCHANGED <<queue, taken, sent>>
  /\ \A b \in Boxes : cur'[b] \in {cur[b], NoEntry}

\* m sends its next message to the mailbox to.
Adds(m, to) ==
  /\ to \in Boxes /\ sent[m] + 1 \in Ids
  /\ Grows(queue, queue', to, Message(m, sent[m] + 1))
  /\ sent'[m] = sent[m] + 1 /\ \A n \in Boxes : n # m => sent'[n] = sent[n]
  /\ UNCHANGED <<taken, cur>>

\* The service thread of m takes the head.
Takes(m) ==
  /\ Shrinks(queue, queue', m) /\ Grows(taken, taken', m, Head(queue[m]))
  /\ cur'[m] = Head(queue[m]) /\ \A b \in Boxes : b # m => cur'[b] = cur[b]
  /\ UNCHANGED sent

\* The service thread of m sends a notice about the message it has.
Tells(m) ==
  /\ cur[m] \in Entries /\ IsMessage(cur[m])
  /\ \E ntype \in {"RRCPT", "BOUNCE"} :
       Grows(queue, queue', cur[m].from, Notice(ntype, cur[m]))
  /\ cur'[m] = NoEntry /\ \A b \in Boxes : b # m => cur'[b] = cur[b]
  /\ UNCHANGED <<taken, sent>>

\* The head h of m, which is being finalized, is discarded; q are the queues
\* without it.
Bounced(q, h) == IsMessage(h) /\ Grows(q, queue', h.from, Notice("BOUNCE", h))
Discards(m, q) ==
  /\ Shrinks(queue, q, m)
  /\ \/ queue' = q /\ ~(IsMessage(Head(queue[m])) /\ hook[m])
     \/ Bounced(q, Head(queue[m]))
  /\ opc[m] # "start" /\ refs[m] = 0
  /\ UNCHANGED <<taken, cur, sent>>

\* One of these is what a step does.
Movement ==
  \/ Rests
  \/ \E m, to \in Boxes : Adds(m, to)
  \/ \E m \in Boxes : Takes(m) \/ Tells(m)
  \/ \E m \in Boxes, q \in Queues : Discards(m, q)

\* mb_add_message links the message in at the end of the recipient's queue.
LEMMA AddMoves ==
  ASSUME IInv, NEW m \in Boxes, AddMessage(m)
  PROVE  Adds(m, dest[m])
<1>0. TypeOK /\ Control
  BY DEF IInv
<1>1. dest[m] \in Boxes /\ sent[m] + 1 \in Ids
  BY <1>0, Controlled DEF AddMessage, OwnerAt
<1>2. /\ queue' = [queue EXCEPT ![dest[m]] = Append(@, Message(m, sent[m] + 1))]
      /\ sent' = [sent EXCEPT ![m] = @ + 1]
      /\ UNCHANGED <<taken, cur>>
  BY DEF AddMessage, Linked, svcvars
<1>3. Grows(queue, queue', dest[m], Message(m, sent[m] + 1))
  BY <1>0, <1>1, <1>2 DEF TypeOK, Grows
<1>4. sent'[m] = sent[m] + 1 /\ \A n \in Boxes : n # m => sent'[n] = sent[n]
  BY <1>0, <1>2 DEF TypeOK
<1> QED  BY <1>1, <1>2, <1>3, <1>4 DEF Adds

\* mb_next_entry hands the head to the service thread.
LEMMA PopMoves ==
  ASSUME IInv, NEW m \in Boxes, PopHead(m)
  PROVE  Takes(m)
<1>0. TypeOK /\ Mutexes /\ ItemsCountEntries
  BY DEF IInv
<1>1. Shrinks(queue, queue', m)
  BY <1>0, PopEffect
<1>2. /\ cur' = [cur EXCEPT ![m] = Head(queue[m])]
      /\ taken' = [taken EXCEPT ![m] = Append(@, Head(queue[m]))]
      /\ UNCHANGED sent
  BY DEF PopHead, ownvars
<1>3. Grows(taken, taken', m, Head(queue[m]))
  BY <1>0, <1>2 DEF TypeOK, Grows
<1>4. cur'[m] = Head(queue[m]) /\ \A b \in Boxes : b # m => cur'[b] = cur[b]
  BY <1>0, <1>2 DEF TypeOK
<1> QED  BY <1>1, <1>2, <1>3, <1>4 DEF Takes

\* The service thread has sent a message and tells its sender.
LEMMA SendMoves ==
  ASSUME IInv, NEW m \in Boxes, SendMessage(m)
  PROVE  Tells(m)
<1>0. TypeOK /\ Control
  BY DEF IInv
<1>1. cur[m] \in Entries /\ IsMessage(cur[m])
  BY <1>0, Controlled DEF SendMessage, ServiceAt
<1>2. PICK ntype \in {"RRCPT", "BOUNCE"} : AddNotice(queue, ntype, cur[m])
  BY DEF SendMessage
<1>3. queue \in Queues /\ items \in [Boxes -> Nat] /\ cur[m].from \in Boxes
  BY <1>0, <1>1, EntryFacts DEF TypeOK, Queues
<1>4. /\ \A n \in Boxes : n # cur[m].from => queue'[n] = queue[n]
      /\ queue'[cur[m].from] = Append(queue[cur[m].from], Notice(ntype, cur[m]))
  BY <1>1, <1>2, <1>3, NoticeEffect
<1>5. Grows(queue, queue', cur[m].from, Notice(ntype, cur[m]))
  BY <1>4 DEF Grows
<1>6. cur'[m] = NoEntry /\ (\A b \in Boxes : b # m => cur'[b] = cur[b])
      /\ UNCHANGED <<taken, sent>>
  BY <1>0 DEF SendMessage, ownvars, TypeOK
<1> QED  BY <1>1, <1>5, <1>6 DEF Tells

\* mb_unref discards the head of a mailbox without references.
LEMMA DiscardMoves ==
  ASSUME IInv, NEW t \in Threads, DiscardHead(t)
  PROVE  fin[t] \in Boxes /\ \E q \in Queues : Discards(fin[t], q)
<1> DEFINE m == fin[t]
           h == Head(queue[m])
           q == [queue EXCEPT ![m] = Tail(@)]
<1>0. TypeOK /\ Control /\ Mutexes
  BY DEF IInv
<1>1. m \in Boxes /\ queue[m] \in Seq(Entries) /\ queue[m] # <<>>
  BY <1>0 DEF DiscardHead, TypeOK
<1>2. h \in Entries /\ h.from \in Boxes
  BY <1>1, EntryFacts
<1>3. q \in Queues
  BY <1>0, <1>1 DEF TypeOK, Queues
<1>4. Shrinks(queue, q, m)
  BY <1>0, <1>1 DEF TypeOK, Shrinks
<1>5. (queue' = q /\ ~(IsMessage(h) /\ hook[m])) \/ (AddNotice(q, "BOUNCE", h) /\ IsMessage(h))
  BY DEF DiscardHead, Bounce
<1>6. refs[m] = 0 /\ opc[m] # "start"
  BY <1>0, <1>1 DEF Mutexes, MutexAt, Control, ControlAt, NotFin
<1>7. UNCHANGED <<taken, cur, sent>> /\ items \in [Boxes -> Nat]
  BY <1>0 DEF DiscardHead, ownvars, svcvars, TypeOK
<1> HIDE DEF m, h, q
<1>8. ASSUME AddNotice(q, "BOUNCE", h)  PROVE Grows(q, queue', h.from, Notice("BOUNCE", h))
  <2>1. /\ \A n \in Boxes : n # h.from => queue'[n] = q[n]
        /\ queue'[h.from] = Append(q[h.from], Notice("BOUNCE", h))
    BY <1>2, <1>3, <1>7, <1>8, NoticeEffect
  <2> QED  BY <2>1 DEF Grows
<1>9. Discards(m, q)
  BY <1>4, <1>5, <1>6, <1>7, <1>8 DEF Discards, Bounced, h
<1> QED  BY <1>1, <1>3, <1>9 DEF m

\* The entries move in one of these ways.
LEMMA Moving ==
  ASSUME IInv, [Next]_vars
  PROVE  Movement
<1>0. TypeOK
  BY DEF IInv
<1>1. ASSUME NEW m \in Boxes, OwnerStep(m), ~AddMessage(m)  PROVE Rests
  BY <1>1 DEF OwnerStep, MbInit, GetRecipient, AddMessageEnd, DropRecipient, MbShutdown,
              LogoutUnref, Rests, boxvars, ownvars, svcvars
<1>2. ASSUME NEW m \in Boxes, ServiceStep(m), ~PopHead(m), ~SendMessage(m)  PROVE Rests
  <2>1. CASE SendNotice(m)
    BY <1>0, <2>1 DEF SendNotice, Rests, boxvars, ownvars, TypeOK
  <2> QED
    BY <1>2, <2>1 DEF ServiceStep, ServiceStart, MbSetDiscardHook, WaitItem, NextIsNull, LockHead,
                      UnrefSender, ServiceEnd, Rests, boxvars, ownvars, svcvars
<1>3. ASSUME NEW t \in Threads, Free(t)  PROVE Rests
  BY <1>3 DEF Free, Rests, boxvars, ownvars, svcvars
<1>4. ASSUME UNCHANGED vars  PROVE Rests
  BY <1>4 DEF vars, Rests, boxvars, ownvars, svcvars
<1>5. ASSUME NEW m \in Boxes, AddMessage(m)  PROVE Movement
  <2>1. Adds(m, dest[m]) /\ dest[m] \in Boxes
    BY <1>5, AddMoves DEF Adds
  <2> QED  BY <2>1 DEF Movement
<1>6. ASSUME NEW m \in Boxes, PopHead(m) \/ SendMessage(m)  PROVE Movement
  <2>1. PopHead(m) => Takes(m)
    BY PopMoves
  <2>2. SendMessage(m) => Tells(m)
    BY SendMoves
  <2> QED  BY <1>6, <2>1, <2>2 DEF Movement
<1>7. ASSUME NEW t \in Threads, DiscardHead(t)  PROVE Movement
  BY <1>7, DiscardMoves DEF Movement
<1> QED
  BY <1>1, <1>2, <1>3, <1>4, <1>5, <1>6, <1>7 DEF Next, FinalizeStep, Movement

\* Every movement keeps the entries in order.
LEMMA OrderlyStep ==
  ASSUME IInv, Orderly(queue, taken, cur, sent), TypeOK', Movement
  PROVE  Orderly(queue, taken, cur, sent)'
<1>0. /\ queue \in Queues /\ queue' \in Queues /\ taken \in Queues /\ taken' \in Queues
      /\ sent \in [Boxes -> Nat] /\ sent' \in [Boxes -> Nat]
  BY DEF IInv, TypeOK, Queues
<1>p. \A b \in Boxes : Elems(taken[b] \o queue[b]) = Elems(taken[b]) \cup Elems(queue[b])
  BY <1>0, Paths
<1> SUFFICES Orderly(queue', taken', cur', sent')
  BY DEF Orderly, InOrder, Known, Single, Held, Settled, OffTheRoad
<1>1. CASE Rests
  <2>1. Orderly(queue, taken, cur', sent)
    BY <1>1, OrderlyLeaves DEF Rests
  <2> QED  BY <1>1, <2>1 DEF Rests
<1>2. ASSUME NEW m \in Boxes, NEW to \in Boxes, Adds(m, to)
      PROVE  Orderly(queue', taken', cur', sent')
  <2>1. Orderly(queue', taken, cur, sent')
    BY <1>0, <1>2, OrderlySends DEF Adds
  <2> QED  BY <1>2, <2>1 DEF Adds
<1>3. ASSUME NEW m \in Boxes, Takes(m)  PROVE Orderly(queue', taken', cur', sent')
  <2>1. Orderly(queue', taken', cur', sent)
    BY <1>0, <1>3, OrderlyTakes DEF Takes
  <2> QED  BY <1>3, <2>1 DEF Takes
<1>4. ASSUME NEW m \in Boxes, Tells(m)  PROVE Orderly(queue', taken', cur', sent')
  <2> DEFINE x == cur[m]
  <2>1. x \in Entries /\ IsMessage(x) /\ UNCHANGED <<taken, sent>>
    BY <1>4 DEF Tells
  <2>2. PICK ntype \in {"RRCPT", "BOUNCE"} : Grows(queue, queue', x.from, Notice(ntype, x))
    BY <1>4 DEF Tells
  <2>3. Orderly(queue, taken, cur', sent)
    <3>1. \A b \in Boxes : cur'[b] \in {cur[b], NoEntry}
      BY <1>4 DEF Tells
    <3> QED  BY <3>1, OrderlyLeaves
  <2>4. x \in Elems(taken[m]) /\ x \in Elems(taken[m] \o queue[m])
    BY <1>p, <2>1 DEF Orderly, Held
  <2>5. x.id <= sent[x.from]
    BY <2>4 DEF Orderly, Known
  <2>6. Untold(queue, taken, x)
    BY <1>0, <2>1, OnTheRoad DEF Orderly
  <2>7. OffTheRoad(queue, cur', x)
    <3>1. ASSUME NEW b \in Boxes, x \in Elems(queue[b])  PROVE FALSE
      <4>1. x \in Elems(taken[b] \o queue[b])
        BY <1>p, <3>1
      <4>2. b = m
        BY <2>1, <2>4, <4>1 DEF Orderly, Single
      <4>3. Elems(taken[m]) \cap Elems(queue[m]) = {}
        BY <1>0, OrderedOnce DEF Orderly, InOrder, Queues
      <4> QED  BY <2>4, <3>1, <4>2, <4>3
    <3>2. ASSUME NEW b \in Boxes, cur'[b] = x  PROVE FALSE
      <4>1. b # m
        BY <1>4, <2>1, <3>2, EntryFacts DEF Tells
      <4>2. cur[b] = x
        BY <1>4, <3>2, <4>1 DEF Tells
      <4>3. x \in Elems(taken[b])
        BY <2>1, <4>2 DEF Orderly, Held
      <4>4. x \in Elems(taken[b] \o queue[b])
        BY <1>p, <4>3
      <4> QED  BY <2>1, <2>4, <4>1, <4>4 DEF Orderly, Single
    <3> QED  BY <3>1, <3>2 DEF OffTheRoad
  <2> HIDE DEF x
  <2>8. Orderly(queue', taken, cur', sent)
    BY <1>0, <2>1, <2>2, <2>3, <2>4, <2>5, <2>6, <2>7, OrderlyNotice
  <2> QED  BY <2>1, <2>8
<1>5. ASSUME NEW m \in Boxes, NEW q \in Queues, Discards(m, q)
      PROVE  Orderly(queue', taken', cur', sent')
  <2> DEFINE h == Head(queue[m])
  <2>1. /\ Orderly(q, taken, cur, sent)
        /\ h \in Entries /\ h.id <= sent[h.from]
        /\ IsMessage(h) => Untold(q, taken, h) /\ OffTheRoad(q, cur, h)
    BY <1>0, <1>5, OrderlyShrinks DEF Discards
  <2>2. (queue' = q \/ Bounced(q, h)) /\ UNCHANGED <<taken, cur, sent>>
    BY <1>5 DEF Discards
  <2> HIDE DEF h
  <2>3. ASSUME Bounced(q, h)  PROVE Orderly(queue', taken, cur, sent)
    BY <1>0, <2>1, <2>3, OrderlyNotice DEF Bounced
  <2> QED  BY <2>1, <2>2, <2>3
<1> QED  BY <1>1, <1>2, <1>3, <1>4, <1>5 DEF Movement

-----------------------------------------------------------------------------
(* No message is lost but in a mailbox without the hook                      *)

\* A mailbox logs in before it sends, and one without the hook stays so once it
\* was shut down.
LEMMA Logins ==
  ASSUME IInv, [Next]_vars, NEW n \in Boxes
  PROVE  /\ opc'[n] = "start" => opc[n] = "start" /\ sent'[n] = sent[n]
         /\ attached'[n] /\ ~attached[n] => opc[n] = "start" /\ sent'[n] = sent[n]
         /\ Unhooked(n) => Unhooked(n)'
<1>0. TypeOK /\ ControlAt(n)
  BY DEF IInv, Control
<1> USE DEF Unhooked, boxvars, ownvars, svcvars
<1>1. ASSUME NEW m \in Boxes, OwnerStep(m)
      PROVE  /\ opc'[n] = "start" => opc[n] = "start" /\ sent'[n] = sent[n]
             /\ attached'[n] /\ ~attached[n] => opc[n] = "start" /\ sent'[n] = sent[n]
  BY <1>0, <1>1 DEF TypeOK, OwnerStep, OwnerAt, MbInit, GetRecipient, AddMessage, AddMessageEnd,
                    DropRecipient, MbShutdown, LogoutUnref
<1>2. ASSUME NEW m \in Boxes, OwnerStep(m)  PROVE Unhooked(n) => Unhooked(n)'
  BY <1>0, <1>2 DEF TypeOK, ControlAt, OwnerStep, OwnerAt, MbInit, GetRecipient, AddMessage,
                    AddMessageEnd, DropRecipient, MbShutdown, LogoutUnref
<1>3. ASSUME NEW m \in Boxes, ServiceStep(m)
      PROVE  UNCHANGED <<opc, attached, sent>> /\ (Unhooked(n) => Unhooked(n)')
  BY <1>0, <1>3 DEF TypeOK, ControlAt, ServiceStep, ServiceAt, ServiceStart, MbSetDiscardHook,
                    WaitItem, NextIsNull, LockHead, UnrefSender, PopHead, SendMessage,
                    SendNotice, ServiceEnd
<1>4. ASSUME NEW t \in Threads, FinalizeStep(t)
      PROVE  UNCHANGED <<opc, attached, sent, spc, defunct, hook>>
  BY <1>4 DEF FinalizeStep, DiscardHead, Free
<1>5. CASE UNCHANGED vars
  BY <1>5 DEF vars
<1> QED  BY <1>1, <1>2, <1>3, <1>4, <1>5 DEF Next

\* What went through the mailboxes is never less, but for a head that is discarded.
LEMMA PathsKeep ==
  ASSUME IInv, TypeOK', Movement, NEW b \in Boxes
  PROVE  \/ Elems(taken[b] \o queue[b]) \subseteq Elems(taken[b] \o queue[b])'
         \/ \E m \in Boxes, q \in Queues : Discards(m, q)
<1>0. queue \in Queues /\ queue' \in Queues /\ taken \in Queues /\ taken' \in Queues
  BY DEF IInv, TypeOK, Queues
<1>1. CASE Rests
  BY <1>1 DEF Rests
<1>2. ASSUME NEW m \in Boxes, NEW to \in Boxes, Adds(m, to)
      PROVE  Elems(taken[b] \o queue[b]) \subseteq Elems(taken'[b] \o queue'[b])
  <2>1. /\ Message(m, sent[m] + 1) \in Entries
        /\ Grows(queue, queue', to, Message(m, sent[m] + 1)) /\ taken' = taken
    BY <1>2, EntryFacts DEF Adds
  <2>2. Elems(taken[b] \o queue[b]) \subseteq Elems(taken[b] \o queue'[b])
    BY <1>0, <1>2, <2>1, PathsGrow
  <2> QED  BY <2>1, <2>2
<1>3. ASSUME NEW m \in Boxes, Takes(m)
      PROVE  Elems(taken[b] \o queue[b]) \subseteq Elems(taken'[b] \o queue'[b])
  <2>1. b # m => taken'[b] = taken[b] /\ queue'[b] = queue[b]
    BY <1>3 DEF Takes, Shrinks, Grows
  <2>2. /\ queue[m] \in Seq(Entries) /\ queue[m] # <<>> /\ queue'[m] = Tail(queue[m])
        /\ taken[m] \in Seq(Entries) /\ taken'[m] = Append(taken[m], Head(queue[m]))
    BY <1>0, <1>3 DEF Queues, Takes, Shrinks, Grows
  <2>3. taken'[m] \o queue'[m] = taken[m] \o queue[m]
    BY <2>2, Rejoined
  <2> QED  BY <2>1, <2>3
<1>4. ASSUME NEW m \in Boxes, Tells(m)
      PROVE  Elems(taken[b] \o queue[b]) \subseteq Elems(taken'[b] \o queue'[b])
  <2>1. PICK x \in Entries, ntype \in {"RRCPT", "BOUNCE"} :
          x = cur[m] /\ Grows(queue, queue', x.from, Notice(ntype, x)) /\ taken' = taken
    BY <1>4 DEF Tells
  <2>2. PICK c, n : c = x.from /\ n = Notice(ntype, x)
    OBVIOUS
  <2>3. c \in Boxes /\ n \in Entries /\ Grows(queue, queue', c, n)
    BY <2>1, <2>2, EntryFacts
  <2>4. Elems(taken[b] \o queue[b]) \subseteq Elems(taken[b] \o queue'[b])
    BY <1>0, <2>3, PathsGrow
  <2> QED  BY <2>1, <2>4
<1> QED  BY <1>1, <1>2, <1>3, <1>4 DEF Movement

\* A message or a bounce that is discarded from m: it bounces, or m had no hook,
\* or its owner has logged out.
LEMMA Discarded ==
  ASSUME IInv, TypeOK', NEW m \in Boxes, NEW q \in Queues, Discards(m, q),
         NEW b \in Boxes, NEW e \in Elems(taken[b] \o queue[b])
  PROVE  \/ e \in Elems(taken[b] \o queue[b])'
         \/ /\ b = m /\ ~attached[m]
            /\ IsMessage(e) => Unhooked(m)
                              \/ Notice("BOUNCE", e) \in Elems(taken[e.from] \o queue[e.from])'
<1> DEFINE h == Head(queue[m])
<1>0. /\ queue \in Queues /\ queue' \in Queues /\ taken \in Queues /\ taken' = taken
      /\ Control
  BY DEF IInv, TypeOK, Queues, Discards
<1>1. /\ \A c \in Boxes : c # m => q[c] = queue[c]
      /\ h \in Entries
      /\ Elems(taken[m] \o queue[m]) = Elems(taken[m] \o q[m]) \cup {h}
  <2>1. Shrinks(queue, q, m)
    BY DEF Discards
  <2> QED  BY <1>0, <2>1, PathShrinks
<1>2. opc[m] = "out" /\ spc[m] \in {"created", "done"} /\ defunct[m] /\ ~attached[m]
  BY <1>0, NoReferences DEF Discards, Control, ControlAt
<1>3. (queue' = q /\ ~(IsMessage(h) /\ hook[m])) \/ Bounced(q, h)
  BY DEF Discards
<1> HIDE DEF h
<1>4. ASSUME Bounced(q, h)
      PROVE  /\ Notice("BOUNCE", h) \in Elems(taken[h.from] \o queue'[h.from])
             /\ Elems(taken[b] \o q[b]) \subseteq Elems(taken[b] \o queue'[b])
  <2>1. /\ h.from \in Boxes /\ Notice("BOUNCE", h) \in Entries
        /\ Grows(q, queue', h.from, Notice("BOUNCE", h))
    BY <1>1, <1>4, EntryFacts DEF Bounced
  <2>2. PICK c, n : c = h.from /\ n = Notice("BOUNCE", h)
    OBVIOUS
  <2>3. c \in Boxes /\ n \in Entries /\ Grows(q, queue', c, n)
    BY <2>1, <2>2
  <2>4. /\ n \in Elems(taken[c] \o queue'[c])
        /\ Elems(taken[b] \o q[b]) \subseteq Elems(taken[b] \o queue'[b])
    BY <1>0, <2>3, PathsGrow
  <2> QED  BY <2>2, <2>4
<1>5. Elems(taken[b] \o q[b]) \subseteq Elems(taken[b] \o queue'[b])
  BY <1>3, <1>4
<1>6. CASE e \in Elems(taken[b] \o q[b])
  BY <1>0, <1>5, <1>6
<1>7. CASE e \notin Elems(taken[b] \o q[b])
  <2>1. b = m /\ e = h
    BY <1>1, <1>7
  <2>2. IsMessage(e) /\ ~Unhooked(m) =>
          Notice("BOUNCE", e) \in Elems(taken[e.from] \o queue'[e.from])
    BY <1>2, <1>3, <1>4, <2>1 DEF Unhooked
  <2> QED  BY <1>0, <1>2, <2>1, <2>2
<1> QED  BY <1>6, <1>7

\* Every step keeps account of the messages.
LEMMA AccountedStep ==
  ASSUME IInv, Accounted, TypeOK', [Next]_vars
  PROVE  Accounted'
<1> SUFFICES ASSUME NEW n \in Boxes  PROVE AccountedAt(n)'
  BY DEF Accounted
<1>0. /\ queue \in Queues /\ queue' \in Queues /\ taken \in Queues
      /\ sent \in [Boxes -> 0..MaxMsgs] /\ sent' \in [Boxes -> 0..MaxMsgs]
      /\ Control /\ Movement /\ MaxMsgs \in Nat
  BY Moving, MaxMsgsAssumption DEF IInv, TypeOK, Queues
<1>1. AccountedAt(n)
  BY DEF Accounted
<1>2. opc'[n] = "start" => sent'[n] = 0
  BY <1>1, Logins DEF AccountedAt
<1>3. ASSUME NEW k \in 1..sent'[n], attached'[n], ~\E b \in Boxes : Unhooked(b)'
      PROVE  \/ \E b \in Boxes : Message(n, k) \in Elems(taken[b] \o queue[b])'
             \/ Notice("BOUNCE", Message(n, k)) \in Elems(taken[n] \o queue[n])'
  <2>1. attached[n]
    <3>1. ~attached[n] => sent'[n] = 0
      BY <1>1, <1>3, Logins DEF AccountedAt
    <3> QED  BY <1>3, <3>1
  <2>2. ~\E b \in Boxes : Unhooked(b)
    BY <1>3, Logins
  <2>3. /\ k \in Ids /\ Message(n, k) \in Entries /\ IsMessage(Message(n, k))
        /\ Message(n, k).from = n
    <3>1. k \in Ids
      BY <1>0 DEF Ids
    <3> QED  BY <3>1, EntryFacts
  <2>4. CASE k \in 1..sent[n]
    <3>1. \/ \E b \in Boxes : Message(n, k) \in Elems(taken[b] \o queue[b])
          \/ Notice("BOUNCE", Message(n, k)) \in Elems(taken[n] \o queue[n])
      BY <1>1, <2>1, <2>2, <2>4 DEF AccountedAt
    <3>2. CASE \E m \in Boxes, q \in Queues : Discards(m, q)
      <4>1. PICK m \in Boxes, q \in Queues : Discards(m, q)
        BY <3>2
      <4>2. ASSUME NEW b \in Boxes, Message(n, k) \in Elems(taken[b] \o queue[b])
            PROVE  \/ Message(n, k) \in Elems(taken[b] \o queue[b])'
                   \/ Notice("BOUNCE", Message(n, k)) \in Elems(taken[n] \o queue[n])'
        BY <2>2, <2>3, <4>1, <4>2, Discarded
      <4>3. ASSUME Notice("BOUNCE", Message(n, k)) \in Elems(taken[n] \o queue[n])
            PROVE  Notice("BOUNCE", Message(n, k)) \in Elems(taken[n] \o queue[n])'
        BY <2>1, <4>1, <4>3, Discarded
      <4> QED  BY <3>1, <4>2, <4>3
    <3>3. CASE ~\E m \in Boxes, q \in Queues : Discards(m, q)
      <4>1. \A b \in Boxes : Elems(taken[b] \o queue[b]) \subseteq Elems(taken[b] \o queue[b])'
        BY <1>0, <3>3, PathsKeep
      <4> QED  BY <3>1, <4>1
    <3> QED  BY <3>2, <3>3
  <2>5. CASE k \notin 1..sent[n]
    <3>1. sent'[n] # sent[n]
      BY <1>3, <2>5
    <3>2. PICK to \in Boxes : Adds(n, to)
      BY <1>0, <3>1 DEF Movement, Rests, Adds, Takes, Tells, Discards
    <3>3. k = sent[n] + 1
      <4>1. sent'[n] = sent[n] + 1 /\ sent[n] \in Nat
        BY <1>0, <3>2 DEF Adds
      <4> QED  BY <1>3, <2>5, <4>1
    <3>4. Grows(queue, queue', to, Message(n, k)) /\ taken' = taken
      BY <3>2, <3>3 DEF Adds
    <3>5. Message(n, k) \in Elems(taken[to] \o queue'[to])
      BY <1>0, <2>3, <3>4, PathsGrow
    <3> QED  BY <3>4, <3>5
  <2> QED  BY <2>4, <2>5
<1> QED  BY <1>2, <1>3 DEF AccountedAt

-----------------------------------------------------------------------------
(* The properties                                                            *)

\* Before a login there are no messages.
LEMMA DeliveryInit ==
  ASSUME Init
  PROVE  Delivery
<1>1. \A b \in Boxes : queue[b] = <<>> /\ taken[b] = <<>> /\ cur[b] = NoEntry /\ sent[b] = 0
  BY DEF Init
<1>2. \A b \in Boxes : /\ DOMAIN (taken[b] \o queue[b]) = {}
                       /\ Elems(taken[b] \o queue[b]) = {}
  <2>1. DOMAIN (<<>> \o <<>>) = {}
    OBVIOUS
  <2> QED  BY <1>1, <2>1 DEF Elems
<1>3. ~IsMessage(NoEntry)
  BY DEF IsMessage, NoEntry
<1>4. Orderly(queue, taken, cur, sent)
  BY <1>1, <1>2, <1>3 DEF Orderly, InOrder, Ordered, Known, Single, Held, Settled
<1>5. Accounted
  BY <1>1 DEF Accounted, AccountedAt
<1> QED  BY <1>4, <1>5 DEF Delivery

\* Every step keeps Delivery.
LEMMA DeliveryStep ==
  ASSUME IInv, Delivery, [Next]_vars
  PROVE  Delivery'
<1>1. TypeOK'
  BY StepInv DEF IInv
<1>2. Orderly(queue, taken, cur, sent)'
  BY <1>1, Moving, OrderlyStep DEF Delivery
<1>3. Accounted'
  BY <1>1, AccountedStep DEF Delivery
<1> QED  BY <1>2, <1>3 DEF Delivery

\* The positions of entries about a message, and what they say when there are none.
LEMMA AboutFacts ==
  \A s, kinds, m, k : /\ About(s, kinds, m, k)
                          = {i \in DOMAIN s : s[i].kind \in kinds /\ s[i].from = m /\ s[i].id = k}
                      /\ About(s, kinds, m, k) # {} <=>
                           \E e \in Elems(s) : e.kind \in kinds /\ e.from = m /\ e.id = k
<1>1. \A s, kinds, m, k :
        About(s, kinds, m, k)
          = {i \in DOMAIN s : s[i].kind \in kinds /\ s[i].from = m /\ s[i].id = k}
  BY DEF About, Places
<1> QED  BY <1>1 DEF Elems

\* Two sequences joined one way and the other.
LEMMA Rotated ==
  ASSUME NEW s \in Seq(Entries), NEW r \in Seq(Entries)
  PROVE  /\ Len(s) \in Nat /\ Len(r) \in Nat
         /\ DOMAIN (s \o r) = 1..(Len(s) + Len(r)) /\ DOMAIN (r \o s) = 1..(Len(s) + Len(r))
         /\ \A x \in 1..(Len(s) + Len(r)) :
              (s \o r)[x] = (r \o s)[IF x <= Len(s) THEN Len(r) + x ELSE x - Len(s)]
<1>1. /\ Len(s) \in Nat /\ Len(r) \in Nat
      /\ DOMAIN (s \o r) = 1..(Len(s) + Len(r)) /\ DOMAIN (r \o s) = 1..(Len(s) + Len(r))
  OBVIOUS
<1>2. ASSUME NEW x \in 1..(Len(s) + Len(r)), x <= Len(s)
      PROVE  (s \o r)[x] = (r \o s)[Len(r) + x]
  <2>1. (s \o r)[x] = s[x]
    BY <1>2
  <2>2. Len(r) + x \in 1..(Len(s) + Len(r)) /\ Len(r) + x > Len(r) /\ (Len(r) + x) - Len(r) = x
    BY <1>1, <1>2
  <2>3. (r \o s)[Len(r) + x] = s[x]
    BY <2>2
  <2> QED  BY <2>1, <2>3
<1>3. ASSUME NEW x \in 1..(Len(s) + Len(r)), ~(x <= Len(s))
      PROVE  (s \o r)[x] = (r \o s)[x - Len(s)]
  <2>1. x - Len(s) \in 1..Len(r)
    BY <1>1, <1>3
  <2>2. (s \o r)[x] = r[x - Len(s)]
    BY <1>3, <2>1
  <2>3. (r \o s)[x - Len(s)] = r[x - Len(s)]
    BY <1>1, <2>1
  <2> QED  BY <2>2, <2>3
<1> QED  BY <1>1, <1>2, <1>3

\* Of two notices about one message in what m has or had, there is but one.
LEMMA OneNotice ==
  ASSUME TypeOK, Delivery, NEW m \in Boxes, NEW k,
         NEW i \in About(queue[m] \o taken[m], {"RRCPT", "BOUNCE"}, m, k),
         NEW j \in About(queue[m] \o taken[m], {"RRCPT", "BOUNCE"}, m, k)
  PROVE  i = j
<1> DEFINE u == queue[m] \o taken[m]
           v == taken[m] \o queue[m]
           n == Len(queue[m])
           p == Len(taken[m])
<1>1. queue[m] \in Seq(Entries) /\ taken[m] \in Seq(Entries)
  BY DEF TypeOK
<1> DEFINE at(x) == IF x <= n THEN p + x ELSE x - n
<1>2. /\ n \in Nat /\ p \in Nat /\ DOMAIN u = 1..(n + p) /\ DOMAIN v = 1..(n + p)
      /\ \A x \in DOMAIN u : u[x] = v[at(x)]
  BY <1>1, Rotated
<1>3. /\ i \in DOMAIN u /\ u[i].kind \in {"RRCPT", "BOUNCE"} /\ u[i].from = m /\ u[i].id = k
      /\ j \in DOMAIN u /\ u[j].kind \in {"RRCPT", "BOUNCE"} /\ u[j].from = m /\ u[j].id = k
  BY AboutFacts
<1>4. Ordered(v)
  BY DEF Delivery, Orderly, InOrder
<1> HIDE DEF u, v, n, p
<1>5. /\ at(i) \in DOMAIN v /\ at(j) \in DOMAIN v /\ u[i] = v[at(i)] /\ u[j] = v[at(j)]
      /\ at(i) \in Nat /\ at(j) \in Nat /\ (at(i) = at(j) => i = j)
  BY <1>2, <1>3
<1>6. ~Before(v[at(i)], v[at(j)]) /\ ~Before(v[at(j)], v[at(i)])
  BY <1>3, <1>5 DEF Before, IsMessage
<1> HIDE DEF at
<1>7. ~(at(i) < at(j)) /\ ~(at(j) < at(i))
  BY <1>4, <1>5, <1>6 DEF Ordered
<1> QED  BY <1>5, <1>7

\* What follows from Delivery.
LEMMA DeliveryImplies ==
  ASSUME TypeOK, Delivery
  PROVE  SenderOrder /\ LostOnlyWithoutHook /\ OneNoticePerMessage
<1>0. /\ queue \in Queues /\ taken \in Queues
      /\ \A b \in Boxes : queue[b] \in Seq(Entries) /\ taken[b] \in Seq(Entries)
      /\ \A b \in Boxes : sent[b] \in 0..MaxMsgs
      /\ Orderly(queue, taken, cur, sent)
  BY DEF TypeOK, Queues, Delivery
<1>1. SenderOrder
  BY <1>0 DEF SenderOrder, Orderly, InOrder, Ordered, Before
<1>2. \A s, r \in Seq(Entries) : Elems(s \o r) = Elems(r \o s) /\ Elems(s \o r) \subseteq Entries
  <2>1. \A s, r \in Seq(Entries) : Elems(s \o r) = Elems(s) \cup Elems(r)
    BY ElemsFacts
  <2>2. \A s \in Seq(Entries) : Elems(s) \subseteq Entries
    BY ElemsFacts
  <2> QED  BY <2>1, <2>2
<1>3. LostOnlyWithoutHook
  <2> SUFFICES ASSUME NEW m \in Boxes, NEW k \in 1..sent[m], attached[m]
               PROVE  \/ \E b \in Boxes : About(queue[b] \o taken[b], {"MESSAGE"}, m, k) # {}
                      \/ About(queue[m] \o taken[m], {"BOUNCE"}, m, k) # {}
                      \/ \E b \in Boxes : spc[b] \in {"created", "done"} /\ defunct[b] /\ ~hook[b]
    BY DEF LostOnlyWithoutHook
  <2>1. \/ \E b \in Boxes : Message(m, k) \in Elems(taken[b] \o queue[b])
        \/ Notice("BOUNCE", Message(m, k)) \in Elems(taken[m] \o queue[m])
        \/ \E b \in Boxes : Unhooked(b)
    BY DEF Delivery, Accounted, AccountedAt
  <2>2. /\ Message(m, k).kind = "MESSAGE" /\ Message(m, k).from = m /\ Message(m, k).id = k
        /\ Notice("BOUNCE", Message(m, k)).kind = "BOUNCE"
        /\ Notice("BOUNCE", Message(m, k)).from = m /\ Notice("BOUNCE", Message(m, k)).id = k
    BY DEF Message, Notice
  <2>3. ASSUME NEW b \in Boxes, Message(m, k) \in Elems(taken[b] \o queue[b])
        PROVE  About(queue[b] \o taken[b], {"MESSAGE"}, m, k) # {}
    <3>1. Message(m, k) \in Elems(queue[b] \o taken[b])
      BY <1>0, <1>2, <2>3
    <3> QED  BY <2>2, <3>1, AboutFacts
  <2>4. ASSUME Notice("BOUNCE", Message(m, k)) \in Elems(taken[m] \o queue[m])
        PROVE  About(queue[m] \o taken[m], {"BOUNCE"}, m, k) # {}
    <3>1. Notice("BOUNCE", Message(m, k)) \in Elems(queue[m] \o taken[m])
      BY <1>0, <1>2, <2>4
    <3> QED  BY <2>2, <3>1, AboutFacts
  <2> QED  BY <2>1, <2>3, <2>4 DEF Unhooked
<1>4. OneNoticePerMessage
  <2> SUFFICES ASSUME NEW m \in Boxes, NEW k \in 1..sent[m]
               PROVE  LET notices == Cardinality(About(queue[m] \o taken[m], {"RRCPT", "BOUNCE"}, m, k))
                      IN /\ notices <= 1
                         /\ notices = 1 => \A b \in Boxes : About(queue[b], {"MESSAGE"}, m, k) = {}
                         /\ About(queue[m] \o taken[m], {"RRCPT"}, m, k) # {} =>
                              \E b \in Boxes : About(taken[b], {"MESSAGE"}, m, k) # {}
    BY DEF OneNoticePerMessage
  <2> DEFINE N == About(queue[m] \o taken[m], {"RRCPT", "BOUNCE"}, m, k)
  <2>1. \A i, j \in N : i = j
    BY OneNotice
  <2>2. N = {} \/ \E i : N = {i}
    BY <2>1
  <2>3. Cardinality(N) <= 1 /\ (Cardinality(N) = 1 => N # {})
    <3> HIDE DEF N
    <3>1. N = {} => Cardinality(N) = 0
      BY FS_EmptySet
    <3>2. \A i : N = {i} => Cardinality(N) = 1
      BY FS_Singleton
    <3> QED  BY <2>2, <3>1, <3>2
  <2>4. ASSUME NEW e \in Elems(queue[m] \o taken[m]), e.kind \in {"RRCPT", "BOUNCE"},
               e.from = m, e.id = k
        PROVE  /\ \A b \in Boxes : Message(m, k) \notin Elems(queue[b])
               /\ e.kind = "RRCPT" => \E b \in Boxes : Message(m, k) \in Elems(taken[b])
    <3>1. e \in Elems(taken[m] \o queue[m]) /\ ~IsMessage(e)
      BY <1>0, <1>2, <2>4 DEF IsMessage
    <3> QED  BY <1>0, <2>4, <3>1 DEF Orderly, Settled, OffTheRoad
  <2>5. ASSUME N # {}, NEW b \in Boxes  PROVE About(queue[b], {"MESSAGE"}, m, k) = {}
    <3>1. Message(m, k) \notin Elems(queue[b])
      BY <2>4, <2>5, AboutFacts
    <3>2. ASSUME NEW e \in Elems(queue[b]), e.kind = "MESSAGE", e.from = m, e.id = k  PROVE FALSE
      <4>1. e \in Entries
        BY <1>0, ElemsFacts
      <4> QED  BY <3>1, <3>2, <4>1, MessageFacts DEF IsMessage
    <3> QED  BY <3>2, AboutFacts
  <2>6. ASSUME About(queue[m] \o taken[m], {"RRCPT"}, m, k) # {}
        PROVE  \E b \in Boxes : About(taken[b], {"MESSAGE"}, m, k) # {}
    <3>1. PICK e \in Elems(queue[m] \o taken[m]) : e.kind = "RRCPT" /\ e.from = m /\ e.id = k
      BY <2>6, AboutFacts
    <3>2. PICK b \in Boxes : Message(m, k) \in Elems(taken[b])
      BY <2>4, <3>1
    <3>3. Message(m, k).kind = "MESSAGE" /\ Message(m, k).from = m /\ Message(m, k).id = k
      BY DEF Message
    <3>4. About(taken[b], {"MESSAGE"}, m, k) # {}
      BY <3>2, <3>3, AboutFacts
    <3> QED  BY <3>4
  <2> QED  BY <2>3, <2>5, <2>6
<1> QED  BY <1>1, <1>3, <1>4

\* Delivery is an invariant of the mailboxes.
THEOREM Delivered == Spec => []Delivery
<1>1. Init => Delivery
  BY DeliveryInit
<1>2. IInv /\ Delivery /\ [Next]_vars => Delivery'
  BY DeliveryStep
<1> QED  BY <1>1, <1>2, Invariance, PTL DEF Spec

\* Messages of one sender come in the order they were sent, each once
\* (mb_add_message against mb_next_entry and the discarding of mb_unref).
THEOREM InSenderOrder == Spec => []SenderOrder
<1>1. TypeOK /\ Delivery => SenderOrder
  BY DeliveryImplies
<1> QED  BY <1>1, Delivered, Types, PTL

\* A message is lost without a word only where the discard hook was not set
\* (server.c:19-29).
THEOREM LostWhere == Spec => []LostOnlyWithoutHook
<1>1. TypeOK /\ Delivery => LostOnlyWithoutHook
  BY DeliveryImplies
<1> QED  BY <1>1, Delivered, Types, PTL

\* A sender has one notice about a message at most, and none while the message
\* is still in a mailbox.
THEOREM ToldOnce == Spec => []OneNoticePerMessage
<1>1. TypeOK /\ Delivery => OneNoticePerMessage
  BY DeliveryImplies
<1> QED  BY <1>1, Delivered, Types, PTL

-----------------------------------------------------------------------------
(* A step of the mailboxes is a step of the channel, or nothing to it        *)

\* In which phase a mailbox is.
LEMMA Phases ==
  ASSUME NEW m \in Boxes
  PROVE  /\ opc[m] = "start" => phase[m] = "new"
         /\ opc[m] # "start" /\ ~live[m] => phase[m] = "gone"
         /\ opc[m] # "start" /\ live[m] /\ defunct[m] => phase[m] = "shut"
         /\ opc[m] # "start" /\ live[m] /\ ~defunct[m] => phase[m] = "open"
<1>1. ASSUME opc[m] = "start" PROVE phase[m] = "new"
  BY <1>1 DEF phase
<1>2. ASSUME opc[m] # "start", ~live[m] PROVE phase[m] = "gone"
  BY <1>2 DEF phase
<1>3. ASSUME opc[m] # "start", live[m], defunct[m] PROVE phase[m] = "shut"
  BY <1>3 DEF phase
<1>4. ASSUME opc[m] # "start", live[m], ~defunct[m] PROVE phase[m] = "open"
  BY <1>4 DEF phase
<1> QED  BY <1>1, <1>2, <1>3, <1>4

\* A step that makes, shuts down and frees no mailbox changes no phase.
LEMMA SamePhase ==
  ASSUME \A n \in Boxes : opc'[n] = "start" <=> opc[n] = "start",
         UNCHANGED <<live, defunct>>
  PROVE  phase' = phase
BY DEF phase

\* One that does so to m alone changes its phase.
LEMMA NewPhase ==
  ASSUME NEW m \in Boxes, NEW p,
         \A n \in Boxes : n # m => /\ opc'[n] = "start" <=> opc[n] = "start"
                                  /\ live'[n] = live[n] /\ defunct'[n] = defunct[n],
         phase'[m] = p
  PROVE  phase' = [phase EXCEPT ![m] = p]
<1>1. \A n \in Boxes : n # m => phase'[n] = phase[n]
  BY DEF phase
<1>2. phase = [n \in Boxes |-> phase[n]] /\ phase' = [n \in Boxes |-> phase'[n]]
  BY DEF phase
<1> HIDE DEF phase
<1> QED  BY <1>1, <1>2

\* A mailbox whose mutex is free can be added to.
LEMMA OpenOrShut ==
  ASSUME IInv, NEW m \in Boxes, opc[m] # "start", mutex[m] = NoThread
  PROVE  phase[m] \in {"open", "shut"}
<1>1. live[m]
  BY DEF IInv, Mutexes, MutexAt
<1> QED  BY <1>1, Phases

\* How the queues change is how the channel does.
LEMMA Linking ==
  ASSUME NEW q \in Queues, NEW r \in Queues, NEW b \in Boxes
  PROVE  /\ \A e : Grows(q, r, b, e) => r = [q EXCEPT ![b] = Append(@, e)]
         /\ Shrinks(q, r, b) => q[b] # <<>> /\ r = [q EXCEPT ![b] = Tail(@)]
<1>1. /\ q = [c \in Boxes |-> q[c]] /\ r = [c \in Boxes |-> r[c]]
  BY DEF Queues
<1>2. ASSUME NEW e, Grows(q, r, b, e)  PROVE r = [q EXCEPT ![b] = Append(@, e)]
  <2>1. r[b] = Append(q[b], e) /\ \A c \in Boxes : c # b => r[c] = q[c]
    BY <1>2 DEF Grows
  <2>2. PICK x : x = Append(q[b], e)
    OBVIOUS
  <2>3. r = [q EXCEPT ![b] = x]
    BY <1>1, <2>1, <2>2
  <2> QED  BY <2>2, <2>3
<1>3. ASSUME Shrinks(q, r, b)  PROVE q[b] # <<>> /\ r = [q EXCEPT ![b] = Tail(@)]
  <2>1. q[b] # <<>> /\ r[b] = Tail(q[b]) /\ \A c \in Boxes : c # b => r[c] = q[c]
    BY <1>3 DEF Shrinks
  <2> QED  BY <1>1, <2>1
<1> QED  BY <1>2, <1>3

\* A login opens a channel.
LEMMA InitOpens ==
  ASSUME IInv, NEW m \in Boxes, MbInit(m)
  PROVE  Abstract!Open(m)
<1>1. /\ opc[m] = "start" /\ ~defunct[m]
      /\ live' = [live EXCEPT ![m] = TRUE] /\ opc' = [opc EXCEPT ![m] = "idle"]
      /\ UNCHANGED <<queue, taken, defunct>>
  BY DEF MbInit, OwnerAt, IInv, Control, ControlAt
<1>2. live'[m] /\ opc'[m] = "idle" /\ ~defunct'[m]
      /\ \A n \in Boxes : n # m => live'[n] = live[n] /\ opc'[n] = opc[n] /\ defunct'[n] = defunct[n]
  BY <1>1 DEF IInv, TypeOK
<1>3. phase[m] = "new" /\ phase'[m] = "open"
  <2>1. phase[m] = "new"
    BY <1>1, Phases
  <2>2. phase'[m] = "open"
    BY <1>2 DEF phase
  <2> QED  BY <2>1, <2>2
<1>4. phase' = [phase EXCEPT ![m] = "open"]
  BY <1>2, <1>3, NewPhase
<1> QED  BY <1>1, <1>3, <1>4 DEF Abstract!Open

\* mb_shutdown shuts it.
LEMMA ShutdownShuts ==
  ASSUME IInv, NEW m \in Boxes, MbShutdown(m)
  PROVE  Abstract!Shut(m)
<1>1. /\ opc[m] = "idle" /\ ~defunct[m] /\ live[m]
      /\ defunct' = [defunct EXCEPT ![m] = TRUE] /\ opc' = [opc EXCEPT ![m] = "unref"]
      /\ UNCHANGED <<queue, taken, live>>
  BY DEF MbShutdown, OwnerAt, Unlocked, IInv, Control, ControlAt, Mutexes, MutexAt, svcvars
<1>2. live'[m] /\ opc'[m] = "unref" /\ defunct'[m]
      /\ \A n \in Boxes : n # m => live'[n] = live[n] /\ opc'[n] = opc[n] /\ defunct'[n] = defunct[n]
  BY <1>1 DEF IInv, TypeOK
<1>3. phase[m] = "open" /\ phase'[m] = "shut"
  <2>1. phase[m] = "open"
    BY <1>1, Phases
  <2>2. phase'[m] = "shut"
    BY <1>2 DEF phase
  <2> QED  BY <2>1, <2>2
<1>4. phase' = [phase EXCEPT ![m] = "shut"]
  BY <1>2, <1>3, NewPhase
<1> QED  BY <1>1, <1>3, <1>4 DEF Abstract!Shut

\* A mailbox that a thread is finalizing was shut.
LEMMA Finalized ==
  ASSUME IInv, NEW t \in Threads, fin[t] \in Boxes
  PROVE  /\ phase[fin[t]] = "shut" /\ live[fin[t]] /\ mutex[fin[t]] = t
         /\ opc[fin[t]] = "out" /\ defunct[fin[t]]
<1>1. refs[fin[t]] = 0 /\ live[fin[t]] /\ mutex[fin[t]] = t /\ opc[fin[t]] # "start"
  BY DEF IInv, Mutexes, MutexAt, Control, ControlAt, NotFin
<1>2. opc[fin[t]] = "out" /\ defunct[fin[t]]
  BY <1>1, NoReferences DEF IInv, Control, ControlAt
<1> QED  BY <1>1, <1>2, Phases

\* The end of mb_unref makes it vanish.
LEMMA FreeVanishes ==
  ASSUME IInv, NEW t \in Threads, Free(t)
  PROVE  fin[t] \in Boxes /\ Abstract!Vanish(fin[t])
<1>1. PICK m : m = fin[t]
  OBVIOUS
<1>2. /\ m \in Boxes /\ queue[m] = <<>>
      /\ live' = [live EXCEPT ![m] = FALSE] /\ UNCHANGED <<queue, taken, defunct, opc>>
  BY <1>1 DEF Free, IInv, TypeOK, ownvars, svcvars
<1>3. phase[m] = "shut" /\ opc[m] = "out"
  BY <1>1, <1>2, Finalized
<1>4. ~live'[m] /\ opc'[m] = "out"
      /\ \A n \in Boxes : n # m => live'[n] = live[n] /\ opc'[n] = opc[n] /\ defunct'[n] = defunct[n]
  BY <1>2, <1>3 DEF IInv, TypeOK
<1>5. phase'[m] = "gone"
  BY <1>2, <1>4 DEF phase
<1>6. phase' = [phase EXCEPT ![m] = "gone"]
  BY <1>2, <1>4, <1>5, NewPhase
<1>7. Abstract!Vanish(m)
  BY <1>2, <1>3, <1>6 DEF Abstract!Vanish
<1> QED  BY <1>1, <1>2, <1>7

\* mb_add_message puts a message into the channel of the recipient.
LEMMA AddPuts ==
  ASSUME IInv, TypeOK', NEW m \in Boxes, AddMessage(m)
  PROVE  \E to \in Boxes, e \in Entries : Abstract!Put(to, e)
<1>1. PICK to, e : to = dest[m] /\ e = Message(m, sent[m] + 1)
  OBVIOUS
<1>2. /\ to \in Boxes /\ e \in Entries /\ Grows(queue, queue', to, e) /\ UNCHANGED taken
  BY <1>1, AddMoves, EntryFacts DEF Adds
<1>3. opc[to] # "start" /\ mutex[to] = NoThread
  BY <1>1, <1>2 DEF AddMessage, Unlocked, IInv, Started, StartedAt
<1>4. phase' = phase
  <2>1. opc[m] = "add" /\ opc' = [opc EXCEPT ![m] = "ref"] /\ UNCHANGED <<live, defunct>>
    BY DEF AddMessage, OwnerAt
  <2>2. \A n \in Boxes : opc'[n] = "start" <=> opc[n] = "start"
    BY <2>1 DEF IInv, TypeOK
  <2> QED  BY <2>1, <2>2, SamePhase
<1>5. queue' = [queue EXCEPT ![to] = Append(@, e)]
  <2>1. queue \in Queues /\ queue' \in Queues
    BY DEF IInv, TypeOK, Queues
  <2>2. to \in Boxes /\ Grows(queue, queue', to, e)
    BY <1>2
  <2> QED  BY <2>1, <2>2, Linking
<1>6. phase[to] \in {"open", "shut"}
  BY <1>2, <1>3, OpenOrShut
<1> QED  BY <1>2, <1>4, <1>5, <1>6 DEF Abstract!Put

\* mb_next_entry gets the head.
LEMMA PopGets ==
  ASSUME IInv, TypeOK', NEW m \in Boxes, PopHead(m)
  PROVE  Abstract!Get(m)
<1>1. Takes(m)
  BY PopMoves
<1>2. spc[m] = "pop" /\ live[m] /\ ~defunct[m] /\ opc[m] # "start" /\ UNCHANGED <<opc, live, defunct>>
  BY DEF PopHead, ServiceAt, IInv, Mutexes, MutexAt, Control, ControlAt, ownvars
<1>3. phase[m] = "open" /\ phase' = phase
  BY <1>2, Phases, SamePhase
<1>4. /\ queue \in Queues /\ queue' \in Queues /\ taken \in Queues /\ taken' \in Queues
  BY DEF IInv, TypeOK, Queues
<1>5. /\ queue[m] # <<>> /\ queue' = [queue EXCEPT ![m] = Tail(@)]
      /\ taken' = [taken EXCEPT ![m] = Append(@, Head(queue[m]))]
  <2>1. Shrinks(queue, queue', m) /\ Grows(taken, taken', m, Head(queue[m]))
    BY <1>1 DEF Takes
  <2> QED  BY <1>4, <2>1, Linking
<1> QED  BY <1>3, <1>5 DEF Abstract!Get

\* mb_add_notice puts a notice into the channel of the sender.
LEMMA SendPuts ==
  ASSUME IInv, TypeOK', NEW m \in Boxes, SendMessage(m)
  PROVE  \E to \in Boxes, e \in Entries : Abstract!Put(to, e)
<1>1. /\ cur[m] \in Entries /\ cur[m].from \in Boxes /\ UNCHANGED taken
      /\ Notified(queue, queue', cur[m])
  BY SendEffect DEF IInv, SendMessage
<1>2. PICK to, e : /\ to = cur[m].from /\ e \in Entries /\ mutex[to] = NoThread
                   /\ Grows(queue, queue', to, e)
  BY <1>1 DEF Notified
<1>3. to \in Boxes /\ opc[to] # "start"
  BY <1>1, <1>2 DEF IInv, Started, StartedAt
<1>4. phase' = phase
  BY SamePhase DEF SendMessage, ownvars
<1>5. queue' = [queue EXCEPT ![to] = Append(@, e)]
  <2>1. queue \in Queues /\ queue' \in Queues
    BY DEF IInv, TypeOK, Queues
  <2>2. to \in Boxes /\ Grows(queue, queue', to, e)
    BY <1>2, <1>3
  <2> QED  BY <2>1, <2>2, Linking
<1>6. phase[to] \in {"open", "shut"}
  BY <1>2, <1>3, OpenOrShut
<1> QED  BY <1>1, <1>2, <1>3, <1>4, <1>5, <1>6 DEF Abstract!Put

\* mb_unref discards the head, and may tell its sender: another mailbox, for the
\* mutex of its own is held.
LEMMA DiscardDiscards ==
  ASSUME IInv, TypeOK', NEW t \in Threads, DiscardHead(t)
  PROVE  \E m \in Boxes : Abstract!Discard(m) \/ \E s \in Boxes : Abstract!DiscardAndBounce(m, s)
<1>1. PICK m, h : m = fin[t] /\ h = Head(queue[m])
  OBVIOUS
<1>2. m \in Boxes /\ queue[m] # <<>> /\ UNCHANGED <<taken, live, defunct, opc>>
  BY <1>1 DEF DiscardHead, IInv, TypeOK, ownvars, svcvars
<1>3. phase[m] = "shut" /\ mutex[m] = t
  BY <1>1, <1>2, Finalized
<1>4. phase' = phase
  BY <1>2, SamePhase
<1>5. CASE queue' = [queue EXCEPT ![m] = Tail(@)]
  <2>1. Abstract!Discard(m)
    BY <1>2, <1>3, <1>4, <1>5 DEF Abstract!Discard
  <2> QED  BY <1>2, <2>1
<1>6. CASE IsMessage(h) /\ Bounce(m)
  <2>1. PICK s, e : s = h.from /\ e = Notice("BOUNCE", h)
    OBVIOUS
  <2>2. h \in Entries /\ s \in Boxes /\ opc[s] # "start"
    <3>1. Head(queue[m]) \in Entries
      BY <1>2 DEF IInv, TypeOK
    <3>2. Head(queue[m]).from \in Boxes /\ opc[Head(queue[m]).from] # "start"
      BY <1>2, HeadStarted DEF IInv
    <3> QED  BY <1>1, <2>1, <3>1, <3>2
  <2>3. e \in Entries /\ e.kind = "BOUNCE"
    <3>1. Notice("BOUNCE", h) \in Entries
      BY <2>2, EntryFacts
    <3> QED  BY <2>1, <3>1, MessageFacts
  <2>4. mutex[s] = NoThread /\ queue' = [[queue EXCEPT ![m] = Tail(@)] EXCEPT ![s] = Append(@, e)]
    BY <1>1, <1>6, <2>1 DEF Bounce, AddNotice, Unlocked, Linked
  <2>5. s # m
    BY <1>3, <2>4, ThreadFacts
  <2>6. queue' = [queue EXCEPT ![m] = Tail(@), ![s] = Append(@, e)]
    <3>1. PICK x, y : x = Append(queue[s], e) /\ y = Tail(queue[m])
      OBVIOUS
    <3>2. queue \in [Boxes -> Seq(Entries)]
      BY DEF IInv, TypeOK
    <3>3. [queue EXCEPT ![m] = Tail(@)][s] = queue[s]
      BY <2>2, <2>5, <3>2
    <3>4. queue' = [[queue EXCEPT ![m] = y] EXCEPT ![s] = x]
      BY <2>4, <3>1, <3>3
    <3>5. [queue EXCEPT ![m] = y, ![s] = x] = [queue EXCEPT ![m] = Tail(@), ![s] = Append(@, e)]
      BY <2>2, <2>5, <3>1, <3>2
    <3> QED  BY <3>4, <3>5
  <2>7. phase[s] \in {"open", "shut"}
    BY <2>2, <2>4, OpenOrShut
  <2>8. Head(queue[m]).kind = "MESSAGE" /\ Head(queue[m]).from = s
    BY <1>1, <1>6, <2>1 DEF IsMessage
  <2>9. Abstract!DiscardAndBounce(m, s)
    BY <1>2, <1>3, <1>4, <2>3, <2>5, <2>6, <2>7, <2>8 DEF Abstract!DiscardAndBounce
  <2> QED  BY <1>2, <2>2, <2>9
<1> QED  BY <1>1, <1>5, <1>6 DEF DiscardHead

\* Every other step is nothing to the channel.
LEMMA OtherSteps ==
  ASSUME IInv
  PROVE  /\ \A m \in Boxes : OwnerStep(m) /\ ~MbInit(m) /\ ~AddMessage(m) /\ ~MbShutdown(m) =>
                UNCHANGED Abstract!chvars
         /\ \A m \in Boxes : ServiceStep(m) /\ ~PopHead(m) /\ ~SendMessage(m) =>
                UNCHANGED Abstract!chvars
<1>1. ASSUME NEW m \in Boxes, OwnerStep(m), ~MbInit(m), ~AddMessage(m), ~MbShutdown(m)
      PROVE  UNCHANGED Abstract!chvars
  <2>1. UNCHANGED <<queue, taken, live, defunct>>
    BY <1>1 DEF OwnerStep, GetRecipient, AddMessageEnd, DropRecipient, LogoutUnref, svcvars
  <2>2. \A n \in Boxes : opc'[n] = "start" <=> opc[n] = "start"
    BY <1>1 DEF OwnerStep, GetRecipient, AddMessageEnd, DropRecipient, LogoutUnref, OwnerAt,
                IInv, TypeOK
  <2>3. phase' = phase
    BY <2>1, <2>2, SamePhase
  <2> QED  BY <2>1, <2>3 DEF Abstract!chvars
<1>2. ASSUME NEW m \in Boxes, ServiceStep(m), ~PopHead(m), ~SendMessage(m)
      PROVE  UNCHANGED Abstract!chvars
  <2>1. UNCHANGED <<queue, taken, live, defunct, opc>>
    BY <1>2 DEF ServiceStep, ServiceStart, MbSetDiscardHook, WaitItem, NextIsNull, LockHead,
                UnrefSender, SendNotice, ServiceEnd, boxvars, ownvars
  <2>2. phase' = phase
    BY <2>1, SamePhase
  <2> QED  BY <2>1, <2>2 DEF Abstract!chvars
<1> QED  BY <1>1, <1>2

\* A step of the mailboxes is a step of the channel, or leaves it alone.
LEMMA ChannelStep ==
  ASSUME IInv, TypeOK', [Next]_vars
  PROVE  [Abstract!ChannelNext]_(Abstract!chvars)
<1>1. ASSUME NEW m \in Boxes, OwnerStep(m)  PROVE [Abstract!ChannelNext]_(Abstract!chvars)
  <2>1. CASE MbInit(m)
    BY <2>1, InitOpens DEF Abstract!ChannelNext
  <2>2. CASE AddMessage(m)
    BY <2>2, AddPuts DEF Abstract!ChannelNext
  <2>3. CASE MbShutdown(m)
    BY <2>3, ShutdownShuts DEF Abstract!ChannelNext
  <2> QED  BY <1>1, <2>1, <2>2, <2>3, OtherSteps
<1>2. ASSUME NEW m \in Boxes, ServiceStep(m)  PROVE [Abstract!ChannelNext]_(Abstract!chvars)
  <2>1. CASE PopHead(m)
    BY <2>1, PopGets DEF Abstract!ChannelNext
  <2>2. CASE SendMessage(m)
    BY <2>2, SendPuts DEF Abstract!ChannelNext
  <2> QED  BY <1>2, <2>1, <2>2, OtherSteps
<1>3. ASSUME NEW t \in Threads, DiscardHead(t)  PROVE Abstract!ChannelNext
  BY <1>3, DiscardDiscards DEF Abstract!ChannelNext
<1>4. ASSUME NEW t \in Threads, Free(t)  PROVE Abstract!ChannelNext
  BY <1>4, FreeVanishes DEF Abstract!ChannelNext
<1>5. ASSUME UNCHANGED vars  PROVE UNCHANGED Abstract!chvars
  <2>1. UNCHANGED <<queue, taken, live, defunct, opc>>
    BY <1>5 DEF vars, boxvars, ownvars, svcvars
  <2>2. phase' = phase
    BY <2>1, SamePhase
  <2> QED  BY <2>1, <2>2 DEF Abstract!chvars
<1> QED  BY <1>1, <1>2, <1>3, <1>4, <1>5 DEF Next, FinalizeStep

\* The mailboxes implement the first-in-first-out channel: with all the locks,
\* counts and threads of mailbox.c, an entry is added at the end, read from the
\* front and only while the mailbox is open, discarded only once it is shut.
THEOREM Implements == Spec => ImplementsChannel
<1>1. Init => Abstract!ChannelInit
  BY DEF Init, phase, Abstract!ChannelInit
<1>2. IInv /\ TypeOK' /\ [Next]_vars => [Abstract!ChannelNext]_(Abstract!chvars)
  BY ChannelStep
<1> QED
  BY <1>1, <1>2, Invariance, Types, PTL DEF Spec, ImplementsChannel, Abstract!ChannelSpec
=============================================================================
