----------------------------- MODULE LoginProofs -----------------------------
(***************************************************************************)
(* Proofs about Login, for any finite set of clients, any handles and USER *)
(* objects and any number of requests: no two clients are logged in under  *)
(* one handle, and the reference count of a USER is exact.                 *)
(*                                                                         *)
(* Neither is inductive.  IInv adds where a client may be logged in or     *)
(* keep a USER (Control), that a USER is registered under its own handle   *)
(* only (Handled), and what the loop of client_login has established so    *)
(* far (Scanned): a client it has passed is not logged in under the handle *)
(* asked for, and cannot become so while loginMutex is held.               *)
(***************************************************************************)
EXTENDS Login, FiniteSetTheorems, TLAPS

\* c is in the loop of client_login.
Scanning(c) == pc[c] \in {"scan", "compare"}

\* c is inside client_logout, past the test of loginState.
LoggingOut(c) ==
  pc[c] \in {"unref", "unref2", "unregister", "unregister2", "detach", "detach2"}

\* What the control point of c implies.
ControlAt(c) ==
  /\ loginMutex = c <=> Scanning(c)
  /\ pc[c] = "login" \/ Scanning(c) => arg[c] \in Handles
  /\ pc[c] \in {"compare", "fetch", "use"} => peek[c] \in Clients
  /\ pc[c] \in {"new", "gone"} \/ Scanning(c) \/ LoggingOut(c) => ~loginState[c]
  /\ user[c] \in Users <=> loginState[c] \/ LoggingOut(c)

Control == \A c \in Clients : ControlAt(c)

\* A registered USER has the handle it is registered under, and one that a
\* client points to has been created.
Handled ==
  /\ \A h \in Handles : registry[h] \in Users => uhandle[registry[h]] = h
  /\ \A c \in Clients : user[c] \in Users => uhandle[user[c]] \in Handles

\* The clients that the loop of client_login has passed are not logged in
\* under the handle it looks for.
Scanned ==
  \A c, d \in Clients :
    (Scanning(c) /\ loginState[d] /\ d \notin todo[c]) => uhandle[user[d]] # arg[c]

IInv == UserRefsExact /\ Control /\ Handled /\ Scanned /\ HandleUnique

-----------------------------------------------------------------------------
(* The two sets that a reference count counts *)

Holders(u) == {c \in Clients : Holds(c, u)}
Registrations(u) == {h \in Handles : registry[h] = u}
CountsAt(u) == urefs[u] = Cardinality(Holders(u)) + Cardinality(Registrations(u))
Counts == \A u \in Users : CountsAt(u)

\* The holders are finitely many.
LEMMA HoldersFinite ==
  ASSUME NEW u \in Users
  PROVE  IsFiniteSet(Holders(u)) /\ Cardinality(Holders(u)) \in Nat
BY ClientsAssumption, FS_Subset, FS_CardinalityType DEF Holders

\* The same after a step.
LEMMA HoldersFinitePrime ==
  ASSUME NEW u \in Users
  PROVE  IsFiniteSet(Holders(u)') /\ Cardinality(Holders(u)') \in Nat
BY ClientsAssumption, FS_Subset, FS_CardinalityType DEF Holders

\* A USER is registered at most once, under its own handle.
LEMMA RegisteredOnce ==
  ASSUME TypeOK, Handled, NEW u \in Users
  PROVE  /\ IsFiniteSet(Registrations(u)) /\ Cardinality(Registrations(u)) \in Nat
         /\ \A h \in Handles : registry[h] = u => Registrations(u) = {h}
<1>1. \A h \in Registrations(u) : h = uhandle[u]
  BY DEF Registrations, Handled
<1>2. Registrations(u) \in SUBSET {uhandle[u]}
  BY <1>1
<1>3. IsFiniteSet({uhandle[u]})
  BY FS_Singleton
<1>4. \A h \in Handles : registry[h] = u => Registrations(u) = {h}
  BY <1>1 DEF Registrations
<1> QED  BY <1>2, <1>3, <1>4, FS_Subset, FS_CardinalityType

\* A USER that a client holds or that is registered is not freed.
LEMMA CountedIsPositive ==
  ASSUME UserRefsExact, Handled, NEW u \in Users
  PROVE  /\ urefs[u] \in Nat
         /\ Holders(u) # {} \/ Registrations(u) # {} => urefs[u] > 0
<1> DEFINE a == Cardinality(Holders(u))
           b == Cardinality(Registrations(u))
<1>1. urefs[u] \in Nat /\ urefs[u] = a + b
  BY DEF UserRefsExact, TypeOK, Holders, Registrations
<1>2. /\ a \in Nat /\ b \in Nat
      /\ Holders(u) # {} => a # 0
      /\ Registrations(u) # {} => b # 0
  BY HoldersFinite, RegisteredOnce, FS_EmptySet DEF UserRefsExact
<1> HIDE DEF a, b
<1> QED  BY <1>1, <1>2

\* A client that is logged in, or about to drop its reference, holds its USER.
LEMMA HeldIsLive ==
  ASSUME UserRefsExact, Control, Handled, NEW c \in Clients,
         loginState[c] \/ pc[c] \in {"unref", "unref2"}
  PROVE  user[c] \in Users /\ ~Freed(user[c]) /\ urefs[user[c]] > 0
<1>1. user[c] \in Users /\ Holds(c, user[c])
  BY DEF Control, ControlAt, LoggingOut, Holds
<1>2. Holders(user[c]) # {}
  BY <1>1 DEF Holders
<1>3. urefs[user[c]] \in Nat /\ urefs[user[c]] > 0
  BY <1>1, <1>2, CountedIsPositive
<1> QED  BY <1>1, <1>3 DEF Freed

-----------------------------------------------------------------------------
(* The steps *)

\* The invariant holds when the server starts.
LEMMA Initially == Init => IInv
<1> SUFFICES ASSUME Init  PROVE IInv
  OBVIOUS
<1>1. TypeOK
  <2>1. todo \in [Clients -> SUBSET Clients]
    BY DEF Init
  <2>2. requests \in 0..MaxRequests
    BY MaxRequestsAssumption DEF Init
  <2> QED  BY <2>1, <2>2 DEF Init, TypeOK, Labels
<1>2. Control
  BY ClientsAssumption, UsersAssumption
     DEF Init, Control, ControlAt, Scanning, LoggingOut
<1>3. Handled
  BY UsersAssumption DEF Init, Handled
<1>4. Scanned /\ HandleUnique
  BY DEF Init, Scanned, Scanning, HandleUnique
<1>5. ASSUME NEW u \in Users  PROVE Holders(u) = {} /\ Registrations(u) = {}
  BY UsersAssumption DEF Init, Holders, Holds, Registrations
<1>6. \A u \in Users : urefs[u] = Cardinality(Holders(u)) + Cardinality(Registrations(u))
  BY <1>5, FS_EmptySet DEF Init
<1>7. UserRefsExact
  BY <1>1, <1>6 DEF UserRefsExact, Holders, Registrations
<1> QED  BY <1>2, <1>3, <1>4, <1>7 DEF IInv

\* What the control points imply, step by step.
LEMMA ControlStep ==
  ASSUME IInv, [Next]_vars
  PROVE  Control'
<1>0. TypeOK /\ Control
  BY DEF IInv, UserRefsExact
<1> USE ClientsAssumption, UsersAssumption, HandlesAssumption
<1> USE DEF TypeOK, Labels, Control, ControlAt, Scanning, LoggingOut, clvars,
            uvars, thvars, Goto
<1>1. ASSUME NEW c \in Clients, Connect(c)  PROVE Control'
  BY <1>0, <1>1 DEF Connect
<1>2. ASSUME NEW c \in Clients, Request(c)  PROVE Control'
  BY <1>0, <1>2 DEF Request, Connected
<1>3. ASSUME NEW c \in Clients, Disconnect(c)  PROVE Control'
  BY <1>0, <1>3 DEF Disconnect
<1>4. ASSUME NEW c \in Clients, LoginEnter(c)  PROVE Control'
  BY <1>0, <1>4 DEF LoginEnter, LoginFree, Connected
<1>5. ASSUME NEW c \in Clients, ScanState(c)  PROVE Control'
  BY <1>0, <1>5 DEF ScanState
<1>6. ASSUME NEW c \in Clients, ScanCompare(c)  PROVE Control'
  BY <1>0, <1>6 DEF ScanCompare, LoginReleased, HandleRead
<1>7. ASSUME NEW c \in Clients, LoginCommit(c)  PROVE Control'
  BY <1>0, <1>7 DEF LoginCommit, UregRegister, UserRef
<1>8. ASSUME NEW c \in Clients, LogoutFails(c)  PROVE Control'
  BY <1>0, <1>8 DEF LogoutFails
<1>9. ASSUME NEW c \in Clients, LogoutEnter(c)  PROVE Control'
  BY <1>0, <1>9 DEF LogoutEnter
<1>10. ASSUME NEW c \in Clients, LogoutUnref(c)  PROVE Control'
  BY <1>0, <1>10 DEF LogoutUnref, UserUnref
<1>11. ASSUME NEW c \in Clients, LogoutUnregister(c)  PROVE Control'
  BY <1>0, <1>11 DEF LogoutUnregister, UregUnregister, UserUnref, HandleRead
<1>12. ASSUME NEW c \in Clients, LogoutDetach(c)  PROVE Control'
  BY <1>0, <1>12 DEF LogoutDetach
<1>13. ASSUME NEW c \in Clients, LookLock(c)  PROVE Control'
  BY <1>0, <1>13 DEF LookLock
<1>14. ASSUME NEW c \in Clients, LookFetch(c)  PROVE Control'
  BY <1>0, <1>14 DEF LookFetch
<1>15. ASSUME NEW c \in Clients, LookUse(c)  PROVE Control'
  BY <1>0, <1>15 DEF LookUse
<1>16. ASSUME NEW c \in Clients, LookEnd(c)  PROVE Control'
  BY <1>0, <1>16 DEF LookEnd
<1>17. CASE UNCHANGED vars
  BY <1>0, <1>17 DEF vars
<1> QED  BY <1>1, <1>2, <1>3, <1>4, <1>5, <1>6, <1>7, <1>8, <1>9, <1>10,
            <1>11, <1>12, <1>13, <1>14, <1>15, <1>16, <1>17
         DEF Next, Serve

\* Types, step by step; no count goes below zero because what is dropped is held.
LEMMA TypesStep ==
  ASSUME IInv, [Next]_vars
  PROVE  TypeOK'
<1>0. UserRefsExact /\ TypeOK /\ Control /\ Handled
  BY DEF IInv, UserRefsExact
<1> USE ClientsAssumption, UsersAssumption, MaxRequestsAssumption
<1> USE DEF TypeOK, Labels, Control, ControlAt, Scanning, clvars, uvars,
            thvars, Goto
<1>1. ASSUME NEW c \in Clients, Connect(c)  PROVE TypeOK'
  BY <1>0, <1>1 DEF Connect
<1>2. ASSUME NEW c \in Clients, Request(c)  PROVE TypeOK'
  BY <1>0, <1>2 DEF Request, Connected
<1>3. ASSUME NEW c \in Clients, Disconnect(c)  PROVE TypeOK'
  BY <1>0, <1>3 DEF Disconnect
<1>4. ASSUME NEW c \in Clients, LoginEnter(c)  PROVE TypeOK'
  BY <1>0, <1>4 DEF LoginEnter, LoginFree, Connected
<1>5. ASSUME NEW c \in Clients, ScanState(c)  PROVE TypeOK'
  BY <1>0, <1>5 DEF ScanState
<1>6. ASSUME NEW c \in Clients, ScanCompare(c)  PROVE TypeOK'
  <2>1. peek' \in [Clients -> Clients \cup {NoClient}] /\ crashed' \in BOOLEAN
    BY <1>0, <1>6 DEF ScanCompare, TypeOK
  <2>2. todo' \in [Clients -> SUBSET Clients]
    <3>1. todo' \in {todo, [todo EXCEPT ![c] = {}], [todo EXCEPT ![c] = todo[c] \ {peek[c]}]}
      BY <1>6 DEF ScanCompare
    <3> QED  BY <1>0, <3>1 DEF TypeOK
  <2>3. /\ arg' \in [Clients -> Handles \cup {NoHandle}]
        /\ loginMutex' \in Clients \cup {NoClient}
    BY <1>0, <1>6 DEF ScanCompare, TypeOK, LoginReleased
  <2>4. pc' \in [Clients -> Labels]
    BY <1>0, <1>6 DEF ScanCompare, TypeOK, Labels, Goto
  <2> QED  BY <1>0, <1>6, <2>1, <2>2, <2>3, <2>4 DEF ScanCompare, TypeOK, uvars
<1>7. ASSUME NEW c \in Clients, LoginCommit(c)  PROVE TypeOK'
  <2>1. PICK u \in Users : UregRegister(arg[c], u) /\ user' = [user EXCEPT ![c] = u]
    BY <1>7 DEF LoginCommit
  <2>2. arg[c] \in Handles
    BY <1>0, <1>7 DEF LoginCommit, Control, ControlAt, Scanning
  <2>3. /\ registry' \in [Handles -> Users \cup {NoUser}] /\ urefs' \in [Users -> Nat]
        /\ uhandle' \in [Users -> Handles \cup {NoHandle}]
    BY <1>0, <2>1, <2>2 DEF UregRegister, UserRef, TypeOK
  <2> QED  BY <1>0, <1>7, <2>1, <2>3 DEF LoginCommit, TypeOK, Labels, Goto
<1>8. ASSUME NEW c \in Clients, LogoutFails(c)  PROVE TypeOK'
  BY <1>0, <1>8 DEF LogoutFails
<1>9. ASSUME NEW c \in Clients, LogoutEnter(c)  PROVE TypeOK'
  BY <1>0, <1>9 DEF LogoutEnter
<1>10. ASSUME NEW c \in Clients, LogoutUnref(c)  PROVE TypeOK'
  <2>1. user[c] \in Users /\ urefs[user[c]] \in Nat /\ urefs[user[c]] > 0
    BY <1>0, <1>10, HeldIsLive DEF LogoutUnref, UserRefsExact, TypeOK, Control, ControlAt, LoggingOut
  <2>2. urefs' \in [Users -> Nat]
    BY <1>0, <1>10, <2>1 DEF LogoutUnref, UserUnref, TypeOK
  <2> QED  BY <1>0, <1>10, <2>2 DEF LogoutUnref, TypeOK, Labels, clvars, uvars, thvars, Goto
<1>11. ASSUME NEW c \in Clients, LogoutUnregister(c)  PROVE TypeOK'
  <2>1. PICK h \in HandleRead(user[c]) : UregUnregister(h)
    BY <1>11 DEF LogoutUnregister
  <2>2. CASE h \in Handles /\ registry[h] # NoUser
    <3>1. registry[h] \in Users /\ Registrations(registry[h]) # {}
      BY <1>0, <2>2 DEF TypeOK, Registrations
    <3>2. urefs[registry[h]] \in Nat /\ urefs[registry[h]] > 0
      BY <1>0, <3>1, CountedIsPositive
    <3>3. urefs' \in [Users -> Nat] /\ registry' \in [Handles -> Users \cup {NoUser}]
      BY <1>0, <2>1, <2>2, <3>1, <3>2 DEF UregUnregister, UserUnref, TypeOK
    <3> QED  BY <1>0, <1>11, <3>3 DEF LogoutUnregister, TypeOK, Labels, clvars, uvars, thvars, Goto
  <2>3. CASE h \in Handles => registry[h] = NoUser
    <3>1. UNCHANGED <<urefs, registry>>
      BY <2>1, <2>3 DEF UregUnregister
    <3> QED  BY <1>0, <1>11, <3>1 DEF LogoutUnregister, TypeOK, Labels, clvars, uvars, thvars, Goto
  <2> QED  BY <2>2, <2>3
<1>12. ASSUME NEW c \in Clients, LogoutDetach(c)  PROVE TypeOK'
  BY <1>0, <1>12 DEF LogoutDetach
<1>13. ASSUME NEW c \in Clients, LookLock(c)  PROVE TypeOK'
  BY <1>0, <1>13 DEF LookLock
<1>14. ASSUME NEW c \in Clients, LookFetch(c)  PROVE TypeOK'
  BY <1>0, <1>14 DEF LookFetch
<1>15. ASSUME NEW c \in Clients, LookUse(c)  PROVE TypeOK'
  BY <1>0, <1>15 DEF LookUse
<1>16. ASSUME NEW c \in Clients, LookEnd(c)  PROVE TypeOK'
  BY <1>0, <1>16 DEF LookEnd
<1>17. CASE UNCHANGED vars
  BY <1>0, <1>17 DEF vars
<1> QED  BY <1>1, <1>2, <1>3, <1>4, <1>5, <1>6, <1>7, <1>8, <1>9, <1>10,
            <1>11, <1>12, <1>13, <1>14, <1>15, <1>16, <1>17
         DEF Next, Serve

\* Registrations stay under the right handle, and what a client points to stays
\* created, step by step.
LEMMA HandledStep ==
  ASSUME IInv, [Next]_vars
  PROVE  Handled'
<1>0. TypeOK /\ Control /\ Handled
  BY DEF IInv, UserRefsExact
<1> USE ClientsAssumption, UsersAssumption, HandlesAssumption
<1> USE DEF TypeOK, Labels, Control, ControlAt, Scanning, Handled, clvars,
            uvars, thvars, Goto
<1>1. ASSUME NEW c \in Clients, Connect(c)  PROVE Handled'
  BY <1>0, <1>1 DEF Connect
<1>2. ASSUME NEW c \in Clients, Request(c)  PROVE Handled'
  BY <1>0, <1>2 DEF Request, Connected
<1>3. ASSUME NEW c \in Clients, Disconnect(c)  PROVE Handled'
  BY <1>0, <1>3 DEF Disconnect
<1>4. ASSUME NEW c \in Clients, LoginEnter(c)  PROVE Handled'
  BY <1>0, <1>4 DEF LoginEnter, LoginFree, Connected
<1>5. ASSUME NEW c \in Clients, ScanState(c)  PROVE Handled'
  BY <1>0, <1>5 DEF ScanState
<1>6. ASSUME NEW c \in Clients, ScanCompare(c)  PROVE Handled'
  BY <1>0, <1>6 DEF ScanCompare, LoginReleased, HandleRead
<1>7. ASSUME NEW c \in Clients, LoginCommit(c)  PROVE Handled'
  BY <1>0, <1>7 DEF LoginCommit, UregRegister, UserRef
<1>8. ASSUME NEW c \in Clients, LogoutFails(c)  PROVE Handled'
  BY <1>0, <1>8 DEF LogoutFails
<1>9. ASSUME NEW c \in Clients, LogoutEnter(c)  PROVE Handled'
  BY <1>0, <1>9 DEF LogoutEnter
<1>10. ASSUME NEW c \in Clients, LogoutUnref(c)  PROVE Handled'
  BY <1>0, <1>10 DEF LogoutUnref, UserUnref
<1>11. ASSUME NEW c \in Clients, LogoutUnregister(c)  PROVE Handled'
  BY <1>0, <1>11 DEF LogoutUnregister, UregUnregister, UserUnref, HandleRead
<1>12. ASSUME NEW c \in Clients, LogoutDetach(c)  PROVE Handled'
  BY <1>0, <1>12 DEF LogoutDetach
<1>13. ASSUME NEW c \in Clients, LookLock(c)  PROVE Handled'
  BY <1>0, <1>13 DEF LookLock
<1>14. ASSUME NEW c \in Clients, LookFetch(c)  PROVE Handled'
  BY <1>0, <1>14 DEF LookFetch
<1>15. ASSUME NEW c \in Clients, LookUse(c)  PROVE Handled'
  BY <1>0, <1>15 DEF LookUse
<1>16. ASSUME NEW c \in Clients, LookEnd(c)  PROVE Handled'
  BY <1>0, <1>16 DEF LookEnd
<1>17. CASE UNCHANGED vars
  BY <1>0, <1>17 DEF vars
<1> QED  BY <1>1, <1>2, <1>3, <1>4, <1>5, <1>6, <1>7, <1>8, <1>9, <1>10,
            <1>11, <1>12, <1>13, <1>14, <1>15, <1>16, <1>17
         DEF Next, Serve

\* What the loop of client_login has established stays true, step by step.
LEMMA ScannedStep ==
  ASSUME IInv, [Next]_vars
  PROVE  Scanned'
<1>0. UserRefsExact /\ TypeOK /\ Control /\ Handled /\ Scanned
  BY DEF IInv, UserRefsExact
<1> USE ClientsAssumption, UsersAssumption, HandlesAssumption
<1> USE DEF TypeOK, Labels, Control, ControlAt, Scanning, Handled, Scanned,
            LoggingOut, clvars, uvars, thvars, Goto
<1>1. ASSUME NEW c \in Clients, Connect(c)  PROVE Scanned'
  BY <1>0, <1>1 DEF Connect
<1>2. ASSUME NEW c \in Clients, Request(c)  PROVE Scanned'
  BY <1>0, <1>2 DEF Request, Connected
<1>3. ASSUME NEW c \in Clients, Disconnect(c)  PROVE Scanned'
  BY <1>0, <1>3 DEF Disconnect
<1>4. ASSUME NEW c \in Clients, LoginEnter(c)  PROVE Scanned'
  BY <1>0, <1>4 DEF LoginEnter, LoginFree, Connected
<1>5. ASSUME NEW c \in Clients, ScanState(c)  PROVE Scanned'
  BY <1>0, <1>5 DEF ScanState
<1>6. ASSUME NEW c \in Clients, ScanCompare(c)  PROVE Scanned'
  <2>1. CASE user[peek[c]] = NoUser
    BY <1>0, <1>6, <2>1 DEF ScanCompare
  <2>2. CASE user[peek[c]] # NoUser
    <3>1. PICK h \in HandleRead(user[peek[c]]) :
            \/ h = arg[c] /\ Goto(c, "idle")
            \/ h # arg[c] /\ todo' = [todo EXCEPT ![c] = todo[c] \ {peek[c]}]
               /\ Goto(c, "scan") /\ UNCHANGED arg
      BY <1>6, <2>2 DEF ScanCompare
    <3>2. loginState[peek[c]] => h = uhandle[user[peek[c]]]
      BY <1>0, <1>6, HeldIsLive DEF ScanCompare, HandleRead
    <3>3. \A d \in Clients \ {c} : ~Scanning(d)
      BY <1>0, <1>6 DEF ScanCompare
    <3> QED  BY <1>0, <1>6, <3>1, <3>2, <3>3 DEF ScanCompare
  <2> QED  BY <2>1, <2>2
<1>7. ASSUME NEW c \in Clients, LoginCommit(c)  PROVE Scanned'
  BY <1>0, <1>7 DEF LoginCommit, UregRegister, UserRef
<1>8. ASSUME NEW c \in Clients, LogoutFails(c)  PROVE Scanned'
  BY <1>0, <1>8 DEF LogoutFails
<1>9. ASSUME NEW c \in Clients, LogoutEnter(c)  PROVE Scanned'
  BY <1>0, <1>9 DEF LogoutEnter
<1>10. ASSUME NEW c \in Clients, LogoutUnref(c)  PROVE Scanned'
  BY <1>0, <1>10 DEF LogoutUnref, UserUnref
<1>11. ASSUME NEW c \in Clients, LogoutUnregister(c)  PROVE Scanned'
  BY <1>0, <1>11 DEF LogoutUnregister, UregUnregister, UserUnref, HandleRead
<1>12. ASSUME NEW c \in Clients, LogoutDetach(c)  PROVE Scanned'
  BY <1>0, <1>12 DEF LogoutDetach
<1>13. ASSUME NEW c \in Clients, LookLock(c)  PROVE Scanned'
  BY <1>0, <1>13 DEF LookLock
<1>14. ASSUME NEW c \in Clients, LookFetch(c)  PROVE Scanned'
  BY <1>0, <1>14 DEF LookFetch
<1>15. ASSUME NEW c \in Clients, LookUse(c)  PROVE Scanned'
  BY <1>0, <1>15 DEF LookUse
<1>16. ASSUME NEW c \in Clients, LookEnd(c)  PROVE Scanned'
  BY <1>0, <1>16 DEF LookEnd
<1>17. CASE UNCHANGED vars
  BY <1>0, <1>17 DEF vars
<1> QED  BY <1>1, <1>2, <1>3, <1>4, <1>5, <1>6, <1>7, <1>8, <1>9, <1>10,
            <1>11, <1>12, <1>13, <1>14, <1>15, <1>16, <1>17
         DEF Next, Serve

\* Handles in use stay distinct, step by step.
LEMMA UniqueStep ==
  ASSUME IInv, [Next]_vars
  PROVE  HandleUnique'
<1>0. TypeOK /\ Control /\ Handled /\ Scanned /\ HandleUnique
  BY DEF IInv, UserRefsExact
<1> USE ClientsAssumption, UsersAssumption, HandlesAssumption
<1> USE DEF TypeOK, Labels, Control, ControlAt, Scanning, Handled, Scanned,
            HandleUnique, LoggingOut, clvars, uvars, thvars, Goto
<1>1. ASSUME NEW c \in Clients, Connect(c)  PROVE HandleUnique'
  BY <1>0, <1>1 DEF Connect
<1>2. ASSUME NEW c \in Clients, Request(c)  PROVE HandleUnique'
  BY <1>0, <1>2 DEF Request, Connected
<1>3. ASSUME NEW c \in Clients, Disconnect(c)  PROVE HandleUnique'
  BY <1>0, <1>3 DEF Disconnect
<1>4. ASSUME NEW c \in Clients, LoginEnter(c)  PROVE HandleUnique'
  BY <1>0, <1>4 DEF LoginEnter, LoginFree, Connected
<1>5. ASSUME NEW c \in Clients, ScanState(c)  PROVE HandleUnique'
  BY <1>0, <1>5 DEF ScanState
<1>6. ASSUME NEW c \in Clients, ScanCompare(c)  PROVE HandleUnique'
  BY <1>0, <1>6 DEF ScanCompare, LoginReleased, HandleRead
<1>7. ASSUME NEW c \in Clients, LoginCommit(c)  PROVE HandleUnique'
  BY <1>0, <1>7 DEF LoginCommit, UregRegister, UserRef
<1>8. ASSUME NEW c \in Clients, LogoutFails(c)  PROVE HandleUnique'
  BY <1>0, <1>8 DEF LogoutFails
<1>9. ASSUME NEW c \in Clients, LogoutEnter(c)  PROVE HandleUnique'
  BY <1>0, <1>9 DEF LogoutEnter
<1>10. ASSUME NEW c \in Clients, LogoutUnref(c)  PROVE HandleUnique'
  BY <1>0, <1>10 DEF LogoutUnref, UserUnref
<1>11. ASSUME NEW c \in Clients, LogoutUnregister(c)  PROVE HandleUnique'
  BY <1>0, <1>11 DEF LogoutUnregister, UregUnregister, UserUnref, HandleRead
<1>12. ASSUME NEW c \in Clients, LogoutDetach(c)  PROVE HandleUnique'
  BY <1>0, <1>12 DEF LogoutDetach
<1>13. ASSUME NEW c \in Clients, LookLock(c)  PROVE HandleUnique'
  BY <1>0, <1>13 DEF LookLock
<1>14. ASSUME NEW c \in Clients, LookFetch(c)  PROVE HandleUnique'
  BY <1>0, <1>14 DEF LookFetch
<1>15. ASSUME NEW c \in Clients, LookUse(c)  PROVE HandleUnique'
  BY <1>0, <1>15 DEF LookUse
<1>16. ASSUME NEW c \in Clients, LookEnd(c)  PROVE HandleUnique'
  BY <1>0, <1>16 DEF LookEnd
<1>17. CASE UNCHANGED vars
  BY <1>0, <1>17 DEF vars
<1> QED  BY <1>1, <1>2, <1>3, <1>4, <1>5, <1>6, <1>7, <1>8, <1>9, <1>10,
            <1>11, <1>12, <1>13, <1>14, <1>15, <1>16, <1>17
         DEF Next, Serve

\* A step that changes no count, no registration and nobody's hold keeps the
\* counts exact.
LEMMA Quiet ==
  ASSUME Counts, UNCHANGED <<urefs, registry>>,
         \A c \in Clients, u \in Users : Holds(c, u)' <=> Holds(c, u)
  PROVE  Counts'
<1> SUFFICES ASSUME NEW u \in Users  PROVE CountsAt(u)'
  BY DEF Counts
<1>1. Holders(u)' = Holders(u) /\ Registrations(u)' = Registrations(u)
  BY DEF Holders, Registrations
<1> QED  BY <1>1 DEF Counts, CountsAt

\* The counts stay exact, step by step.
LEMMA CountsStep ==
  ASSUME IInv, [Next]_vars
  PROVE  Counts'
<1>0. Counts /\ TypeOK /\ Control /\ Handled
  BY DEF IInv, UserRefsExact, Counts, CountsAt, Holders, Registrations
<1> USE UsersAssumption, HandlesAssumption
<1> USE DEF TypeOK, Control, ControlAt, LoggingOut, Scanning, Handled, clvars,
            uvars, thvars, Goto
<1>1. ASSUME NEW c \in Clients, Connect(c)  PROVE Counts'
  BY <1>0, <1>1, Quiet DEF Connect, Holds
<1>2. ASSUME NEW c \in Clients, Request(c)  PROVE Counts'
  BY <1>0, <1>2, Quiet DEF Request, Holds, Connected
<1>3. ASSUME NEW c \in Clients, Disconnect(c)  PROVE Counts'
  BY <1>0, <1>3, Quiet DEF Disconnect, Holds
<1>4. ASSUME NEW c \in Clients, LoginEnter(c)  PROVE Counts'
  BY <1>0, <1>4, Quiet DEF LoginEnter, Holds, LoginFree, Connected
<1>5. ASSUME NEW c \in Clients, ScanState(c)  PROVE Counts'
  BY <1>0, <1>5, Quiet DEF ScanState, Holds
<1>6. ASSUME NEW c \in Clients, ScanCompare(c)  PROVE Counts'
  BY <1>0, <1>6, Quiet DEF ScanCompare, Holds, LoginReleased, HandleRead
<1>7. ASSUME NEW c \in Clients, LoginCommit(c)  PROVE Counts'
  <2>0. PICK v \in Users : UregRegister(arg[c], v) /\ user' = [user EXCEPT ![c] = v]
    BY <1>7 DEF LoginCommit
  <2>1. arg[c] \in Handles /\ user[c] \notin Users /\ Goto(c, "idle") /\ pc[c] = "scan"
    BY <1>0, <1>7 DEF LoginCommit
  <2>2. \A u \in Users : /\ c \notin Holders(u)
                         /\ Holders(u)' = Holders(u) \cup (IF u = v THEN {c} ELSE {})
    BY <1>0, <2>0, <2>1 DEF Holders, Holds
  <2>3. CASE registry[arg[c]] # NoUser /\ v = registry[arg[c]]
    <3>1. urefs' = [urefs EXCEPT ![v] = urefs[v] + 1] /\ UNCHANGED registry
      BY <2>0, <2>3 DEF UregRegister, UserRef
    <3>2. ASSUME NEW u \in Users  PROVE CountsAt(u)'
      <4>1. Registrations(u)' = Registrations(u)
        BY <3>1 DEF Registrations
      <4>2. CASE u = v
        <5>1. Cardinality(Holders(u)') = Cardinality(Holders(u)) + 1
          BY <2>2, <4>2, HoldersFinite, FS_AddElement
        <5>2. urefs'[u] = urefs[u] + 1
          BY <1>0, <3>1, <4>2
        <5> QED  BY <1>0, <4>1, <5>1, <5>2, HoldersFinite, RegisteredOnce DEF Counts, CountsAt
      <4>3. CASE u # v
        <5>1. Holders(u)' = Holders(u) /\ urefs'[u] = urefs[u]
          BY <1>0, <2>2, <3>1, <4>3
        <5> QED  BY <1>0, <4>1, <5>1 DEF Counts, CountsAt
      <4> QED  BY <4>2, <4>3
    <3> QED  BY <3>2 DEF Counts
  <2>4. CASE registry[arg[c]] = NoUser /\ uhandle[v] = NoHandle
    <3>1. /\ urefs' = [urefs EXCEPT ![v] = 2]
          /\ registry' = [registry EXCEPT ![arg[c]] = v]
      BY <2>0, <2>4 DEF UregRegister
    <3>2. ASSUME NEW u \in Users  PROVE CountsAt(u)'
      <4>1. CASE u = v
        <5>1. Holders(u)' = {c}
          BY <1>0, <2>2, <2>4, <4>1 DEF Holders, Holds
        <5>2. Registrations(u)' = {arg[c]}
          BY <1>0, <2>1, <2>4, <3>1, <4>1 DEF Registrations
        <5>3. urefs'[u] = 2
          BY <1>0, <3>1, <4>1
        <5>4. Cardinality(Holders(u)') = 1 /\ Cardinality(Registrations(u)') = 1
          BY <5>1, <5>2, FS_Singleton
        <5> QED  BY <5>3, <5>4 DEF CountsAt
      <4>2. CASE u # v
        <5>1. Holders(u)' = Holders(u) /\ urefs'[u] = urefs[u]
          BY <1>0, <2>2, <3>1, <4>2
        <5>2. Registrations(u)' = Registrations(u)
          BY <1>0, <2>1, <2>4, <3>1, <4>2 DEF Registrations
        <5> QED  BY <1>0, <5>1, <5>2 DEF Counts, CountsAt
      <4> QED  BY <4>1, <4>2
    <3> QED  BY <3>2 DEF Counts
  <2> QED  BY <2>0, <2>3, <2>4 DEF UregRegister
<1>8. ASSUME NEW c \in Clients, LogoutFails(c)  PROVE Counts'
  BY <1>0, <1>8, Quiet DEF LogoutFails, Holds
<1>9. ASSUME NEW c \in Clients, LogoutEnter(c)  PROVE Counts'
  BY <1>0, <1>9, Quiet DEF LogoutEnter, Holds
<1>10. ASSUME NEW c \in Clients, LogoutUnref(c)  PROVE Counts'
  <2> DEFINE v == user[c]
  <2>1. v \in Users /\ c \in Holders(v) /\ urefs' = [urefs EXCEPT ![v] = urefs[v] - 1]
    BY <1>0, <1>10 DEF LogoutUnref, UserUnref, Holders, Holds, LoggingOut
  <2>2. \A u \in Users : Holders(u)' = Holders(u) \ (IF u = v THEN {c} ELSE {})
    BY <1>0, <1>10 DEF LogoutUnref, Holders, Holds
  <2> HIDE DEF v
  <2>3. ASSUME NEW u \in Users  PROVE CountsAt(u)'
    <3>1. Registrations(u)' = Registrations(u)
      BY <1>10 DEF LogoutUnref, Registrations
    <3>2. CASE u = v
      <4>1. Cardinality(Holders(u)') = Cardinality(Holders(u)) - 1
        BY <2>1, <2>2, <3>2, HoldersFinite, FS_RemoveElement
      <4>2. urefs'[u] = urefs[u] - 1
        BY <1>0, <2>1, <3>2
      <4>3. /\ urefs[u] = Cardinality(Holders(u)) + Cardinality(Registrations(u))
            /\ Cardinality(Holders(u)) \in Nat /\ Cardinality(Registrations(u)) \in Nat
        BY <1>0, HoldersFinite, RegisteredOnce DEF Counts, CountsAt
      <4> QED  BY <3>1, <4>1, <4>2, <4>3 DEF CountsAt
    <3>3. CASE u # v
      <4>1. Holders(u)' = Holders(u) /\ urefs'[u] = urefs[u]
        BY <1>0, <2>1, <2>2, <3>3
      <4> QED  BY <1>0, <3>1, <4>1 DEF Counts, CountsAt
    <3> QED  BY <3>2, <3>3
  <2> QED  BY <2>3 DEF Counts
<1>11. ASSUME NEW c \in Clients, LogoutUnregister(c)  PROVE Counts'
  <2>1. PICK h \in HandleRead(user[c]) : UregUnregister(h)
    BY <1>11 DEF LogoutUnregister
  <2>2. \A d \in Clients, u \in Users : Holds(d, u)' <=> Holds(d, u)
    BY <1>0, <1>11 DEF LogoutUnregister, Holds
  <2>3. CASE h \in Handles /\ registry[h] # NoUser
    <3> DEFINE v == registry[h]
    <3>1. /\ v \in Users /\ registry[h] = v
          /\ urefs' = [urefs EXCEPT ![v] = urefs[v] - 1]
          /\ registry' = [registry EXCEPT ![h] = NoUser]
      BY <1>0, <2>1, <2>3 DEF UregUnregister, UserUnref
    <3> HIDE DEF v
    <3>2. ASSUME NEW u \in Users  PROVE CountsAt(u)'
      <4>1. Holders(u)' = Holders(u)
        BY <2>2 DEF Holders
      <4>2. CASE u = v
        <5>1. Registrations(u) = {h}
          BY <1>0, <2>3, <3>1, <4>2, RegisteredOnce
        <5>2. Registrations(u)' = {}
          BY <1>0, <2>3, <3>1, <4>2, <5>1 DEF Registrations
        <5>3. Cardinality(Registrations(u)) = 1 /\ Cardinality(Registrations(u)') = 0
          BY <5>1, <5>2, FS_Singleton, FS_EmptySet
        <5>4. urefs'[u] = urefs[u] - 1
          BY <1>0, <3>1, <4>2
        <5> QED  BY <1>0, <4>1, <5>3, <5>4, HoldersFinite DEF Counts, CountsAt
      <4>3. CASE u # v
        <5>1. Registrations(u)' = Registrations(u) /\ urefs'[u] = urefs[u]
          BY <1>0, <2>3, <3>1, <4>3 DEF Registrations
        <5> QED  BY <1>0, <4>1, <5>1 DEF Counts, CountsAt
      <4> QED  BY <4>2, <4>3
    <3> QED  BY <3>2 DEF Counts
  <2>4. CASE h \in Handles => registry[h] = NoUser
    BY <1>0, <2>1, <2>2, <2>4, Quiet DEF UregUnregister
  <2> QED  BY <2>3, <2>4
<1>12. ASSUME NEW c \in Clients, LogoutDetach(c)  PROVE Counts'
  BY <1>0, <1>12, Quiet DEF LogoutDetach, Holds
<1>13. ASSUME NEW c \in Clients, LookLock(c)  PROVE Counts'
  BY <1>0, <1>13, Quiet DEF LookLock, Holds
<1>14. ASSUME NEW c \in Clients, LookFetch(c)  PROVE Counts'
  BY <1>0, <1>14, Quiet DEF LookFetch, Holds
<1>15. ASSUME NEW c \in Clients, LookUse(c)  PROVE Counts'
  BY <1>0, <1>15, Quiet DEF LookUse, Holds
<1>16. ASSUME NEW c \in Clients, LookEnd(c)  PROVE Counts'
  BY <1>0, <1>16, Quiet DEF LookEnd, Holds
<1>17. CASE UNCHANGED vars
  BY <1>0, <1>17, Quiet DEF vars, Holds
<1> QED  BY <1>1, <1>2, <1>3, <1>4, <1>5, <1>6, <1>7, <1>8, <1>9, <1>10,
            <1>11, <1>12, <1>13, <1>14, <1>15, <1>16, <1>17
         DEF Next, Serve

-----------------------------------------------------------------------------
(* The theorems *)

\* IInv is inductive.
LEMMA Inductive == IInv /\ [Next]_vars => IInv'
<1> SUFFICES ASSUME IInv, [Next]_vars  PROVE IInv'
  OBVIOUS
<1>1. TypeOK' /\ Counts'
  BY TypesStep, CountsStep
<1>2. UserRefsExact'
  BY <1>1 DEF UserRefsExact, Counts, CountsAt, Holders, Registrations
<1> QED  BY <1>2, ControlStep, HandledStep, ScannedStep, UniqueStep DEF IInv

\* IInv holds in every state the server can reach.
THEOREM Invariance == Spec => []IInv
<1> QED  BY Initially, Inductive, PTL DEF Spec

\* The reference count of every USER is the number of clients that hold it,
\* and one more while it is registered (user_ref and user_unref in user.c,
\* ureg_register and ureg_unregister in user_registry.c): no USER in use is
\* freed, even when a client that logs out reads the handle of its USER after
\* it has dropped its reference and so unregisters a wrong one.
THEOREM UserReferences == Spec => []UserRefsExact
<1>1. IInv => UserRefsExact
  BY DEF IInv
<1> QED  BY <1>1, Invariance, PTL

\* No two clients are logged in under one handle, although client_login reads
\* loginState and user of the others without their mutexes (client.c).
THEOREM OneLoginPerHandle == Spec => []HandleUnique
<1>1. IInv => HandleUnique
  BY DEF IInv
<1> QED  BY <1>1, Invariance, PTL
=============================================================================
