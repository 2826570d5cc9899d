--------------------------- MODULE PipelineProofs ---------------------------
(***************************************************************************)
(* Proofs about Pipeline: whatever the length of a path, the stages        *)
(* are joined as Joined says, and the first master tells the deaths of its *)
(* children as ExitTellsDeaths says.                                       *)
(*                                                                         *)
(* Both hold because of what each process has and knows at each place of   *)
(* the code: which children it can have (Tree), for how many it still      *)
(* counts (Counts), what the first master knows of them (Told), and which  *)
(* descriptors it and its children hold (Descriptors).  Each step is first *)
(* described by its effect on the records of processes (the lemmas named   *)
(* Effect), and then shown to keep the invariant (the lemmas named Step).  *)
(***************************************************************************)
EXTENDS Pipeline, FiniteSetTheorems, SequenceTheorems, WellFoundedInduction, TLAPS

-----------------------------------------------------------------------------
\* The least of some numbers, which Min chooses, is one of them: a free
\* descriptor.
LEMMA HasLeast ==
  ASSUME NEW S, S \subseteq Nat, S # {}
  PROVE  Min(S) \in S
<1>1. IsWellFoundedOn(OpToRel(<, Nat), Nat)
  BY NatLessThanWellFounded
<1>2. PICK x \in S : \A y \in S : ~(<<y, x>> \in OpToRel(<, Nat))
  BY <1>1, WFMin
<1>3. \A y \in S : ~(y < x)
  BY <1>2 DEF OpToRel
<1>4. \A y \in S : x <= y
  BY <1>3
<1> QED  BY <1>4 DEF Min

-----------------------------------------------------------------------------
(* The inductive invariant *)

Kinds == Masters \cup {"none", "exec", "run", "dead", "reaped"}
EndSet == [kind : {"closed", "terminal", "printer", "file", "read", "write"}, q : Names,
           i : 0 .. conversionLength]
Process ==
  [kind : Kinds, exit : {"none", "success", "failure", "killed"},
   i : 0 .. conversionLength, fds : [Fds -> EndSet], prevFd : Fds, fd : Fds \X Fds,
   reapedChild : 0 .. conversionLength, doneReapingAll : BOOLEAN, errorChild : BOOLEAN,
   sigchld : BOOLEAN, handling : BOOLEAN]
Types ==
  /\ conversionLength \in Lengths /\ mode \in Modes
  /\ proc \in [Names -> Process]

\* The children that q may have, those it has, and those it has reaped.
Kids(q) == {c \in Names : c # Master /\ Parent(c) = q}
Alive(q) == {c \in Kids(q) : Kind(c) \notin {"none", "reaped"}}
Gone(q) == {c \in Kids(q) : Kind(c) = "reaped"}

\* A process has children only once it is a master, of the stages it has come to;
\* one that has ended has no descriptors left, and only then an exit status.
TreeAt(q) ==
  /\ Kind(q) \in {"none", "exec", "run"} => \A c \in Kids(q) : Kind(c) = "none"
  /\ Kind(q) = "loop" => \A c \in Kids(q) : Stage(c) >= proc[q].i => Kind(c) = "none"
  /\ Kind(q) = "close" => \A c \in Kids(q) : Stage(c) > proc[q].i => Kind(c) = "none"
  /\ Kind(q) \in {"close", "exec"} => proc[q].i <= LastStage
  /\ Kind(q) = "exec" => proc[q].i = Stage(q)
  /\ proc[q].handling => Kind(q) \in Masters
  /\ Kind(q) \notin {"dead", "reaped"} => proc[q].exit = "none"
  /\ Kind(q) \in {"none", "dead", "reaped"} => \A n \in Fds : proc[q].fds[n] = Closed
Tree ==
  /\ \A q \in Names : TreeAt(q)
  /\ Kind(Master) \in Masters \cup {"dead"}

\* The stages for which a master has yet to fork.
ToFork(p) ==
  CASE p.kind \in {"loop", "exec"} -> conversionLength - p.i
    [] p.kind = "close" -> conversionLength - p.i - 1
    [] OTHER -> 0

\* A master never reaps more children than it counts on.
Counts ==
  \A q \in Names : Kind(q) \in Masters \cup {"exec"} =>
    proc[q].reapedChild >= ToFork(proc[q]) + Cardinality(Alive(q))

\* What the first master knows of its children, and what it tells.
Told ==
  /\ Kind(Master) \in Masters =>
       /\ proc[Master].reapedChild = conversionLength - Cardinality(Gone(Master))
       /\ proc[Master].doneReapingAll => Gone(Master) = Kids(Master)
       /\ proc[Master].errorChild <=> \E c \in Gone(Master) : proc[c].exit = "killed"
  /\ Kind(Master) = "dead" =>
       /\ Gone(Master) = Kids(Master)
       /\ proc[Master].exit = "failure" <=> \E c \in Kids(Master) : proc[c].exit = "killed"

\* The descriptors of the first master between two stages, and with the pipe for
\* the next: the terminal, the printer until the last stage has it, the read end
\* of the pipe before, both ends of the pipe after, and no other.
Standard == 0 .. 2
LoopFds(p) ==
  /\ \A n \in Standard : p.fds[n] = Terminal
  /\ p.fds[PrinterFd] = IF p.i <= LastStage THEN Printer ELSE Closed
  /\ p.i \in 1 .. LastStage => /\ p.prevFd > PrinterFd
                               /\ p.fds[p.prevFd] = Read(Master, p.i - 1)
  /\ \A n \in Fds : (n > PrinterFd /\ ~(p.i \in 1 .. LastStage /\ n = p.prevFd))
                      => p.fds[n] = Closed
ForkFds(p) ==
  /\ \A n \in Standard : p.fds[n] = Terminal
  /\ p.fds[PrinterFd] = Printer
  /\ p.i > First => /\ p.prevFd > PrinterFd
                    /\ p.fds[p.prevFd] = Read(Master, p.i - 1)
  /\ p.i < LastStage => /\ p.fd[1] > PrinterFd /\ p.fds[p.fd[1]] = Read(Master, p.i)
                        /\ p.fd[2] > PrinterFd /\ p.fds[p.fd[2]] = Write(Master, p.i)
                        /\ p.i = First => p.prevFd = p.fd[1]
  /\ \A n \in Fds : (/\ n > PrinterFd
                     /\ ~(p.i > First /\ n = p.prevFd)
                     /\ ~(p.i < LastStage /\ n \in {p.fd[1], p.fd[2]})) => p.fds[n] = Closed
\* The descriptors of the program of stage i.
RunFds(p, i) ==
  /\ p.fds[0] = IF i = First THEN File ELSE Read(Master, i - 1)
  /\ p.fds[1] = IF i = LastStage THEN Printer ELSE Write(Master, i)
  /\ \A n \in Fds : \/ p.fds[n] \in {Closed, Terminal, Printer, File}
                    \/ i > First /\ p.fds[n] = Read(Master, i - 1)
                    \/ i < LastStage /\ p.fds[n] = Write(Master, i)
FdsAt(q) ==
  LET p == proc[q] IN
  /\ q = Master => /\ Kind(q) = "loop" => LoopFds(p)
                   /\ Kind(q) = "close" => ForkFds(p)
                   /\ Kind(q) \in {"test", "suspend"} =>
                        \A n \in Fds : p.fds[n] \in {Closed, Terminal}
  /\ q \in Kids(Master) => /\ Kind(q) = "exec" => ForkFds(p)
                           /\ Kind(q) = "run" => RunFds(p, Stage(q))
Descriptors == \A q \in Names : FdsAt(q)

IInv == Types /\ Tree /\ Counts /\ Told /\ Descriptors

-----------------------------------------------------------------------------
(* Names *)

\* A name is a sequence of stages.
LEMMA NamesAreSeqs ==
  ASSUME conversionLength \in Nat
  PROVE  /\ \A s \in Names : s \in Seq(Stages) /\ Len(s) \in Nat /\ DOMAIN s = 1 .. Len(s)
         /\ Master \in Seq(Stages)
<1>1. ASSUME NEW s \in Names  PROVE s \in Seq(Stages)
  <2>1. PICK n \in 0 .. conversionLength : s \in [1 .. n -> Stages]
    BY DEF Names, NamesOf, Stages
  <2> HIDE DEF Stages
  <2> QED  BY <2>1, SeqDef
<1>2. Master \in Seq(Stages)
  BY EmptySeq DEF Master
<1> QED  BY <1>1, <1>2, LenProperties

\* The name of a process is that of its parent and its stage.
LEMMA NameParts ==
  ASSUME conversionLength \in Nat
  PROVE  /\ \A q \in Names, i \in Stages : /\ Parent(Append(q, i)) = q
                                           /\ Stage(Append(q, i)) = i
                                           /\ Append(q, i) # Master
                                           /\ Append(q, i) # q
         /\ \A c \in Names \ {Master} : /\ Stage(c) \in Stages
                                        /\ Parent(c) \in Seq(Stages)
                                        /\ Parent(c) # c
                                        /\ c = Append(Parent(c), Stage(c))
<1>1. ASSUME NEW q \in Seq(Stages), NEW i \in Stages
      PROVE  /\ Parent(Append(q, i)) = q /\ Stage(Append(q, i)) = i
             /\ Append(q, i) # Master /\ Append(q, i) # q
  <2> DEFINE c == Append(q, i)
  <2>1. /\ c \in Seq(Stages) /\ c # << >> /\ Len(c) = Len(q) + 1
        /\ \A j \in 1 .. Len(q) : c[j] = q[j]
        /\ c[Len(q) + 1] = i
    BY AppendProperties
  <2>2. Len(q) \in Nat
    BY LenProperties
  <2>3. Stage(c) = i
    BY <2>1, <2>2 DEF Stage, Last
  <2>4. Parent(c) = SubSeq(c, 1, Len(q))
    BY <2>1, <2>2 DEF Parent, Front
  <2>5. \A j \in 1 .. Len(q) : c[j] \in Stages
    BY <2>1, <2>2, ElementOfSeq
  <2>6. /\ Parent(c) \in Seq(Stages) /\ Len(Parent(c)) = Len(q)
        /\ \A j \in 1 .. Len(q) : Parent(c)[j] = c[j]
    <3> HIDE DEF c, Stages
    <3>1. /\ SubSeq(c, 1, Len(q)) \in Seq(Stages)
          /\ Len(SubSeq(c, 1, Len(q))) = IF 1 <= Len(q) THEN Len(q) - 1 + 1 ELSE 0
          /\ \A j \in 1 .. Len(q) - 1 + 1 : SubSeq(c, 1, Len(q))[j] = c[1 + j - 1]
      BY <2>2, <2>5, SubSeqProperties
    <3> QED  BY <3>1, <2>2, <2>4
  <2>7. Parent(c) = q
    BY <2>1, <2>6, SeqEqual
  <2> QED  BY <2>1, <2>2, <2>3, <2>7 DEF Master
<1>2. ASSUME NEW c \in Names \ {Master}
      PROVE  /\ Stage(c) \in Stages /\ Parent(c) \in Seq(Stages)
             /\ c = Append(Parent(c), Stage(c)) /\ Parent(c) # c
  <2>1. c \in Seq(Stages) /\ c # << >>
    BY NamesAreSeqs DEF Master
  <2>2. PICK q \in Seq(Stages), i \in Stages : c = Append(q, i)
    BY <2>1, SequenceEmptyOrAppend
  <2> QED  BY <1>1, <2>2
<1> QED  BY <1>1, <1>2, NamesAreSeqs

\* The length of the pipeline and the names stay as they are.
LEMMA Fixed ==
  ASSUME UNCHANGED conversionLength
  PROVE  /\ Names' = Names /\ Stages' = Stages /\ LastStage' = LastStage
         /\ EndSet' = EndSet /\ Process' = Process
         /\ \A q : Kids(q)' = Kids(q)
<1>1. Names' = Names /\ Stages' = Stages /\ LastStage' = LastStage
  BY DEF Names, NamesOf, Stages, LastStage
<1> QED  BY <1>1 DEF EndSet, Process, Kids

\* What the types say of the length and of the stages.
LEMMA Basics ==
  ASSUME Types
  PROVE  /\ conversionLength \in Nat \ {0} /\ LastStage \in Nat
         /\ \A i : i \in Stages <=> i \in Nat /\ i <= LastStage
         /\ \A q \in Names : proc[q] \in Process
         /\ First = 0 /\ First \in Stages /\ LastStage \in Stages
         /\ Master \in Names
<1>1. conversionLength \in Nat \ {0}
  BY LengthsAssumption DEF Types
<1>2. LastStage \in Nat /\ \A i : i \in Stages <=> i \in Nat /\ i <= LastStage
  BY <1>1 DEF LastStage, Stages
<1>3. Master \in Names
  <2>1. << >> \in Seq(0 .. conversionLength - 1) /\ Len(<< >>) = 0
    BY EmptySeq
  <2>2. << >> \in [1 .. 0 -> 0 .. conversionLength - 1] /\ 0 \in 0 .. conversionLength
    BY <1>1, <2>1, LenProperties
  <2>3. \A i \in 1 .. 0 - 1 : << >>[i] < << >>[i + 1]
    OBVIOUS
  <2> QED  BY <2>1, <2>2, <2>3 DEF Master, Names, NamesOf
<1> QED  BY <1>1, <1>2, <1>3 DEF Types, First

\* A process has no more children than there are stages.
LEMMA KidsBound ==
  ASSUME Types, NEW q \in Names
  PROVE  /\ IsFiniteSet(Kids(q)) /\ Cardinality(Kids(q)) <= conversionLength
         /\ \A S \in SUBSET Kids(q) : /\ IsFiniteSet(S) /\ Cardinality(S) \in Nat
                                      /\ Cardinality(S) <= conversionLength
<1> DEFINE f == [c \in Kids(q) |-> Stage(c)]
<1>1. conversionLength \in Nat \ {0}
  BY Basics
<1>2. IsFiniteSet(Stages) /\ Cardinality(Stages) = conversionLength
  BY <1>1, FS_Interval DEF Stages
<1>3. f \in [Kids(q) -> Stages]
  BY <1>1, NameParts DEF Kids
<1>4. ASSUME NEW c \in Kids(q), NEW d \in Kids(q), f[c] = f[d]  PROVE c = d
  <2>1. c = Append(Parent(c), Stage(c)) /\ d = Append(Parent(d), Stage(d))
    BY <1>1, NameParts DEF Kids
  <2> QED  BY <1>4, <2>1 DEF Kids
<1>5. f \in Injection(Kids(q), Stages)
  BY <1>3, <1>4 DEF Injection, IsInjective
<1>6. IsFiniteSet(Kids(q)) /\ Cardinality(Kids(q)) <= conversionLength
  BY <1>2, <1>5, FS_Injection
<1>7. ASSUME NEW S \in SUBSET Kids(q)
      PROVE  /\ IsFiniteSet(S) /\ Cardinality(S) \in Nat
             /\ Cardinality(S) <= conversionLength
  <2>1. /\ IsFiniteSet(S) /\ Cardinality(S) <= Cardinality(Kids(q))
        /\ Cardinality(S) \in Nat /\ Cardinality(Kids(q)) \in Nat
    BY <1>6, FS_Subset, FS_CardinalityType
  <2> QED  BY <1>1, <1>6, <2>1
<1> QED  BY <1>6, <1>7

-----------------------------------------------------------------------------
(* What the steps do to the processes *)

\* Equal but for a pending signal, of which the invariant says nothing.
Alike(r, p) ==
  /\ r.kind = p.kind /\ r.exit = p.exit /\ r.i = p.i /\ r.fds = p.fds
  /\ r.prevFd = p.prevFd /\ r.fd = p.fd /\ r.reapedChild = p.reapedChild
  /\ r.doneReapingAll <=> p.doneReapingAll
  /\ r.errorChild <=> p.errorChild
  /\ r.handling <=> p.handling

\* What a process has been told of its children.
Knows(r, p) ==
  /\ r.exit = p.exit /\ r.reapedChild = p.reapedChild
  /\ r.doneReapingAll <=> p.doneReapingAll
  /\ r.errorChild <=> p.errorChild

\* A step of q alone: it becomes r, and others may be sent a signal.
Only(q, r) ==
  /\ proc' \in [Names -> Process] /\ UNCHANGED conversionLength
  /\ proc'[q] = r
  /\ \A d \in Names \ {q} : Alike(proc'[d], proc[d])

\* The master has room for a pipe, and its ends are two descriptors.
LEMMA PipeEffect ==
  ASSUME Types, NEW q \in Names, NEW p \in Process, p.i <= LastStage, ~NoPipe(p)
  PROVE  /\ WithPipe(q, p) \in Process
         /\ Knows(WithPipe(q, p), p) /\ WithPipe(q, p).i = p.i
         /\ WithPipe(q, p).handling <=> p.handling
         /\ p.i = LastStage => WithPipe(q, p) = p
         /\ p.i # LastStage =>
              \E r \in Fds, w \in Fds :
                /\ r # w /\ p.fds[r] = Closed /\ p.fds[w] = Closed
                /\ WithPipe(q, p).fds = [p.fds EXCEPT ![r] = Read(q, p.i), ![w] = Write(q, p.i)]
                /\ WithPipe(q, p).fd = <<r, w>>
                /\ WithPipe(q, p).prevFd = IF p.i = First THEN r ELSE p.prevFd
<1>1. CASE p.i = LastStage
  BY <1>1 DEF WithPipe, Knows
<1>2. CASE p.i # LastStage
  <2> DEFINE r == Min(Free(p.fds))
             w == Min(Free(p.fds) \ {r})
             fds == [p.fds EXCEPT ![r] = Read(q, p.i), ![w] = Write(q, p.i)]
             prevFd == IF p.i = First THEN r ELSE p.prevFd
             W == [p EXCEPT !.fds = fds, !.fd = <<r, w>>, !.prevFd = prevFd]
  <2>1. /\ Free(p.fds) \subseteq Fds /\ Fds \subseteq Nat /\ IsFiniteSet(Fds)
        /\ Cardinality(Free(p.fds)) >= 2
    <3>1. Free(p.fds) \subseteq Fds
      BY DEF Free
    <3>2. Fds \subseteq Nat /\ IsFiniteSet(Fds)
      BY OpenMaxAssumption, FS_Interval DEF Fds
    <3>3. Cardinality(Free(p.fds)) \in Nat
      BY <3>1, <3>2, FS_Subset, FS_CardinalityType
    <3> QED  BY <1>2, <3>1, <3>2, <3>3 DEF NoPipe
  <2>2. IsFiniteSet(Free(p.fds)) /\ Free(p.fds) # {}
    BY <2>1, FS_Subset, FS_EmptySet
  <2>3. r \in Free(p.fds)
    BY <2>1, <2>2, HasLeast
  <2>4. /\ IsFiniteSet(Free(p.fds) \ {r})
        /\ Cardinality(Free(p.fds) \ {r}) = Cardinality(Free(p.fds)) - 1
    BY <2>2, <2>3, FS_RemoveElement
  <2>5. Cardinality(Free(p.fds)) \in Nat /\ Free(p.fds) \ {r} # {}
    BY <2>1, <2>2, <2>4, FS_CardinalityType, FS_EmptySet
  <2>6. w \in Free(p.fds) \ {r}
    BY <2>1, <2>4, <2>5, HasLeast
  <2>7. r \in Fds /\ w \in Fds /\ r # w /\ p.fds[r] = Closed /\ p.fds[w] = Closed
    BY <2>3, <2>6 DEF Free
  <2>8. WithPipe(q, p) = W
    BY <1>2 DEF WithPipe
  <2>9. Read(q, p.i) \in EndSet /\ Write(q, p.i) \in EndSet
    BY DEF Read, Write, End, EndSet, Process
  <2>10. fds \in [Fds -> EndSet] /\ <<r, w>> \in Fds \X Fds /\ prevFd \in Fds
    BY <2>7, <2>9 DEF Process
  <2>12. fds = [p.fds EXCEPT ![r] = Read(q, p.i), ![w] = Write(q, p.i)]
    OBVIOUS
  <2>13. prevFd = IF p.i = First THEN r ELSE p.prevFd
    OBVIOUS
  <2> HIDE DEF r, w, fds, prevFd
  <2>11. /\ W \in Process /\ Knows(W, p) /\ W.i = p.i /\ (W.handling <=> p.handling)
         /\ W.fds = fds /\ W.fd = <<r, w>> /\ W.prevFd = prevFd
    BY <2>10 DEF Process, Knows
  <2> HIDE DEF W
  <2> QED  BY <1>2, <2>7, <2>8, <2>11, <2>12, <2>13
<1> QED  BY <1>1, <1>2

\* The records of the parent and of the child after fork.
LEMMA ForkedRecords ==
  ASSUME NEW p \in Process
  PROVE  [p EXCEPT !.kind = "close"] \in Process
         /\ [p EXCEPT !.kind = "exec", !.sigchld = FALSE] \in Process
  BY DEF Process, Kinds, Masters

\* A process that ended holds nothing and knows only how it ended.
LEMMA DeadRecord ==
  ASSUME conversionLength \in Nat, Master \in Names,
         NEW exit \in {"none", "success", "failure", "killed"}
  PROVE  /\ Dead(exit) \in Process /\ Dead(exit).kind = "dead" /\ Dead(exit).exit = exit
         /\ ~Dead(exit).handling /\ \A n \in Fds : Dead(exit).fds[n] = Closed
<1>1. Closed \in EndSet /\ 0 \in Fds
  BY OpenMaxAssumption DEF Closed, End, EndSet, Fds
<1>2. [n \in Fds |-> Closed] \in [Fds -> EndSet] /\ <<0, 0>> \in Fds \X Fds
  BY <1>1
<1>3. NoProc \in Process /\ NoProc.fds = [n \in Fds |-> Closed] /\ ~NoProc.handling
  BY <1>1, <1>2 DEF NoProc, Process, Kinds
<1>4. /\ Dead(exit) \in Process /\ Dead(exit).kind = "dead" /\ Dead(exit).exit = exit
      /\ ~Dead(exit).handling /\ Dead(exit).fds = NoProc.fds
  BY <1>3 DEF Dead, Process, Kinds
<1> QED  BY <1>3, <1>4

\* Closing and copying descriptors leaves a table of descriptors.
LEMMA FdsType ==
  ASSUME Types, NEW fds \in [Fds -> EndSet]
  PROVE  /\ Closed \in EndSet /\ File \in EndSet
         /\ \A n : Close(fds, n) \in [Fds -> EndSet]
         /\ \A n \in Fds : \A t : Dup2(fds, n, t) \in [Fds -> EndSet]
         /\ {0, 1, 2, PrinterFd} \subseteq Fds
         /\ Free(fds) # {} => Min(Free(fds)) \in Free(fds) /\ Min(Free(fds)) \in Fds
         /\ Free(fds) # {} => Opened(fds) \in [Fds -> EndSet]
<1>1. Closed \in EndSet /\ File \in EndSet
  BY Basics DEF Closed, File, End, EndSet
<1>2. {0, 1, 2, PrinterFd} \subseteq Fds
  BY OpenMaxAssumption DEF Fds, PrinterFd
<1>3. \A n : Close(fds, n) \in [Fds -> EndSet]
  BY <1>1 DEF Close
<1>4. ASSUME NEW f \in [Fds -> EndSet]
      PROVE  \A n \in Fds : \A t : Dup2(f, n, t) \in [Fds -> EndSet]
  BY <1>4 DEF Dup2
<1>5. ASSUME Free(fds) # {}  PROVE Min(Free(fds)) \in Free(fds) /\ Min(Free(fds)) \in Fds
  <2>1. Free(fds) \subseteq Fds
    BY DEF Free
  <2>2. Fds \subseteq Nat /\ IsFiniteSet(Fds)
    BY OpenMaxAssumption, FS_Interval DEF Fds
  <2>3. IsFiniteSet(Free(fds)) /\ Free(fds) \subseteq Nat
    BY <2>1, <2>2, FS_Subset
  <2> QED  BY <1>5, <2>1, <2>3, HasLeast
<1>6. ASSUME Free(fds) # {}  PROVE Opened(fds) \in [Fds -> EndSet]
  <2>1. [fds EXCEPT ![Min(Free(fds))] = File] \in [Fds -> EndSet]
    BY <1>1
  <2> QED  BY <1>4, <1>5, <1>6, <2>1 DEF Opened
<1> QED  BY <1>1, <1>2, <1>3, <1>4, <1>5, <1>6

\* A child of the first stage has room for the file of the job.
LEMMA RedirectedType ==
  ASSUME Types, NEW p \in Process, p.i = First => Free(p.fds) # {}
  PROVE  Redirected(p) \in [Fds -> EndSet]
<1> DEFINE fds == IF p.i = LastStage THEN p.fds ELSE Close(p.fds, p.fd[1])
           in == IF p.i = First THEN Opened(fds) ELSE Dup2(fds, p.prevFd, 0)
<1>1. p.fds \in [Fds -> EndSet] /\ p.prevFd \in Fds /\ p.fd[1] \in Fds /\ p.fd[2] \in Fds
  BY DEF Process
<1>2. fds \in [Fds -> EndSet]
  BY <1>1, FdsType
<1>3. p.i = First => Free(fds) # {}
  BY <1>1 DEF Close, Free
<1>4. in \in [Fds -> EndSet]
  <2> HIDE DEF fds
  <2> QED  BY <1>1, <1>2, <1>3, FdsType
<1>5. PrinterFd \in Fds
  BY <1>1, FdsType
<1>6. Redirected(p) = Dup2(in, IF p.i = LastStage THEN PrinterFd ELSE p.fd[2], 1)
  BY DEF Redirected
<1> HIDE DEF in
<1> QED  BY <1>1, <1>4, <1>5, <1>6, FdsType

\* What the master keeps is a table of descriptors, too.
LEMMA ParentClosesType ==
  ASSUME Types, NEW p \in Process
  PROVE  ParentCloses(p) \in [Fds -> EndSet]
<1>1. p.fds \in [Fds -> EndSet]
  BY DEF Process
<1>2. Close(p.fds, p.prevFd) \in [Fds -> EndSet]
  BY <1>1, FdsType
<1> QED  BY <1>1, <1>2, FdsType DEF ParentCloses

\* After fork the parent is to close what it does not need, and the child is alike.
LEMMA ForkEffect ==
  ASSUME Types, NEW q \in Names, Fork(q)
  PROVE  LET W == WithPipe(q, proc[q])
             c == Append(q, proc[q].i)
         IN  /\ At(q, "loop") /\ proc[q].i <= LastStage /\ ~NoPipe(proc[q])
             /\ proc' \in [Names -> Process] /\ UNCHANGED conversionLength
             /\ W \in Process
             /\ proc'[q] = [W EXCEPT !.kind = "close"]
             /\ c \in Names => proc'[c] = [W EXCEPT !.kind = "exec", !.sigchld = FALSE]
             /\ \A d \in Names : d # q /\ d # c => proc'[d] = proc[d]
             /\ c # q /\ c # Master /\ Parent(c) = q /\ Stage(c) = proc[q].i
<1> DEFINE W == WithPipe(q, proc[q])
           c == Append(q, proc[q].i)
<1>1. proc[q] \in Process /\ proc[q].i <= LastStage /\ ~NoPipe(proc[q]) /\ At(q, "loop")
  BY Basics DEF Fork
<1>2. W \in Process
  BY <1>1, PipeEffect
<1>3. proc[q].i \in Stages /\ conversionLength \in Nat
  BY <1>1, Basics DEF Process
<1>4. c # q /\ c # Master /\ Parent(c) = q /\ Stage(c) = proc[q].i
  BY <1>3, NameParts
<1>5. W.i = proc[q].i
  BY <1>1, PipeEffect
<1>6. proc' = [proc EXCEPT ![q] = [W EXCEPT !.kind = "close"],
                           ![c] = [W EXCEPT !.kind = "exec", !.sigchld = FALSE]]
  BY <1>5 DEF Fork
<1>7. UNCHANGED conversionLength
  BY DEF Fork, UNCHANGEDJob
<1>8. /\ [W EXCEPT !.kind = "close"] \in Process
      /\ [W EXCEPT !.kind = "exec", !.sigchld = FALSE] \in Process
  BY <1>2, ForkedRecords
<1> HIDE DEF W, c
<1>9. /\ proc' \in [Names -> Process]
      /\ proc'[q] = [W EXCEPT !.kind = "close"]
      /\ c \in Names => proc'[c] = [W EXCEPT !.kind = "exec", !.sigchld = FALSE]
      /\ \A d \in Names : d # q /\ d # c => proc'[d] = proc[d]
  BY <1>4, <1>6, <1>8 DEF Types
<1> QED  BY <1>1, <1>2, <1>4, <1>7, <1>9 DEF W, c

\* One process is replaced.
LEMMA OneEffect ==
  ASSUME Types, NEW q \in Names, NEW r \in Process,
         proc' = [proc EXCEPT ![q] = r], UNCHANGEDJob
  PROVE  Only(q, r)
<1>1. /\ proc' \in [Names -> Process] /\ proc'[q] = r
      /\ \A d \in Names \ {q} : proc'[d] = proc[d]
  BY DEF Types
<1> QED  BY <1>1 DEF Only, Alike, UNCHANGEDJob

\* One ends, and its parent is sent a signal.
LEMMA EndsEffect ==
  ASSUME Types, NEW c \in Names \ {Master},
         NEW exit \in {"none", "success", "failure", "killed"}, Ends(c, exit)
  PROVE  Only(c, Dead(exit))
<1>1. Dead(exit) \in Process
  BY Basics, DeadRecord
<1>2. Parent(c) # c
  BY Basics, NameParts
<1>3. proc' = [proc EXCEPT ![c] = Dead(exit), ![Parent(c)].sigchld = TRUE]
  BY DEF Ends
<1>4. ASSUME NEW d \in Names \ {c}  PROVE proc'[d] \in Process /\ Alike(proc'[d], proc[d])
  <2>0. proc[d] \in Process
    BY Basics
  <2>1. CASE d = Parent(c)
    <3>1. proc'[d] = [proc[d] EXCEPT !.sigchld = TRUE]
      BY <1>2, <1>3, <2>1 DEF Types
    <3>2. /\ [proc[d] EXCEPT !.sigchld = TRUE] \in Process
          /\ Alike([proc[d] EXCEPT !.sigchld = TRUE], proc[d])
      BY <2>0 DEF Process, Alike
    <3> QED  BY <3>1, <3>2
  <2>2. CASE d # Parent(c)
    <3>1. proc'[d] = proc[d]
      BY <1>3, <2>2 DEF Types
    <3> QED  BY <2>0, <3>1 DEF Alike
  <2> QED  BY <2>1, <2>2
<1>5. proc'[c] = Dead(exit)
  BY <1>2, <1>3 DEF Types
<1>6. proc' = [d \in Names |-> proc'[d]]
  BY <1>3 DEF Types
<1> QED  BY <1>1, <1>4, <1>5, <1>6 DEF Only, Ends, UNCHANGEDJob

\* The parent closes what it does not need and goes on with the next stage.
LEMMA CloseEndsEffect ==
  ASSUME Types, NEW q \in Names, CloseEnds(q), Kind(q) = "close" => proc[q].i <= LastStage
  PROVE  \E r \in Process :
            /\ Only(q, r) /\ Kind(q) = "close" /\ ~proc[q].handling
            /\ r.kind = "loop" /\ Knows(r, proc[q]) /\ ~r.handling
            /\ r.i = proc[q].i + 1 /\ r.fds = ParentCloses(proc[q])
            /\ r.prevFd = IF proc[q].i \in {First, LastStage} THEN proc[q].prevFd
                          ELSE proc[q].fd[1]
<1> DEFINE p == proc[q]
           prevFd == IF p.i \in {First, LastStage} THEN p.prevFd ELSE p.fd[1]
           r == [p EXCEPT !.kind = "loop", !.i = p.i + 1, !.fds = ParentCloses(p),
                          !.prevFd = prevFd]
<1>0. /\ p \in Process /\ p.fds \in [Fds -> EndSet] /\ p.prevFd \in Fds /\ p.fd[1] \in Fds
      /\ p.i \in 0 .. conversionLength
  BY Basics DEF Process
<1>1. /\ ParentCloses(p) \in [Fds -> EndSet] /\ prevFd \in Fds
      /\ p.i + 1 \in 0 .. conversionLength
  BY <1>0, Basics, ParentClosesType DEF LastStage, CloseEnds, At
<1>2. proc' = [proc EXCEPT ![q] = r] /\ UNCHANGEDJob
  BY DEF CloseEnds
<1> HIDE DEF p, prevFd
<1>3. /\ r \in Process /\ r.kind = "loop" /\ Knows(r, p)
      /\ r.i = p.i + 1 /\ r.fds = ParentCloses(p) /\ r.prevFd = prevFd
      /\ r.handling <=> p.handling
  BY <1>0, <1>1 DEF Process, Knows, Kinds, Masters
<1> HIDE DEF r
<1>4. Only(q, r)
  BY <1>2, <1>3, OneEffect
<1> QED  BY <1>3, <1>4 DEF CloseEnds, At, Kind, p, prevFd

\* After the last stage it closes the printer and waits,
LEMMA LoopEndsEffect ==
  ASSUME Types, NEW q \in Names, LoopEnds(q)
  PROVE  \E r \in Process :
            /\ Only(q, r) /\ Kind(q) = "loop" /\ ~proc[q].handling /\ proc[q].i > LastStage
            /\ r.kind = "test" /\ Knows(r, proc[q]) /\ ~r.handling
            /\ r.fds = Close(proc[q].fds, PrinterFd)
<1> DEFINE p == proc[q]
           r == [p EXCEPT !.kind = "test", !.fds = Close(p.fds, PrinterFd)]
<1>0. /\ p \in Process /\ p.fds \in [Fds -> EndSet] /\ p.prevFd \in Fds /\ p.fd[1] \in Fds
      /\ p.i \in 0 .. conversionLength
  BY Basics DEF Process
<1>1. Close(p.fds, PrinterFd) \in [Fds -> EndSet]
  BY <1>0, FdsType
<1>2. proc' = [proc EXCEPT ![q] = r] /\ UNCHANGEDJob
  BY DEF LoopEnds, Types
<1> HIDE DEF p
<1>3. /\ r \in Process /\ r.kind = "test" /\ Knows(r, p)
      /\ r.fds = Close(p.fds, PrinterFd) /\ (r.handling <=> p.handling)
  BY <1>0, <1>1 DEF Process, Knows, Kinds, Masters
<1> HIDE DEF r
<1>4. Only(q, r)
  BY <1>2, <1>3, OneEffect
<1> QED  BY <1>3, <1>4 DEF LoopEnds, At, Kind, p

\* testing and suspending itself,
LEMMA TestDoneEffect ==
  ASSUME Types, NEW q \in Names, TestDone(q)
  PROVE  \E r \in Process :
            /\ Only(q, r) /\ Kind(q) = "test" /\ ~proc[q].handling
            /\ r.kind = "suspend" /\ Knows(r, proc[q]) /\ ~r.handling
            /\ r.fds = proc[q].fds
<1> DEFINE p == proc[q]
           r == [p EXCEPT !.kind = "suspend"]
<1>0. /\ p \in Process /\ p.fds \in [Fds -> EndSet] /\ p.prevFd \in Fds /\ p.fd[1] \in Fds
      /\ p.i \in 0 .. conversionLength
  BY Basics DEF Process
<1>2. proc' = [proc EXCEPT ![q] = r] /\ UNCHANGEDJob
  BY DEF TestDone, Types
<1> HIDE DEF p
<1>3. /\ r \in Process /\ r.kind = "suspend" /\ Knows(r, p)
      /\ r.fds = p.fds /\ (r.handling <=> p.handling)
  BY <1>0 DEF Process, Knows, Kinds, Masters
<1> HIDE DEF r
<1>4. Only(q, r)
  BY <1>2, <1>3, OneEffect
<1> QED  BY <1>3, <1>4 DEF TestDone, At, Kind, p

\* until its signal handler runs,
LEMMA HandlerStartEffect ==
  ASSUME Types, NEW q \in Names, HandlerStart(q)
  PROVE  \E r \in Process :
            /\ Only(q, r) /\ Kind(q) \in Masters
            /\ r.kind = Kind(q) /\ Knows(r, proc[q]) /\ r.handling
            /\ r.i = proc[q].i /\ r.fds = proc[q].fds /\ r.prevFd = proc[q].prevFd
            /\ r.fd = proc[q].fd
<1> DEFINE p == proc[q]
           r == [p EXCEPT !.handling = TRUE, !.sigchld = FALSE]
<1>0. /\ p \in Process /\ p.fds \in [Fds -> EndSet] /\ p.prevFd \in Fds /\ p.fd[1] \in Fds
      /\ p.i \in 0 .. conversionLength
  BY Basics DEF Process
<1>2. proc' = [proc EXCEPT ![q] = r] /\ UNCHANGEDJob
  BY DEF HandlerStart, Types
<1>5. Kind(q) \in Masters
  BY DEF HandlerStart, Deliverable, Masters
<1> HIDE DEF p
<1>3. /\ r \in Process /\ r.kind = p.kind /\ Knows(r, p)
      /\ r.i = p.i /\ r.fds = p.fds /\ r.prevFd = p.prevFd /\ r.fd = p.fd
      /\ r.handling
  BY <1>0 DEF Process, Knows, Kinds, Masters
<1> HIDE DEF r
<1>4. Only(q, r)
  BY <1>2, <1>3, OneEffect
<1> QED  BY <1>3, <1>4, <1>5 DEF Kind, p

\* which may find that all were reaped, and returns.
LEMMA HandlerEndEffect ==
  ASSUME Types, NEW q \in Names, HandlerEnd(q)
  PROVE  \E r \in Process :
            /\ Only(q, r) /\ proc[q].handling /\ ~r.handling
            /\ r.kind = IF Kind(q) = "suspend" THEN "test" ELSE Kind(q)
            /\ r.exit = proc[q].exit /\ r.reapedChild = proc[q].reapedChild
            /\ r.doneReapingAll <=> (proc[q].doneReapingAll \/ proc[q].reapedChild = 0)
            /\ r.errorChild <=> proc[q].errorChild
            /\ r.i = proc[q].i /\ r.fds = proc[q].fds /\ r.prevFd = proc[q].prevFd
            /\ r.fd = proc[q].fd
<1> DEFINE p == proc[q]
           done == p.doneReapingAll \/ p.reapedChild = 0
           kind == IF p.kind = "suspend" THEN "test" ELSE p.kind
           r == [p EXCEPT !.handling = FALSE, !.doneReapingAll = done, !.kind = kind]
<1>0. /\ p \in Process /\ p.fds \in [Fds -> EndSet] /\ p.prevFd \in Fds /\ p.fd[1] \in Fds
      /\ p.i \in 0 .. conversionLength
  BY Basics DEF Process
<1>1. done \in BOOLEAN /\ kind \in Kinds
  BY <1>0 DEF Process, Kinds, Masters
<1>2. proc' = [proc EXCEPT ![q] = r] /\ UNCHANGEDJob
  BY DEF HandlerEnd, Types
<1>5. done <=> (p.doneReapingAll \/ p.reapedChild = 0)
  OBVIOUS
<1>6. kind = IF p.kind = "suspend" THEN "test" ELSE p.kind
  OBVIOUS
<1> HIDE DEF p, done, kind
<1>3. /\ r \in Process /\ r.kind = kind /\ r.exit = p.exit /\ r.reapedChild = p.reapedChild
      /\ r.doneReapingAll <=> done
      /\ r.errorChild <=> p.errorChild
      /\ r.i = p.i /\ r.fds = p.fds /\ r.prevFd = p.prevFd /\ r.fd = p.fd
      /\ ~r.handling
  BY <1>0, <1>1 DEF Process
<1> HIDE DEF r
<1>4. Only(q, r)
  BY <1>2, <1>3, OneEffect
<1> QED  BY <1>3, <1>4, <1>5, <1>6 DEF HandlerEnd, Kind, p

\* A process exits, is killed, or cannot go on.
LEMMA ExitsEffect ==
  ASSUME Types, NEW q \in Names, NEW exit \in {"none", "success", "failure", "killed"},
         Exits(q, exit)
  PROVE  Only(q, Dead(exit))
<1>1. CASE q = Master
  <2>1. Dead(exit) \in Process
    BY Basics, DeadRecord
  <2> QED  BY <1>1, <2>1, OneEffect DEF Exits
<1>2. CASE q # Master
  BY <1>2, EndsEffect DEF Exits
<1> QED  BY <1>1, <1>2

\* A child of the first stage is a child of the first master.
LEMMA FirstChild ==
  ASSUME Types, NEW c \in Names \ {Master}, Stage(c) = First
  PROVE  Parent(c) = Master
<1>1. PICK n \in 0 .. conversionLength : c \in [1 .. n -> Stages]
  BY DEF Names, NamesOf, Stages
<1>2. /\ c \in Seq(Stages) /\ Len(c) \in Nat /\ DOMAIN c = 1 .. Len(c)
      /\ Parent(c) \in Seq(Stages) /\ c = Append(Parent(c), Stage(c))
  BY Basics, NamesAreSeqs, NameParts
<1>3. Len(Parent(c)) \in Nat /\ Len(c) = Len(Parent(c)) + 1
  <2>1. Stage(c) \in Stages
    BY Basics, NameParts
  <2> QED  BY <1>2, <2>1, AppendProperties, LenProperties
<1>4. Len(c) > 1 => c[Len(c) - 1] < c[Len(c) - 1 + 1]
  BY <1>2 DEF Names, NamesOf
<1>5. Len(c) > 1 => c[Len(c) - 1] \in Nat
  BY <1>2, Basics, ElementOfSeq
<1>6. c[Len(c)] = 0
  BY Basics DEF Stage, Last
<1>7. Len(Parent(c)) = 0
  BY <1>2, <1>3, <1>4, <1>5, <1>6
<1> QED  BY <1>2, <1>7, EmptySeq DEF Master

\* A child's program has its own descriptors.
LEMMA ExecEffect ==
  ASSUME Types, NEW c \in Names, Exec(c), proc[c].i = First => Free(proc[c].fds) # {}
  PROVE  \E r \in Process :
            /\ Only(c, r) /\ Kind(c) = "exec"
            /\ r.kind = "run" /\ Knows(r, proc[c]) /\ (r.handling <=> proc[c].handling)
            /\ r.fds = Redirected(proc[c])
<1> DEFINE p == proc[c]
           r == [p EXCEPT !.kind = "run", !.fds = Redirected(p)]
<1>0. p \in Process
  BY Basics
<1>1. Redirected(p) \in [Fds -> EndSet]
  BY <1>0, RedirectedType
<1>2. proc' = [proc EXCEPT ![c] = r] /\ UNCHANGEDJob
  BY DEF Exec, Types
<1> HIDE DEF p
<1>3. /\ r \in Process /\ r.kind = "run" /\ Knows(r, p)
      /\ r.fds = Redirected(p) /\ (r.handling <=> p.handling)
  BY <1>0, <1>1 DEF Process, Knows, Kinds, Masters
<1> HIDE DEF r
<1>4. Only(c, r)
  BY <1>2, <1>3, OneEffect
<1> QED  BY <1>3, <1>4 DEF Exec, Kind, p

\* One without a program goes on with them in the loop.
LEMMA ExecFailsEffect ==
  ASSUME Types, NEW c \in Names, ExecFails(c), proc[c].i = First => Free(proc[c].fds) # {},
         Kind(c) = "exec" => proc[c].i <= LastStage
  PROVE  \E r \in Process :
            /\ Only(c, r) /\ Kind(c) = "exec"
            /\ r.kind = "loop" /\ Knows(r, proc[c]) /\ (r.handling <=> proc[c].handling)
            /\ r.i = proc[c].i + 1
<1> DEFINE p == proc[c]
           r == [p EXCEPT !.kind = "loop", !.i = p.i + 1, !.fds = Redirected(p)]
<1>0. p \in Process
  BY Basics
<1>1. Redirected(p) \in [Fds -> EndSet]
  BY <1>0, RedirectedType
<1>2. proc' = [proc EXCEPT ![c] = r] /\ UNCHANGEDJob
  BY DEF ExecFails
<1>5. p.i + 1 \in 0 .. conversionLength
  BY <1>0, Basics DEF ExecFails, Process, LastStage
<1> HIDE DEF p
<1>3. /\ r \in Process /\ r.kind = "loop" /\ Knows(r, p)
      /\ r.i = p.i + 1 /\ (r.handling <=> p.handling)
  BY <1>0, <1>1, <1>5 DEF Process, Knows, Kinds, Masters
<1> HIDE DEF r
<1>4. Only(c, r)
  BY <1>2, <1>3, OneEffect
<1> QED  BY <1>3, <1>4 DEF ExecFails, Kind, p

\* The handler reaps a child, and counts it.
LEMMA ReapEffect ==
  ASSUME Types, NEW q \in Names, Reap(q), DeadChildren(q) # {} => proc[q].reapedChild >= 1
  PROVE  \E c \in Kids(q) :
            /\ Kind(c) = "dead" /\ proc[q].handling /\ proc[q].reapedChild >= 1
            /\ proc' \in [Names -> Process] /\ UNCHANGED conversionLength
            /\ LET r == proc'[q]
                   p == proc[q]
               IN  /\ r.kind = p.kind /\ r.exit = p.exit
                   /\ r.i = p.i /\ r.fds = p.fds /\ r.prevFd = p.prevFd /\ r.fd = p.fd
                   /\ r.handling <=> p.handling
                   /\ r.doneReapingAll <=> p.doneReapingAll
                   /\ r.reapedChild = p.reapedChild - 1
                   /\ r.errorChild <=> p.errorChild \/ proc[c].exit = "killed"
            /\ proc'[c].kind = "reaped" /\ proc'[c].exit = proc[c].exit
            /\ proc'[c].fds = proc[c].fds /\ (proc'[c].handling <=> proc[c].handling)
            /\ \A d \in Names \ {q, c} : proc'[d] = proc[d]
<1>1. PICK c \in DeadChildren(q) :
        proc' = [proc EXCEPT
          ![q].errorChild = @ \/ IsError(proc[c].exit),
          ![q].reapedChild = @ - 1,
          ![c].kind = "reaped"]
  BY DEF Reap
<1>2. c \in Kids(q) /\ c \in Names /\ Kind(c) = "dead" /\ proc[q].handling
  BY DEF DeadChildren, Kids, Reap
<1>3. c # q
  BY <1>2, Basics, NameParts DEF Kids
<1> DEFINE p == proc[q]
           error == p.errorChild \/ IsError(proc[c].exit)
           r == [p EXCEPT !.errorChild = error, !.reapedChild = p.reapedChild - 1]
           s == [proc[c] EXCEPT !.kind = "reaped"]
<1>4. /\ proc'[q] = r /\ proc'[c] = s /\ \A d \in Names \ {q, c} : proc'[d] = proc[d]
      /\ proc' = [d \in Names |-> proc'[d]]
  BY <1>1, <1>2, <1>3 DEF Types
<1>5. p \in Process /\ proc[c] \in Process /\ \A d \in Names : proc[d] \in Process
  BY <1>2, Basics
<1>6. p.reapedChild - 1 \in 0 .. conversionLength /\ p.reapedChild >= 1
  BY <1>1, <1>5, Basics DEF Process
<1>7. error <=> p.errorChild \/ proc[c].exit = "killed"
  BY DEF IsError
<1>7a. error \in BOOLEAN
  BY <1>5 DEF IsError, Process
<1>8. /\ s \in Process /\ s.kind = "reaped" /\ s.exit = proc[c].exit
      /\ s.fds = proc[c].fds /\ (s.handling <=> proc[c].handling)
  BY <1>5 DEF Process, Kinds
<1> HIDE DEF s, p, error
<1>9. /\ r \in Process /\ r.kind = p.kind /\ r.exit = p.exit
      /\ r.i = p.i /\ r.fds = p.fds /\ r.prevFd = p.prevFd /\ r.fd = p.fd
      /\ r.handling <=> p.handling
      /\ r.doneReapingAll <=> p.doneReapingAll
      /\ r.reapedChild = p.reapedChild - 1
      /\ r.errorChild <=> error
  BY <1>5, <1>6, <1>7a DEF Process
<1> HIDE DEF r
<1>10. proc' \in [Names -> Process]
  BY <1>4, <1>5, <1>8, <1>9
<1>11. UNCHANGED conversionLength
  BY DEF Reap, UNCHANGEDJob
<1> QED  BY <1>2, <1>4, <1>6, <1>7, <1>8, <1>9, <1>10, <1>11 DEF p

-----------------------------------------------------------------------------
(* Steps of one process *)

\* The kinds of the others stay, and the tree with them.
LEMMA TreeOnly ==
  ASSUME Types, Tree, NEW q \in Names, NEW r \in Process, Only(q, r),
         Kind(q) # "none", TreeAt(q)', q = Master => r.kind \in Masters \cup {"dead"}
  PROVE  Tree'
<1>1. /\ Names' = Names /\ LastStage' = LastStage
      /\ \A d : Kids(d)' = Kids(d) /\ Kids(d) \subseteq Names
  BY Fixed DEF Only, Kids
<1>2. \A d \in Names \ {q} : Alike(proc'[d], proc[d]) /\ TreeAt(d)
  BY DEF Only, Tree
<1>3. \A c \in Names : c # q => Kind(c)' = Kind(c)
  BY <1>2 DEF Alike, Kind
<1>4. ASSUME NEW d \in Names \ {q}  PROVE TreeAt(d)'
  <2>1. \A c \in Kids(d) : Kind(c) = "none" => Kind(c)' = "none"
    BY <1>1, <1>3
  <2> QED  BY <1>1, <1>2, <1>3, <1>4, <2>1 DEF TreeAt, Alike
<1>5. Kind(Master)' \in Masters \cup {"dead"}
  BY <1>3, Basics DEF Only, Kind, Tree
<1> QED  BY <1>1, <1>4, <1>5 DEF Tree

\* The living stay alive, and nobody is to fork more than before.
LEMMA CountsOnly ==
  ASSUME Types, Counts, NEW q \in Names, NEW r \in Process, Only(q, r),
         Kind(q) \notin {"none", "reaped"}, r.kind \notin {"none", "reaped"},
         r.kind \in Masters \cup {"exec"} =>
           /\ Kind(q) \in Masters \cup {"exec"}
           /\ r.reapedChild = proc[q].reapedChild
           /\ ToFork(r) <= ToFork(proc[q])
  PROVE  Counts'
<1>1. /\ Names' = Names /\ conversionLength' = conversionLength
      /\ \A d : Kids(d)' = Kids(d) /\ Kids(d) \subseteq Names
  BY Fixed DEF Only, Kids
<1>2. \A d \in Names \ {q} : Alike(proc'[d], proc[d])
  BY DEF Only
<1>3. \A c \in Names : c # q => Kind(c)' = Kind(c)
  BY <1>2 DEF Alike, Kind
<1>4. Kind(q)' = r.kind /\ proc'[q] = r
  BY DEF Only, Kind
<1>5. \A d \in Names : Alive(d)' = Alive(d)
  BY <1>1, <1>3, <1>4 DEF Alive
<1>6. ASSUME NEW d \in Names, Kind(d)' \in Masters \cup {"exec"}
      PROVE  /\ Kind(d) \in Masters \cup {"exec"}
             /\ proc'[d].reapedChild = proc[d].reapedChild
             /\ ToFork(proc[d])' <= ToFork(proc[d])
             /\ ToFork(proc[d])' \in Int /\ ToFork(proc[d]) \in Int
  <2>1. proc[d] \in Process /\ proc'[d] \in Process /\ conversionLength \in Nat
    BY Basics DEF Only
  <2>2. ToFork(proc[d]) \in Int /\ ToFork(proc[d])' \in Int
    BY <1>1, <2>1 DEF ToFork, Process
  <2>3. CASE d = q
    BY <1>1, <1>4, <1>6, <2>2, <2>3 DEF ToFork
  <2>4. CASE d # q
    <3>1. Alike(proc'[d], proc[d])
      BY <1>2, <2>4
    <3>2. ToFork(proc[d])' = ToFork(proc[d])
      BY <3>1, <1>1 DEF ToFork, Alike
    <3> QED  BY <1>3, <1>6, <2>2, <2>4, <3>1, <3>2 DEF Alike
  <2> QED  BY <2>3, <2>4
<1>7. \A d \in Names : Cardinality(Alive(d)) \in Nat /\ proc[d].reapedChild \in Int
  BY KidsBound, Basics DEF Alive, Process
<1>8. ASSUME NEW d \in Names, Kind(d)' \in Masters \cup {"exec"}
      PROVE  proc'[d].reapedChild >= ToFork(proc[d])' + Cardinality(Alive(d)')
  <2>1. proc[d].reapedChild >= ToFork(proc[d]) + Cardinality(Alive(d))
    BY <1>6, <1>8 DEF Counts
  <2> QED  BY <1>5, <1>6, <1>7, <1>8, <2>1
<1> QED  BY <1>1, <1>8 DEF Counts

\* The first master knows what it did, whatever another process does.
LEMMA ToldOnly ==
  ASSUME Types, Told, NEW q \in Names \ {Master}, NEW r \in Process, Only(q, r),
         Kind(q) # "reaped", r.kind # "reaped"
  PROVE  Told'
<1>1. /\ Names' = Names /\ conversionLength' = conversionLength
      /\ \A d : Kids(d)' = Kids(d) /\ Kids(d) \subseteq Names
  BY Fixed DEF Only, Kids
<1>2. \A d \in Names \ {q} : Alike(proc'[d], proc[d])
  BY DEF Only
<1>3. /\ \A c \in Names : c # q => Kind(c)' = Kind(c) /\ proc'[c].exit = proc[c].exit
      /\ Kind(q)' = r.kind
  BY <1>2 DEF Alike, Kind, Only
<1>4. Gone(Master)' = Gone(Master)
  BY <1>1, <1>3 DEF Gone
<1>5. Kids(Master) = Gone(Master) => q \notin Kids(Master)
  BY DEF Gone
<1>6. \A c \in Gone(Master) : c \in Names /\ c # q
  BY <1>1 DEF Gone
<1>7. Alike(proc'[Master], proc[Master]) /\ Kind(Master)' = Kind(Master)
  BY <1>2, <1>3, Basics
<1>8. CASE Kind(Master) \in Masters
  BY <1>1, <1>3, <1>4, <1>6, <1>7, <1>8 DEF Told, Alike, Masters
<1>9. CASE Kind(Master) = "dead"
  BY <1>1, <1>3, <1>4, <1>5, <1>6, <1>7, <1>9 DEF Told, Alike, Masters
<1> QED  BY <1>7, <1>8, <1>9 DEF Told

\* Descriptors, too.
LEMMA DescriptorsOnly ==
  ASSUME Types, Descriptors, NEW q \in Names, NEW r \in Process, Only(q, r), FdsAt(q)'
  PROVE  Descriptors'
<1>1. /\ Names' = Names /\ LastStage' = LastStage
      /\ \A d : Kids(d)' = Kids(d) /\ Kids(d) \subseteq Names
  BY Fixed DEF Only, Kids
<1>2. ASSUME NEW d \in Names \ {q}  PROVE FdsAt(d)'
  <2>1. Alike(proc'[d], proc[d]) /\ FdsAt(d)
    BY DEF Only, Descriptors
  <2>2. /\ proc'[d].fds = proc[d].fds /\ proc'[d].i = proc[d].i
        /\ proc'[d].fd = proc[d].fd /\ proc'[d].prevFd = proc[d].prevFd
        /\ Kind(d)' = Kind(d)
    BY <2>1 DEF Alike, Kind
  <2>3. /\ LoopFds(proc[d])' <=> LoopFds(proc[d])
        /\ ForkFds(proc[d])' <=> ForkFds(proc[d])
        /\ RunFds(proc[d], Stage(d))' <=> RunFds(proc[d], Stage(d))
    BY <2>2, <1>1 DEF LoopFds, ForkFds, RunFds
  <2> QED  BY <1>1, <2>1, <2>2, <2>3 DEF FdsAt
<1> QED  BY <1>1, <1>2 DEF Descriptors

\* A process that is the same but for what it knows, or in another state of a
\* master, has what it had.
LEMMA DescriptorsKept ==
  ASSUME Types, Descriptors, NEW q \in Names, NEW r \in Process, Only(q, r),
         \/ r.kind = Kind(q) /\ r.i = proc[q].i /\ r.fds = proc[q].fds
            /\ r.prevFd = proc[q].prevFd /\ r.fd = proc[q].fd
         \/ {r.kind, Kind(q)} \subseteq {"test", "suspend"} /\ r.fds = proc[q].fds
         \/ q # Master /\ r.kind \in Masters
         \/ r.kind = "dead"
  PROVE  Descriptors'
<1>1. /\ Names' = Names /\ LastStage' = LastStage /\ Kids(Master)' = Kids(Master)
      /\ proc'[q] = r /\ Kind(q)' = r.kind
  BY Fixed DEF Only, Kind
<1>2. FdsAt(q)
  BY DEF Descriptors
<1>3. CASE r.kind = Kind(q) /\ r.i = proc[q].i /\ r.fds = proc[q].fds
            /\ r.prevFd = proc[q].prevFd /\ r.fd = proc[q].fd
  <2>1. /\ LoopFds(proc[q])' <=> LoopFds(proc[q])
        /\ ForkFds(proc[q])' <=> ForkFds(proc[q])
        /\ RunFds(proc[q], Stage(q))' <=> RunFds(proc[q], Stage(q))
    BY <1>1, <1>3 DEF LoopFds, ForkFds, RunFds
  <2>2. FdsAt(q)'
    BY <1>1, <1>2, <1>3, <2>1 DEF FdsAt
  <2> QED  BY <2>2, DescriptorsOnly
<1>4. CASE {r.kind, Kind(q)} \subseteq {"test", "suspend"} /\ r.fds = proc[q].fds
  <2>1. FdsAt(q)'
    BY <1>1, <1>2, <1>4 DEF FdsAt
  <2> QED  BY <2>1, DescriptorsOnly
<1>5. CASE q # Master /\ r.kind \in Masters
  <2>1. FdsAt(q)'
    BY <1>1, <1>5 DEF FdsAt, Masters
  <2> QED  BY <2>1, DescriptorsOnly
<1>6. CASE r.kind = "dead"
  <2>1. FdsAt(q)'
    BY <1>1, <1>6 DEF FdsAt
  <2> QED  BY <2>1, DescriptorsOnly
<1> QED  BY <1>3, <1>4, <1>5, <1>6

-----------------------------------------------------------------------------
(* The descriptors of the first master, of its children and of their programs *)

\* The ends of pipes are no other descriptors.
LEMMA EndsDiffer ==
  /\ Terminal # Closed /\ Printer # Closed /\ File # Closed
  /\ Terminal # Printer /\ Terminal # File /\ Printer # File
  /\ \A q, i : /\ Read(q, i) \notin {Closed, Terminal, Printer, File}
               /\ Write(q, i) \notin {Closed, Terminal, Printer, File}
  /\ \A q, i, d, j : /\ Read(q, i) # Write(d, j)
                     /\ Read(q, i) = Read(d, j) => q = d /\ i = j
                     /\ Write(q, i) = Write(d, j) => q = d /\ i = j
  BY DEF Terminal, Closed, Printer, File, Read, Write, End

\* The first master always has two descriptors left for the next pipe.
LEMMA Room ==
  ASSUME Types, NEW p \in Process, LoopFds(p)
  PROVE  ~NoPipe(p)
<1>1. {4, 5, 6} \subseteq Fds
  BY OpenMaxAssumption DEF Fds
<1>2. PICK x \in {4, 5, 6}, y \in {4, 5, 6} : x # y /\ x # p.prevFd /\ y # p.prevFd
  <2>1. CASE p.prevFd = 4
    BY <2>1
  <2>2. CASE p.prevFd = 5
    BY <2>2
  <2>3. CASE p.prevFd \notin {4, 5}
    BY <2>3
  <2> QED  BY <2>1, <2>2, <2>3
<1>3. {x, y} \subseteq Free(p.fds)
  BY <1>1, <1>2 DEF Free, LoopFds, PrinterFd
<1>4. Free(p.fds) \subseteq Fds /\ IsFiniteSet(Fds)
  BY OpenMaxAssumption, FS_Interval DEF Free, Fds
<1>5. IsFiniteSet(Free(p.fds)) /\ Cardinality(Free(p.fds)) \in Nat
  BY <1>4, FS_Subset, FS_CardinalityType
<1>6. Cardinality({x, y}) = 2
  <2>1. IsFiniteSet({x}) /\ Cardinality({x}) = 1
    BY FS_Singleton
  <2>2. {x, y} = {x} \cup {y} /\ y \notin {x}
    BY <1>2
  <2> QED  BY <2>1, <2>2, FS_AddElement
<1>7. Cardinality({x, y}) <= Cardinality(Free(p.fds))
  BY <1>3, <1>5, FS_Subset
<1> QED  BY <1>5, <1>6, <1>7 DEF NoPipe

\* A pipe for the next stage is added to what the master has.
LEMMA PipeFds ==
  ASSUME Types, NEW p \in Process, LoopFds(p), p.i <= LastStage
  PROVE  ForkFds(WithPipe(Master, p))
<1> DEFINE W == WithPipe(Master, p)
<1>1. ~NoPipe(p) /\ Master \in Names /\ LastStage \in Nat /\ p.i \in Nat /\ First = 0
  BY Room, Basics DEF Process
<1>2. p.fds \in [Fds -> EndSet] /\ Fds \subseteq Nat /\ Standard \subseteq Fds
      /\ PrinterFd \in Fds /\ p.prevFd \in Fds
  BY OpenMaxAssumption DEF Process, Fds, Standard, PrinterFd
<1>3. CASE p.i = LastStage
  <2>1. W = p
    BY <1>1, <1>3, PipeEffect
  <2> QED  BY <1>1, <1>2, <1>3, <2>1, EndsDiffer DEF LoopFds, ForkFds
<1>4. CASE p.i # LastStage
  <2>1. PICK r \in Fds, w \in Fds :
          /\ r # w /\ p.fds[r] = Closed /\ p.fds[w] = Closed
          /\ W.fds = [p.fds EXCEPT ![r] = Read(Master, p.i), ![w] = Write(Master, p.i)]
          /\ W.fd = <<r, w>>
          /\ W.prevFd = IF p.i = First THEN r ELSE p.prevFd
    BY <1>1, <1>4, PipeEffect
  <2>2. W.i = p.i
    BY <1>1, PipeEffect
  <2>3. r > PrinterFd /\ w > PrinterFd
    <3>1. \A n \in Fds : n <= PrinterFd => p.fds[n] # Closed
      BY <1>1, <1>2, EndsDiffer DEF LoopFds, Standard, PrinterFd, Fds
    <3> QED  BY <1>2, <2>1, <3>1
  <2>4. p.i > First => r # p.prevFd /\ w # p.prevFd
    BY <1>1, <1>4, <2>1, EndsDiffer DEF LoopFds
  <2>5. /\ W.fds[r] = Read(Master, p.i) /\ W.fds[w] = Write(Master, p.i)
        /\ \A n \in Fds \ {r, w} : W.fds[n] = p.fds[n]
        /\ W.fd[1] = r /\ W.fd[2] = w
    BY <1>2, <2>1
  <2> HIDE DEF W
  <2>6. \A n \in Standard : W.fds[n] = Terminal
    BY <1>2, <2>3, <2>5 DEF LoopFds, Standard, PrinterFd
  <2>7. W.fds[PrinterFd] = Printer
    BY <1>1, <1>2, <2>3, <2>5 DEF LoopFds, PrinterFd
  <2>8. W.i > First => /\ W.prevFd > PrinterFd
                       /\ W.fds[W.prevFd] = Read(Master, W.i - 1)
    BY <1>1, <1>2, <1>4, <2>1, <2>2, <2>4, <2>5 DEF LoopFds
  <2>9. W.i = First => W.prevFd = W.fd[1]
    BY <2>1, <2>2, <2>5
  <2>10. ASSUME NEW n \in Fds, n > PrinterFd, ~(W.i > First /\ n = W.prevFd),
                n \notin {r, w}
         PROVE  W.fds[n] = Closed
    <3>1. p.i > First => W.prevFd = p.prevFd
      BY <1>1, <2>1
    <3> QED  BY <1>1, <1>4, <2>2, <2>5, <2>10, <3>1 DEF LoopFds
  <2>11. W.i < LastStage /\ W.fd[1] > PrinterFd /\ W.fd[2] > PrinterFd
         /\ W.fds[W.fd[1]] = Read(Master, W.i) /\ W.fds[W.fd[2]] = Write(Master, W.i)
    BY <1>1, <1>4, <2>2, <2>3, <2>5
  <2>12. ForkFds(W)
    BY <2>5, <2>6, <2>7, <2>8, <2>9, <2>10, <2>11 DEF ForkFds
  <2> QED  BY <2>12 DEF W
<1> QED  BY <1>3, <1>4

\* What the master closes leaves it with the pipe to the next stage.
LEMMA CloseFds ==
  ASSUME Types, NEW p \in Process, NEW r \in Process, ForkFds(p), p.i <= LastStage,
         r.i = p.i + 1, r.fds = ParentCloses(p),
         r.prevFd = IF p.i \in {First, LastStage} THEN p.prevFd ELSE p.fd[1]
  PROVE  LoopFds(r)
<1>1. Master \in Names /\ LastStage \in Nat /\ p.i \in Nat /\ First = 0
  BY Basics DEF Process
<1>2. p.fds \in [Fds -> EndSet] /\ Fds \subseteq Nat /\ Standard \subseteq Fds
      /\ PrinterFd \in Fds /\ p.prevFd \in Fds /\ p.fd[1] \in Fds /\ p.fd[2] \in Fds
  BY OpenMaxAssumption DEF Process, Fds, Standard, PrinterFd
<1> DEFINE gone == (IF p.i = First THEN {} ELSE {p.prevFd})
                     \cup {IF p.i = LastStage THEN PrinterFd ELSE p.fd[2]}
<1>3. \A n \in Fds : r.fds[n] = IF n \in gone THEN Closed ELSE p.fds[n]
  BY <1>2 DEF ParentCloses, Close
<1>4. \A n \in Standard : n \notin gone
  BY <1>1, <1>2 DEF ForkFds, Standard, PrinterFd
<1>5. \A n \in Standard : r.fds[n] = Terminal
  BY <1>2, <1>3, <1>4 DEF ForkFds
<1>6. r.fds[PrinterFd] = IF r.i <= LastStage THEN Printer ELSE Closed
  <2>1. PrinterFd \in gone <=> p.i = LastStage
    <3>1. p.i > First => p.prevFd # PrinterFd
      BY <1>2 DEF ForkFds, PrinterFd
    <3>2. p.i < LastStage => p.fd[2] # PrinterFd
      BY <1>2 DEF ForkFds, PrinterFd
    <3>3. (p.i = First \/ p.i > First) /\ (p.i = LastStage \/ p.i < LastStage)
      BY <1>1
    <3> QED  BY <3>1, <3>2, <3>3
  <2>2. p.fds[PrinterFd] = Printer /\ (r.i <= LastStage <=> p.i # LastStage)
    BY <1>1 DEF ForkFds
  <2> HIDE DEF gone
  <2> QED  BY <1>2, <1>3, <2>1, <2>2
<1>7. CASE p.i = LastStage
  <2>1. \A n \in Fds : n > PrinterFd => r.fds[n] = Closed
    BY <1>1, <1>2, <1>3, <1>7 DEF ForkFds
  <2> QED  BY <1>1, <1>5, <1>6, <1>7, <2>1 DEF LoopFds
<1>8. CASE p.i # LastStage
  <2>1. /\ p.fd[1] > PrinterFd /\ p.fds[p.fd[1]] = Read(Master, p.i)
        /\ p.fds[p.fd[2]] = Write(Master, p.i)
        /\ r.prevFd = p.fd[1]
    BY <1>1, <1>8 DEF ForkFds
  <2>2. p.fd[1] # p.fd[2]
    BY <2>1, EndsDiffer
  <2>3. p.i > First => p.fd[1] # p.prevFd
    <3>1. p.i > First => p.fds[p.prevFd] = Read(Master, p.i - 1)
      BY DEF ForkFds
    <3> QED  BY <1>1, <2>1, <3>1, EndsDiffer
  <2>4. p.fd[1] \notin gone
    BY <1>1, <1>8, <2>2, <2>3
  <2>5. r.fds[r.prevFd] = Read(Master, r.i - 1)
    <3>1. r.fds[p.fd[1]] = p.fds[p.fd[1]] /\ r.i - 1 = p.i
      <4>1. p.fd[1] \in Fds
        BY <1>2
      <4>2. r.i - 1 = p.i
        BY <1>1
      <4> HIDE DEF gone
      <4> QED  BY <1>3, <2>4, <4>1, <4>2, Zenon
    <3> QED  BY <2>1, <3>1
  <2>6. \A n \in Fds : n > PrinterFd /\ n # r.prevFd => r.fds[n] = Closed
    BY <1>1, <1>2, <1>3, <1>8, <2>1 DEF ForkFds
  <2> HIDE DEF gone
  <2> QED  BY <1>1, <1>5, <1>6, <1>8, <2>1, <2>5, <2>6 DEF LoopFds
<1> QED  BY <1>7, <1>8

\* What a child of the first master was forked with leaves room for the file.
LEMMA ChildRoom ==
  ASSUME Types, NEW p \in Process, ForkFds(p), p.i = First
  PROVE  Free(p.fds) # {}
<1>1. {4, 5, 6} \subseteq Fds
  BY OpenMaxAssumption DEF Fds
<1>2. PICK x \in {4, 5, 6} : x \notin {p.fd[1], p.fd[2]}
  <2>1. CASE 4 \notin {p.fd[1], p.fd[2]}
    BY <2>1
  <2>2. CASE 4 \in {p.fd[1], p.fd[2]} /\ 5 \notin {p.fd[1], p.fd[2]}
    BY <2>2
  <2>3. CASE 4 \in {p.fd[1], p.fd[2]} /\ 5 \in {p.fd[1], p.fd[2]}
    BY <2>3
  <2> QED  BY <2>1, <2>2, <2>3
<1>3. ~(p.i > First) /\ x > PrinterFd
  BY <1>2, Basics DEF PrinterFd
<1>4. p.fds[x] = Closed
  BY <1>1, <1>2, <1>3 DEF ForkFds
<1> QED  BY <1>1, <1>4 DEF Free

\* A program has the pipes on its standard descriptors, and no other pipe.
LEMMA RedirectedFds ==
  ASSUME Types, NEW p \in Process, NEW r \in Process, ForkFds(p), p.i <= LastStage,
         r.fds = Redirected(p)
  PROVE  RunFds(r, p.i)
<1> DEFINE i == p.i
           kept == IF i = LastStage THEN p.fds ELSE Close(p.fds, p.fd[1])
           in == IF i = First THEN Opened(kept) ELSE Dup2(kept, p.prevFd, 0)
           out == IF i = LastStage THEN PrinterFd ELSE p.fd[2]
           input == IF i = First THEN File ELSE Read(Master, i - 1)
           output == IF i = LastStage THEN Printer ELSE Write(Master, i)
<1>1. Master \in Names /\ LastStage \in Nat /\ i \in Nat /\ First = 0
  BY Basics DEF Process
<1>2. /\ p.fds \in [Fds -> EndSet] /\ Fds \subseteq Nat /\ {0, 1, 2, PrinterFd} \subseteq Fds
      /\ p.prevFd \in Fds /\ p.fd[1] \in Fds /\ p.fd[2] \in Fds
  BY OpenMaxAssumption DEF Process, Fds, PrinterFd
<1>3. kept \in [Fds -> EndSet]
  BY <1>2, FdsType
<1>4. \A n \in Fds : kept[n] = IF i # LastStage /\ n = p.fd[1] THEN Closed ELSE p.fds[n]
  BY <1>2 DEF Close
<1>5. ASSUME NEW n \in Fds
      PROVE  \/ kept[n] \in {Closed, Terminal, Printer}
             \/ i > First /\ kept[n] = Read(Master, i - 1)
             \/ i < LastStage /\ kept[n] = Write(Master, i)
  <2>0. kept[n] = IF i # LastStage /\ n = p.fd[1] THEN Closed ELSE p.fds[n]
    BY <1>4
  <2> HIDE DEF kept
  <2>1. CASE n \in Standard
    BY <2>0, <2>1 DEF ForkFds
  <2>2. CASE n = PrinterFd
    BY <2>0, <2>2 DEF ForkFds
  <2>3. CASE n > PrinterFd
    BY <1>1, <2>0, <2>3 DEF ForkFds
  <2> QED  BY <1>2, <2>1, <2>2, <2>3 DEF Standard, PrinterFd
<1>6. /\ out \in Fds /\ out >= PrinterFd /\ kept[out] = output
      /\ output \notin {Closed, File} /\ output # input
  <2>1. p.fds[out] = output /\ out \in Fds /\ out >= PrinterFd
    BY <1>1, <1>2 DEF ForkFds, PrinterFd
  <2>2. i # LastStage => p.fds[p.fd[1]] = Read(Master, i)
    BY <1>1 DEF ForkFds
  <2>3. /\ i # LastStage => output # p.fds[p.fd[1]]
        /\ output \notin {Closed, File} /\ output # input
    BY <2>2, EndsDiffer
  <2>4. i # LastStage => out # p.fd[1]
    BY <2>1, <2>3
  <2>5. kept[out] = p.fds[out]
    BY <1>4, <2>1, <2>4
  <2> QED  BY <2>1, <2>3, <2>5
<1>7. /\ in \in [Fds -> EndSet] /\ in[0] = input /\ in[out] = kept[out]
      /\ \A n \in Fds : in[n] \in {kept[n], input}
  <2>1. CASE i = First
    <3>1. Free(kept) # {}
      BY <1>2, <1>3, <1>4, <2>1, ChildRoom DEF Free
    <3> DEFINE f == Min(Free(kept))
    <3>2. f \in Fds /\ kept[f] = Closed
      BY <1>3, <3>1, FdsType DEF Free
    <3>3. f # out
      BY <1>6, <3>2
    <3>4. in = Dup2([kept EXCEPT ![f] = File], f, 0) /\ input = File
      BY <2>1 DEF Opened
    <3>5. in \in [Fds -> EndSet]
      BY <1>3, <2>1, <3>1, FdsType
    <3> HIDE DEF f, kept, out, in, input
    <3> DEFINE g == [kept EXCEPT ![f] = File]
    <3>6. /\ DOMAIN g = Fds /\ g[f] = File /\ \A n \in Fds : n # f => g[n] = kept[n]
      BY <1>3, <3>2
    <3> HIDE DEF g
    <3>7. in = [g EXCEPT ![0] = File]
      BY <3>4, <3>6, EndsDiffer DEF g, Dup2
    <3>8. input = File
      BY <3>4
    <3>9. /\ in[0] = File
          /\ \A n \in Fds : n # 0 => in[n] = g[n]
      BY <1>2, <3>6, <3>7
    <3>10. \A n \in Fds : in[n] \in {kept[n], input}
      BY <3>6, <3>8, <3>9
    <3>11. out # 0
      BY <1>6 DEF PrinterFd
    <3> QED  BY <1>6, <3>3, <3>5, <3>6, <3>8, <3>9, <3>10, <3>11
  <2>2. CASE i # First
    <3>1. p.fds[p.prevFd] = Read(Master, i - 1)
      BY <1>1, <2>2 DEF ForkFds
    <3>2. i # LastStage => p.prevFd # p.fd[1]
      <4>1. i # LastStage => p.fds[p.fd[1]] = Read(Master, i)
        BY <1>1 DEF ForkFds
      <4> QED  BY <1>1, <3>1, <4>1, EndsDiffer
    <3>3. kept[p.prevFd] = input
      BY <1>2, <1>4, <2>2, <3>1, <3>2
    <3>4. input # Closed
      BY <2>2, EndsDiffer
    <3>5. in = Dup2(kept, p.prevFd, 0)
      BY <2>2
    <3> HIDE DEF kept, out, in, input
    <3>6. in = [kept EXCEPT ![0] = input]
      BY <3>3, <3>4, <3>5 DEF Dup2
    <3>7. in \in [Fds -> EndSet]
      BY <1>2, <1>3, <3>5, FdsType
    <3> QED  BY <1>2, <1>3, <1>6, <3>6, <3>7 DEF PrinterFd
  <2> QED  BY <2>1, <2>2
<1>8. Redirected(p) = Dup2(in, out, 1)
  BY DEF Redirected
<1>9. /\ i = First => input = File
      /\ i > First => input = Read(Master, i - 1)
      /\ i = LastStage => output = Printer
      /\ i < LastStage => output = Write(Master, i)
  BY <1>1
<1>9a. (i = First \/ i > First) /\ (i = LastStage \/ i < LastStage)
  BY <1>1
<1> HIDE DEF kept, out, in, input, output, i
<1>10. r.fds = [in EXCEPT ![1] = output]
  BY <1>6, <1>7, <1>8 DEF Dup2
<1>11. /\ r.fds[0] = input /\ r.fds[1] = output
       /\ \A n \in Fds : r.fds[n] \in {kept[n], input, output}
  BY <1>2, <1>7, <1>10
<1>12. /\ r.fds[0] = IF i = First THEN File ELSE Read(Master, i - 1)
       /\ r.fds[1] = IF i = LastStage THEN Printer ELSE Write(Master, i)
  BY <1>9, <1>9a, <1>11
<1>13. ASSUME NEW n \in Fds
       PROVE  \/ r.fds[n] \in {Closed, Terminal, Printer, File}
              \/ i > First /\ r.fds[n] = Read(Master, i - 1)
              \/ i < LastStage /\ r.fds[n] = Write(Master, i)
  BY <1>5, <1>9, <1>9a, <1>11
<1> QED  BY <1>12, <1>13 DEF RunFds, i

-----------------------------------------------------------------------------
(* The steps *)

\* A process keeps its type.
LEMMA TypesNext ==
  ASSUME Types, proc' \in [Names -> Process], UNCHANGEDJob
  PROVE  Types'
<1>1. Names' = Names /\ Process' = Process
  BY Fixed DEF UNCHANGEDJob
<1> QED  BY <1>1 DEF Types, UNCHANGEDJob

\* A process that has ended.
LEMMA DeadStep ==
  ASSUME IInv, NEW q \in Names, NEW exit \in {"none", "success", "failure", "killed"},
         Exits(q, exit), Kind(q) \notin {"none", "reaped"},
         q = Master =>
           /\ Gone(Master) = Kids(Master)
           /\ exit = "failure" <=> \E c \in Kids(Master) : proc[c].exit = "killed"
  PROVE  IInv'
<1>1. Types /\ Tree /\ Counts /\ Told /\ Descriptors
  BY DEF IInv
<1>2. Only(q, Dead(exit)) /\ UNCHANGEDJob
  BY <1>1, ExitsEffect DEF Exits, Ends
<1>3. /\ Dead(exit) \in Process /\ Dead(exit).kind = "dead" /\ Dead(exit).exit = exit
      /\ ~Dead(exit).handling /\ \A n \in Fds : Dead(exit).fds[n] = Closed
  BY <1>1, Basics, DeadRecord
<1> DEFINE r == Dead(exit)
<1> HIDE DEF r
<1>4. Only(q, r) /\ r \in Process /\ r.kind = "dead" /\ r.exit = exit
      /\ ~r.handling /\ \A n \in Fds : r.fds[n] = Closed
  BY <1>2, <1>3 DEF r
<1>5. proc'[q] = r /\ Kind(q)' = "dead"
  BY <1>4 DEF Only, Kind
<1>6. Types'
  BY <1>1, <1>2, <1>4, TypesNext DEF Only
<1>7. TreeAt(q)'
  BY <1>4, <1>5 DEF TreeAt, Masters
<1>8. Tree'
  BY <1>1, <1>4, <1>7, TreeOnly
<1>9. Counts'
  BY <1>1, <1>4, CountsOnly DEF Masters
<1>10. Told'
  <2>1. CASE q = Master
    <3>1. \A c \in Kids(Master) : c \in Names /\ c # Master
      BY DEF Kids
    <3>2. \A c \in Kids(Master) : Alike(proc'[c], proc[c])
      BY <1>4, <2>1, <3>1 DEF Only
    <3>3. Kids(Master)' = Kids(Master)
      BY <1>4, Fixed DEF Only
    <3>4. Gone(Master)' = Gone(Master)
      BY <3>2, <3>3 DEF Gone, Alike, Kind
    <3>5. \A c \in Kids(Master) : proc'[c].exit = proc[c].exit
      BY <3>2 DEF Alike
    <3> QED  BY <1>4, <1>5, <2>1, <3>3, <3>4, <3>5 DEF Told, Masters
  <2>2. CASE q # Master
    BY <1>1, <1>4, <2>2, ToldOnly
  <2> QED  BY <2>1, <2>2
<1>11. Descriptors'
  BY <1>1, <1>4, DescriptorsKept
<1> QED  BY <1>6, <1>8, <1>9, <1>10, <1>11 DEF IInv

\* The first master knows what it knew, or that all are gone.
LEMMA ToldMaster ==
  ASSUME Types, Told, NEW r \in Process, Only(Master, r), Kind(Master) \in Masters,
         r.kind \in Masters, r.reapedChild = proc[Master].reapedChild,
         r.errorChild <=> proc[Master].errorChild,
         r.doneReapingAll =>
           proc[Master].doneReapingAll \/ proc[Master].reapedChild = 0
  PROVE  Told'
<1>1. /\ Kids(Master)' = Kids(Master) /\ conversionLength' = conversionLength
      /\ proc'[Master] = r /\ Kind(Master)' = r.kind
  BY Fixed DEF Only, Kind
<1>2. \A c \in Kids(Master) : c \in Names /\ c # Master
  BY DEF Kids
<1>3. \A c \in Kids(Master) : Alike(proc'[c], proc[c])
  BY <1>2 DEF Only
<1>4. Gone(Master)' = Gone(Master) /\ Gone(Master) \subseteq Kids(Master)
  BY <1>1, <1>3 DEF Gone, Alike, Kind
<1>5. \A c \in Kids(Master) : proc'[c].exit = proc[c].exit
  BY <1>3 DEF Alike
<1>6. ASSUME proc[Master].reapedChild = 0  PROVE Gone(Master) = Kids(Master)
  <2>1. Cardinality(Gone(Master)) = conversionLength
    <3>1. 0 = conversionLength - Cardinality(Gone(Master))
      BY <1>6 DEF Told
    <3>2. Cardinality(Gone(Master)) \in Nat /\ conversionLength \in Nat
      BY <1>4, KidsBound, Basics
    <3> QED  BY <3>1, <3>2
  <2>2. /\ IsFiniteSet(Kids(Master)) /\ Cardinality(Kids(Master)) <= conversionLength
        /\ Cardinality(Kids(Master)) \in Nat /\ conversionLength \in Nat
    BY KidsBound, Basics
  <2>3. Cardinality(Gone(Master)) <= Cardinality(Kids(Master))
    BY <1>4, <2>2, FS_Subset
  <2>4. Cardinality(Gone(Master)) = Cardinality(Kids(Master))
    BY <2>1, <2>2, <2>3
  <2> QED  BY <1>4, <2>2, <2>4, FS_Subset
<1>7. r.doneReapingAll => Gone(Master) = Kids(Master)
  BY <1>6 DEF Told
<1>8. /\ proc[Master].reapedChild = conversionLength - Cardinality(Gone(Master))
      /\ proc[Master].errorChild <=> \E c \in Gone(Master) : proc[c].exit = "killed"
  BY DEF Told
<1>9. r.errorChild <=> \E c \in Gone(Master)' : proc'[c].exit = "killed"
  BY <1>4, <1>5, <1>8
<1>10. Kind(Master)' # "dead"
  BY <1>1 DEF Masters
<1> QED  BY <1>1, <1>4, <1>7, <1>8, <1>9, <1>10 DEF Told

\* A master that goes on.
LEMMA MasterStep ==
  ASSUME IInv, NEW q \in Names, NEW r \in Process, Only(q, r), UNCHANGEDJob,
         Kind(q) \in Masters \cup {"exec"}, r.kind \in Masters,
         r.reapedChild = proc[q].reapedChild, r.errorChild <=> proc[q].errorChild,
         r.doneReapingAll => proc[q].doneReapingAll \/ proc[q].reapedChild = 0,
         ToFork(r) <= ToFork(proc[q]), TreeAt(q)', Descriptors'
  PROVE  IInv'
<1>1. Types /\ Tree /\ Counts /\ Told /\ Descriptors
  BY DEF IInv
<1>2. Types'
  BY <1>1, TypesNext DEF Only
<1>3. Tree'
  BY <1>1, TreeOnly DEF Masters
<1>4. Counts'
  BY <1>1, CountsOnly DEF Masters
<1>5. Told'
  <2>1. CASE q = Master
    <3>1. Kind(Master) \in Masters
      BY <1>1, <2>1 DEF Tree, Masters
    <3> QED  BY <1>1, <2>1, <3>1, ToldMaster
  <2>2. CASE q # Master
    BY <1>1, <2>2, ToldOnly DEF Masters
  <2> QED  BY <2>1, <2>2
<1> QED  BY <1>2, <1>3, <1>4, <1>5 DEF IInv

\* The read end that a master keeps is that of the pipe to its next stage.
LEMMA CloseEndsStep ==
  ASSUME IInv, NEW q \in Names, CloseEnds(q)
  PROVE  IInv'
<1>1. Types /\ TreeAt(q) /\ FdsAt(q) /\ Descriptors /\ UNCHANGEDJob
  BY DEF IInv, Tree, Descriptors, CloseEnds
<1>2. PICK r \in Process :
        /\ Only(q, r) /\ Kind(q) = "close" /\ ~proc[q].handling
        /\ r.kind = "loop" /\ Knows(r, proc[q]) /\ ~r.handling
        /\ r.i = proc[q].i + 1 /\ r.fds = ParentCloses(proc[q])
        /\ r.prevFd = IF proc[q].i \in {First, LastStage} THEN proc[q].prevFd
                      ELSE proc[q].fd[1]
  BY <1>1, CloseEndsEffect DEF TreeAt
<1>3. /\ proc'[q] = r /\ Kind(q)' = "loop" /\ LastStage' = LastStage
      /\ Kids(q)' = Kids(q) /\ Kids(Master)' = Kids(Master)
  BY <1>2, Fixed DEF Only, Kind
<1>4. /\ proc[q].i \in Nat /\ proc[q].i <= LastStage /\ conversionLength \in Nat
      /\ proc[q] \in Process
  BY <1>1, <1>2, Basics DEF TreeAt, Process
<1>5. ToFork(r) <= ToFork(proc[q])
  BY <1>2, <1>4 DEF ToFork, Kind
<1>6. \A c \in Kids(q) : c # q /\ Kind(c)' = Kind(c) /\ Stage(c) \in Nat
  <2>1. \A c \in Kids(q) : c \in Names \ {q} /\ Stage(c) \in Nat
    BY <1>1, Basics, NameParts DEF Kids
  <2> QED  BY <1>2, <2>1 DEF Only, Alike, Kind
<1>7. TreeAt(q)'
  <2>1. \A c \in Kids(q) : Stage(c) >= r.i => Kind(c) = "none"
    BY <1>1, <1>2, <1>4, <1>6 DEF TreeAt
  <2>2. r.exit = "none"
    BY <1>1, <1>2 DEF TreeAt, Knows
  <2> QED  BY <1>2, <1>3, <1>6, <2>1, <2>2 DEF TreeAt, Masters
<1>8. Descriptors'
  <2>1. CASE q = Master
    <3>1. LoopFds(r)
      BY <1>1, <1>2, <1>4, <2>1, CloseFds DEF FdsAt
    <3>2. LoopFds(proc[q])'
      BY <1>3, <3>1 DEF LoopFds
    <3>3. FdsAt(q)'
      BY <1>3, <2>1, <3>2 DEF FdsAt, Kids
    <3> QED  BY <1>1, <1>2, <3>3, DescriptorsOnly
  <2>2. CASE q # Master
    BY <1>1, <1>2, <2>2, DescriptorsKept DEF Masters
  <2> QED  BY <2>1, <2>2
<1> QED  BY <1>1, <1>2, <1>5, <1>7, <1>8, MasterStep DEF Masters, Knows

\* After the last stage the first master has only its terminal.
LEMMA LoopEndsStep ==
  ASSUME IInv, NEW q \in Names, LoopEnds(q)
  PROVE  IInv'
<1>1. Types /\ TreeAt(q) /\ FdsAt(q) /\ Descriptors /\ UNCHANGEDJob
  BY DEF IInv, Tree, Descriptors, LoopEnds
<1>2. PICK r \in Process :
        /\ Only(q, r) /\ Kind(q) = "loop" /\ ~proc[q].handling /\ proc[q].i > LastStage
        /\ r.kind = "test" /\ Knows(r, proc[q]) /\ ~r.handling
        /\ r.fds = Close(proc[q].fds, PrinterFd)
  BY <1>1, LoopEndsEffect
<1>3. proc'[q] = r /\ Kind(q)' = "test"
  BY <1>2 DEF Only, Kind
<1>4. /\ proc[q].i \in Nat /\ proc[q].i <= conversionLength /\ conversionLength \in Nat
      /\ proc[q] \in Process /\ LastStage \in Nat /\ LastStage = conversionLength - 1
  BY <1>1, Basics DEF Process, LastStage
<1>5. ToFork(r) <= ToFork(proc[q])
  BY <1>2, <1>4 DEF ToFork, Kind
<1>6. TreeAt(q)'
  <2>1. r.exit = "none"
    BY <1>1, <1>2 DEF TreeAt, Knows
  <2> QED  BY <1>2, <1>3, <2>1 DEF TreeAt, Masters
<1>7. Descriptors'
  <2>1. CASE q = Master
    <3>1. LoopFds(proc[q]) /\ proc[q].fds \in [Fds -> EndSet]
      BY <1>1, <1>2, <1>4, <2>1 DEF FdsAt, Process
    <3>2. ASSUME NEW n \in Fds  PROVE proc[q].fds[n] \in {Closed, Terminal}
      <4>1. n \in Standard \/ n = PrinterFd \/ n > PrinterFd
        BY DEF Fds, Standard, PrinterFd
      <4> QED  BY <1>2, <1>4, <3>1, <4>1 DEF LoopFds
    <3>3. \A n \in Fds : r.fds[n] \in {Closed, Terminal}
      BY <1>2, <3>1, <3>2 DEF Close
    <3>4. FdsAt(q)'
      BY <1>3, <2>1, <3>3 DEF FdsAt, Kids
    <3> QED  BY <1>1, <1>2, <3>4, DescriptorsOnly
  <2>2. CASE q # Master
    BY <1>1, <1>2, <2>2, DescriptorsKept DEF Masters
  <2> QED  BY <2>1, <2>2
<1> QED  BY <1>1, <1>2, <1>5, <1>6, <1>7, MasterStep DEF Masters, Knows

\* Suspending itself changes nothing of what a master has and knows.
LEMMA TestDoneStep ==
  ASSUME IInv, NEW q \in Names, TestDone(q)
  PROVE  IInv'
<1>1. Types /\ TreeAt(q) /\ Descriptors /\ UNCHANGEDJob
  BY DEF IInv, Tree, TestDone
<1>2. PICK r \in Process :
        /\ Only(q, r) /\ Kind(q) = "test" /\ ~proc[q].handling
        /\ r.kind = "suspend" /\ Knows(r, proc[q]) /\ ~r.handling
        /\ r.fds = proc[q].fds
  BY <1>1, TestDoneEffect
<1>3. proc'[q] = r /\ Kind(q)' = "suspend"
  BY <1>2 DEF Only, Kind
<1>4. ToFork(r) <= ToFork(proc[q])
  BY <1>2 DEF ToFork, Kind
<1>5. TreeAt(q)'
  <2>1. r.exit = "none"
    BY <1>1, <1>2 DEF TreeAt, Knows
  <2> QED  BY <1>2, <1>3, <2>1 DEF TreeAt, Masters
<1>6. Descriptors'
  BY <1>1, <1>2, DescriptorsKept
<1> QED  BY <1>1, <1>2, <1>4, <1>5, <1>6, MasterStep DEF Masters, Knows

\* Nor does a signal.
LEMMA HandlerStartStep ==
  ASSUME IInv, NEW q \in Names, HandlerStart(q)
  PROVE  IInv'
<1>1. Types /\ TreeAt(q) /\ Descriptors /\ UNCHANGEDJob
  BY DEF IInv, Tree, HandlerStart
<1>2. PICK r \in Process :
        /\ Only(q, r) /\ Kind(q) \in Masters
        /\ r.kind = Kind(q) /\ Knows(r, proc[q]) /\ r.handling
        /\ r.i = proc[q].i /\ r.fds = proc[q].fds /\ r.prevFd = proc[q].prevFd
        /\ r.fd = proc[q].fd
  BY <1>1, HandlerStartEffect
<1>3. proc'[q] = r /\ Kind(q)' = Kind(q) /\ LastStage' = LastStage /\ Kids(q)' = Kids(q)
  BY <1>2, Fixed DEF Only, Kind
<1>4. ToFork(r) <= ToFork(proc[q])
  <2>1. ToFork(r) = ToFork(proc[q]) /\ ToFork(proc[q]) \in Int
    BY <1>1, <1>2, Basics DEF ToFork, Kind, Process
  <2> QED  BY <2>1
<1>5. \A c \in Kids(q) : Kind(c)' = Kind(c)
  <2>1. \A c \in Kids(q) : c \in Names \ {q}
    BY <1>1, Basics, NameParts DEF Kids
  <2> QED  BY <1>2, <2>1 DEF Only, Alike, Kind
<1>6. TreeAt(q)'
  BY <1>1, <1>2, <1>3, <1>5 DEF TreeAt, Masters, Knows
<1>7. Descriptors'
  BY <1>1, <1>2, DescriptorsKept
<1> QED  BY <1>1, <1>2, <1>4, <1>6, <1>7, MasterStep DEF Masters, Knows

\* doneReapingAll is set only when the first master has reaped every child.
LEMMA HandlerEndStep ==
  ASSUME IInv, NEW q \in Names, HandlerEnd(q)
  PROVE  IInv'
<1>1. Types /\ TreeAt(q) /\ Descriptors /\ UNCHANGEDJob
  BY DEF IInv, Tree, HandlerEnd
<1>2. PICK r \in Process :
        /\ Only(q, r) /\ proc[q].handling /\ ~r.handling
        /\ r.kind = IF Kind(q) = "suspend" THEN "test" ELSE Kind(q)
        /\ r.exit = proc[q].exit /\ r.reapedChild = proc[q].reapedChild
        /\ r.doneReapingAll <=> (proc[q].doneReapingAll \/ proc[q].reapedChild = 0)
        /\ r.errorChild <=> proc[q].errorChild
        /\ r.i = proc[q].i /\ r.fds = proc[q].fds /\ r.prevFd = proc[q].prevFd
        /\ r.fd = proc[q].fd
  BY <1>1, HandlerEndEffect
<1>3. proc'[q] = r /\ Kind(q)' = r.kind /\ LastStage' = LastStage /\ Kids(q)' = Kids(q)
  BY <1>2, Fixed DEF Only, Kind
<1>4. Kind(q) \in Masters /\ r.kind \in Masters
  BY <1>1, <1>2 DEF TreeAt, Masters
<1>5. ToFork(r) <= ToFork(proc[q])
  <2>1. ToFork(r) = ToFork(proc[q]) /\ ToFork(proc[q]) \in Int
    BY <1>1, <1>2, Basics DEF ToFork, Kind, Process
  <2> QED  BY <2>1
<1>6. \A c \in Kids(q) : Kind(c)' = Kind(c)
  <2>1. \A c \in Kids(q) : c \in Names \ {q}
    BY <1>1, Basics, NameParts DEF Kids
  <2> QED  BY <1>2, <2>1 DEF Only, Alike, Kind
<1>7. TreeAt(q)'
  BY <1>1, <1>2, <1>3, <1>4, <1>6 DEF TreeAt, Masters
<1>8. Descriptors'
  BY <1>1, <1>2, DescriptorsKept
<1> QED  BY <1>1, <1>2, <1>4, <1>5, <1>7, <1>8, MasterStep

\* So a master that exits knows of all its children.
LEMMA MasterExitsStep ==
  ASSUME IInv, NEW q \in Names, MasterExits(q)
  PROVE  IInv'
<1> DEFINE exit == IF proc[q].errorChild THEN "failure" ELSE "success"
<1>1. Kind(q) = "test" /\ proc[q].doneReapingAll /\ Exits(q, exit)
  BY DEF MasterExits, At
<1>2. q = Master =>
        /\ Gone(Master) = Kids(Master)
        /\ exit = "failure" <=> \E c \in Kids(Master) : proc[c].exit = "killed"
  BY <1>1 DEF IInv, Told, Masters
<1> QED  BY <1>1, <1>2, DeadStep

\* The first master never exits for want of a pipe.
LEMMA PipeFailsStep ==
  ASSUME IInv, NEW q \in Names, PipeFails(q)
  PROVE  IInv'
<1>1. Kind(q) = "loop" /\ NoPipe(proc[q]) /\ Exits(q, "failure")
  BY DEF PipeFails, At
<1>2. q # Master
  <2>1. proc[Master] \in Process
    BY Basics DEF IInv
  <2>2. q = Master => LoopFds(proc[Master])
    BY <1>1 DEF IInv, Descriptors, FdsAt
  <2> QED  BY <1>1, <2>1, <2>2, Room DEF IInv
<1> QED  BY <1>1, <1>2, DeadStep

\* A child of the first stage has room for the file of the job.
LEMMA RoomForFile ==
  ASSUME IInv, NEW c \in Names, Kind(c) = "exec", proc[c].i = First
  PROVE  Free(proc[c].fds) # {}
<1>1. c # Master /\ Stage(c) = First
  BY Basics DEF IInv, Tree, TreeAt, Masters
<1>2. c \in Kids(Master) /\ proc[c] \in Process
  BY <1>1, FirstChild, Basics DEF IInv, Kids
<1>3. ForkFds(proc[c])
  BY <1>2 DEF IInv, Descriptors, FdsAt
<1> QED  BY <1>2, <1>3, ChildRoom DEF IInv

\* A program has the ends of its two pipes.
LEMMA ExecStep ==
  ASSUME IInv, NEW c \in Names, Exec(c)
  PROVE  IInv'
<1>1. Types /\ Tree /\ TreeAt(c) /\ Counts /\ Told /\ FdsAt(c) /\ Descriptors /\ UNCHANGEDJob
  BY DEF IInv, Tree, Descriptors, Exec
<1>2. PICK r \in Process :
        /\ Only(c, r) /\ Kind(c) = "exec"
        /\ r.kind = "run" /\ Knows(r, proc[c]) /\ (r.handling <=> proc[c].handling)
        /\ r.fds = Redirected(proc[c])
  BY <1>1, RoomForFile, ExecEffect DEF Exec
<1>3. /\ proc'[c] = r /\ Kind(c)' = "run" /\ LastStage' = LastStage
      /\ Kids(c)' = Kids(c) /\ Kids(Master)' = Kids(Master)
  BY <1>2, Fixed DEF Only, Kind
<1>4. c # Master
  BY <1>1, <1>2 DEF Tree, Masters
<1>5. Types'
  BY <1>1, <1>2, TypesNext DEF Only
<1>6. \A d \in Kids(c) : Kind(d)' = Kind(d)
  <2>1. \A d \in Kids(c) : d \in Names \ {c}
    BY <1>1, Basics, NameParts DEF Kids
  <2> QED  BY <1>2, <2>1 DEF Only, Alike, Kind
<1>7. TreeAt(c)'
  BY <1>1, <1>2, <1>3, <1>6 DEF TreeAt, Masters, Knows
<1>8. Tree'
  BY <1>1, <1>2, <1>4, <1>7, TreeOnly
<1>9. Counts'
  BY <1>1, <1>2, CountsOnly DEF Masters
<1>10. Told'
  BY <1>1, <1>2, <1>4, ToldOnly
<1>11. Descriptors'
  <2>1. ASSUME c \in Kids(Master)  PROVE RunFds(proc[c], Stage(c))'
    <3>1. ForkFds(proc[c]) /\ proc[c].i <= LastStage /\ proc[c].i = Stage(c)
      BY <1>1, <1>2, <2>1 DEF FdsAt, TreeAt
    <3>2. proc[c] \in Process
      BY <1>1, Basics
    <3>3. RunFds(r, Stage(c))
      BY <1>1, <1>2, <3>1, <3>2, RedirectedFds
    <3> QED  BY <1>3, <3>3 DEF RunFds
  <2>2. FdsAt(c)'
    BY <1>3, <1>4, <2>1 DEF FdsAt
  <2> QED  BY <1>1, <1>2, <2>2, DescriptorsOnly
<1> QED  BY <1>5, <1>8, <1>9, <1>10, <1>11 DEF IInv

\* A second master starts without children and with the stages left to it.
LEMMA ExecFailsStep ==
  ASSUME IInv, NEW c \in Names, ExecFails(c)
  PROVE  IInv'
<1>1. Types /\ Tree /\ TreeAt(c) /\ Descriptors /\ UNCHANGEDJob
  BY DEF IInv, Tree, ExecFails
<1>2. PICK r \in Process :
        /\ Only(c, r) /\ Kind(c) = "exec"
        /\ r.kind = "loop" /\ Knows(r, proc[c]) /\ (r.handling <=> proc[c].handling)
        /\ r.i = proc[c].i + 1
  BY <1>1, RoomForFile, ExecFailsEffect DEF ExecFails, TreeAt
<1>3. /\ proc'[c] = r /\ Kind(c)' = "loop" /\ Kids(c)' = Kids(c)
  BY <1>2, Fixed DEF Only, Kind
<1>4. c # Master
  BY <1>1, <1>2 DEF Tree, Masters
<1>5. ToFork(r) <= ToFork(proc[c])
  <2>1. proc[c].i \in Nat /\ conversionLength \in Nat
    BY <1>1, Basics DEF Process
  <2> QED  BY <1>2, <2>1 DEF ToFork, Kind
<1>6. \A d \in Kids(c) : Kind(d)' = Kind(d)
  <2>1. \A d \in Kids(c) : d \in Names \ {c}
    BY <1>1, Basics, NameParts DEF Kids
  <2> QED  BY <1>2, <2>1 DEF Only, Alike, Kind
<1>7. TreeAt(c)'
  BY <1>1, <1>2, <1>3, <1>6 DEF TreeAt, Masters, Knows
<1>8. Descriptors'
  BY <1>1, <1>2, <1>4, DescriptorsKept DEF Masters
<1> QED  BY <1>1, <1>2, <1>5, <1>7, <1>8, MasterStep DEF Masters, Knows

\* A child that ends was forked by another process.
LEMMA ChildEndsStep ==
  ASSUME IInv, NEW c \in Names, NoFile(c) \/ ProgramEnds(c)
  PROVE  IInv'
<1>1. c # Master /\ Kind(c) \in {"exec", "run"}
  BY DEF IInv, Tree, Masters, NoFile, ProgramEnds
<1>2. PICK exit \in {"none", "success", "failure", "killed"} : Ends(c, exit)
  BY DEF NoFile, ProgramEnds
<1>3. Exits(c, exit)
  BY <1>1, <1>2 DEF Exits
<1> QED  BY <1>1, <1>3, DeadStep

\* The handler counts a child that is dead, for which q still waits.
LEMMA ReapStep ==
  ASSUME IInv, NEW q \in Names, Reap(q)
  PROVE  IInv'
<1>1. Types /\ Tree /\ TreeAt(q) /\ Counts /\ Told /\ Descriptors /\ UNCHANGEDJob
  BY DEF IInv, Tree, Reap
<1>2. /\ proc[q] \in Process /\ proc[q].i \in Nat /\ proc[q].i <= conversionLength
      /\ conversionLength \in Nat
  BY <1>1, Basics DEF Process
<1>3. Kind(q) \in Masters
  BY <1>1 DEF TreeAt, Reap
<1>4. ToFork(proc[q]) \in Nat
  <2>1. Kind(q) = "close" => proc[q].i <= LastStage
    BY <1>1 DEF TreeAt
  <2> QED  BY <1>2, <2>1 DEF ToFork, Kind, LastStage
<1>5. /\ IsFiniteSet(Alive(q)) /\ Cardinality(Alive(q)) \in Nat
      /\ proc[q].reapedChild >= ToFork(proc[q]) + Cardinality(Alive(q))
      /\ proc[q].reapedChild \in Nat
  BY <1>1, <1>2, <1>3, KidsBound DEF Alive, Counts, Process
<1>6. ASSUME NEW c \in Alive(q)  PROVE proc[q].reapedChild >= 1
  <2>1. Cardinality(Alive(q)) # 0
    BY <1>5, <1>6, FS_EmptySet
  <2> QED  BY <1>4, <1>5, <2>1
<1>7. DeadChildren(q) \subseteq Alive(q)
  BY DEF DeadChildren, Alive, Kids
<1>8. PICK c \in Kids(q) :
        /\ Kind(c) = "dead" /\ proc[q].handling /\ proc[q].reapedChild >= 1
        /\ proc' \in [Names -> Process] /\ UNCHANGED conversionLength
        /\ LET r == proc'[q]
               p == proc[q]
           IN  /\ r.kind = p.kind /\ r.exit = p.exit
               /\ r.i = p.i /\ r.fds = p.fds /\ r.prevFd = p.prevFd /\ r.fd = p.fd
               /\ r.handling <=> p.handling
               /\ r.doneReapingAll <=> p.doneReapingAll
               /\ r.reapedChild = p.reapedChild - 1
               /\ r.errorChild <=> p.errorChild \/ proc[c].exit = "killed"
        /\ proc'[c].kind = "reaped" /\ proc'[c].exit = proc[c].exit
        /\ proc'[c].fds = proc[c].fds /\ (proc'[c].handling <=> proc[c].handling)
        /\ \A d \in Names \ {q, c} : proc'[d] = proc[d]
  BY <1>1, <1>6, <1>7, ReapEffect
<1>9. /\ c \in Names /\ c # Master /\ c # q /\ Parent(c) = q /\ Master \in Names
      /\ \A d : Kids(d)' = Kids(d) /\ Kids(d) \subseteq Names
      /\ Names' = Names /\ LastStage' = LastStage /\ conversionLength' = conversionLength
  BY <1>1, <1>8, Basics, NameParts, Fixed DEF Kids
<1>10. /\ \A d \in Names : d # c => Kind(d)' = Kind(d) /\ proc'[d].exit = proc[d].exit
       /\ Kind(c)' = "reaped"
  BY <1>8, <1>9 DEF Kind
<1>11. \A d \in Names : d # q => c \notin Kids(d)
  BY <1>9 DEF Kids
<1>12. Types'
  BY <1>1, <1>8, TypesNext
<1>13. Tree'
  <2>1. ASSUME NEW d \in Names  PROVE TreeAt(d)'
    <3>1. TreeAt(d) /\ TreeAt(c)
      BY <1>1, <1>9 DEF Tree
    <3>2. \A e \in Kids(d) : Kind(e) = "none" => Kind(e)' = "none"
      BY <1>8, <1>9, <1>10
    <3>3. CASE d = q
      BY <1>8, <1>9, <1>10, <3>1, <3>2, <3>3 DEF TreeAt, Kind
    <3>4. CASE d = c
      <4>1. ~proc[c].handling /\ \A n \in Fds : proc[c].fds[n] = Closed
        BY <1>8, <3>1 DEF TreeAt, Masters
      <4> QED  BY <1>8, <1>10, <3>4, <4>1 DEF TreeAt
    <3>5. CASE d \notin {q, c}
      <4>1. proc'[d] = proc[d] /\ Kind(d)' = Kind(d)
        BY <1>8, <1>10, <3>5
      <4> QED  BY <1>9, <3>1, <3>2, <4>1 DEF TreeAt
    <3> QED  BY <3>3, <3>4, <3>5
  <2>2. Kind(Master)' = Kind(Master)
    BY <1>9, <1>10
  <2> QED  BY <1>1, <1>9, <2>1, <2>2 DEF Tree
<1>14. Counts'
  <2>1. Alive(q)' = Alive(q) \ {c} /\ c \in Alive(q)
    BY <1>8, <1>9, <1>10 DEF Alive
  <2>2. Cardinality(Alive(q)') = Cardinality(Alive(q)) - 1
    BY <1>5, <2>1, FS_RemoveElement
  <2>3. ASSUME NEW d \in Names, Kind(d)' \in Masters \cup {"exec"}
        PROVE  proc'[d].reapedChild >= ToFork(proc[d])' + Cardinality(Alive(d)')
    <3>1. CASE d = q
      <4>1. ToFork(proc[q])' = ToFork(proc[q])
        BY <1>8, <1>9 DEF ToFork
      <4> QED  BY <1>4, <1>5, <1>8, <2>2, <3>1, <4>1
    <3>2. CASE d # q
      <4>1. d # c
        BY <1>10, <2>3 DEF Masters
      <4>2. proc'[d] = proc[d] /\ Kind(d) \in Masters \cup {"exec"}
        BY <1>8, <1>10, <2>3, <3>2, <4>1
      <4>3. Alive(d)' = Alive(d)
        BY <1>9, <1>10, <1>11, <3>2 DEF Alive
      <4>4. ToFork(proc[d])' = ToFork(proc[d])
        BY <1>9, <4>2 DEF ToFork
      <4> QED  BY <1>1, <4>2, <4>3, <4>4 DEF Counts
    <3> QED  BY <3>1, <3>2
  <2> QED  BY <1>9, <2>3 DEF Counts
<1>15. Told'
  <2>1. CASE q = Master
    <3>1. Gone(Master)' = Gone(Master) \cup {c} /\ c \notin Gone(Master)
      BY <1>8, <1>9, <1>10, <2>1 DEF Gone
    <3>2. IsFiniteSet(Gone(Master)) /\ Cardinality(Gone(Master)) \in Nat
      BY <1>1, <1>9, KidsBound DEF Gone
    <3>3. Cardinality(Gone(Master)') = Cardinality(Gone(Master)) + 1
      BY <3>1, <3>2, FS_AddElement
    <3>4. /\ proc[Master].reapedChild = conversionLength - Cardinality(Gone(Master))
          /\ proc[Master].errorChild <=> \E d \in Gone(Master) : proc[d].exit = "killed"
          /\ ~proc[Master].doneReapingAll
      BY <1>1, <1>3, <1>8, <2>1, <3>1 DEF Told
    <3>5. proc'[Master].reapedChild = conversionLength - Cardinality(Gone(Master)')
      BY <1>2, <1>8, <2>1, <3>2, <3>3, <3>4
    <3>6. \A d \in Gone(Master) : d \in Names /\ d # c
      BY <1>9, <3>1 DEF Gone
    <3>7. proc'[Master].errorChild <=> \E d \in Gone(Master)' : proc'[d].exit = "killed"
      BY <1>8, <1>10, <2>1, <3>1, <3>4, <3>6
    <3>8. ~proc'[Master].doneReapingAll /\ Kind(Master)' # "dead"
      BY <1>3, <1>8, <1>9, <1>10, <2>1, <3>4 DEF Masters
    <3> QED  BY <1>9, <3>5, <3>7, <3>8 DEF Told
  <2>2. CASE q # Master
    <3>1. c \notin Kids(Master) /\ proc'[Master] = proc[Master] /\ Kind(Master)' = Kind(Master)
      BY <1>8, <1>9, <1>10, <1>11, <2>2
    <3>2. \A d \in Kids(Master) : Kind(d)' = Kind(d) /\ proc'[d].exit = proc[d].exit
      BY <1>9, <1>10, <3>1
    <3>3. Gone(Master)' = Gone(Master) /\ Gone(Master) \subseteq Kids(Master)
      BY <1>9, <3>2 DEF Gone
    <3>4. CASE Kind(Master) \in Masters
      BY <1>1, <1>9, <3>1, <3>2, <3>3, <3>4 DEF Told, Masters
    <3>5. CASE Kind(Master) = "dead"
      BY <1>1, <1>9, <3>1, <3>2, <3>3, <3>5 DEF Told, Masters
    <3> QED  BY <3>1, <3>4, <3>5 DEF Told
  <2> QED  BY <2>1, <2>2
<1>16. Descriptors'
  <2>1. ASSUME NEW d \in Names  PROVE FdsAt(d)'
    <3>1. CASE d = c
      BY <1>9, <1>10, <3>1 DEF FdsAt
    <3>2. CASE d # c
      <4>1. /\ proc'[d].fds = proc[d].fds /\ proc'[d].i = proc[d].i
            /\ proc'[d].fd = proc[d].fd /\ proc'[d].prevFd = proc[d].prevFd
            /\ Kind(d)' = Kind(d)
        BY <1>8, <1>10, <3>2
      <4>2. /\ LoopFds(proc[d])' <=> LoopFds(proc[d])
            /\ ForkFds(proc[d])' <=> ForkFds(proc[d])
            /\ RunFds(proc[d], Stage(d))' <=> RunFds(proc[d], Stage(d))
        BY <4>1, <1>9 DEF LoopFds, ForkFds, RunFds
      <4>3. FdsAt(d)
        BY <1>1 DEF Descriptors
      <4> QED  BY <1>9, <4>1, <4>2, <4>3 DEF FdsAt
    <3> QED  BY <3>1, <3>2
  <2> QED  BY <1>9, <2>1 DEF Descriptors
<1> QED  BY <1>12, <1>13, <1>14, <1>15, <1>16 DEF IInv

\* A process that is forked was not there before, and is like its parent.
LEMMA ForkStep ==
  ASSUME IInv, NEW q \in Names, Fork(q)
  PROVE  IInv'
<1>0. PICK W, c : W = WithPipe(q, proc[q]) /\ c = Append(q, proc[q].i)
  OBVIOUS
<1>1. Types /\ Tree /\ TreeAt(q) /\ Counts /\ Told /\ Descriptors /\ UNCHANGEDJob
  BY DEF IInv, Tree, Fork
<1>2. /\ At(q, "loop") /\ proc[q].i <= LastStage /\ ~NoPipe(proc[q])
      /\ proc' \in [Names -> Process] /\ UNCHANGED conversionLength
      /\ W \in Process
      /\ proc'[q] = [W EXCEPT !.kind = "close"]
      /\ c \in Names => proc'[c] = [W EXCEPT !.kind = "exec", !.sigchld = FALSE]
      /\ \A d \in Names : d # q /\ d # c => proc'[d] = proc[d]
      /\ c # q /\ c # Master /\ Parent(c) = q /\ Stage(c) = proc[q].i
  BY <1>0, <1>1, ForkEffect
<1>3. /\ proc[q] \in Process /\ proc[q].i \in Nat /\ conversionLength \in Nat
      /\ LastStage = conversionLength - 1 /\ Master \in Names
  BY <1>1, Basics DEF Process, LastStage
<1>4. Knows(W, proc[q]) /\ W.i = proc[q].i /\ (W.handling <=> proc[q].handling)
  BY <1>0, <1>1, <1>2, <1>3, PipeEffect
<1>5. Kind(q) = "loop" /\ ~proc[q].handling /\ proc[q].exit = "none"
  BY <1>1, <1>2 DEF At, TreeAt
<1>6. /\ proc'[q].kind = "close" /\ Knows(proc'[q], proc[q]) /\ ~proc'[q].handling
      /\ proc'[q].i = proc[q].i /\ proc'[q].fds = W.fds
      /\ proc'[q].prevFd = W.prevFd /\ proc'[q].fd = W.fd
  BY <1>2, <1>4, <1>5 DEF Process, Knows
<1>7. ASSUME c \in Names
      PROVE  /\ proc'[c].kind = "exec" /\ Knows(proc'[c], proc[q]) /\ ~proc'[c].handling
             /\ proc'[c].i = proc[q].i /\ proc'[c].fds = W.fds
             /\ proc'[c].prevFd = W.prevFd /\ proc'[c].fd = W.fd
  <2>1. proc'[c] = [W EXCEPT !.kind = "exec", !.sigchld = FALSE]
    BY <1>2, <1>7
  <2>2. W \in Process /\ Knows(W, proc[q]) /\ W.i = proc[q].i /\ ~W.handling
    BY <1>2, <1>4, <1>5
  <2> QED  BY <2>1, <2>2 DEF Process, Knows
<1>8. /\ \A d : Kids(d)' = Kids(d) /\ Kids(d) \subseteq Names
      /\ Names' = Names /\ LastStage' = LastStage /\ conversionLength' = conversionLength
      /\ \A d \in Names : d # q => c \notin Kids(d)
      /\ c \in Names => c \in Kids(q)
  BY <1>2, Fixed DEF Kids
<1>9. c \in Names => Kind(c) = "none"
  BY <1>1, <1>2, <1>3, <1>5, <1>8 DEF TreeAt
<1>10. /\ \A d \in Names : d # q /\ d # c => Kind(d)' = Kind(d) /\ proc'[d].exit = proc[d].exit
       /\ Kind(q)' = "close" /\ (c \in Names => Kind(c)' = "exec")
  BY <1>2, <1>6, <1>7 DEF Kind
<1>11. Types'
  BY <1>1, <1>2, TypesNext
<1>12. \A d \in Names : q \in Kids(d) => Kind(d) \notin {"none", "exec", "run"}
  BY <1>1, <1>5 DEF Tree, TreeAt
<1>13. \A e \in Kids(q) : e # q /\ Stage(e) \in Nat /\ e \in Names
  BY <1>1, Basics, NameParts DEF Kids
<1>14. \A e \in Kids(q) : Stage(e) = proc[q].i => e = c
  <2>1. \A e \in Kids(q) : e = Append(Parent(e), Stage(e)) /\ Parent(e) = q
    BY <1>1, Basics, NameParts DEF Kids
  <2> QED  BY <1>0, <2>1
<1>15. Tree'
  <2>1. ASSUME NEW d \in Names  PROVE TreeAt(d)'
    <3>1. TreeAt(d)
      BY <1>1 DEF Tree
    <3>2. CASE d = q
      <4>1. \A e \in Kids(q) : Stage(e) > proc[q].i => Kind(e) = "none" /\ e # c
        BY <1>1, <1>2, <1>3, <1>5, <1>13 DEF TreeAt
      <4>2. \A e \in Kids(q) : Stage(e) > proc[q].i => Kind(e)' = "none"
        BY <1>10, <1>13, <4>1
      <4> QED  BY <1>2, <1>5, <1>6, <1>8, <1>10, <3>2, <4>2 DEF TreeAt, Knows
    <3>3. CASE d = c
      <4>1. \A e \in Kids(c) : Kind(e) = "none" /\ e # q /\ e # c
        <5>1. \A e \in Kids(c) : Kind(e) = "none" /\ e \in Names
          BY <1>8, <1>9, <3>1, <3>3 DEF TreeAt
        <5>2. \A e \in Kids(c) : e # c
          BY <1>1, Basics, NameParts DEF Kids
        <5> QED  BY <1>5, <5>1, <5>2
      <4>2. \A e \in Kids(c) : Kind(e)' = "none"
        BY <1>8, <1>10, <4>1
      <4> QED  BY <1>2, <1>5, <1>7, <1>8, <1>10, <3>3, <4>2 DEF TreeAt, Knows, Masters
    <3>4. CASE d \notin {q, c}
      <4>1. \A e \in Kids(d) : Kind(e) = "none" => Kind(e)' = "none"
        BY <1>5, <1>8, <1>10, <3>4
      <4>2. proc'[d] = proc[d] /\ Kind(d)' = Kind(d)
        BY <1>2, <1>10, <3>4
      <4> QED  BY <1>8, <3>1, <4>1, <4>2 DEF TreeAt
    <3> QED  BY <3>2, <3>3, <3>4
  <2>2. Kind(Master)' \in Masters \cup {"dead"}
    BY <1>1, <1>2, <1>3, <1>10 DEF Tree, Masters
  <2> QED  BY <1>8, <2>1, <2>2 DEF Tree
<1>16. /\ IsFiniteSet(Alive(q)) /\ Cardinality(Alive(q)) \in Nat
       /\ proc[q].reapedChild \in Nat
       /\ proc[q].reapedChild >= conversionLength - proc[q].i + Cardinality(Alive(q))
  <2>1. proc[q].reapedChild >= ToFork(proc[q]) + Cardinality(Alive(q))
    BY <1>1, <1>5 DEF Counts, Masters
  <2>2. ToFork(proc[q]) = conversionLength - proc[q].i
    BY <1>5 DEF ToFork, Kind
  <2>3. IsFiniteSet(Alive(q)) /\ Cardinality(Alive(q)) \in Nat
    BY <1>1, KidsBound DEF Alive
  <2>4. proc[q].reapedChild \in Nat
    BY <1>3 DEF Process
  <2> QED  BY <2>1, <2>2, <2>3, <2>4
<1>17. Counts'
  <2>1. ASSUME NEW d \in Names, Kind(d)' \in Masters \cup {"exec"}
        PROVE  proc'[d].reapedChild >= ToFork(proc[d])' + Cardinality(Alive(d)')
    <3>1. CASE d = q
      <4>1. ToFork(proc[q])' = conversionLength - proc[q].i - 1
        BY <1>6, <1>8 DEF ToFork
      <4>2. Alive(q)' = Alive(q) \/ Alive(q)' = Alive(q) \cup {c}
        <5>1. CASE c \in Names
          BY <1>8, <1>9, <1>10, <1>13, <5>1 DEF Alive
        <5>2. CASE c \notin Names
          BY <1>8, <1>10, <1>13, <5>2 DEF Alive
        <5> QED  BY <5>1, <5>2
      <4>3. Cardinality(Alive(q)') \in Nat /\ Cardinality(Alive(q)') <= Cardinality(Alive(q)) + 1
        <5>1. c \notin Alive(q) => Cardinality(Alive(q) \cup {c}) = Cardinality(Alive(q)) + 1
          BY <1>16, FS_AddElement
        <5>2. c \in Alive(q) => Alive(q) \cup {c} = Alive(q)
          OBVIOUS
        <5>3. \/ Cardinality(Alive(q)') = Cardinality(Alive(q))
              \/ Cardinality(Alive(q)') = Cardinality(Alive(q)) + 1
          BY <4>2, <5>1, <5>2
        <5> QED  BY <1>16, <5>3
      <4>4. proc'[q].reapedChild = proc[q].reapedChild
        BY <1>6 DEF Knows
      <4> QED  BY <1>3, <1>16, <3>1, <4>1, <4>3, <4>4
    <3>2. CASE d = c
      <4>1. ToFork(proc[c])' = conversionLength - proc[q].i
        BY <1>7, <1>8, <3>2 DEF ToFork
      <4>2. Alive(c)' = {}
        <5>1. TreeAt(c)'
          BY <1>8, <1>15, <3>2 DEF Tree
        <5> QED  BY <1>8, <1>10, <3>2, <5>1 DEF TreeAt, Alive
      <4>3. proc'[c].reapedChild = proc[q].reapedChild
        BY <1>7, <3>2 DEF Knows
      <4> QED  BY <1>3, <1>16, <3>2, <4>1, <4>2, <4>3, FS_EmptySet
    <3>3. CASE d \notin {q, c}
      <4>1. proc'[d] = proc[d] /\ Kind(d) \in Masters \cup {"exec"}
        BY <1>2, <1>10, <2>1, <3>3
      <4>2. Alive(d)' = Alive(d)
        <5>1. \A e \in Kids(d) : e # c /\ e \in Names
          BY <1>8, <3>3
        <5> QED  BY <1>5, <1>8, <1>10, <5>1 DEF Alive
      <4>3. ToFork(proc[d])' = ToFork(proc[d])
        BY <1>8, <4>1 DEF ToFork
      <4> QED  BY <1>1, <4>1, <4>2, <4>3 DEF Counts
    <3> QED  BY <3>1, <3>2, <3>3
  <2> QED  BY <1>8, <2>1 DEF Counts
<1>18. Told'
  <2>1. \A d \in Kids(Master) : d # c => /\ proc'[d].exit = proc[d].exit
                                         /\ Kind(d) = "reaped" <=> Kind(d)' = "reaped"
    <3>1. proc'[q].exit = proc[q].exit
      BY <1>6 DEF Knows
    <3> QED  BY <1>5, <1>8, <1>10, <3>1
  <2>2. Gone(Master)' = Gone(Master)
    <3>1. c \in Kids(Master) => Kind(c) # "reaped" /\ Kind(c)' # "reaped"
      BY <1>8, <1>9, <1>10
    <3> QED  BY <1>8, <2>1, <3>1 DEF Gone
  <2>3. \A d \in Gone(Master) : d # c /\ d \in Kids(Master)
    BY <1>8, <1>9 DEF Gone
  <2>4. Gone(Master) = Kids(Master) => c \notin Kids(Master)
    BY <2>3
  <2>5. CASE Kind(Master) \in Masters
    <3>1. Knows(proc'[Master], proc[Master]) /\ Kind(Master)' # "dead"
      <4>1. CASE q = Master
        BY <1>6, <1>10, <4>1
      <4>2. CASE q # Master
        BY <1>2, <1>3, <1>10, <2>5, <4>2 DEF Masters, Knows
      <4> QED  BY <4>1, <4>2
    <3>2. /\ proc[Master].reapedChild = conversionLength - Cardinality(Gone(Master))
          /\ proc[Master].doneReapingAll => Gone(Master) = Kids(Master)
          /\ proc[Master].errorChild <=> \E d \in Gone(Master) : proc[d].exit = "killed"
      BY <1>1, <2>5 DEF Told
    <3>3. proc'[Master].errorChild <=> \E d \in Gone(Master)' : proc'[d].exit = "killed"
      BY <2>1, <2>2, <2>3, <3>1, <3>2 DEF Knows
    <3>4. /\ proc'[Master].reapedChild = conversionLength - Cardinality(Gone(Master))
          /\ proc'[Master].doneReapingAll => Gone(Master) = Kids(Master)
      BY <3>1, <3>2 DEF Knows
    <3> QED  BY <1>8, <2>2, <3>1, <3>3, <3>4 DEF Told
  <2>6. CASE Kind(Master) = "dead"
    <3>1. proc'[Master] = proc[Master] /\ Kind(Master)' = "dead"
      BY <1>2, <1>3, <1>5, <1>10, <2>6
    <3>2. /\ Gone(Master) = Kids(Master)
          /\ proc[Master].exit = "failure" <=> \E d \in Kids(Master) : proc[d].exit = "killed"
      BY <1>1, <2>6 DEF Told
    <3>3. proc'[Master].exit = "failure" <=> \E d \in Kids(Master) : proc'[d].exit = "killed"
      BY <2>1, <2>4, <3>1, <3>2
    <3> QED  BY <1>8, <2>2, <3>1, <3>2, <3>3 DEF Told, Masters
  <2> QED  BY <1>1, <2>5, <2>6 DEF Tree
<1>19. Descriptors'
  <2>1. ASSUME q = Master  PROVE ForkFds(W)
    <3>1. LoopFds(proc[q])
      BY <1>1, <1>5, <2>1 DEF Descriptors, FdsAt
    <3> QED  BY <1>0, <1>1, <1>2, <1>3, <2>1, <3>1, PipeFds
  <2>2. ASSUME NEW d \in Names  PROVE FdsAt(d)'
    <3>1. CASE d = q
      <4>1. q = Master => ForkFds(proc[q])'
        BY <1>4, <1>6, <1>8, <2>1 DEF ForkFds
      <4> QED  BY <1>8, <1>10, <3>1, <4>1 DEF FdsAt
    <3>2. CASE d = c
      <4>1. c \in Kids(Master) => q = Master
        BY <1>2 DEF Kids
      <4>2. c \in Kids(Master) => ForkFds(proc[c])'
        BY <1>4, <1>7, <1>8, <2>1, <3>2, <4>1 DEF ForkFds
      <4> QED  BY <1>2, <1>8, <1>10, <3>2, <4>2 DEF FdsAt
    <3>3. CASE d \notin {q, c}
      <4>1. proc'[d] = proc[d] /\ Kind(d)' = Kind(d) /\ FdsAt(d)
        BY <1>1, <1>2, <1>10, <3>3 DEF Descriptors
      <4>2. /\ LoopFds(proc[d])' <=> LoopFds(proc[d])
            /\ ForkFds(proc[d])' <=> ForkFds(proc[d])
            /\ RunFds(proc[d], Stage(d))' <=> RunFds(proc[d], Stage(d))
        BY <4>1, <1>8 DEF LoopFds, ForkFds, RunFds
      <4> QED  BY <1>8, <4>1, <4>2 DEF FdsAt
    <3> QED  BY <3>1, <3>2, <3>3
  <2> QED  BY <1>8, <2>2 DEF Descriptors
<1> QED  BY <1>11, <1>15, <1>17, <1>18, <1>19 DEF IInv

\* In the beginning there is only the first master, with its terminal and printer.
LEMMA Initially == Init => IInv
<1> SUFFICES ASSUME Init  PROVE IInv
  OBVIOUS
<1>1. /\ conversionLength \in Nat \ {0} /\ conversionLength \in Lengths
      /\ mode \in {"batch", "interactive"} /\ mode \in Modes
  BY LengthsAssumption, ModesAssumption DEF Init
<1>2. Master \in Names
  <2>1. << >> \in Seq(0 .. conversionLength - 1) /\ Len(<< >>) = 0
    BY EmptySeq
  <2>2. << >> \in [1 .. 0 -> 0 .. conversionLength - 1] /\ 0 \in 0 .. conversionLength
    BY <1>1, <2>1, LenProperties
  <2>3. \A i \in 1 .. 0 - 1 : << >>[i] < << >>[i + 1]
    OBVIOUS
  <2> QED  BY <2>1, <2>2, <2>3 DEF Master, Names, NamesOf
<1> DEFINE fds == [n \in Fds |-> IF n < PrinterFd THEN Terminal
                                 ELSE IF n = PrinterFd THEN Printer ELSE Closed]
           m == [NoProc EXCEPT !.kind = "loop", !.reapedChild = conversionLength,
                               !.fds = fds]
<1>3. /\ NoProc \in Process /\ NoProc.kind = "none" /\ NoProc.exit = "none"
      /\ ~NoProc.handling /\ \A n \in Fds : NoProc.fds[n] = Closed
      /\ NoProc.i = 0 /\ ~NoProc.doneReapingAll /\ ~NoProc.errorChild
  <2>1. Closed \in EndSet /\ 0 \in Fds
    BY <1>1, <1>2, OpenMaxAssumption DEF Closed, End, EndSet, Fds
  <2>2. [n \in Fds |-> Closed] \in [Fds -> EndSet] /\ <<0, 0>> \in Fds \X Fds
    BY <2>1
  <2> QED  BY <1>1, <2>1, <2>2 DEF NoProc, Process, Kinds
<1>4. fds \in [Fds -> EndSet]
  BY <1>1, <1>2 DEF Closed, Terminal, Printer, End, EndSet
<1>5. proc = [q \in Names |-> IF q # Master THEN NoProc ELSE m]
  BY DEF Init
<1>6. /\ \A n \in Standard : fds[n] = Terminal
      /\ fds[PrinterFd] = Printer
      /\ \A n \in Fds : n > PrinterFd => fds[n] = Closed
  BY OpenMaxAssumption DEF Standard, PrinterFd, Fds
<1> HIDE DEF fds
<1>7. /\ m \in Process /\ m.kind = "loop" /\ m.reapedChild = conversionLength /\ m.fds = fds
      /\ m.i = 0 /\ m.exit = "none" /\ ~m.handling /\ ~m.doneReapingAll /\ ~m.errorChild
  <2>1. "loop" \in Kinds /\ conversionLength \in 0 .. conversionLength
    BY <1>1 DEF Kinds, Masters
  <2>2. m \in Process
    BY <1>3, <1>4, <2>1 DEF Process
  <2>3. /\ m.kind = "loop" /\ m.reapedChild = conversionLength /\ m.fds = fds
        /\ m.i = NoProc.i /\ m.exit = NoProc.exit /\ m.handling = NoProc.handling
        /\ m.doneReapingAll = NoProc.doneReapingAll /\ m.errorChild = NoProc.errorChild
    BY <1>3 DEF Process
  <2> HIDE DEF m
  <2> QED  BY <1>3, <2>2, <2>3
<1> HIDE DEF m
<1>8. Types
  BY <1>1, <1>3, <1>5, <1>7 DEF Types
<1>9. proc[Master] = m /\ Kind(Master) = "loop"
  BY <1>2, <1>5, <1>7 DEF Kind
<1>10. \A q \in Names : q # Master => proc[q] = NoProc /\ Kind(q) = "none"
  BY <1>3, <1>5 DEF Kind
<1>11. \A q \in Names : Kids(q) \subseteq Names \ {Master}
  BY DEF Kids
<1>12. Tree
  <2>1. ASSUME NEW q \in Names  PROVE TreeAt(q)
    <3>1. \A c \in Kids(q) : Kind(c) = "none"
      BY <1>10, <1>11
    <3>2. CASE q = Master
      BY <1>7, <1>9, <3>1, <3>2 DEF TreeAt, Masters
    <3>3. CASE q # Master
      BY <1>3, <1>10, <3>1, <3>3 DEF TreeAt
    <3> QED  BY <3>2, <3>3
  <2> QED  BY <1>9, <2>1 DEF Tree, Masters
<1>13. \A q \in Names : Alive(q) = {} /\ Gone(q) = {}
  BY <1>10, <1>11 DEF Alive, Gone
<1>14. Cardinality({}) = 0
  BY FS_EmptySet
<1>15. Counts
  <2>1. ToFork(m) = conversionLength
    BY <1>1, <1>7 DEF ToFork
  <2>2. m.reapedChild >= ToFork(m) + Cardinality(Alive(Master))
    BY <1>1, <1>2, <1>7, <1>13, <1>14, <2>1
  <2> QED  BY <1>9, <1>10, <2>2 DEF Counts, Masters
<1>16. Told
  BY <1>1, <1>2, <1>7, <1>9, <1>13, <1>14 DEF Told
<1>17. Descriptors
  <2>1. LoopFds(m)
    <3>1. LastStage \in Nat
      BY <1>8, Basics
    <3> QED  BY <1>6, <1>7, <3>1 DEF LoopFds
  <2>2. FdsAt(Master)
    BY <1>9, <2>1 DEF FdsAt, Kids
  <2>3. \A q \in Names : q # Master => FdsAt(q)
    BY <1>10 DEF FdsAt
  <2> QED  BY <2>2, <2>3 DEF Descriptors
<1> QED  BY <1>8, <1>12, <1>15, <1>16, <1>17 DEF IInv

\* The invariant says nothing that a stuttering step could change.
LEMMA Stutters == IInv /\ UNCHANGED vars => IInv'
<1> SUFFICES ASSUME IInv, UNCHANGED vars  PROVE IInv'
  OBVIOUS
<1>1. proc' = proc /\ mode' = mode /\ conversionLength' = conversionLength
  BY DEF vars
<1>2. /\ Names' = Names /\ Process' = Process /\ LastStage' = LastStage
      /\ \A q : Kids(q)' = Kids(q)
  BY <1>1, Fixed
<1>3. \A q : Kind(q)' = Kind(q) /\ Alive(q)' = Alive(q) /\ Gone(q)' = Gone(q)
  BY <1>1, <1>2 DEF Kind, Alive, Gone
<1>4. Types'
  BY <1>1, <1>2 DEF IInv, Types
<1>5. Tree'
  BY <1>1, <1>2, <1>3 DEF IInv, Tree, TreeAt
<1>6. Counts'
  BY <1>1, <1>2, <1>3 DEF IInv, Counts, ToFork
<1>7. Told'
  BY <1>1, <1>2, <1>3 DEF IInv, Told
<1>8. Descriptors'
  BY <1>1, <1>2, <1>3 DEF IInv, Descriptors, FdsAt, LoopFds, ForkFds, RunFds
<1> QED  BY <1>4, <1>5, <1>6, <1>7, <1>8 DEF IInv

-----------------------------------------------------------------------------
(* The theorems *)

\* Whatever happens, the processes have the descriptors and the counters that the
\* code at that place expects.
THEOREM Invariance == Spec => []IInv
<1>1. IInv /\ [Next]_vars => IInv'
  <2> SUFFICES ASSUME IInv, [Next]_vars  PROVE IInv'
    OBVIOUS
  <2>1. CASE Next
    <3>1. PICK q \in Names : Step(q) \/ ProgramEnds(q)
      BY <2>1 DEF Next
    <3>2. CASE Fork(q)
      BY <3>2, ForkStep
    <3>3. CASE PipeFails(q)
      BY <3>3, PipeFailsStep
    <3>4. CASE CloseEnds(q)
      BY <3>4, CloseEndsStep
    <3>5. CASE LoopEnds(q)
      BY <3>5, LoopEndsStep
    <3>6. CASE TestDone(q)
      BY <3>6, TestDoneStep
    <3>7. CASE MasterExits(q)
      BY <3>7, MasterExitsStep
    <3>8. CASE HandlerStart(q)
      BY <3>8, HandlerStartStep
    <3>9. CASE Reap(q)
      BY <3>9, ReapStep
    <3>10. CASE HandlerEnd(q)
      BY <3>10, HandlerEndStep
    <3>11. CASE Exec(q)
      BY <3>11, ExecStep
    <3>12. CASE ExecFails(q)
      BY <3>12, ExecFailsStep
    <3>13. CASE NoFile(q) \/ ProgramEnds(q)
      BY <3>13, ChildEndsStep
    <3> QED  BY <3>1, <3>2, <3>3, <3>4, <3>5, <3>6, <3>7, <3>8, <3>9, <3>10, <3>11,
                <3>12, <3>13 DEF Step
  <2>2. CASE UNCHANGED vars
    BY <2>2, Stutters
  <2> QED  BY <2>1, <2>2
<1> QED  BY Initially, <1>1, PTL DEF Spec

\* The children of the first master are those with one stage in their name.
LEMMA ChildrenAreKids ==
  ASSUME Types
  PROVE  /\ Children = Kids(Master)
         /\ \A c \in Kids(Master) : c = <<Stage(c)>>
<1>1. Master \in Seq(Stages) /\ Len(Master) = 0
  BY Basics, NamesAreSeqs, EmptySeq DEF Master
<1>2. ASSUME NEW c \in Names
      PROVE  /\ c \in Children <=> c \in Kids(Master)
             /\ c \in Kids(Master) => c = <<Stage(c)>>
  <2>1. c \in Seq(Stages) /\ Len(c) \in Nat
    BY <1>2, Basics, NamesAreSeqs
  <2>2. CASE c = Master
    BY <1>1, <2>2 DEF Children, Kids
  <2>3. CASE c # Master
    <3>1. /\ Stage(c) \in Stages /\ Parent(c) \in Seq(Stages)
          /\ c = Append(Parent(c), Stage(c))
      BY <2>3, Basics, NameParts
    <3>2. Len(c) = Len(Parent(c)) + 1 /\ Len(Parent(c)) \in Nat
      BY <3>1, AppendProperties, LenProperties
    <3>3. Len(Parent(c)) = 0 <=> Parent(c) = Master
      BY <3>1, EmptySeq DEF Master
    <3>4. Append(Master, Stage(c)) = <<Stage(c)>>
      BY DEF Master
    <3> QED  BY <2>3, <3>1, <3>2, <3>3, <3>4 DEF Children, Kids
  <2> QED  BY <2>2, <2>3
<1> QED  BY <1>2 DEF Children, Kids

\* When the first master exits it has reaped every child, and it exits with a failure
\* exactly when a signal killed one of them: mastersigchld_handler and the loop around
\* sigsuspend, wherever the signals arrive.
THEOREM MasterTellsDeaths == Spec => []ExitTellsDeaths
<1>1. IInv => ExitTellsDeaths
  <2> SUFFICES ASSUME IInv  PROVE ExitTellsDeaths
    OBVIOUS
  <2>1. Types /\ Tree /\ Told
    BY DEF IInv
  <2>2. Children = Kids(Master)
    BY <2>1, ChildrenAreKids
  <2>3. TypeOK
    <3>1. \A q \in Names : proc[q] \in Process
      BY <2>1, Basics
    <3> QED  BY <2>1, <3>1 DEF TypeOK, Types, Process, Kind, Kinds
  <2>4. {c \in Children : Kind(c) = "reaped"} = Gone(Master)
    BY <2>2 DEF Gone
  <2>5. {c \in Children : proc[c].exit = "killed"} # {}
          <=> \E c \in Kids(Master) : proc[c].exit = "killed"
    BY <2>2
  <2> QED  BY <2>1, <2>2, <2>3, <2>4, <2>5 DEF ExitTellsDeaths, Told
<1> QED  BY Invariance, <1>1, PTL

\* Unless a program could not be executed, each program reads what the one before it
\* writes, and nobody else holds an end of that pipe: what run_cli's masters and their
\* children close, and in which order they fork.
THEOREM StagesJoined == Spec => []Joined
<1>1. IInv => Joined
  <2> SUFFICES ASSUME IInv, ~SecondMaster  PROVE Joined
    BY DEF Joined
  <2>1. Types /\ Tree /\ Descriptors
    BY DEF IInv
  <2>2. /\ Children = Kids(Master) /\ \A c \in Kids(Master) : c = <<Stage(c)>>
        /\ LastStage \in Nat
    BY <2>1, ChildrenAreKids, Basics
  <2>3. ASSUME NEW c \in Children, Kind(c) = "run"
        PROVE  /\ proc[c].fds[0] = IF Stage(c) = First THEN File
                                   ELSE Read(Master, Stage(c) - 1)
               /\ proc[c].fds[1] = IF Stage(c) = LastStage THEN Printer
                                   ELSE Write(Master, Stage(c))
    <3>1. RunFds(proc[c], Stage(c))
      BY <2>1, <2>2, <2>3 DEF Descriptors, FdsAt, Kids
    <3> QED  BY <3>1 DEF RunFds
  <2>4. ASSUME NEW i \in 0 .. LastStage - 1, NEW q \in Names, NEW n \in Fds,
               proc[q].fds[n] \in {Read(Master, i), Write(Master, i)}
        PROVE  /\ proc[q].fds[n] = Write(Master, i) =>
                    q = <<i>> \/ (q = Master /\ Kind(q) = "close" /\ proc[q].i = i)
               /\ proc[q].fds[n] = Read(Master, i) =>
                    \/ q = <<i + 1>>
                    \/ q = <<i>> /\ Kind(q) = "exec"
                    \/ q = Master /\ proc[q].i \in {i, i + 1}
    <3>1. /\ TreeAt(q) /\ FdsAt(q) /\ proc[q] \in Process /\ proc[q].i \in Nat /\ i \in Nat
          /\ n \in Nat /\ Kind(q) \in Kinds
      <4>1. TreeAt(q) /\ FdsAt(q)
        BY <2>1 DEF Tree, Descriptors
      <4>2. proc[q] \in Process
        BY <2>1, Basics
      <4>3. proc[q].i \in Nat /\ Kind(q) \in Kinds
        BY <4>2 DEF Process, Kind
      <4>4. i \in Nat /\ n \in Nat
        BY Basics DEF Fds
      <4> QED  BY <4>1, <4>2, <4>3, <4>4
    <3>2. n \in Standard \/ n = PrinterFd \/ n > PrinterFd
      BY <3>1 DEF Standard, PrinterFd
    <3>3. proc[q].fds[n] \notin {Closed, Terminal, Printer, File}
      BY <2>4, EndsDiffer
    <3>4. Kind(q) \notin {"none", "dead", "reaped"}
      BY <3>1, <3>3 DEF TreeAt
    <3>5. ASSUME ForkFds(proc[q])
          PROVE  \/ proc[q].fds[n] = Read(Master, proc[q].i - 1)
                 \/ proc[q].fds[n] = Read(Master, proc[q].i)
                 \/ proc[q].fds[n] = Write(Master, proc[q].i)
      BY <3>2, <3>3, <3>5 DEF ForkFds
    <3>6. CASE q = Master
      <4>1. CASE Kind(q) = "loop"
        <5>1. LoopFds(proc[q])
          BY <3>1, <3>6, <4>1 DEF FdsAt
        <5>2. proc[q].fds[n] = Read(Master, proc[q].i - 1)
          BY <3>2, <3>3, <5>1 DEF LoopFds
        <5> QED  BY <3>1, <3>6, <5>2, EndsDiffer
      <4>2. CASE Kind(q) = "close"
        <5>1. ForkFds(proc[q])
          BY <3>1, <3>6, <4>2 DEF FdsAt
        <5> QED  BY <3>1, <3>5, <3>6, <4>2, <5>1, EndsDiffer
      <4>3. Kind(q) \notin {"test", "suspend"}
        BY <3>1, <3>3, <3>6 DEF FdsAt
      <4>4. Kind(q) \in {"loop", "close"}
        BY <2>1, <3>4, <3>6, <4>3 DEF Tree, Masters
      <4> QED  BY <4>1, <4>2, <4>4
    <3>7. CASE q # Master
      <4>1. Kind(q) \notin Masters /\ Len(q) <= 1
        <5>1. Len(q) \in Nat
          BY <2>1, Basics, NamesAreSeqs
        <5> QED  BY <3>4, <3>7, <5>1 DEF SecondMaster
      <4>2. q \in Kids(Master)
        <5>1. q \in Seq(Stages) /\ Len(q) \in Nat
          BY <2>1, Basics, NamesAreSeqs
        <5>2. Len(q) # 0
          BY <3>7, <5>1, EmptySeq DEF Master
        <5>3. Len(q) = 1
          <6>1. \A k \in Nat : k <= 1 /\ k # 0 => k = 1
            OBVIOUS
          <6> QED  BY <4>1, <5>1, <5>2, <6>1, Zenon
        <5>4. q \in Children
          BY <5>3 DEF Children
        <5> QED  BY <2>2, <5>4
      <4>3. q = <<Stage(q)>> /\ Stage(q) \in Nat
        BY <2>1, <2>2, <4>2, Basics, NameParts DEF Kids
      <4>4. CASE Kind(q) = "exec"
        <5>1. ForkFds(proc[q]) /\ proc[q].i = Stage(q)
          BY <3>1, <4>2, <4>4 DEF FdsAt, TreeAt
        <5>2. \/ proc[q].fds[n] = Read(Master, Stage(q) - 1)
              \/ proc[q].fds[n] = Read(Master, Stage(q))
              \/ proc[q].fds[n] = Write(Master, Stage(q))
          BY <3>5, <5>1
        <5>3. /\ proc[q].fds[n] = Write(Master, i) => i = Stage(q)
              /\ proc[q].fds[n] = Read(Master, i) => i = Stage(q) \/ i = Stage(q) - 1
          BY <5>2, EndsDiffer
        <5>4. i = Stage(q) - 1 => Stage(q) = i + 1
          BY <3>1, <4>3
        <5> QED  BY <4>3, <4>4, <5>3, <5>4
      <4>5. CASE Kind(q) = "run"
        <5>1. RunFds(proc[q], Stage(q))
          BY <3>1, <4>2, <4>5 DEF FdsAt
        <5>2. \/ proc[q].fds[n] = Read(Master, Stage(q) - 1)
              \/ proc[q].fds[n] = Write(Master, Stage(q))
          BY <3>3, <5>1 DEF RunFds
        <5>3. /\ proc[q].fds[n] = Write(Master, i) => i = Stage(q)
              /\ proc[q].fds[n] = Read(Master, i) => i = Stage(q) - 1
          BY <5>2, EndsDiffer
        <5>4. i = Stage(q) - 1 => Stage(q) = i + 1
          BY <3>1, <4>3
        <5> QED  BY <4>3, <5>3, <5>4
      <4> QED  BY <3>1, <3>4, <4>1, <4>4, <4>5 DEF Kinds
    <3> QED  BY <3>6, <3>7
  <2>5. \A end, q : q \in Holders(end) => q \in Names /\ \E n \in Fds : proc[q].fds[n] = end
    <3>1. \A q \in Names : DOMAIN proc[q].fds = Fds
      BY <2>1, Basics DEF Process
    <3> QED  BY <3>1 DEF Holders, Range
  <2>6. ASSUME NEW i \in 0 .. LastStage - 1
        PROVE  /\ \A q \in Holders(Write(Master, i)) :
                    q = <<i>> \/ (q = Master /\ Kind(q) = "close" /\ proc[q].i = i)
               /\ \A q \in Holders(Read(Master, i)) :
                    \/ q = <<i + 1>>
                    \/ q = <<i>> /\ Kind(q) = "exec"
                    \/ q = Master /\ proc[q].i \in {i, i + 1}
    BY <2>4, <2>5
  <2> QED  BY <2>3, <2>6 DEF Joined
<1> QED  BY Invariance, <1>1, PTL
=============================================================================
