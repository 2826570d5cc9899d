------------------------------ MODULE Pipeline ------------------------------
(***************************************************************************)
(* The master process of a job with conversions (hw4/src/cli.c): it forks  *)
(* one process for each conversion, joins them by pipes, and waits until   *)
(* mastersigchld_handler has reaped them all.  Module Imprimer shows the   *)
(* spooler, for which this master is one process.                          *)
(*                                                                         *)
(* A process is named by the stages at which it and its forebears were     *)
(* forked: the master is <<>>, its child for stage i is <<i>>.  A child    *)
(* whose program cannot be executed goes on in the loop as a second        *)
(* master, so there may be more.  Descriptors are numbers, as in the code, *)
(* since a process may close or copy one that it does not hold.  What the  *)
(* programs do is abstracted: each may end at any time, and does once its  *)
(* input has ended.                                                        *)
(***************************************************************************)
EXTENDS Integers, Sequences, FiniteSets, FiniteSetsExt, SequencesExt

CONSTANTS Lengths,    \* lengths of conversion paths
          Unrunnable, \* stages whose program may be missing
          Modes,      \* "batch": the master was forked with SIGCHLD unblocked
          OpenMax     \* how many descriptors a process may have open

ASSUME LengthsAssumption == Lengths \subseteq Nat \ {0}
ASSUME ModesAssumption == Modes \subseteq {"batch", "interactive"}
\* the terminal, the printer, and as many pipe ends as the first master ever has
ASSUME OpenMaxAssumption == OpenMax \in Nat /\ OpenMax >= 7

VARIABLES conversionLength, mode,
          proc        \* the processes
vars == <<conversionLength, mode, proc>>

Stages == 0 .. conversionLength - 1
NamesOf(length) == {s \in UNION {[1 .. n -> 0 .. length - 1] : n \in 0 .. length} :
                      \A i \in 1 .. Len(s) - 1 : s[i] < s[i + 1]}
Names == NamesOf(conversionLength)
Master == <<>>
PrinterFd == 3
Fds == 0 .. OpenMax - 1
\* what a descriptor stands for; Read and Write: the ends of q's pipe for stage i
End(kind, q, i) == [kind |-> kind, q |-> q, i |-> i]
Closed == End("closed", Master, 0)
Terminal == End("terminal", Master, 0)
Printer == End("printer", Master, 0)
File == End("file", Master, 0)
Read(q, i) == End("read", q, i)
Write(q, i) == End("write", q, i)

\* kind: where the process is.  "loop" and "close": before and after the fork of
\* stage i; "exec": forked; "run": its program; "dead": not yet reaped
NoProc == [kind |-> "none", exit |-> "none", i |-> 0, fds |-> [n \in Fds |-> Closed],
           prevFd |-> 0, fd |-> <<0, 0>>, reapedChild |-> 0, doneReapingAll |-> FALSE,
           errorChild |-> FALSE, sigchld |-> FALSE, handling |-> FALSE]

Init ==
  /\ conversionLength \in Lengths
  /\ mode \in Modes
  /\ proc = [q \in Names |->
       IF q # Master THEN NoProc
       ELSE [NoProc EXCEPT
               !.kind = "loop", !.reapedChild = conversionLength,
               !.fds = [n \in Fds |-> IF n < PrinterFd THEN Terminal
                                      ELSE IF n = PrinterFd THEN Printer ELSE Closed]]]

First == 0
LastStage == conversionLength - 1
Kind(q) == proc[q].kind
Masters == {"loop", "close", "test", "suspend"}
Parent(q) == Front(q)
Stage(q) == Last(q)
Free(fds) == {n \in Fds : fds[n] = Closed}
Close(fds, n) == [fds EXCEPT ![n] = Closed]
Dup2(fds, n, t) == IF fds[n] = Closed THEN fds ELSE [fds EXCEPT ![t] = fds[n]]
At(q, kind) == Kind(q) = kind /\ ~proc[q].handling
UNCHANGEDJob == UNCHANGED <<conversionLength, mode>>

-----------------------------------------------------------------------------
(* The loop over the conversions *)

\* pipe(), which the last stage does not need
WithPipe(q, p) ==
  IF p.i = LastStage THEN p
  ELSE LET r == Min(Free(p.fds))
           w == Min(Free(p.fds) \ {r})
       IN  [p EXCEPT !.fds = [@ EXCEPT ![r] = Read(q, p.i), ![w] = Write(q, p.i)],
                     !.fd = <<r, w>>,
                     !.prevFd = IF p.i = First THEN r ELSE @]

NoPipe(p) == p.i # LastStage /\ Cardinality(Free(p.fds)) < 2

Fork(q) ==
  LET p == WithPipe(q, proc[q])
  IN  /\ At(q, "loop") /\ proc[q].i <= LastStage /\ ~NoPipe(proc[q])
      /\ proc' = [proc EXCEPT ![q] = [p EXCEPT !.kind = "close"],
                    ![Append(q, p.i)] = [p EXCEPT !.kind = "exec", !.sigchld = FALSE]]
      /\ UNCHANGEDJob

\* what the master closes after each fork.  (Faulty: the write end stays open.)
ParentClosesRead(p) ==
  LET fds == IF p.i = First THEN p.fds ELSE Close(p.fds, p.prevFd)
  IN  IF p.i = LastStage THEN Close(fds, PrinterFd) ELSE fds
ParentCloses(p) ==
  LET fds == IF p.i = First THEN p.fds ELSE Close(p.fds, p.prevFd)
  IN  Close(fds, IF p.i = LastStage THEN PrinterFd ELSE p.fd[2])

CloseEnds(q) ==
  LET p == proc[q]
  IN  /\ At(q, "close")
      /\ proc' = [proc EXCEPT ![q] =
           [p EXCEPT !.kind = "loop", !.i = @ + 1, !.fds = ParentCloses(p),
                     !.prevFd = IF p.i \in {First, LastStage} THEN @ ELSE p.fd[1]]]
      /\ UNCHANGEDJob

LoopEnds(q) ==
  /\ At(q, "loop") /\ proc[q].i > LastStage
  /\ proc' = [proc EXCEPT ![q].kind = "test", ![q].fds = Close(@, PrinterFd)]
  /\ UNCHANGEDJob

Dead(exit) == [NoProc EXCEPT !.kind = "dead", !.exit = exit]
Ends(c, exit) ==
  /\ proc' = [proc EXCEPT ![c] = Dead(exit), ![Parent(c)].sigchld = TRUE]
  /\ UNCHANGEDJob

\* exit in the loop.  (Nothing is said of the parent of the first master.)
Exits(q, exit) ==
  IF q = Master THEN proc' = [proc EXCEPT ![q] = Dead(exit)] /\ UNCHANGEDJob
  ELSE Ends(q, exit)

\* a second master keeps what it was forked with, and may have no room for a pipe
PipeFails(q) ==
  /\ At(q, "loop") /\ proc[q].i <= LastStage /\ NoPipe(proc[q])
  /\ Exits(q, "failure")

-----------------------------------------------------------------------------
(* A child, until its program runs *)

\* the file on descriptor 0 of the first stage, the pipes or the printer.
\* (Faulty: a stage keeps the read end of the pipe it writes.)
Opened(fds) == LET f == Min(Free(fds)) IN Dup2([fds EXCEPT ![f] = File], f, 0)
RedirectedKeepsRead(p) ==
  LET in == IF p.i = First THEN Opened(p.fds) ELSE Dup2(p.fds, p.prevFd, 0)
  IN  Dup2(in, IF p.i = LastStage THEN PrinterFd ELSE p.fd[2], 1)
Redirected(p) ==
  LET fds == IF p.i = LastStage THEN p.fds ELSE Close(p.fds, p.fd[1])
      in == IF p.i = First THEN Opened(fds) ELSE Dup2(fds, p.prevFd, 0)
  IN  Dup2(in, IF p.i = LastStage THEN PrinterFd ELSE p.fd[2], 1)

Exec(c) ==
  /\ Kind(c) = "exec"
  /\ proc' = [proc EXCEPT ![c].kind = "run", ![c].fds = Redirected(proc[c])]
  /\ UNCHANGEDJob

\* execvp returns: the child is in the loop, and goes on with the next stage
ExecFails(c) ==
  /\ Kind(c) = "exec" /\ Stage(c) \in Unrunnable
  /\ proc' = [proc EXCEPT ![c] =
       [proc[c] EXCEPT !.kind = "loop", !.i = @ + 1, !.fds = Redirected(proc[c])]]
  /\ UNCHANGEDJob

\* the file of the job is not there; a single stage does not look
NoFile(c) ==
  /\ Kind(c) = "exec" /\ Stage(c) = First /\ First # LastStage
  /\ Ends(c, "failure")

\* a program exits, or is killed by a signal
ProgramEnds(c) ==
  /\ Kind(c) = "run"
  /\ \E exit \in {"success", "failure", "killed"} : Ends(c, exit)

Holders(end) == {q \in Names : end \in Range(proc[q].fds)}
EndOfInput(c) ==
  LET in == proc[c].fds[0]
  IN  in.kind = "read" => Holders(Write(in.q, in.i)) = {}

-----------------------------------------------------------------------------
(* Waiting: while(!doneReapingAll) sigsuspend(&suspendMask) *)

TestDone(q) ==
  /\ At(q, "test") /\ ~proc[q].doneReapingAll
  /\ proc' = [proc EXCEPT ![q].kind = "suspend"]
  /\ UNCHANGEDJob

MasterExits(q) ==
  /\ At(q, "test") /\ proc[q].doneReapingAll
  /\ Exits(q, IF proc[q].errorChild THEN "failure" ELSE "success")

(* mastersigchld_handler; a master forked from the hook of sf_readline has  *)
(* all signals blocked outside sigsuspend                                   *)
Deliverable(q) ==
  /\ proc[q].sigchld /\ ~proc[q].handling
  /\ Kind(q) \in IF mode = "batch" THEN Masters ELSE {"suspend"}

HandlerStart(q) ==
  /\ Deliverable(q)
  /\ proc' = [proc EXCEPT ![q].handling = TRUE, ![q].sigchld = FALSE]
  /\ UNCHANGEDJob

\* a child that exited, with whatever status, is no error.  (Faulty: nor is one
\* that was killed.)
NeverError(exit) == FALSE
IsError(exit) == exit = "killed"

DeadChildren(q) == {c \in Names : c # Master /\ Parent(c) = q /\ Kind(c) = "dead"}

Reap(q) ==
  /\ proc[q].handling
  /\ \E c \in DeadChildren(q) :
       proc' = [proc EXCEPT
         ![q].errorChild = @ \/ IsError(proc[c].exit),
         ![q].reapedChild = @ - 1,
         ![c].kind = "reaped"]
  /\ UNCHANGEDJob

\* waitpid finds no more; sigsuspend returns
HandlerEnd(q) ==
  /\ proc[q].handling /\ DeadChildren(q) = {}
  /\ proc' = [proc EXCEPT
       ![q].handling = FALSE,
       ![q].doneReapingAll = @ \/ proc[q].reapedChild = 0,
       ![q].kind = IF @ = "suspend" THEN "test" ELSE @]
  /\ UNCHANGEDJob

Step(q) ==
  \/ Fork(q) \/ PipeFails(q) \/ CloseEnds(q) \/ LoopEnds(q) \/ TestDone(q)
  \/ MasterExits(q)
  \/ HandlerStart(q) \/ Reap(q) \/ HandlerEnd(q)
  \/ Exec(q) \/ ExecFails(q) \/ NoFile(q)

Next == \E q \in Names : Step(q) \/ ProgramEnds(q)

Spec == Init /\ [][Next]_vars

\* Processes run, a signal that stays deliverable is delivered, and a program
\* whose input has ended comes to its end.
FairSpec ==
  /\ Spec
  /\ \A q \in NamesOf(Max(Lengths)) :
       /\ WF_vars(q \in Names /\ Step(q))
       /\ SF_vars(q \in Names /\ HandlerStart(q))
       /\ WF_vars(q \in Names /\ EndOfInput(q) /\ ProgramEnds(q))
-----------------------------------------------------------------------------
Finished(q) == Kind(q) \in {"dead", "reaped"}
Children == {c \in Names : Len(c) = 1}
\* A child has gone on as a master, or did and has left children behind.
SecondMaster == \E c \in Names \ {Master} :
                  Kind(c) \in Masters \/ (Len(c) > 1 /\ Kind(c) # "none")

TypeOK ==
  /\ conversionLength \in Lengths /\ mode \in Modes
  /\ \A q \in Names :
       /\ Kind(q) \in Masters \cup {"none", "exec", "run", "dead", "reaped"}
       /\ proc[q].exit \in {"none", "success", "failure", "killed"}
       /\ proc[q].i \in 0 .. conversionLength
       /\ {proc[q].prevFd, proc[q].fd[1], proc[q].fd[2]} \subseteq Fds
       /\ proc[q].reapedChild \in 0 .. conversionLength
       /\ proc[q].doneReapingAll \in BOOLEAN /\ proc[q].errorChild \in BOOLEAN
       /\ proc[q].sigchld \in BOOLEAN /\ proc[q].handling \in BOOLEAN

\* Each stage reads what the one before it writes, and nobody else can hold a pipe
\* open or use it up: a write end is held by its stage, and by the master until it
\* has closed it; a read end only by the master and the next stage.  (cli.c forks
\* with every descriptor the master has at that moment.)
Joined ==
  ~SecondMaster =>
    /\ \A c \in Children : Kind(c) = "run" =>
         /\ proc[c].fds[0] = IF Stage(c) = First THEN File ELSE Read(Master, Stage(c) - 1)
         /\ proc[c].fds[1] = IF Stage(c) = LastStage THEN Printer
                             ELSE Write(Master, Stage(c))
    /\ \A i \in 0 .. LastStage - 1 :
         /\ \A q \in Holders(Write(Master, i)) :
              q = <<i>> \/ (q = Master /\ Kind(q) = "close" /\ proc[q].i = i)
         /\ \A q \in Holders(Read(Master, i)) :
              \/ q = <<i + 1>>
              \/ q = <<i>> /\ Kind(q) = "exec"
              \/ q = Master /\ proc[q].i \in {i, i + 1}

\* The master counts down once for each of its children, wherever the signals for
\* them arrive: while it still forks, between its test and sigsuspend, or several
\* children with one signal.  So it exits after all of them, and with a failure
\* exactly when one was killed.  (That a child fails is not told: see the README.)
ExitTellsDeaths ==
  LET reaped == {c \in Children : Kind(c) = "reaped"}
      killed == {c \in Children : proc[c].exit = "killed"}
  IN  /\ TypeOK
      /\ Kind(Master) \in Masters =>
           /\ proc[Master].reapedChild = conversionLength - Cardinality(reaped)
           /\ proc[Master].doneReapingAll => reaped = Children
      /\ Kind(Master) = "dead" =>
           /\ reaped = Children
           /\ proc[Master].exit = "failure" <=> killed # {}

\* The last SIGCHLD was handled between the test of doneReapingAll and sigsuspend.
Missed ==
  /\ At(Master, "suspend") /\ ~proc[Master].sigchld
  /\ \A c \in Children : Kind(c) = "reaped"

\* The pipeline comes to its end, and its master with it, unless that signal was
\* missed, which takes batch mode, or a program could not be executed.
PipelineEnds ==
  <>(Kind(Master) = "dead" \/ (Missed /\ mode = "batch") \/ SecondMaster)
=============================================================================
