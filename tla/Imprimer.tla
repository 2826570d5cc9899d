------------------------------ MODULE Imprimer ------------------------------
(***************************************************************************)
(* The print spooler (hw4/src/cli.c, helpingFunction.h): the tables of     *)
(* jobs and printers, the command loop in batch and in interactive mode,   *)
(* the SIGCHLD handler that may run between two steps of that loop, and    *)
(* quit, which waits for the jobs that still run.                          *)
(*                                                                         *)
(* A running job is carried out by one child of the spooler, the master    *)
(* process of its pipeline, here one process per job slot with the state   *)
(* waitpid reports; what happens inside a pipeline is left out.  A job     *)
(* slot stands for its entry of jobToMasterId: that the kernel does not    *)
(* give a process the number of one still in that table is an assumption.  *)
(*                                                                         *)
(* Interactive mode reads through sf_readline (lib/imprimer.a), which      *)
(* blocks all signals, calls the hook readlineCallback, waits for input    *)
(* with pselect, which lets signals in, and calls the hook again after a   *)
(* signal.  Batch mode scans after each command instead.                   *)
(***************************************************************************)
EXTENDS Integers, FiniteSets, Sequences, FiniteSetsExt

CONSTANTS MaxJobs,        \* MAX_JOBS, the length of list_jobs
          MaxPrinters,    \* MAX_PRINTERS, the length of list_printers
          Types,          \* file types: the names that command type may define
          Convertible,    \* pairs <<type of a job, type of a printer>>: equal
                          \* types, or find_conversion_path finds a path
          Modes           \* the modes run_cli may start in

Slots == 0..(MaxJobs - 1)
PrinterIds == 0..(MaxPrinters - 1)
NoJob == -1
AllBits == 0..31          \* eligiblePrinter = 0xffffffff

ASSUME MaxJobsAssumption == MaxJobs \in Nat /\ MaxJobs > 0
ASSUME MaxPrintersAssumption == MaxPrinters \in 1..32
ASSUME TypesAssumption == Types # {}
ASSUME ConvertibleAssumption == Convertible \subseteq Types \X Types
ASSUME ModesAssumption == Modes \subseteq {"batch", "interactive"}

VARIABLES
  jobs,              \* list_jobs
  printers,          \* list_printers
  nextFreeIndex,     \* printers declared
  masterChildCount,
  mode, mpc,         \* main: batch or interactive, control point
  slot,              \* main: the job scanJobs looks at
  target, sigs,      \* main: job to signal, signals still to send
  finished,          \* main: quit was read
  handling,          \* masterSigHandler is running
  sigchld,           \* SIGCHLD is pending
  proc,              \* proc[i]: master process of job i
  ev,                \* ev[i]: what waitpid would report of it
  term,              \* term[i]: SIGTERM was sent to its group
  masked,            \* masked[i]: it was forked with all signals blocked
  raced              \* history: cancel found a pause under way, or the reverse

mainvars == <<mode, mpc, slot, target, sigs, finished>>
procvars == <<proc, ev, term, masked, raced>>
vars == <<jobs, printers, nextFreeIndex, masterChildCount, mainvars, handling, sigchld, procvars>>

AType == CHOOSE t \in Types : TRUE

Init ==
  /\ jobs = [i \in Slots |-> [taken |-> FALSE, status |-> "CREATED", type |-> AType,
                              eligible |-> {}]]
  /\ printers = [k \in PrinterIds |-> [status |-> "DISABLED", type |-> AType,
                                       jobIndex |-> NoJob]]
  /\ nextFreeIndex = 0
  /\ masterChildCount = 0
  /\ mode \in Modes
  /\ mpc = IF mode = "batch" THEN "ready" ELSE "after"
  /\ slot = 0 /\ target = NoJob /\ sigs = <<>>
  /\ finished = FALSE
  /\ handling = FALSE /\ sigchld = FALSE
  /\ proc = [i \in Slots |-> "none"]
  /\ ev = [i \in Slots |-> "none"]
  /\ term = [i \in Slots |-> FALSE]
  /\ masked = [i \in Slots |-> FALSE]
  /\ raced = [i \in Slots |-> FALSE]

Declared == 0..(nextFreeIndex - 1)
MainAt(pc) == mpc = pc /\ ~handling

-----------------------------------------------------------------------------
(* Commands.  One that is refused changes nothing; every command is followed
   by a scan, which is control point "after". *)

Command == MainAt("ready") /\ mpc' = "after"

\* help, type, conversion, printers, jobs, and every command that is refused.
OtherCommand ==
  /\ Command
  /\ UNCHANGED <<jobs, printers, nextFreeIndex, masterChildCount, mode, slot, target,
                 sigs, finished, handling, sigchld, procvars>>

\* printer: a new printer is disabled.
Printer(t) ==
  /\ Command
  /\ nextFreeIndex < MaxPrinters
  /\ printers' = [printers EXCEPT ![nextFreeIndex] =
                    [status |-> "DISABLED", type |-> t, jobIndex |-> NoJob]]
  /\ nextFreeIndex' = nextFreeIndex + 1
  /\ UNCHANGED <<jobs, masterChildCount, mode, slot, target, sigs, finished,
                 handling, sigchld, procvars>>

\* addJobToList
FreeSlots == {i \in Slots : ~jobs[i].taken \/ jobs[i].status = "DELETED"}

\* The bit that stands for printer k in eligiblePrinter.
BitOf(k) == k

\* print.  With no printer named every bit is set.  The loop over the printers
\* named asks for the index of the first one every time, so its bit is the only
\* one set; when none of the names is a printer's, that name was never written
\* and may be anything, and the shift by -1 sets the last bit.
Eligibles == {AllBits, {31}} \cup {{BitOf(k)} : k \in Declared}

PrintFile(t) ==
  /\ Command
  /\ FreeSlots # {}
  /\ \E e \in Eligibles :
       jobs' = [jobs EXCEPT ![Min(FreeSlots)] =
                  [taken |-> TRUE, status |-> "CREATED", type |-> t,
                   eligible |-> e]]
  /\ UNCHANGED <<printers, nextFreeIndex, masterChildCount, mode, slot, target, sigs,
                 finished, handling, sigchld, procvars>>

\* enable and disable, whatever the printer is doing.
SetPrinter(k, status) ==
  /\ Command
  /\ printers' = [printers EXCEPT ![k].status = status]
  /\ UNCHANGED <<jobs, nextFreeIndex, masterChildCount, mode, slot, target, sigs,
                 finished, handling, sigchld, procvars>>

\* pause, resume and cancel look at the status of the job, then send signals.
SignalCommand(i, status, signals) ==
  /\ MainAt("ready")
  /\ jobs[i].taken /\ jobs[i].status = status
  /\ mpc' = "signal" /\ target' = i /\ sigs' = signals
  /\ raced' = [raced EXCEPT ![i] = @ \/ (status = "RUNNING" /\ Head(signals) = "TERM"
                                           /\ proc[i] = "stop")]
  /\ UNCHANGED <<jobs, printers, nextFreeIndex, masterChildCount, mode, slot,
                 finished, handling, sigchld, proc, ev, term, masked>>

Pause(i) == SignalCommand(i, "RUNNING", <<"STOP">>)
Resume(i) == SignalCommand(i, "PAUSED", <<"CONT">>)
\* What cancel sends to a paused job.  (Faulty: SIGCONT is left out.)
TermOnly == <<"TERM">>
CancelPaused == <<"TERM", "CONT">>
Cancel(i) ==
  \/ SignalCommand(i, "RUNNING", <<"TERM">>)
  \/ SignalCommand(i, "PAUSED", CancelPaused)

\* The kernel stops or continues the process and tells its parent; a report not
\* yet fetched is overwritten.
Report(i, state, event) ==
  /\ proc' = [proc EXCEPT ![i] = state]
  /\ ev' = [ev EXCEPT ![i] = event]
  /\ sigchld' = TRUE
  /\ UNCHANGED masked

\* killpg(getpgid(jobToMasterId[i]), ...): nothing happens to a process that has
\* ended, reaped or not.
KillPg ==
  LET i == target IN
  /\ MainAt("signal") /\ sigs # <<>>
  /\ sigs' = Tail(sigs)
  /\ \/ /\ Head(sigs) = "STOP" /\ proc[i] = "run"
        /\ Report(i, "stop", "stopped")
        /\ raced' = [raced EXCEPT ![i] = @ \/ term[i]]
        /\ UNCHANGED term
     \/ /\ Head(sigs) = "CONT" /\ proc[i] = "stop"
        /\ Report(i, "run", "continued") /\ UNCHANGED <<term, raced>>
     \/ /\ Head(sigs) = "TERM" /\ proc[i] \in {"run", "stop"}
        /\ term' = [term EXCEPT ![i] = TRUE]
        /\ UNCHANGED <<proc, ev, masked, raced, sigchld>>
     \/ /\ Head(sigs) # "TERM" => proc[i] # (IF Head(sigs) = "STOP" THEN "run" ELSE "stop")
        /\ Head(sigs) = "TERM" => proc[i] \notin {"run", "stop"}
        /\ UNCHANGED <<procvars, sigchld>>
  /\ UNCHANGED <<jobs, printers, nextFreeIndex, masterChildCount, mode, mpc, slot,
                 target, finished, handling>>

SignalsSent ==
  /\ MainAt("signal") /\ sigs = <<>>
  /\ mpc' = "after" /\ target' = NoJob
  /\ UNCHANGED <<jobs, printers, nextFreeIndex, masterChildCount, mode, slot, sigs,
                 finished, handling, sigchld, procvars>>

\* quit, or the end of the input of interactive mode.  In batch mode quit is
\* still followed by a scan.
Quit ==
  /\ MainAt("ready")
  /\ finished' = TRUE
  /\ mpc' = IF mode = "batch" THEN "after" ELSE "quit"
  /\ UNCHANGED <<jobs, printers, nextFreeIndex, masterChildCount, mode, slot, target,
                 sigs, handling, sigchld, procvars>>

\* The end of the batch file: main calls run_cli again, on stdin.
EndOfBatch ==
  /\ MainAt("ready") /\ mode = "batch"
  /\ mode' = "interactive" /\ mpc' = "after"
  /\ UNCHANGED <<jobs, printers, nextFreeIndex, masterChildCount, slot, target, sigs,
                 finished, handling, sigchld, procvars>>

-----------------------------------------------------------------------------
(* scanJobs, deleteJobs *)

ScanBegin ==
  /\ MainAt("after")
  /\ mpc' = "scan" /\ slot' = 0
  /\ UNCHANGED <<jobs, printers, nextFreeIndex, masterChildCount, mode, target, sigs,
                 finished, handling, sigchld, procvars>>

\* The bit scanJobs tests for printer k: it shifts by k a mask that was shifted
\* before.  (Past the last bit the mask is 0.)
TestedBit(k) == (k * (k + 1)) \div 2

\* scanJobs may give job i to printer k.  (Faulty: a printer that was enabled
\* again while it works is taken for idle.)
IdleByStatus(k) == printers[k].status = "IDLE"
Idle(k) == printers[k].status = "IDLE" /\ printers[k].jobIndex = NoJob
Usable(i, k) ==
  /\ TestedBit(k) \in jobs[i].eligible
  /\ Idle(k)
  /\ <<jobs[i].type, printers[k].type>> \in Convertible

\* Fork the master process of job i, for printer k.  (The type of a job is read
\* only while it is queued, its printers until it ends: then they are cleared.)
Start(i, k) ==
  /\ printers' = [printers EXCEPT ![k].status = "BUSY", ![k].jobIndex = i]
  /\ jobs' = [jobs EXCEPT ![i].status = "RUNNING", ![i].type = AType]
  /\ masterChildCount' = masterChildCount + 1
  /\ proc' = [proc EXCEPT ![i] = "run"]
  /\ masked' = [masked EXCEPT ![i] = mode = "interactive"]
  /\ UNCHANGED <<ev, term, raced>>

\* One turn of scanJobs: the first printer that can be used.
ScanJob ==
  /\ MainAt("scan") /\ slot < MaxJobs
  /\ LET queued == jobs[slot].taken /\ jobs[slot].status = "CREATED"
         ready == {k \in Declared : Usable(slot, k)}
     IN \/ /\ queued /\ ready # {}
           /\ Start(slot, Min(ready))
        \/ /\ ~(queued /\ ready # {})
           /\ UNCHANGED <<jobs, printers, masterChildCount, procvars>>
  /\ slot' = slot + 1
  /\ UNCHANGED <<nextFreeIndex, mode, mpc, target, sigs, finished, handling, sigchld>>

ScanEnd ==
  /\ MainAt("scan") /\ slot = MaxJobs
  /\ mpc' = "delete" /\ slot' = 0
  /\ UNCHANGED <<jobs, printers, nextFreeIndex, masterChildCount, mode, target,
                 sigs, finished, handling, sigchld, procvars>>

\* deleteJobs: those that ended ten seconds ago, which may be any of them.
DeleteJobs ==
  /\ MainAt("delete")
  /\ \E old \in SUBSET {i \in Slots : jobs[i].status \in {"FINISHED", "ABORTED"}} :
       jobs' = [i \in Slots |-> IF i \in old
                                THEN [jobs[i] EXCEPT !.taken = FALSE, !.status = "DELETED"]
                                ELSE jobs[i]]
  /\ mpc' = IF finished THEN "quit" ELSE "ready"
  /\ UNCHANGED <<printers, nextFreeIndex, masterChildCount, mode, slot, target, sigs,
                 finished, handling, sigchld, procvars>>

-----------------------------------------------------------------------------
(* After quit: while(masterChildCount != 0) sigsuspend(&suspendMask) *)

TestCount ==
  /\ MainAt("quit")
  /\ mpc' = IF masterChildCount # 0 THEN "tested" ELSE "exit"
  /\ UNCHANGED <<jobs, printers, nextFreeIndex, masterChildCount, mode, slot, target,
                 sigs, finished, handling, sigchld, procvars>>

Suspend ==
  /\ MainAt("tested")
  /\ mpc' = "suspend"
  /\ UNCHANGED <<jobs, printers, nextFreeIndex, masterChildCount, mode, slot, target,
                 sigs, finished, handling, sigchld, procvars>>

-----------------------------------------------------------------------------
(* masterSigHandler *)

\* scanJobs blocks signals, and sf_readline around the hook too.
Blocked == mpc = "scan" \/ (mpc = "delete" /\ mode = "interactive")

HandlerStart ==
  /\ sigchld /\ ~handling /\ ~Blocked /\ mpc # "exit"
  /\ handling' = TRUE /\ sigchld' = FALSE
  /\ UNCHANGED <<jobs, printers, nextFreeIndex, masterChildCount, mainvars, procvars>>

\* A printer whose job ended: idle, unless it was disabled meanwhile.
Released(p) ==
  [p EXCEPT !.jobIndex = NoJob, !.status = IF @ = "DISABLED" THEN @ ELSE "IDLE"]

\* The status of a job whose master process was reaped: any exit status counts
\* as success.
Outcome(state) == IF state = "killed" THEN "ABORTED" ELSE "FINISHED"

\* masterChildCount without one that was reaped.  (Faulty: not counted.)
NotCounted(n) == n
MasterGone(n) == n - 1

\* waitpid reports that the master process of job i has ended.
ReapEnded(i) ==
  /\ handling /\ ev[i] = "ended"
  /\ jobs' = [jobs EXCEPT ![i].status = Outcome(proc[i]), ![i].eligible = {}]
  /\ printers' = [k \in PrinterIds |-> IF printers[k].jobIndex = i
                                       THEN Released(printers[k]) ELSE printers[k]]
  /\ masterChildCount' = MasterGone(masterChildCount)
  /\ proc' = [proc EXCEPT ![i] = "none"]
  /\ ev' = [ev EXCEPT ![i] = "none"]
  /\ term' = [term EXCEPT ![i] = FALSE]
  /\ masked' = [masked EXCEPT ![i] = FALSE]
  /\ raced' = [raced EXCEPT ![i] = FALSE]
  /\ UNCHANGED <<nextFreeIndex, mainvars, handling, sigchld>>

\* The status of a job whose processes were stopped or continued.  (Faulty: the
\* report that they were continued is not looked for.)
AlwaysPaused(event) == "PAUSED"
StatusAfter(event) == IF event = "stopped" THEN "PAUSED" ELSE "RUNNING"

\* waitpid reports that it was stopped or continued.
ReapStopped(i) ==
  /\ handling /\ ev[i] \in {"stopped", "continued"}
  /\ jobs' = [jobs EXCEPT ![i].status = StatusAfter(ev[i])]
  /\ ev' = [ev EXCEPT ![i] = "none"]
  /\ UNCHANGED <<printers, nextFreeIndex, masterChildCount, mainvars, handling, sigchld,
                 proc, term, masked, raced>>

\* waitpid has nothing to report: the handler returns.
NothingToReap == \A i \in Slots : ev[i] = "none"

\* Where main goes on: pselect and sigsuspend are interrupted.  (Faulty: no hook
\* was given to sf_readline, and nothing is scanned after a signal.)
NoHook == IF mpc = "suspend" THEN "quit" ELSE mpc
Resumed ==
  CASE mpc = "suspend" -> "quit"
    [] mpc = "ready" /\ mode = "interactive" -> "after"
    [] OTHER -> mpc

HandlerEnd ==
  /\ handling /\ NothingToReap
  /\ handling' = FALSE
  /\ mpc' = Resumed
  /\ UNCHANGED <<jobs, printers, nextFreeIndex, masterChildCount, mode, slot, target,
                 sigs, finished, sigchld, procvars>>

-----------------------------------------------------------------------------
(* The master processes *)

Ends(i, how) ==
  /\ Report(i, how, "ended")
  /\ UNCHANGED <<jobs, printers, nextFreeIndex, masterChildCount, mainvars, handling, term, raced>>

\* It exits, with any status, or dies on its own.
ProcExit(i) ==
  /\ proc[i] = "run"
  /\ \E how \in {"exited", "killed"} : Ends(i, how)

\* SIGTERM kills it, unless it is stopped or runs with all signals blocked, as
\* one forked in the hook of sf_readline does.
ProcTerm(i) ==
  /\ proc[i] = "run" /\ term[i] /\ ~masked[i]
  /\ Ends(i, "killed")

-----------------------------------------------------------------------------
MainStep ==
  \/ KillPg \/ SignalsSent \/ ScanBegin \/ ScanJob \/ ScanEnd \/ DeleteJobs
  \/ TestCount \/ Suspend

HandlerStep ==
  \/ HandlerStart \/ HandlerEnd
  \/ \E i \in Slots : ReapEnded(i) \/ ReapStopped(i)

Input ==
  \/ OtherCommand \/ Quit \/ EndOfBatch
  \/ \E t \in Types : Printer(t) \/ PrintFile(t)
  \/ \E k \in Declared, s \in {"IDLE", "DISABLED"} : SetPrinter(k, s)
  \/ \E i \in Slots : Pause(i) \/ Resume(i) \/ Cancel(i)

Next ==
  /\ mpc # "exit"
  /\ \/ Input \/ MainStep \/ HandlerStep
     \/ \E i \in Slots : ProcExit(i) \/ ProcTerm(i)

Spec == Init /\ [][Next]_vars

\* The spooler runs, a pending signal is delivered once it is not blocked, which
\* may be only now and then, and a signal that can kill does.
\* Nothing is assumed of the input, nor of how long a pipeline runs.
FairSpec ==
  /\ Spec
  /\ WF_vars(MainStep)
  /\ WF_vars(HandlerStep) /\ SF_vars(HandlerStart)
  /\ \A i \in Slots : WF_vars(ProcTerm(i))

-----------------------------------------------------------------------------
(* Properties *)

Statuses == {"CREATED", "RUNNING", "PAUSED", "FINISHED", "ABORTED", "DELETED"}

TypeOK ==
  /\ jobs \in [Slots -> [taken : BOOLEAN, status : Statuses, type : Types,
                         eligible : SUBSET AllBits]]
  /\ printers \in [PrinterIds -> [status : {"DISABLED", "IDLE", "BUSY"}, type : Types,
                                  jobIndex : Slots \cup {NoJob}]]
  /\ nextFreeIndex \in 0..MaxPrinters
  /\ masterChildCount \in Nat
  /\ mode \in {"batch", "interactive"}
  /\ mpc \in {"ready", "signal", "after", "scan", "delete", "quit", "tested",
              "suspend", "exit"}
  /\ slot \in 0..MaxJobs
  /\ target \in Slots \cup {NoJob}
  /\ sigs \in Seq({"STOP", "CONT", "TERM"})
  /\ finished \in BOOLEAN /\ handling \in BOOLEAN /\ sigchld \in BOOLEAN
  /\ proc \in [Slots -> {"none", "run", "stop", "exited", "killed"}]
  /\ ev \in [Slots -> {"none", "stopped", "continued", "ended"}]
  /\ term \in [Slots -> BOOLEAN]
  /\ masked \in [Slots -> BOOLEAN]
  /\ raced \in [Slots -> BOOLEAN]

WorkingOn(i) == {k \in PrinterIds : printers[k].jobIndex = i}
InHand(i) == jobs[i].taken /\ jobs[i].status \in {"RUNNING", "PAUSED"}

\* The three tables agree at every point where a signal may come: a job runs or
\* is paused exactly when one printer, no more, points to it and it has a master
\* process not yet reaped, and masterChildCount is the number of these.  So no
\* printer is given a second job, the handler always finds job and printer, and
\* quit waits for neither too many nor too few.
TablesAgree ==
  /\ TypeOK
  /\ \A i \in Slots :
       /\ InHand(i) <=> proc[i] # "none"
       /\ Cardinality(WorkingOn(i)) = IF InHand(i) THEN 1 ELSE 0
  /\ masterChildCount = Cardinality({i \in Slots : proc[i] # "none"})
  /\ \A k \in PrinterIds : printers[k].status = "BUSY" => printers[k].jobIndex # NoJob

\* Once every report has been fetched, a job is called paused exactly when its
\* processes are stopped, whatever was overwritten on the way.
PausedMeansStopped ==
  \A i \in Slots : ev[i] = "none" => (jobs[i].status = "PAUSED" <=> proc[i] = "stop")

\* While the spooler waits for the user and no signal is outstanding, no queued
\* job could be started: a printer that became free, or was enabled, or declared,
\* is not left idle.
NothingStartable ==
  (MainAt("ready") /\ mode = "interactive" /\ ~sigchld) =>
    \A i \in Slots : (jobs[i].taken /\ jobs[i].status = "CREATED") =>
      ~ \E k \in Declared : Usable(i, k)

\* A job that was sent SIGTERM ends, except in two cases: its processes were
\* forked with all signals blocked, or they are stopped by a pause that the spooler
\* had not yet noticed when it decided against SIGCONT, or that came right after.
CancelledEnds ==
  \A i \in Slots : term[i] ~> (~term[i] \/ masked[i] \/ (proc[i] = "stop" /\ raced[i]))

\* The last SIGCHLD came between the test of masterChildCount and sigsuspend.
Missed == mpc = "suspend" /\ masterChildCount = 0 /\ ~sigchld /\ ~handling

\* If every pipeline that is not stopped ends, quit ends the spooler, unless that
\* signal was missed or a job was left paused.
QuitTerminates ==
  (\A i \in Slots : WF_vars(ProcExit(i))) =>
    ((mpc = "quit") ~> (mpc = "exit" \/ Missed \/ \E i \in Slots : proc[i] = "stop"))

-----------------------------------------------------------------------------
(* What the assignment says and the code does not do: TLC refutes it. *)

\* Doc/README.md: "Only a printer in the set of eligible printers for a job should
\* be used for printing that jobs."
EligibleOnly ==
  \A i \in Slots : \A k \in WorkingOn(i) : BitOf(k) \in jobs[i].eligible
=============================================================================
