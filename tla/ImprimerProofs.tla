--------------------------- MODULE ImprimerProofs ---------------------------
(***************************************************************************)
(* Proofs about Imprimer, for any number of jobs, up to 32 printers and    *)
(* any file types: the three tables agree, a job is called paused exactly  *)
(* when its processes are stopped, and no job that could be started is     *)
(* left waiting.                                                           *)
(*                                                                         *)
(* The first two rest on Jobs, which relates the status of a job, its      *)
(* master process and the report waitpid has of it, and on Printers, which *)
(* says that the pointers from printers to jobs are one to one.  The third *)
(* rests on Scanned: what scanJobs has passed over stays passed over,      *)
(* since no signal is handled until the spooler waits for input.           *)
(***************************************************************************)
EXTENDS Imprimer, FiniteSetTheorems, WellFoundedInduction, TLAPS

-----------------------------------------------------------------------------
\* The least of some numbers, which Min chooses, is one of them: a free slot, a
\* printer.
LEMMA HasLeast ==
  ASSUME NEW S, S \subseteq Nat, S # {}
  PROVE  Min(S) \in S
<1>1. IsWellFoundedOn(OpToRel(<, Nat), Nat)
  BY NatLessThanWellFounded
<1>2. PICK x \in S : \A y \in S : ~(<<y, x>> \in OpToRel(<, Nat))
  BY <1>1, WFMin
<1>3. \A y \in S : ~(y < x)
  BY <1>2 DEF OpToRel
<1>4. \A y \in S : x <= y
  BY <1>3
<1> QED  BY <1>4 DEF Min

-----------------------------------------------------------------------------
\* A job is in hand exactly when it has a master process; a report tells what
\* that process did last, and when there is none the status is up to date.
JobAt(i) ==
  /\ InHand(i) <=> proc[i] # "none"
  /\ jobs[i].status \in {"RUNNING", "PAUSED"} => jobs[i].taken
  /\ ev[i] = "ended" <=> proc[i] \in {"exited", "killed"}
  /\ ev[i] = "stopped" => proc[i] = "stop"
  /\ ev[i] = "continued" => proc[i] = "run"
  /\ ev[i] = "none" => (jobs[i].status = "PAUSED" <=> proc[i] = "stop")

Jobs == \A i \in Slots : JobAt(i)

\* Printers and jobs in hand point to each other, one to one.
Printers ==
  /\ \A k \in PrinterIds :
       /\ printers[k].status = "BUSY" => printers[k].jobIndex # NoJob
       /\ printers[k].jobIndex # NoJob => k < nextFreeIndex
       /\ printers[k].jobIndex # NoJob => proc[printers[k].jobIndex] # "none"
       /\ \A l \in PrinterIds :
            (printers[k].jobIndex = printers[l].jobIndex /\ printers[k].jobIndex # NoJob)
              => k = l
  /\ \A i \in Slots : proc[i] # "none" => \E k \in PrinterIds : printers[k].jobIndex = i

\* The jobs that masterChildCount counts.
Started == {i \in Slots : proc[i] # "none"}
Counted == masterChildCount = Cardinality(Started)

\* What the control point of main implies.
Control ==
  /\ mpc = "signal" => target \in Slots
  /\ (mpc = "scan" \/ (mpc = "delete" /\ mode = "interactive")) => ~handling

\* Job i waits for a printer, and one is there.
Startable(i) ==
  /\ jobs[i].taken /\ jobs[i].status = "CREATED"
  /\ \E k \in Declared : Usable(i, k)

\* The jobs main has scanned since the tables last changed.
Passed ==
  IF mpc = "scan" THEN {i \in Slots : i < slot}
  ELSE IF mpc \in {"delete", "ready"} /\ mode = "interactive" /\ ~handling
  THEN Slots ELSE {}
Scanned == \A i \in Passed : ~Startable(i)

IInv == TypeOK /\ Jobs /\ Printers /\ Counted /\ Control /\ Scanned

-----------------------------------------------------------------------------
(* The steps *)

-----------------------------------------------------------------------------
(* The steps *)

\* Facts about the slots, the printers and a type that every step uses.
LEMMA Ranges ==
  /\ NoJob \notin Slots /\ Slots \subseteq Nat /\ 0 \in Slots
  /\ AType \in Types
  /\ TypeOK => Declared \subseteq PrinterIds /\ Eligibles \subseteq SUBSET AllBits
  /\ IsFiniteSet(Slots) /\ IsFiniteSet(PrinterIds)
<1>1. NoJob \notin Slots /\ Slots \subseteq Nat /\ 0 \in Slots
  BY MaxJobsAssumption DEF NoJob, Slots
<1>2. AType \in Types
  BY TypesAssumption DEF AType
<1>3. ASSUME TypeOK  PROVE Declared \subseteq PrinterIds /\ Eligibles \subseteq SUBSET AllBits
  <2>1. Declared \subseteq PrinterIds
    BY <1>3, MaxPrintersAssumption DEF TypeOK, Declared, PrinterIds
  <2>2. PrinterIds \subseteq AllBits
    BY MaxPrintersAssumption DEF PrinterIds, AllBits
  <2>3. 31 \in AllBits
    BY DEF AllBits
  <2> QED  BY <2>1, <2>2, <2>3 DEF Eligibles, BitOf
<1>4. IsFiniteSet(Slots) /\ IsFiniteSet(PrinterIds)
  BY MaxJobsAssumption, MaxPrintersAssumption, FS_Interval DEF Slots, PrinterIds
<1> QED  BY <1>1, <1>2, <1>3, <1>4

\* pause, resume and cancel are one action, with its arguments.
LEMMA Signalling ==
  ASSUME NEW i \in Slots, Pause(i) \/ Resume(i) \/ Cancel(i)
  PROVE  \E s \in {"RUNNING", "PAUSED"} : \E signals \in Seq({"STOP", "CONT", "TERM"}) :
           SignalCommand(i, s, signals)
<1>1. /\ <<"STOP">> \in Seq({"STOP", "CONT", "TERM"})
      /\ <<"CONT">> \in Seq({"STOP", "CONT", "TERM"})
      /\ <<"TERM">> \in Seq({"STOP", "CONT", "TERM"})
      /\ <<"TERM", "CONT">> \in Seq({"STOP", "CONT", "TERM"})
  OBVIOUS
<1> QED  BY <1>1 DEF Pause, Resume, Cancel, CancelPaused

\* Where print puts a job: in a slot whose job is not in hand.
LEMMA FreeSlot ==
  ASSUME FreeSlots # {}
  PROVE  Min(FreeSlots) \in FreeSlots /\ Min(FreeSlots) \in Slots
<1>1. FreeSlots \subseteq Slots
  BY DEF FreeSlots
<1>2. IsFiniteSet(FreeSlots) /\ FreeSlots \subseteq Nat
  BY <1>1, Ranges, FS_Subset
<1> QED  BY <1>1, <1>2, HasLeast

\* What a turn of scanJobs does: job i is given to a printer k that can do it, or
\* there is none.
Given(i, k) ==
  /\ jobs[i].taken /\ jobs[i].status = "CREATED"
  /\ k \in Declared /\ k \in PrinterIds /\ Usable(i, k)
  /\ Start(i, k)

\* A turn of the scan gives the job to a printer, or finds none it could be given to.
LEMMA Turn ==
  ASSUME TypeOK, ScanJob
  PROVE  /\ slot \in Slots
         /\ \/ \E k \in PrinterIds : Given(slot, k)
            \/ /\ ~Startable(slot)
               /\ UNCHANGED <<jobs, printers, masterChildCount, procvars>>
<1> DEFINE ready == {k \in Declared : Usable(slot, k)}
           queued == jobs[slot].taken /\ jobs[slot].status = "CREATED"
<1>1. slot \in Slots
  BY MaxJobsAssumption DEF TypeOK, ScanJob, MainAt, Slots
<1>2. CASE queued /\ ready # {}
  <2>1. ready \subseteq PrinterIds /\ PrinterIds \subseteq Nat
    BY Ranges, MaxPrintersAssumption DEF PrinterIds
  <2>2. IsFiniteSet(ready)
    BY <2>1, Ranges, FS_Subset
  <2>3. Min(ready) \in ready
    <3> HIDE DEF ready
    <3> QED  BY <1>2, <2>1, <2>2, HasLeast
  <2>4. Start(slot, Min(ready))
    BY <1>2 DEF ScanJob
  <2> QED  BY <1>1, <1>2, <2>1, <2>3, <2>4 DEF Given
<1>3. CASE ~(queued /\ ready # {})
  BY <1>1, <1>3 DEF ScanJob, Startable
<1> QED  BY <1>2, <1>3, <1>1

-----------------------------------------------------------------------------
(* What the larger actions do to the tables *)

JobSet == [taken : BOOLEAN, status : Statuses, type : Types, eligible : SUBSET AllBits]
PrinterSet == [status : {"DISABLED", "IDLE", "BUSY"}, type : Types,
               jobIndex : Slots \cup {NoJob}]

\* The tables are tables of such records.
LEMMA Tables ==
  /\ TypeOK => jobs \in [Slots -> JobSet] /\ printers \in [PrinterIds -> PrinterSet]
  /\ Statuses \subseteq {"CREATED", "RUNNING", "PAUSED", "FINISHED", "ABORTED", "DELETED"}
BY DEF TypeOK, JobSet, PrinterSet, Statuses

\* print fills a slot whose job is not in hand.
LEMMA PrintEffect ==
  ASSUME TypeOK, NEW t \in Types, PrintFile(t)
  PROVE  /\ jobs' \in [Slots -> JobSet]
         /\ \E i \in Slots : /\ ~InHand(i)
                             /\ jobs'[i].taken /\ jobs'[i].status = "CREATED"
                             /\ \A j \in Slots : j # i => jobs'[j] = jobs[j]
<1>1. /\ Min(FreeSlots) \in Slots /\ Min(FreeSlots) \in FreeSlots
      /\ ~InHand(Min(FreeSlots))
  BY FreeSlot DEF PrintFile, FreeSlots, InHand
<1>2. PICK e \in Eligibles :
        jobs' = [jobs EXCEPT ![Min(FreeSlots)] =
                   [taken |-> TRUE, status |-> "CREATED", type |-> t, eligible |-> e]]
  BY DEF PrintFile
<1>3. e \in SUBSET AllBits
  BY Ranges
<1>4. [taken |-> TRUE, status |-> "CREATED", type |-> t, eligible |-> e] \in JobSet
  BY <1>3 DEF JobSet, Statuses
<1> QED  BY <1>1, <1>2, <1>4, Tables

\* enable and disable change a status.
LEMMA SetPrinterEffect ==
  ASSUME TypeOK, NEW k, NEW s \in {"IDLE", "DISABLED"}, SetPrinter(k, s)
  PROVE  printers' \in [PrinterIds -> PrinterSet]
<1>1. printers \in [PrinterIds -> PrinterSet]
  BY Tables
<1>2. printers' = [printers EXCEPT ![k].status = s]
  BY DEF SetPrinter
<1> QED  BY <1>1, <1>2 DEF PrinterSet

\* Start sets the job running and makes the printer point to it.
LEMMA StartEffect ==
  ASSUME TypeOK, NEW i \in Slots, NEW k \in PrinterIds, Start(i, k)
  PROVE  /\ jobs' \in [Slots -> JobSet] /\ printers' \in [PrinterIds -> PrinterSet]
         /\ jobs'[i].status = "RUNNING" /\ (jobs'[i].taken <=> jobs[i].taken)
         /\ \A j \in Slots : j # i => jobs'[j] = jobs[j]
         /\ printers'[k].jobIndex = i /\ printers'[k].type = printers[k].type
         /\ printers'[k].status = "BUSY"
         /\ \A l \in PrinterIds : l # k => printers'[l] = printers[l]
<1>1. "RUNNING" \in Statuses
  BY DEF Statuses
<1>2. /\ jobs' \in [Slots -> JobSet]
      /\ jobs'[i].status = "RUNNING" /\ (jobs'[i].taken <=> jobs[i].taken)
      /\ \A j \in Slots : j # i => jobs'[j] = jobs[j]
  <2>1. jobs \in [Slots -> JobSet] /\ AType \in Types
    BY Tables, Ranges
  <2>2. jobs' = [jobs EXCEPT ![i].status = "RUNNING", ![i].type = AType]
    BY DEF Start
  <2> QED  BY <2>1, <2>2, <1>1 DEF JobSet
<1>3. /\ printers' \in [PrinterIds -> PrinterSet]
      /\ printers'[k].jobIndex = i /\ printers'[k].type = printers[k].type
      /\ printers'[k].status = "BUSY"
      /\ \A l \in PrinterIds : l # k => printers'[l] = printers[l]
  BY Tables DEF Start, PrinterSet
<1> QED  BY <1>2, <1>3

\* deleteJobs takes jobs that have ended off the table.
LEMMA DeleteEffect ==
  ASSUME TypeOK, DeleteJobs
  PROVE  /\ jobs' \in [Slots -> JobSet]
         /\ \A j \in Slots : \/ jobs'[j] = jobs[j]
                             \/ /\ jobs[j].status \in {"FINISHED", "ABORTED"}
                                /\ jobs'[j].status = "DELETED" /\ ~jobs'[j].taken
<1>1. PICK old \in SUBSET {i \in Slots : jobs[i].status \in {"FINISHED", "ABORTED"}} :
        jobs' = [i \in Slots |-> IF i \in old
                                 THEN [jobs[i] EXCEPT !.taken = FALSE, !.status = "DELETED"]
                                 ELSE jobs[i]]
  BY DEF DeleteJobs
<1>2. "DELETED" \in Statuses /\ jobs \in [Slots -> JobSet]
  BY Tables DEF Statuses
<1>3. ASSUME NEW j \in Slots
      PROVE  LET r == [jobs[j] EXCEPT !.taken = FALSE, !.status = "DELETED"]
             IN  r \in JobSet /\ r.status = "DELETED" /\ ~r.taken
  BY <1>2 DEF JobSet
<1> QED  BY <1>1, <1>2, <1>3

\* When a master process is reaped its job has ended and its printer is free.
LEMMA ReapEffect ==
  ASSUME TypeOK, NEW i \in Slots, ReapEnded(i)
  PROVE  /\ jobs' \in [Slots -> JobSet] /\ printers' \in [PrinterIds -> PrinterSet]
         /\ jobs'[i].status \in {"FINISHED", "ABORTED"}
         /\ \A j \in Slots : j # i => jobs'[j] = jobs[j]
         /\ \A k \in PrinterIds : 
              \/ printers[k].jobIndex = i /\ printers'[k].jobIndex = NoJob
                                          /\ printers'[k].status # "BUSY"
              \/ printers[k].jobIndex # i /\ printers'[k] = printers[k]
<1>1. Outcome(proc[i]) \in {"FINISHED", "ABORTED"} /\ Outcome(proc[i]) \in Statuses
  BY DEF Outcome, Statuses
<1>2. /\ jobs' \in [Slots -> JobSet]
      /\ jobs'[i].status = Outcome(proc[i])
      /\ \A j \in Slots : j # i => jobs'[j] = jobs[j]
  <2>1. jobs \in [Slots -> JobSet] /\ AType \in Types
    BY Tables, Ranges
  <2>2. jobs' = [jobs EXCEPT ![i].status = Outcome(proc[i]), ![i].eligible = {}]
    BY DEF ReapEnded
  <2> QED  BY <2>1, <2>2, <1>1 DEF JobSet
<1>3. ASSUME NEW p \in PrinterSet
      PROVE  /\ Released(p) \in PrinterSet
             /\ Released(p).jobIndex = NoJob /\ Released(p).status # "BUSY"
  BY DEF Released, PrinterSet
<1>4. printers' = [k \in PrinterIds |-> IF printers[k].jobIndex = i
                                        THEN Released(printers[k]) ELSE printers[k]]
  BY DEF ReapEnded
<1> QED  BY <1>1, <1>2, <1>3, <1>4, Tables

\* When a report that a job was stopped or continued is fetched, its status alone
\* changes.
LEMMA ReportEffect ==
  ASSUME TypeOK, NEW i \in Slots, ReapStopped(i)
  PROVE  /\ jobs' \in [Slots -> JobSet]
         /\ jobs'[i].status = StatusAfter(ev[i]) /\ (jobs'[i].taken <=> jobs[i].taken)
         /\ \A j \in Slots : j # i => jobs'[j] = jobs[j]
<1>1. StatusAfter(ev[i]) \in Statuses
  BY DEF StatusAfter, Statuses
<1> QED  BY <1>1, Tables DEF ReapStopped, JobSet

\* The jobs with a master process are finitely many.
LEMMA StartedFinite == IsFiniteSet(Started) /\ Cardinality(Started) \in Nat
<1>1. Started \subseteq Slots
  BY DEF Started
<1> QED  BY <1>1, Ranges, FS_Subset, FS_CardinalityType

\* The invariant holds when the spooler starts.
LEMMA Initially == Init => IInv
<1> SUFFICES ASSUME Init  PROVE IInv
  OBVIOUS
<1>1. TypeOK
  <2>1. jobs \in [Slots -> [taken : BOOLEAN, status : Statuses, type : Types,
                            eligible : SUBSET AllBits]]
    BY Ranges DEF Init, Statuses
  <2>2. printers \in [PrinterIds -> [status : {"DISABLED", "IDLE", "BUSY"}, type : Types,
                                     jobIndex : Slots \cup {NoJob}]]
    BY Ranges DEF Init
  <2>3. nextFreeIndex \in 0..MaxPrinters /\ slot \in 0..MaxJobs /\ masterChildCount \in Nat
    BY MaxJobsAssumption, MaxPrintersAssumption DEF Init
  <2>4. /\ mode \in {"batch", "interactive"} /\ mpc \in {"ready", "after"}
        /\ sigs \in Seq({"STOP", "CONT", "TERM"})
    BY ModesAssumption DEF Init
  <2> QED  BY <2>1, <2>2, <2>3, <2>4 DEF Init, TypeOK
<1>2. Jobs
  BY DEF Init, Jobs, JobAt, InHand
<1>3. Printers
  BY DEF Init, Printers
<1>4. Started = {}
  BY DEF Init, Started
<1>5. Counted
  BY <1>4, FS_EmptySet DEF Init, Counted
<1>6. Control
  BY DEF Init, Control
<1>7. Scanned
  BY ModesAssumption DEF Init, Scanned, Passed
<1> QED  BY <1>1, <1>2, <1>3, <1>5, <1>6, <1>7 DEF IInv

\* Types, step by step.
LEMMA TypesStep ==
  ASSUME IInv, [Next]_vars
  PROVE  TypeOK'
<1>0. TypeOK /\ Jobs /\ Printers /\ Counted /\ Control /\ Scanned
  BY DEF IInv
<1> USE Ranges, MaxJobsAssumption, MaxPrintersAssumption DEF TypeOK, Statuses,
            vars, mainvars, procvars, MainAt
<1>1. ASSUME OtherCommand  PROVE TypeOK'
  BY <1>0, <1>1 DEF OtherCommand, Command
<1>2. ASSUME Quit  PROVE TypeOK'
  BY <1>0, <1>2 DEF Quit
<1>3. ASSUME EndOfBatch  PROVE TypeOK'
  BY <1>0, <1>3 DEF EndOfBatch
<1>4. ASSUME NEW t \in Types, Printer(t)  PROVE TypeOK'
  <2>1. nextFreeIndex \in PrinterIds /\ nextFreeIndex + 1 \in 0..MaxPrinters
    BY <1>0, <1>4 DEF Printer, PrinterIds
  <2> QED  BY <1>0, <1>4, <2>1 DEF Printer, Command
<1>5. ASSUME NEW t \in Types, PrintFile(t)  PROVE TypeOK'
  BY <1>0, <1>5, FreeSlot DEF PrintFile, Command
<1>6. ASSUME NEW k \in Declared, NEW s \in {"IDLE", "DISABLED"}, SetPrinter(k, s)  PROVE TypeOK'
  <2>1. printers' \in [PrinterIds -> PrinterSet]
    BY <1>0, <1>6, SetPrinterEffect
  <2>2. UNCHANGED <<jobs, nextFreeIndex, masterChildCount, mode, slot, target, sigs,
                    finished, handling, sigchld, procvars>> /\ mpc' = "after"
    BY <1>6 DEF SetPrinter, Command
  <2> QED  BY <1>0, <2>1, <2>2 DEF PrinterSet
<1>7. ASSUME NEW i \in Slots, NEW s \in {"RUNNING", "PAUSED"},
           NEW signals \in Seq({"STOP", "CONT", "TERM"}), SignalCommand(i, s, signals)  PROVE TypeOK'
  BY <1>0, <1>7 DEF SignalCommand
<1>8. ASSUME KillPg  PROVE TypeOK'
  <2>1. target \in Slots /\ sigs' \in Seq({"STOP", "CONT", "TERM"})
    BY <1>0, <1>8 DEF KillPg, Control
  <2>2. /\ proc' \in [Slots -> {"none", "run", "stop", "exited", "killed"}]
        /\ ev' \in [Slots -> {"none", "stopped", "continued", "ended"}]
        /\ sigchld' \in BOOLEAN
    BY <1>0, <1>8, <2>1 DEF KillPg, Report
  <2>3. term' \in [Slots -> BOOLEAN] /\ masked' \in [Slots -> BOOLEAN]
    BY <1>0, <1>8, <2>1 DEF KillPg, Report
  <2>4. raced' \in [Slots -> BOOLEAN]
    BY <1>0, <1>8, <2>1 DEF KillPg, Report
  <2> QED  BY <1>0, <1>8, <2>1, <2>2, <2>3, <2>4 DEF KillPg
<1>9. ASSUME SignalsSent  PROVE TypeOK'
  BY <1>0, <1>9 DEF SignalsSent
<1>10. ASSUME ScanBegin  PROVE TypeOK'
  BY <1>0, <1>10 DEF ScanBegin
<1>11. ASSUME ScanJob  PROVE TypeOK'
  <2>1. slot' \in 0..MaxJobs /\ slot \in Slots
    BY <1>0, <1>11, Turn DEF ScanJob, Slots
  <2>2. ASSUME NEW k \in PrinterIds, Given(slot, k)  PROVE TypeOK'
    <3>1. jobs' \in [Slots -> JobSet] /\ printers' \in [PrinterIds -> PrinterSet]
      BY <1>0, <2>1, <2>2, StartEffect DEF Given
    <3>2. masterChildCount' \in Nat
      BY <1>0, <2>2 DEF Given, Start
    <3>3. /\ proc' \in [Slots -> {"none", "run", "stop", "exited", "killed"}]
          /\ masked' \in [Slots -> BOOLEAN]
      BY <1>0, <2>1, <2>2 DEF Given, Start
    <3> QED  BY <1>0, <1>11, <2>1, <2>2, <3>1, <3>2, <3>3
             DEF Given, Start, ScanJob, JobSet, PrinterSet
  <2>3. CASE UNCHANGED <<jobs, printers, masterChildCount, procvars>>
    BY <1>0, <1>11, <2>1, <2>3 DEF ScanJob
  <2> QED  BY <1>0, <1>11, <2>2, <2>3, Turn
<1>12. ASSUME ScanEnd  PROVE TypeOK'
  BY <1>0, <1>12 DEF ScanEnd
<1>13. ASSUME DeleteJobs  PROVE TypeOK'
  <2>1. jobs' \in [Slots -> JobSet]
    BY <1>0, <1>13, DeleteEffect
  <2> QED  BY <1>0, <1>13, <2>1 DEF DeleteJobs, JobSet
<1>14. ASSUME TestCount  PROVE TypeOK'
  BY <1>0, <1>14 DEF TestCount
<1>15. ASSUME Suspend  PROVE TypeOK'
  BY <1>0, <1>15 DEF Suspend
<1>16. ASSUME HandlerStart  PROVE TypeOK'
  BY <1>0, <1>16 DEF HandlerStart, Blocked
<1>17. ASSUME HandlerEnd  PROVE TypeOK'
  BY <1>0, <1>17 DEF HandlerEnd, Resumed, NothingToReap
<1>18. ASSUME NEW i \in Slots, ReapEnded(i)  PROVE TypeOK'
  <2>1. jobs' \in [Slots -> JobSet] /\ printers' \in [PrinterIds -> PrinterSet]
    BY <1>0, <1>18, ReapEffect
  <2>2. masterChildCount' \in Nat
    <3>1. i \in Started
      BY <1>0, <1>18 DEF ReapEnded, Started, Jobs, JobAt
    <3>2. IsFiniteSet(Started) /\ Cardinality(Started) \in Nat
      BY StartedFinite
    <3>3. masterChildCount # 0
      BY <1>0, <3>1, <3>2, FS_EmptySet DEF Counted
    <3> QED  BY <1>0, <1>18, <3>3 DEF ReapEnded, MasterGone
  <2>3. /\ proc' \in [Slots -> {"none", "run", "stop", "exited", "killed"}]
        /\ ev' \in [Slots -> {"none", "stopped", "continued", "ended"}]
        /\ term' \in [Slots -> BOOLEAN] /\ masked' \in [Slots -> BOOLEAN]
        /\ raced' \in [Slots -> BOOLEAN]
    BY <1>0, <1>18 DEF ReapEnded
  <2> QED  BY <1>0, <1>18, <2>1, <2>2, <2>3 DEF ReapEnded, JobSet, PrinterSet
<1>19. ASSUME NEW i \in Slots, ReapStopped(i)  PROVE TypeOK'
  <2>1. jobs' \in [Slots -> JobSet]
    BY <1>0, <1>19, ReportEffect
  <2>2. ev' \in [Slots -> {"none", "stopped", "continued", "ended"}]
    BY <1>0, <1>19 DEF ReapStopped
  <2> QED  BY <1>0, <1>19, <2>1, <2>2 DEF ReapStopped, JobSet
<1>20. ASSUME NEW i \in Slots, ProcExit(i)  PROVE TypeOK'
  BY <1>0, <1>20 DEF ProcExit, Ends, Report
<1>21. ASSUME NEW i \in Slots, ProcTerm(i)  PROVE TypeOK'
  BY <1>0, <1>21 DEF ProcTerm, Ends, Report
<1>22. CASE UNCHANGED vars
  BY <1>0, <1>22 DEF vars
<1> QED  BY Signalling, <1>1, <1>2, <1>3, <1>4, <1>5, <1>6, <1>7, <1>8, <1>9, <1>10,
            <1>11, <1>12, <1>13, <1>14, <1>15, <1>16, <1>17, <1>18, <1>19,
            <1>20, <1>21, <1>22
         DEF Next, Input, MainStep, HandlerStep

\* The status of a job, step by step.
LEMMA JobsStep ==
  ASSUME IInv, [Next]_vars
  PROVE  Jobs'
<1>0. TypeOK /\ Jobs /\ Printers /\ Counted /\ Control /\ Scanned
  BY DEF IInv
<1> USE Ranges, MaxJobsAssumption, MaxPrintersAssumption DEF TypeOK, Statuses,
            Jobs, JobAt, InHand, Control, vars, mainvars, procvars, MainAt
<1>1. ASSUME OtherCommand  PROVE Jobs'
  BY <1>0, <1>1 DEF OtherCommand, Command
<1>2. ASSUME Quit  PROVE Jobs'
  BY <1>0, <1>2 DEF Quit
<1>3. ASSUME EndOfBatch  PROVE Jobs'
  BY <1>0, <1>3 DEF EndOfBatch
<1>4. ASSUME NEW t \in Types, Printer(t)  PROVE Jobs'
  BY <1>0, <1>4 DEF Printer, Command
<1>5. ASSUME NEW t \in Types, PrintFile(t)  PROVE Jobs'
  <2>1. UNCHANGED <<proc, ev>>
    BY <1>5 DEF PrintFile
  <2>2. PICK i \in Slots : /\ ~InHand(i)
                           /\ jobs'[i].taken /\ jobs'[i].status = "CREATED"
                           /\ \A j \in Slots : j # i => jobs'[j] = jobs[j]
    BY <1>0, <1>5, PrintEffect
  <2>3. JobAt(i)'
    BY <1>0, <2>1, <2>2
  <2>4. ASSUME NEW j \in Slots, j # i  PROVE JobAt(j)'
    BY <1>0, <2>1, <2>2, <2>4
  <2> QED  BY <2>3, <2>4
<1>6. ASSUME NEW k \in Declared, NEW s \in {"IDLE", "DISABLED"}, SetPrinter(k, s)  PROVE Jobs'
  BY <1>0, <1>6 DEF SetPrinter, Command
<1>7. ASSUME NEW i \in Slots, NEW s \in {"RUNNING", "PAUSED"},
           NEW signals \in Seq({"STOP", "CONT", "TERM"}), SignalCommand(i, s, signals)  PROVE Jobs'
  BY <1>0, <1>7 DEF SignalCommand
<1>8. ASSUME KillPg  PROVE Jobs'
  BY <1>0, <1>8 DEF KillPg, Report
<1>9. ASSUME SignalsSent  PROVE Jobs'
  BY <1>0, <1>9 DEF SignalsSent
<1>10. ASSUME ScanBegin  PROVE Jobs'
  BY <1>0, <1>10 DEF ScanBegin
<1>11. ASSUME ScanJob  PROVE Jobs'
  <2>1. PICK i \in Slots : i = slot
    BY <1>0, <1>11, Turn
  <2>2. ASSUME NEW k \in PrinterIds, Given(i, k)  PROVE Jobs'
    <3>1. /\ jobs'[i].status = "RUNNING" /\ jobs'[i].taken
          /\ \A j \in Slots : j # i => jobs'[j] = jobs[j]
      BY <1>0, <2>1, <2>2, StartEffect DEF Given
    <3>2. /\ proc[i] = "none" /\ ev[i] = "none" /\ proc'[i] = "run" /\ UNCHANGED ev
          /\ \A j \in Slots : j # i => proc'[j] = proc[j]
      BY <1>0, <2>1, <2>2 DEF Given, Start
    <3>3. JobAt(i)'
      BY <3>1, <3>2
    <3>4. ASSUME NEW j \in Slots, j # i  PROVE JobAt(j)'
      BY <1>0, <3>1, <3>2, <3>4
    <3> HIDE DEF JobAt
    <3> QED  BY <3>3, <3>4
  <2>3. CASE UNCHANGED <<jobs, printers, masterChildCount, procvars>>
    BY <1>0, <2>3
  <2> QED  BY <1>0, <1>11, <2>1, <2>2, <2>3, Turn
<1>12. ASSUME ScanEnd  PROVE Jobs'
  BY <1>0, <1>12 DEF ScanEnd
<1>13. ASSUME DeleteJobs  PROVE Jobs'
  <2>1. UNCHANGED <<proc, ev>>
    BY <1>13 DEF DeleteJobs
  <2>2. ASSUME NEW j \in Slots  PROVE JobAt(j)'
    BY <1>0, <1>13, <2>1, DeleteEffect
  <2> QED  BY <2>2
<1>14. ASSUME TestCount  PROVE Jobs'
  BY <1>0, <1>14 DEF TestCount
<1>15. ASSUME Suspend  PROVE Jobs'
  BY <1>0, <1>15 DEF Suspend
<1>16. ASSUME HandlerStart  PROVE Jobs'
  BY <1>0, <1>16 DEF HandlerStart, Blocked
<1>17. ASSUME HandlerEnd  PROVE Jobs'
  BY <1>0, <1>17 DEF HandlerEnd, Resumed, NothingToReap
<1>18. ASSUME NEW i \in Slots, ReapEnded(i)  PROVE Jobs'
  <2>1. /\ proc'[i] = "none" /\ ev'[i] = "none"
        /\ \A j \in Slots : j # i => proc'[j] = proc[j] /\ ev'[j] = ev[j]
    BY <1>0, <1>18 DEF ReapEnded
  <2>2. JobAt(i)'
    BY <1>0, <1>18, <2>1, ReapEffect
  <2>3. ASSUME NEW j \in Slots, j # i  PROVE JobAt(j)'
    BY <1>0, <1>18, <2>1, <2>3, ReapEffect
  <2> QED  BY <2>2, <2>3
<1>19. ASSUME NEW i \in Slots, ReapStopped(i)  PROVE Jobs'
  <2>1. /\ UNCHANGED proc /\ ev'[i] = "none" /\ ev[i] \in {"stopped", "continued"}
        /\ \A j \in Slots : j # i => ev'[j] = ev[j]
    BY <1>0, <1>19 DEF ReapStopped
  <2>2. JobAt(i)'
    BY <1>0, <1>19, <2>1, ReportEffect DEF StatusAfter
  <2>3. ASSUME NEW j \in Slots, j # i  PROVE JobAt(j)'
    BY <1>0, <1>19, <2>1, <2>3, ReportEffect
  <2> QED  BY <2>2, <2>3
<1>20. ASSUME NEW i \in Slots, ProcExit(i)  PROVE Jobs'
  BY <1>0, <1>20 DEF ProcExit, Ends, Report
<1>21. ASSUME NEW i \in Slots, ProcTerm(i)  PROVE Jobs'
  BY <1>0, <1>21 DEF ProcTerm, Ends, Report
<1>22. CASE UNCHANGED vars
  BY <1>0, <1>22 DEF vars
<1> QED  BY Signalling, <1>1, <1>2, <1>3, <1>4, <1>5, <1>6, <1>7, <1>8, <1>9, <1>10,
            <1>11, <1>12, <1>13, <1>14, <1>15, <1>16, <1>17, <1>18, <1>19,
            <1>20, <1>21, <1>22
         DEF Next, Input, MainStep, HandlerStep

\* A step that leaves the pointers of the printers alone keeps them one to one.
LEMMA PointersKept ==
  ASSUME Printers, UNCHANGED nextFreeIndex,
         \A i \in Slots : proc'[i] = "none" <=> proc[i] = "none",
         \A k \in PrinterIds : /\ printers'[k].jobIndex = printers[k].jobIndex
                               /\ printers[k].jobIndex \in Slots \cup {NoJob}
                               /\ printers'[k].status = "BUSY" => printers[k].status = "BUSY"
  PROVE  Printers'
BY DEF Printers

\* Nor does giving an idle printer a job that has none,
LEMMA PointerSet ==
  ASSUME Printers, UNCHANGED nextFreeIndex, NEW i \in Slots, NEW k \in PrinterIds,
         proc[i] = "none", proc'[i] # "none",
         \A j \in Slots : j # i => proc'[j] = proc[j],
         NoJob \notin Slots, k < nextFreeIndex, printers[k].jobIndex = NoJob,
         printers'[k].jobIndex = i,
         \A l \in PrinterIds : l # k => printers'[l] = printers[l],
         \A l \in PrinterIds : printers[l].jobIndex \in Slots \cup {NoJob}
  PROVE  Printers'
<1>1. \A l \in PrinterIds : printers[l].jobIndex # i
  BY DEF Printers
<1>2. ASSUME NEW l \in PrinterIds
      PROVE  /\ printers'[l].status = "BUSY" => printers'[l].jobIndex # NoJob
             /\ printers'[l].jobIndex # NoJob => l < nextFreeIndex'
             /\ printers'[l].jobIndex # NoJob => proc'[printers'[l].jobIndex] # "none"
  BY <1>1 DEF Printers
<1>3. ASSUME NEW l \in PrinterIds, NEW m \in PrinterIds,
             printers'[l].jobIndex = printers'[m].jobIndex, printers'[l].jobIndex # NoJob
      PROVE  l = m
  BY <1>1, <1>3 DEF Printers
<1>4. ASSUME NEW j \in Slots, proc'[j] # "none"
      PROVE  \E l \in PrinterIds : printers'[l].jobIndex = j
  <2>1. CASE j = i
    BY <2>1
  <2>2. CASE j # i
    <3>1. PICK l \in PrinterIds : printers[l].jobIndex = j
      BY <1>4, <2>2 DEF Printers
    <3> QED  BY <2>2, <3>1
  <2> QED  BY <2>1, <2>2
<1> QED  BY <1>2, <1>3, <1>4 DEF Printers

\* nor does clearing the pointers to a job that ends.
LEMMA PointerCleared ==
  ASSUME Printers, UNCHANGED nextFreeIndex, NEW i \in Slots,
         proc[i] # "none", proc'[i] = "none",
         \A j \in Slots : j # i => proc'[j] = proc[j],
         NoJob \notin Slots,
         \A k \in PrinterIds :
           \/ printers[k].jobIndex = i /\ printers'[k].jobIndex = NoJob
                                       /\ printers'[k].status # "BUSY"
           \/ printers[k].jobIndex # i /\ printers'[k] = printers[k],
         \A l \in PrinterIds : printers[l].jobIndex \in Slots \cup {NoJob}
  PROVE  Printers'
<1>1. \A k \in PrinterIds : printers[k].jobIndex # i =>
        printers'[k].jobIndex = printers[k].jobIndex /\ printers'[k].status = printers[k].status
  OBVIOUS
<1>2. \A j \in Slots : proc'[j] # "none" => j # i /\ proc[j] # "none"
  OBVIOUS
<1> QED  BY <1>1, <1>2 DEF Printers

\* Printers and jobs in hand, step by step.
LEMMA PrintersStep ==
  ASSUME IInv, [Next]_vars
  PROVE  Printers'
<1>0. TypeOK /\ Jobs /\ Printers /\ Counted /\ Control /\ Scanned
  BY DEF IInv
<1> USE Ranges, MaxJobsAssumption, MaxPrintersAssumption DEF TypeOK, Statuses,
            Printers, Jobs, JobAt, InHand, Declared, vars, mainvars, procvars,
            MainAt
<1>1. ASSUME OtherCommand  PROVE Printers'
  BY <1>0, <1>1 DEF OtherCommand, Command
<1>2. ASSUME Quit  PROVE Printers'
  BY <1>0, <1>2 DEF Quit
<1>3. ASSUME EndOfBatch  PROVE Printers'
  BY <1>0, <1>3 DEF EndOfBatch
<1>4. ASSUME NEW t \in Types, Printer(t)  PROVE Printers'
  <2>1. nextFreeIndex \in PrinterIds /\ nextFreeIndex' = nextFreeIndex + 1
    BY <1>0, <1>4 DEF Printer, PrinterIds
  <2>2. printers[nextFreeIndex].jobIndex = NoJob
    BY <1>0, <2>1, MaxPrintersAssumption DEF PrinterIds
  <2>3. /\ printers'[nextFreeIndex].jobIndex = NoJob
        /\ printers'[nextFreeIndex].status = "DISABLED"
        /\ \A k \in PrinterIds : k # nextFreeIndex => printers'[k] = printers[k]
    BY <1>0, <2>1, <1>4 DEF Printer
  <2>4. \A k \in PrinterIds : k < nextFreeIndex => k < nextFreeIndex'
    BY <1>0, <2>1, MaxPrintersAssumption DEF PrinterIds
  <2>5. UNCHANGED proc /\ \A k \in PrinterIds : printers'[k].jobIndex = printers[k].jobIndex
    BY <1>0, <1>4, <2>2, <2>3 DEF Printer
  <2> QED  BY <1>0, <2>1, <2>3, <2>4, <2>5
<1>5. ASSUME NEW t \in Types, PrintFile(t)  PROVE Printers'
  BY <1>0, <1>5 DEF PrintFile, Command
<1>6. ASSUME NEW k \in Declared, NEW s \in {"IDLE", "DISABLED"}, SetPrinter(k, s)  PROVE Printers'
  BY <1>0, <1>6 DEF SetPrinter, Command
<1>7. ASSUME NEW i \in Slots, NEW s \in {"RUNNING", "PAUSED"},
           NEW signals \in Seq({"STOP", "CONT", "TERM"}), SignalCommand(i, s, signals)  PROVE Printers'
  BY <1>0, <1>7 DEF SignalCommand
<1>8. ASSUME KillPg  PROVE Printers'
  <2>1. \A i \in Slots : proc'[i] = "none" <=> proc[i] = "none"
    BY <1>0, <1>8 DEF KillPg, Report
  <2>2. UNCHANGED <<printers, nextFreeIndex>>
    BY <1>8 DEF KillPg
  <2>3. \A k \in PrinterIds : printers[k].jobIndex \in Slots \cup {NoJob}
    BY <1>0
  <2> HIDE DEF Printers
  <2> QED  BY <1>0, <2>1, <2>2, <2>3, PointersKept
<1>9. ASSUME SignalsSent  PROVE Printers'
  BY <1>0, <1>9 DEF SignalsSent
<1>10. ASSUME ScanBegin  PROVE Printers'
  BY <1>0, <1>10 DEF ScanBegin
<1>11. ASSUME ScanJob  PROVE Printers'
  <2>1. slot \in Slots /\ UNCHANGED nextFreeIndex
    BY <1>0, <1>11, Turn DEF ScanJob
  <2>2. ASSUME NEW k \in PrinterIds, Given(slot, k)  PROVE Printers'
    <3>1. /\ proc'[slot] = "run" /\ proc[slot] = "none"
          /\ \A j \in Slots : j # slot => proc'[j] = proc[j]
      BY <1>0, <2>1, <2>2 DEF Given, Start
    <3>2. /\ printers[k].jobIndex = NoJob /\ k < nextFreeIndex
          /\ printers'[k].jobIndex = slot
          /\ \A l \in PrinterIds : l # k => printers'[l] = printers[l]
      BY <1>0, <2>1, <2>2, StartEffect, MaxPrintersAssumption
         DEF Given, Usable, Idle, PrinterIds
    <3>3. \A l \in PrinterIds : printers[l].jobIndex \in Slots \cup {NoJob}
      BY <1>0
    <3> HIDE DEF Printers
    <3> QED  BY <1>0, <2>1, <3>1, <3>2, <3>3, PointerSet
  <2>3. CASE UNCHANGED <<jobs, printers, masterChildCount, procvars>>
    BY <1>0, <2>1, <2>3
  <2> QED  BY <1>0, <1>11, <2>2, <2>3, Turn
<1>12. ASSUME ScanEnd  PROVE Printers'
  BY <1>0, <1>12 DEF ScanEnd
<1>13. ASSUME DeleteJobs  PROVE Printers'
  BY <1>0, <1>13 DEF DeleteJobs
<1>14. ASSUME TestCount  PROVE Printers'
  BY <1>0, <1>14 DEF TestCount
<1>15. ASSUME Suspend  PROVE Printers'
  BY <1>0, <1>15 DEF Suspend
<1>16. ASSUME HandlerStart  PROVE Printers'
  BY <1>0, <1>16 DEF HandlerStart, Blocked
<1>17. ASSUME HandlerEnd  PROVE Printers'
  BY <1>0, <1>17 DEF HandlerEnd, Resumed, NothingToReap
<1>18. ASSUME NEW i \in Slots, ReapEnded(i)  PROVE Printers'
  <2>1. /\ proc'[i] = "none" /\ \A j \in Slots : j # i => proc'[j] = proc[j]
        /\ UNCHANGED nextFreeIndex
    BY <1>0, <1>18 DEF ReapEnded
  <2>2. /\ printers' \in [PrinterIds -> PrinterSet]
        /\ \A k \in PrinterIds :
             \/ printers[k].jobIndex = i /\ printers'[k].jobIndex = NoJob
                                         /\ printers'[k].status # "BUSY"
             \/ printers[k].jobIndex # i /\ printers'[k] = printers[k]
    BY <1>0, <1>18, ReapEffect
  <2>3. proc[i] # "none"
    BY <1>0, <1>18 DEF ReapEnded
  <2>4. \A l \in PrinterIds : printers[l].jobIndex \in Slots \cup {NoJob}
    BY <1>0
  <2> HIDE DEF Printers
  <2> QED  BY <1>0, <2>1, <2>2, <2>3, <2>4, PointerCleared
<1>19. ASSUME NEW i \in Slots, ReapStopped(i)  PROVE Printers'
  BY <1>0, <1>19 DEF ReapStopped, StatusAfter
<1>20. ASSUME NEW i \in Slots, ProcExit(i)  PROVE Printers'
  BY <1>0, <1>20 DEF ProcExit, Ends, Report
<1>21. ASSUME NEW i \in Slots, ProcTerm(i)  PROVE Printers'
  BY <1>0, <1>21 DEF ProcTerm, Ends, Report
<1>22. CASE UNCHANGED vars
  BY <1>0, <1>22 DEF vars
<1> QED  BY Signalling, <1>1, <1>2, <1>3, <1>4, <1>5, <1>6, <1>7, <1>8, <1>9, <1>10,
            <1>11, <1>12, <1>13, <1>14, <1>15, <1>16, <1>17, <1>18, <1>19,
            <1>20, <1>21, <1>22
         DEF Next, Input, MainStep, HandlerStep

\* What the control point of main implies, step by step.
LEMMA ControlStep ==
  ASSUME IInv, [Next]_vars
  PROVE  Control'
<1>0. TypeOK /\ Jobs /\ Printers /\ Counted /\ Control /\ Scanned
  BY DEF IInv
<1> USE Ranges, MaxJobsAssumption, MaxPrintersAssumption DEF TypeOK, Control,
            vars, mainvars, procvars, MainAt
<1>1. ASSUME OtherCommand  PROVE Control'
  BY <1>0, <1>1 DEF OtherCommand, Command
<1>2. ASSUME Quit  PROVE Control'
  BY <1>0, <1>2 DEF Quit
<1>3. ASSUME EndOfBatch  PROVE Control'
  BY <1>0, <1>3 DEF EndOfBatch
<1>4. ASSUME NEW t \in Types, Printer(t)  PROVE Control'
  BY <1>0, <1>4 DEF Printer, Command
<1>5. ASSUME NEW t \in Types, PrintFile(t)  PROVE Control'
  BY <1>0, <1>5 DEF PrintFile, Command
<1>6. ASSUME NEW k \in Declared, NEW s \in {"IDLE", "DISABLED"}, SetPrinter(k, s)  PROVE Control'
  BY <1>0, <1>6 DEF SetPrinter, Command
<1>7. ASSUME NEW i \in Slots, NEW s \in {"RUNNING", "PAUSED"},
           NEW signals \in Seq({"STOP", "CONT", "TERM"}), SignalCommand(i, s, signals)  PROVE Control'
  BY <1>0, <1>7 DEF SignalCommand
<1>8. ASSUME KillPg  PROVE Control'
  BY <1>0, <1>8 DEF KillPg, Report
<1>9. ASSUME SignalsSent  PROVE Control'
  BY <1>0, <1>9 DEF SignalsSent
<1>10. ASSUME ScanBegin  PROVE Control'
  BY <1>0, <1>10 DEF ScanBegin
<1>11. ASSUME ScanJob  PROVE Control'
  BY <1>0, <1>11 DEF ScanJob, Start
<1>12. ASSUME ScanEnd  PROVE Control'
  BY <1>0, <1>12 DEF ScanEnd
<1>13. ASSUME DeleteJobs  PROVE Control'
  BY <1>0, <1>13 DEF DeleteJobs
<1>14. ASSUME TestCount  PROVE Control'
  BY <1>0, <1>14 DEF TestCount
<1>15. ASSUME Suspend  PROVE Control'
  BY <1>0, <1>15 DEF Suspend
<1>16. ASSUME HandlerStart  PROVE Control'
  BY <1>0, <1>16 DEF HandlerStart, Blocked
<1>17. ASSUME HandlerEnd  PROVE Control'
  BY <1>0, <1>17 DEF HandlerEnd, Resumed, NothingToReap
<1>18. ASSUME NEW i \in Slots, ReapEnded(i)  PROVE Control'
  BY <1>0, <1>18 DEF ReapEnded, Outcome, Released, MasterGone
<1>19. ASSUME NEW i \in Slots, ReapStopped(i)  PROVE Control'
  BY <1>0, <1>19 DEF ReapStopped, StatusAfter
<1>20. ASSUME NEW i \in Slots, ProcExit(i)  PROVE Control'
  BY <1>0, <1>20 DEF ProcExit, Ends, Report
<1>21. ASSUME NEW i \in Slots, ProcTerm(i)  PROVE Control'
  BY <1>0, <1>21 DEF ProcTerm, Ends, Report
<1>22. CASE UNCHANGED vars
  BY <1>0, <1>22 DEF vars
<1> QED  BY Signalling, <1>1, <1>2, <1>3, <1>4, <1>5, <1>6, <1>7, <1>8, <1>9, <1>10,
            <1>11, <1>12, <1>13, <1>14, <1>15, <1>16, <1>17, <1>18, <1>19,
            <1>20, <1>21, <1>22
         DEF Next, Input, MainStep, HandlerStep

\* A step that neither starts nor reaps a master process keeps their number.
LEMMA CountKept ==
  ASSUME Counted, UNCHANGED masterChildCount,
         \A i \in Slots : proc'[i] = "none" <=> proc[i] = "none"
  PROVE  Counted'
<1>1. Started' = Started
  BY DEF Started
<1> QED  BY <1>1 DEF Counted

\* The number of master processes, step by step.
LEMMA CountedStep ==
  ASSUME IInv, [Next]_vars
  PROVE  Counted'
<1>0. TypeOK /\ Jobs /\ Printers /\ Counted /\ Control /\ Scanned
  BY DEF IInv
<1> USE DEF vars, mainvars, procvars, MainAt
<1>1. ASSUME OtherCommand  PROVE Counted'
  BY <1>0, <1>1, CountKept DEF OtherCommand, Command
<1>2. ASSUME Quit  PROVE Counted'
  BY <1>0, <1>2, CountKept DEF Quit
<1>3. ASSUME EndOfBatch  PROVE Counted'
  BY <1>0, <1>3, CountKept DEF EndOfBatch
<1>4. ASSUME NEW t \in Types, Printer(t)  PROVE Counted'
  BY <1>0, <1>4, CountKept DEF Printer, Command
<1>5. ASSUME NEW t \in Types, PrintFile(t)  PROVE Counted'
  BY <1>0, <1>5, CountKept DEF PrintFile, Command
<1>6. ASSUME NEW k \in Declared, NEW s \in {"IDLE", "DISABLED"}, SetPrinter(k, s)  PROVE Counted'
  BY <1>0, <1>6, CountKept DEF SetPrinter, Command
<1>7. ASSUME NEW i \in Slots, NEW s \in {"RUNNING", "PAUSED"},
           NEW signals \in Seq({"STOP", "CONT", "TERM"}), SignalCommand(i, s, signals)  PROVE Counted'
  BY <1>0, <1>7, CountKept DEF SignalCommand
<1>8. ASSUME KillPg  PROVE Counted'
  <2>1. UNCHANGED masterChildCount /\ \A j \in Slots : proc'[j] = "none" <=> proc[j] = "none"
    BY <1>0, <1>8 DEF KillPg, Report, TypeOK
  <2> QED  BY <1>0, <2>1, CountKept
<1>9. ASSUME SignalsSent  PROVE Counted'
  BY <1>0, <1>9, CountKept DEF SignalsSent
<1>10. ASSUME ScanBegin  PROVE Counted'
  BY <1>0, <1>10, CountKept DEF ScanBegin
<1>11. ASSUME ScanJob  PROVE Counted'
  <2>1. PICK i \in Slots : i = slot
    BY <1>0, <1>11, Turn
  <2>2. ASSUME NEW k \in PrinterIds, Given(i, k)  PROVE Counted'
    <3>1. /\ proc[i] = "none" /\ proc'[i] = "run" /\ masterChildCount' = masterChildCount + 1
          /\ \A j \in Slots : j # i => proc'[j] = proc[j]
      BY <1>0, <2>1, <2>2 DEF Given, Start, TypeOK, Jobs, JobAt, InHand
    <3>2. Started' = Started \cup {i} /\ i \notin Started
      BY <3>1 DEF Started
    <3> QED  BY <1>0, <3>1, <3>2, StartedFinite, FS_AddElement DEF Counted
  <2>3. CASE UNCHANGED <<jobs, printers, masterChildCount, procvars>>
    BY <1>0, <2>3, CountKept
  <2> QED  BY <1>0, <1>11, <2>1, <2>2, <2>3, Turn
<1>12. ASSUME ScanEnd  PROVE Counted'
  BY <1>0, <1>12, CountKept DEF ScanEnd
<1>13. ASSUME DeleteJobs  PROVE Counted'
  BY <1>0, <1>13, CountKept DEF DeleteJobs
<1>14. ASSUME TestCount  PROVE Counted'
  BY <1>0, <1>14, CountKept DEF TestCount
<1>15. ASSUME Suspend  PROVE Counted'
  BY <1>0, <1>15, CountKept DEF Suspend
<1>16. ASSUME HandlerStart  PROVE Counted'
  BY <1>0, <1>16, CountKept DEF HandlerStart, Blocked
<1>17. ASSUME HandlerEnd  PROVE Counted'
  BY <1>0, <1>17, CountKept DEF HandlerEnd, Resumed, NothingToReap
<1>18. ASSUME NEW i \in Slots, ReapEnded(i)  PROVE Counted'
  <2>1. /\ proc[i] # "none" /\ proc'[i] = "none" /\ masterChildCount' = masterChildCount - 1
        /\ \A j \in Slots : j # i => proc'[j] = proc[j]
    BY <1>0, <1>18 DEF ReapEnded, MasterGone, TypeOK, Jobs, JobAt
  <2>2. Started' = Started \ {i} /\ i \in Started
    BY <2>1 DEF Started
  <2> QED  BY <1>0, <2>1, <2>2, StartedFinite, FS_RemoveElement DEF Counted
<1>19. ASSUME NEW i \in Slots, ReapStopped(i)  PROVE Counted'
  BY <1>0, <1>19, CountKept DEF ReapStopped, StatusAfter
<1>20. ASSUME NEW i \in Slots, ProcExit(i)  PROVE Counted'
  <2>1. UNCHANGED masterChildCount /\ \A j \in Slots : proc'[j] = "none" <=> proc[j] = "none"
    BY <1>0, <1>20 DEF ProcExit, Ends, Report, TypeOK
  <2> QED  BY <1>0, <2>1, CountKept
<1>21. ASSUME NEW i \in Slots, ProcTerm(i)  PROVE Counted'
  <2>1. UNCHANGED masterChildCount /\ \A j \in Slots : proc'[j] = "none" <=> proc[j] = "none"
    BY <1>0, <1>21 DEF ProcTerm, Ends, Report, TypeOK
  <2> QED  BY <1>0, <2>1, CountKept
<1>22. CASE UNCHANGED vars
  BY <1>0, <1>22, CountKept
<1> QED  BY Signalling, <1>1, <1>2, <1>3, <1>4, <1>5, <1>6, <1>7, <1>8, <1>9, <1>10,
            <1>11, <1>12, <1>13, <1>14, <1>15, <1>16, <1>17, <1>18, <1>19,
            <1>20, <1>21, <1>22
         DEF Next, Input, MainStep, HandlerStep

\* What a job waits for is in the tables.
LEMMA StartableKept ==
  ASSUME UNCHANGED <<jobs, printers, nextFreeIndex>>, NEW i \in Slots
  PROVE  Startable(i)' = Startable(i)
BY DEF Startable, Usable, Idle, Declared

\* A step that leaves the tables alone, and after which main has scanned no more.
LEMMA ScannedKept ==
  ASSUME Scanned, Passed' \subseteq Passed, UNCHANGED <<jobs, printers, nextFreeIndex>>
  PROVE  Scanned'
<1>1. Passed \subseteq Slots
  BY DEF Passed
<1> QED  BY <1>1, StartableKept DEF Scanned

\* No job that was scanned can be started, step by step.
LEMMA ScannedStep ==
  ASSUME IInv, [Next]_vars
  PROVE  Scanned'
<1>0. TypeOK /\ Jobs /\ Printers /\ Counted /\ Control /\ Scanned
  BY DEF IInv
<1> USE DEF vars, mainvars, procvars, MainAt
<1>1. ASSUME OtherCommand  PROVE Scanned'
  <2>1. Passed' = {}
    BY <1>0, <1>1 DEF OtherCommand, Command, Passed
  <2> QED  BY <2>1 DEF Scanned
<1>2. ASSUME Quit  PROVE Scanned'
  <2>1. Passed' = {}
    BY <1>0, <1>2 DEF Quit, Passed
  <2> QED  BY <2>1 DEF Scanned
<1>3. ASSUME EndOfBatch  PROVE Scanned'
  <2>1. Passed' = {}
    BY <1>0, <1>3 DEF EndOfBatch, Passed
  <2> QED  BY <2>1 DEF Scanned
<1>4. ASSUME NEW t \in Types, Printer(t)  PROVE Scanned'
  <2>1. Passed' = {}
    BY <1>0, <1>4 DEF Printer, Command, Passed
  <2> QED  BY <2>1 DEF Scanned
<1>5. ASSUME NEW t \in Types, PrintFile(t)  PROVE Scanned'
  <2>1. Passed' = {}
    BY <1>0, <1>5 DEF PrintFile, Command, Passed
  <2> QED  BY <2>1 DEF Scanned
<1>6. ASSUME NEW k \in Declared, NEW s \in {"IDLE", "DISABLED"}, SetPrinter(k, s)  PROVE Scanned'
  <2>1. Passed' = {}
    BY <1>0, <1>6 DEF SetPrinter, Command, Passed
  <2> QED  BY <2>1 DEF Scanned
<1>7. ASSUME NEW i \in Slots, NEW s \in {"RUNNING", "PAUSED"},
           NEW signals \in Seq({"STOP", "CONT", "TERM"}), SignalCommand(i, s, signals)  PROVE Scanned'
  <2>1. Passed' = {}
    BY <1>0, <1>7 DEF SignalCommand, Passed
  <2> QED  BY <2>1 DEF Scanned
<1>8. ASSUME KillPg  PROVE Scanned'
  <2>1. Passed' = {}
    BY <1>0, <1>8 DEF KillPg, Passed
  <2> QED  BY <2>1 DEF Scanned
<1>9. ASSUME SignalsSent  PROVE Scanned'
  <2>1. Passed' = {}
    BY <1>0, <1>9 DEF SignalsSent, Passed
  <2> QED  BY <2>1 DEF Scanned
<1>10. ASSUME ScanBegin  PROVE Scanned'
  <2>1. Passed' = {j \in Slots : j < 0}
    BY <1>10 DEF ScanBegin, Passed
  <2>2. \A j \in Slots : ~(j < 0)
    BY Ranges
  <2> QED  BY <2>1, <2>2 DEF Scanned
<1>11. ASSUME ScanJob  PROVE Scanned'
  <2>1. PICK i \in Slots : i = slot
    BY <1>0, <1>11, Turn
  <2>2. \A j \in Passed' : j \in Slots /\ (j = i \/ j \in Passed)
    <3>1. Passed = {j \in Slots : j < slot} /\ Passed' = {j \in Slots : j < slot + 1}
      BY <1>11 DEF ScanJob, Passed
    <3>2. \A j \in Slots : j < slot + 1 => j < slot \/ j = slot
      BY <2>1, Ranges
    <3> QED  BY <2>1, <3>1, <3>2
  <2>3. ASSUME NEW k \in PrinterIds, Given(i, k)  PROVE Scanned'
    <3>1. /\ jobs'[i].status = "RUNNING"
          /\ \A j \in Slots : j # i => jobs'[j] = jobs[j]
          /\ printers'[k].status = "BUSY"
          /\ \A l \in PrinterIds : l # k => printers'[l] = printers[l]
          /\ UNCHANGED nextFreeIndex
      BY <1>0, <2>1, <2>3, <1>11, StartEffect DEF Given, ScanJob
    <3>2. ASSUME NEW j \in Slots, j # i, Startable(j)'  PROVE Startable(j)
      BY <1>0, <3>1, <3>2, Ranges DEF Startable, Usable, Idle, Declared
    <3>3. ~Startable(i)'
      BY <3>1 DEF Startable
    <3> QED  BY <1>0, <2>2, <3>2, <3>3 DEF Scanned
  <2>4. CASE UNCHANGED <<jobs, printers>> /\ ~Startable(i)
    <3>1. UNCHANGED nextFreeIndex
      BY <1>11 DEF ScanJob
    <3> QED  BY <1>0, <2>2, <2>4, <3>1, StartableKept DEF Scanned
  <2> QED  BY <1>0, <1>11, <2>1, <2>3, <2>4, Turn
<1>12. ASSUME ScanEnd  PROVE Scanned'
  <2>1. Passed' \subseteq Passed /\ UNCHANGED <<jobs, printers, nextFreeIndex>>
    BY <1>0, <1>12, Ranges, MaxJobsAssumption DEF ScanEnd, TypeOK, Passed, Slots
  <2> QED  BY <1>0, <2>1, ScannedKept
<1>13. ASSUME DeleteJobs  PROVE Scanned'
  <2>1. Passed' \subseteq Passed /\ Passed \subseteq Slots
    BY <1>0, <1>13 DEF DeleteJobs, Passed
  <2>2. UNCHANGED <<printers, nextFreeIndex>>
    BY <1>13 DEF DeleteJobs
  <2>3. ASSUME NEW j \in Slots, Startable(j)'  PROVE Startable(j)
    <3>1. jobs'[j] = jobs[j]
      BY <1>0, <1>13, <2>3, DeleteEffect DEF Startable
    <3> QED  BY <2>2, <2>3, <3>1 DEF Startable, Usable, Idle, Declared
  <2> QED  BY <1>0, <2>1, <2>3 DEF Scanned
<1>14. ASSUME TestCount  PROVE Scanned'
  <2>1. Passed' = {}
    BY <1>0, <1>14 DEF TestCount, Passed
  <2> QED  BY <2>1 DEF Scanned
<1>15. ASSUME Suspend  PROVE Scanned'
  <2>1. Passed' = {}
    BY <1>0, <1>15 DEF Suspend, Passed
  <2> QED  BY <2>1 DEF Scanned
<1>16. ASSUME HandlerStart  PROVE Scanned'
  <2>1. Passed' \subseteq Passed /\ UNCHANGED <<jobs, printers, nextFreeIndex>>
    BY <1>0, <1>16, Ranges, MaxJobsAssumption DEF HandlerStart, Blocked, Passed, Slots
  <2> QED  BY <1>0, <2>1, ScannedKept
<1>17. ASSUME HandlerEnd  PROVE Scanned'
  <2>1. Passed' = {}
    BY <1>0, <1>17 DEF HandlerEnd, Resumed, Control, Passed
  <2> QED  BY <2>1 DEF Scanned
<1>18. ASSUME NEW i \in Slots, ReapEnded(i)  PROVE Scanned'
  <2>1. Passed' = {}
    BY <1>0, <1>18 DEF ReapEnded, Passed, Control
  <2> QED  BY <2>1 DEF Scanned
<1>19. ASSUME NEW i \in Slots, ReapStopped(i)  PROVE Scanned'
  <2>1. Passed' = {}
    BY <1>0, <1>19 DEF ReapStopped, Passed, Control
  <2> QED  BY <2>1 DEF Scanned
<1>20. ASSUME NEW i \in Slots, ProcExit(i)  PROVE Scanned'
  <2>1. Passed' \subseteq Passed /\ UNCHANGED <<jobs, printers, nextFreeIndex>>
    BY <1>0, <1>20, Ranges, MaxJobsAssumption DEF ProcExit, Ends, Report, Passed, Slots
  <2> QED  BY <1>0, <2>1, ScannedKept
<1>21. ASSUME NEW i \in Slots, ProcTerm(i)  PROVE Scanned'
  <2>1. Passed' \subseteq Passed /\ UNCHANGED <<jobs, printers, nextFreeIndex>>
    BY <1>0, <1>21, Ranges, MaxJobsAssumption DEF ProcTerm, Ends, Report, Passed, Slots
  <2> QED  BY <1>0, <2>1, ScannedKept
<1>22. CASE UNCHANGED vars
  <2>1. Passed' \subseteq Passed /\ UNCHANGED <<jobs, printers, nextFreeIndex>>
    BY <1>22 DEF Passed
  <2> QED  BY <1>0, <2>1, ScannedKept
<1> QED  BY Signalling, <1>1, <1>2, <1>3, <1>4, <1>5, <1>6, <1>7, <1>8, <1>9, <1>10,
            <1>11, <1>12, <1>13, <1>14, <1>15, <1>16, <1>17, <1>18, <1>19,
            <1>20, <1>21, <1>22
         DEF Next, Input, MainStep, HandlerStep

-----------------------------------------------------------------------------
(* The theorems *)

\* The inductive invariant: the tables of jobs and printers, what waitpid would
\* report, and what scanJobs has gone through.
THEOREM Invariance == Spec => []IInv
<1>1. IInv /\ [Next]_vars => IInv'
  BY TypesStep, JobsStep, PrintersStep, CountedStep, ControlStep, ScannedStep DEF IInv
<1> QED  BY Initially, <1>1, PTL DEF Spec

\* The inductive invariant says of the set of printers that work on a job that it
\* has one element when the job is in hand and none otherwise.
LEMMA OnePrinter ==
  ASSUME IInv, NEW i \in Slots
  PROVE  Cardinality(WorkingOn(i)) = IF InHand(i) THEN 1 ELSE 0
<1>0. TypeOK /\ Jobs /\ Printers
  BY DEF IInv
<1>1. i # NoJob /\ (InHand(i) <=> proc[i] # "none")
  BY <1>0, Ranges DEF Jobs, JobAt
<1>2. CASE InHand(i)
  <2>1. PICK k \in PrinterIds : printers[k].jobIndex = i
    BY <1>0, <1>1, <1>2 DEF Printers
  <2>2. WorkingOn(i) = {k}
    BY <1>0, <1>1, <2>1 DEF Printers, WorkingOn
  <2> QED  BY <1>2, <2>2, FS_Singleton
<1>3. CASE ~InHand(i)
  <2>1. WorkingOn(i) = {}
    BY <1>0, <1>1, <1>3 DEF Printers, WorkingOn
  <2> QED  BY <1>3, <2>1, FS_EmptySet
<1> QED  BY <1>2, <1>3

\* cli.c: whenever a signal may come, a job runs or is paused exactly when one
\* printer points to it and it has a master process not yet reaped, and
\* masterChildCount is the number of these processes.
THEOREM TablesInAgreement == Spec => []TablesAgree
<1>1. IInv => TablesAgree
  BY OnePrinter DEF IInv, TablesAgree, Jobs, JobAt, Printers, Counted, Started
<1> QED  BY Invariance, <1>1, PTL

\* masterSigHandler: once every report has been fetched, a job is called paused
\* exactly when its processes are stopped.
THEOREM StatusOfStopped == Spec => []PausedMeansStopped
<1>1. IInv => PausedMeansStopped
  BY DEF IInv, PausedMeansStopped, Jobs, JobAt
<1> QED  BY Invariance, <1>1, PTL

\* scanJobs: while the spooler waits for the user with no signal outstanding, no
\* queued job could be started.
THEOREM NoneLeftWaiting == Spec => []NothingStartable
<1>1. IInv => NothingStartable
  BY DEF IInv, NothingStartable, Scanned, Passed, Startable, MainAt
<1> QED  BY Invariance, <1>1, PTL
=============================================================================
