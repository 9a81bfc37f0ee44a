----------------------- MODULE BenchmarkPromiseProofs -------------------------
(***************************************************************************)
(* That the program implements BenchmarkRuns, and what a screen shows when *)
(* the work is over: none is left busy, and the newest run's results,      *)
(* button and file are there.                                              *)
(***************************************************************************)
EXTENDS BenchmarkActivityProofs, WellFoundedInduction, Integers

------------------------------------------------------------------------------
(* The results of a run are those of the benchmarks its loop has passed.   *)

ResultsInv ==
    \A r \in Runs :
        /\ taskPc[r] \in {"none", "queued"} => taskAt[r] = 1
        /\ taskPc[r] \in {"none", "queued", "lost"} => results[r] = {}
        /\ taskPc[r] \in {"publishStarted", "passes", "put"} => results[r] = 1 .. (taskAt[r] - 1)
        /\ taskPc[r] = "publishFinished" => results[r] = 1 .. taskAt[r]
        /\ taskPc[r] = "done" => results[r] = Benchmarks

\* The file is written to as it was created, and for the run exported last.
WriteInv == uiPc = "csvWrite" => csv = EmptyFile

LastReport(r) == [run |-> r, bench |-> NBench]

\* When a run's task is over, no report of it or of an earlier run is left
\* without its last one behind, unless that one is in hand, as one of an end.
LastInv ==
    \A r \in Runs : taskPc[r] = "done" =>
        /\ \A i \in 1 .. Len(looper) : looper[i].run <= r =>
              \E j \in i .. Len(looper) : looper[j] = LastReport(r)
        /\ uiPc \notin {"dead", "idle"} /\ uiMsg.run <= r =>
              \/ \E j \in 1 .. Len(looper) : looper[j] = LastReport(r)
              \/ uiMsg = LastReport(r) /\ uiPc # "callStarted"

\* The run in a living screen's field reports to that screen.
FieldInv ==
    \A a \in Activities : life[a] = "live" /\ executor[a] # NoRun =>
        listener[executor[a]] = a /\ taskPc[executor[a]] # "lost"

\* A busy screen has its run's last report ahead.
BusyInv ==
    \A a \in Activities : life[a] = "live" /\ (~enabled[a] \/ status[a] # Idle) =>
        \E r \in Runs : executor[a] = r /\ LastReportAhead(r)

\* The last report of the run in the screen's field is answered with all of
\* its results.
ShownInv ==
    uiPc \in {"showResults", "checkComplete"} /\ uiMsg = LastReport(executor[uiAct]) =>
        IF uiPc = "showResults" THEN uiSeen = Benchmarks ELSE shown[uiAct] = Benchmarks

\* Once its run's last report is answered, a screen has every result, and the
\* export of that run is ahead, under way or over.
Rested(a) ==
    /\ shown[a] = Benchmarks
    /\ \/ uiPc = "csvDelete" /\ uiAct = a
       \/ /\ exported = executor[a]
          /\ toast # "none" \/ uiPc \in {"csvBuild", "csvCreate", "csvWrite"}

RestInv ==
    \A a \in Activities, r \in Runs :
        life[a] = "live" /\ executor[a] = r /\ taskPc[r] = "done" /\ ~LastReportAhead(r)
          => Rested(a)

LEMMA ResultsNext == TypeInv /\ TaskInv /\ ResultsInv /\ [Next]_vars => ResultsInv'
<1> SUFFICES ASSUME TypeInv, TaskInv, ResultsInv, [Next]_vars PROVE ResultsInv'
  OBVIOUS
<1>t. /\ results \in [Runs -> SUBSET Benchmarks]
      /\ taskPc \in [Runs -> TaskPcs]
      /\ taskAt \in [Runs -> Benchmarks]
      /\ Benchmarks = 1 .. NBench /\ NBench \in Nat
  BY NBenchAssumption DEF TypeInv, TypeOK, Benchmarks
<1>1. ASSUME NEW r \in Runs, BackgroundStep(r) PROVE ResultsInv'
  <2>1. CASE ScheduleNext(r)
    <3>1. taskAt[r] = 1 /\ results[r] = {}
      BY <2>1 DEF ScheduleNext, ResultsInv
    <3>2. results[r] = 1 .. (taskAt[r] - 1)
      BY <3>1
    <3> QED BY <3>2, <2>1, <1>t DEF ScheduleNext, ResultsInv
  <2>4. CASE PublishStarted(r) \/ RunPasses(r)
    BY <2>4, <1>t DEF PublishStarted, RunPasses, ResultsInv
  <2>2. CASE PutResults(r)
    <3>1. results[r] = 1 .. (taskAt[r] - 1) /\ taskAt[r] \in 1 .. NBench
      BY <2>2, <1>t DEF PutResults, ResultsInv
    <3>2. results'[r] = 1 .. taskAt[r]
      BY <3>1, <2>2, <1>t DEF PutResults
    <3> QED BY <3>2, <2>2, <1>t DEF PutResults, ResultsInv
  <2>3. CASE PublishFinished(r)
    <3>1. results[r] = 1 .. taskAt[r] /\ taskAt[r] \in 1 .. NBench /\ results' = results
      BY <2>3, <1>t DEF PublishFinished, ResultsInv
    <3>2. CASE taskAt[r] < NBench /\ taskAt' = [taskAt EXCEPT ![r] = @ + 1]
                 /\ taskPc' = [taskPc EXCEPT ![r] = "publishStarted"]
      <4>1. taskAt'[r] = taskAt[r] + 1 /\ taskAt'[r] - 1 = taskAt[r]
        BY <3>1, <3>2, <1>t
      <4> QED BY <4>1, <3>1, <3>2, <1>t DEF ResultsInv
    <3>3. CASE taskAt[r] = NBench /\ taskPc' = [taskPc EXCEPT ![r] = "done"] /\ UNCHANGED taskAt
      BY <3>1, <3>3, <1>t DEF ResultsInv
    <3> QED BY <3>2, <3>3, <2>3 DEF PublishFinished, NextBenchmark
  <2> QED BY <1>1, <2>1, <2>2, <2>3, <2>4 DEF BackgroundStep
<1>2. ASSUME NEW a \in Activities, Start(a) PROVE ResultsInv'
  <2>1. /\ lastRun' = lastRun + 1 /\ lastRun' \in Runs
        /\ results' = [results EXCEPT ![lastRun'] = {}]
        /\ taskPc' = [taskPc EXCEPT ![lastRun'] = "queued"]
        /\ UNCHANGED taskAt
    BY <1>2 DEF Start, Execute
  <2>2. taskPc[lastRun'] = "none"
    BY <2>1 DEF TaskInv, TypeInv, TypeOK
  <2> QED BY <2>1, <2>2, <1>t DEF ResultsInv
<1>3. CASE ProcessDies
  BY <1>3, <1>t DEF ProcessDies, ResultsInv
<1>4. CASE UNCHANGED <<lastRun, results, taskPc, taskAt>>
  BY <1>4 DEF ResultsInv
<1> QED BY <1>1, <1>2, <1>3, <1>4, TaskMovers

LEMMA WriteNext == WriteInv /\ [Next]_vars => WriteInv'
<1> SUFFICES ASSUME WriteInv, [Next]_vars PROVE WriteInv'
  OBVIOUS
<1> USE DEF WriteInv, uiVars, fileVars
<1>1. CASE UNCHANGED vars
  BY <1>1 DEF vars
<1>2. ASSUME NEW r \in Runs, BackgroundStep(r) PROVE WriteInv'
  BY <1>2 DEF BackgroundStep, ScheduleNext, PublishStarted, RunPasses, PutResults, PublishFinished
<1>3. ASSUME ProcessDies PROVE WriteInv'
  BY <1>3 DEF ProcessDies
<1>4. CASE UpdateStep \/ \E a \in Activities : Start(a)
  BY <1>4 DEF UpdateStep, OnProgressUpdate, ContainsKey, Start
<1>5. CASE CallbackStep
  BY <1>5, <1>3 DEF CallbackStep, NullListener, OnBenchmarkStarted, OnBenchmarkFinished,
                    ShowResults, CheckComplete, GenerateResults, CsvDelete, CsvBuild, CsvCreate,
                    CsvWrite, UiReturns
<1>6. CASE PlatformStep \/ \E r \in Runs : PassThrows(r)
  BY <1>6, <1>3 DEF PlatformStep, Kill, PassThrows, Launch, Destroy, Collect
<1> QED BY <1>1, <1>2, <1>4, <1>5, <1>6 DEF Next
------------------------------------------------------------------------------
(* The program implements BenchmarkRuns.                                   *)

Measured(r) == Cardinality(results[r])

\* How many benchmarks of a run are measured, by where its task stands.
LEMMA MeasuredByTask ==
  ASSUME TypeInv, ResultsInv, NEW r \in Runs
  PROVE  /\ taskPc[r] \in {"none", "queued", "lost"} => Measured(r) = 0
         /\ taskPc[r] = "put" => Measured(r) = taskAt[r] - 1
         /\ taskPc[r] = "done" => Measured(r) = NBench
<1>t. taskAt[r] \in 1 .. NBench /\ NBench \in Nat /\ 1 \in Int /\ Benchmarks = 1 .. NBench
  BY NBenchAssumption DEF TypeInv, TypeOK, Benchmarks
<1>1. CASE taskPc[r] \in {"none", "queued", "lost"}
  BY <1>1, FS_EmptySet DEF ResultsInv, Measured
<1>2. CASE taskPc[r] = "put"
  <2>1. results[r] = 1 .. (taskAt[r] - 1) /\ taskAt[r] - 1 \in Int
    BY <1>2, <1>t DEF ResultsInv
  <2>2. Measured(r) = IF 1 > taskAt[r] - 1 THEN 0 ELSE (taskAt[r] - 1) - 1 + 1
    BY <2>1, <1>t, FS_Interval DEF Measured
  <2> QED BY <2>2, <1>2, <1>t
<1>3. CASE taskPc[r] = "done"
  <2>1. results[r] = 1 .. NBench /\ NBench \in Int /\ 1 \in Int
    BY <1>3, <1>t DEF ResultsInv
  <2>2. Measured(r) = IF 1 > NBench THEN 0 ELSE NBench - 1 + 1
    BY <2>1, FS_Interval DEF Measured
  <2> QED BY <2>2, <1>3, NBenchAssumption
<1> QED BY <1>1, <1>2, <1>3

PromiseInv ==
    /\ TypeInv /\ TaskInv /\ ResultsInv
    /\ CsvInv /\ WriteInv
    /\ ScreenInv /\ OrderInv /\ ExportInv

\* Only the put of a benchmark's results measures; it is the next of its run,
\* the runs before are over, and no later one has begun.
LEMMA PutMeasures ==
  ASSUME PromiseInv, PromiseInv', NEW r \in Runs, PutResults(r), UNCHANGED exported
  PROVE  Abstract!Measure(r)
<1>t. /\ results \in [Runs -> SUBSET Benchmarks] /\ Runs \subseteq Nat
      /\ taskPc \in [Runs -> TaskPcs]
      /\ taskAt[r] \in 1 .. NBench /\ NBench \in Nat
  BY NBenchAssumption DEF PromiseInv, TypeInv, TypeOK, Benchmarks, Runs
<1>p. /\ taskPc[r] = "put"
      /\ results' = [results EXCEPT ![r] = @ \cup {taskAt[r]}]
      /\ UNCHANGED csv
  BY DEF PutResults, fileVars
<1>1. Measured(r) = taskAt[r] - 1
  BY <1>p, MeasuredByTask DEF PromiseInv
<1>2. results'[r] = 1 .. taskAt[r]
  <2>1. results[r] = 1 .. (taskAt[r] - 1)
    BY <1>p DEF PromiseInv, ResultsInv
  <2> QED BY <2>1, <1>p, <1>t
<1>3. Cardinality(results'[r]) = Measured(r) + 1
  <2>1. Cardinality(results'[r]) = IF 1 > taskAt[r] THEN 0 ELSE taskAt[r] - 1 + 1
    <3>1. 1 \in Int /\ taskAt[r] \in Int
      BY <1>t
    <3> QED BY <1>2, <3>1, FS_Interval
  <2> QED BY <2>1, <1>1, <1>t
<1>4. ASSUME NEW q \in Runs, q < r PROVE Measured(q) \in {0, NBench}
  <2>1. taskPc[q] \in {"done", "lost"}
    BY <1>4, <1>p DEF PromiseInv, TaskInv, WorkingPcs
  <2> QED BY <2>1, MeasuredByTask DEF PromiseInv
<1>5. ASSUME NEW q \in Runs, q > r PROVE Measured(q) = 0
  <2>1. r < q /\ taskPc[r] \notin {"done", "lost"}
    BY <1>5, <1>p, <1>t
  <2>2. taskPc[q] \notin WorkingPcs \cup {"done"}
    BY <2>1 DEF PromiseInv, TaskInv
  <2>3. taskPc[q] \in {"none", "queued", "lost"}
    BY <2>2, <1>t DEF TaskPcs
  <2> QED BY <2>3, MeasuredByTask DEF PromiseInv
<1>6. Measured(r) # NBench
  BY <1>1, <1>t
<1>7. [q \in Runs |-> Cardinality(results'[q])]
        = [[q \in Runs |-> Cardinality(results[q])] EXCEPT ![r] = @ + 1]
  <2>1. \A q \in Runs : q # r => results'[q] = results[q]
    BY <1>p, <1>t
  <2> QED BY <2>1, <1>3 DEF Measured
<1> QED
  BY <1>p, <1>4, <1>5, <1>6, <1>7 DEF Abstract!Measure, Abstract!Complete, Abstract!Runs, Runs, Measured

\* While generateCSV runs, the run it exports counts as complete.
LEMMA ExportedIsComplete ==
  ASSUME PromiseInv, uiPc \in CsvPcs
  PROVE  executor[uiAct] \in Abstract!Runs /\ Abstract!Complete(executor[uiAct])
<1>1. executor[uiAct] \in Runs /\ results[executor[uiAct]] = Benchmarks
  BY HandledRun DEF PromiseInv, CsvInv, CsvPcs, CallbackPcs
<1>2. Cardinality(Benchmarks) = NBench
  <2>1. 1 \in Int /\ NBench \in Int /\ NBench >= 1
    BY NBenchAssumption
  <2> QED BY <2>1, FS_Interval DEF Benchmarks
<1> QED BY <1>1, <1>2 DEF Abstract!Complete, Abstract!Runs, Runs

\* The end of the process keeps no results, and of the file what it was, or,
\* in the middle of a write, some of the rows.
LEMMA DeathDies ==
  ASSUME PromiseInv, ProcessDies,
         \/ UNCHANGED csv
         \/ /\ uiPc = "csvWrite"
            /\ \E rows \in SUBSET uiSeen :
                  csv' = [file |-> "data", run |-> executor[uiAct], rows |-> rows]
  PROVE  Abstract!Die
<1>1. [q \in Runs |-> Cardinality(results'[q])] = [q \in Runs |-> 0]
  BY FS_EmptySet DEF ProcessDies
<1>2. UNCHANGED exported
  BY DEF ProcessDies, historyVars
<1>3. CASE UNCHANGED csv
  BY <1>1, <1>2, <1>3 DEF Abstract!Die, Abstract!Runs, Runs
<1>4. CASE /\ uiPc = "csvWrite"
           /\ \E rows \in SUBSET uiSeen :
                 csv' = [file |-> "data", run |-> executor[uiAct], rows |-> rows]
  <2>1. exported = executor[uiAct] /\ csv.file = "empty" /\ uiSeen = 1 .. NBench
    BY <1>4 DEF PromiseInv, CsvInv, CsvPcs, WriteInv, EmptyFile, Benchmarks
  <2>2. exported \in Abstract!Runs /\ Abstract!Complete(exported)
    BY <2>1, <1>4, ExportedIsComplete DEF CsvPcs
  <2> QED BY <1>1, <1>2, <1>4, <2>1, <2>2 DEF Abstract!Die, Abstract!Written, Abstract!Runs, Runs
<1> QED BY <1>3, <1>4

\* Every step of the program is a step of BenchmarkRuns or none of its business.
LEMMA PromiseStep ==
  PromiseInv /\ PromiseInv' /\ [Next]_vars => [Abstract!Next]_(Abstract!vars)
<1> SUFFICES ASSUME PromiseInv, PromiseInv', [Next]_vars PROVE [Abstract!Next]_(Abstract!vars)
  OBVIOUS
<1> USE DEF taskVars, uiVars, fileVars, screenVars, historyVars
<1>0. ASSUME UNCHANGED <<results, exported, csv>> PROVE [Abstract!Next]_(Abstract!vars)
  BY <1>0 DEF Abstract!vars
<1>1. CASE UNCHANGED vars
  BY <1>1, <1>0 DEF vars
<1>2. ASSUME NEW r \in Runs, BackgroundStep(r) PROVE [Abstract!Next]_(Abstract!vars)
  <2>1. CASE ScheduleNext(r) \/ PublishStarted(r) \/ RunPasses(r) \/ PublishFinished(r)
    BY <1>2, <2>1, <1>0 DEF BackgroundStep, ScheduleNext, PublishStarted, RunPasses, PublishFinished
  <2>2. CASE PutResults(r)
    <3>1. Abstract!Measure(r) /\ r \in Abstract!Runs
      BY <1>2, <2>2, PutMeasures DEF BackgroundStep, Abstract!Runs, Runs
    <3> QED BY <3>1 DEF Abstract!Next
  <2> QED BY <1>2, <2>1, <2>2 DEF BackgroundStep
<1>3. CASE Kill \/ NullListener \/ \E r \in Runs : PassThrows(r)
  <2>1. Abstract!Die
    BY <1>3, DeathDies DEF Kill, NullListener, PassThrows
  <2> QED BY <2>1 DEF Abstract!Next
<1>4. ASSUME NEW a \in Activities, Start(a) PROVE [Abstract!Next]_(Abstract!vars)
  <2>1. /\ lastRun' = lastRun + 1 /\ lastRun' \in Runs
        /\ results' = [results EXCEPT ![lastRun'] = {}]
        /\ UNCHANGED <<exported, csv>>
    BY <1>4 DEF Start, Execute
  <2>2. results[lastRun'] = {} /\ results \in [Runs -> SUBSET Benchmarks]
    BY <2>1 DEF PromiseInv, ResultsInv, TaskInv, TypeInv, TypeOK
  <2>3. results' = results
    BY <2>1, <2>2
  <2> QED BY <2>1, <2>3, <1>0
<1>5. CASE UpdateStep
  BY <1>5, <1>0 DEF UpdateStep, OnProgressUpdate, ContainsKey
<1>6. CASE OnBenchmarkStarted \/ OnBenchmarkFinished \/ ShowResults \/ CheckComplete
  BY <1>6, <1>0 DEF OnBenchmarkStarted, OnBenchmarkFinished, ShowResults, CheckComplete
<1>7. CASE CsvDelete /\ exported' = executor[uiAct] /\ UNCHANGED <<life, screenVars, reported>>
  <2>1. executor[uiAct] \in Abstract!Runs /\ Abstract!Complete(executor[uiAct])
    BY <1>7, ExportedIsComplete DEF CsvDelete, CsvPcs
  <2>2. exported <= executor[uiAct]
    BY <1>7, ExportedNext DEF CsvDelete, PromiseInv
  <2>3. exported \in Nat /\ executor[uiAct] \in Nat
    BY <2>1 DEF PromiseInv, TypeInv, TypeOK, Runs, NoRun, Abstract!Runs
  <2>4. Abstract!Remove(executor[uiAct])
    BY <1>7, <2>1, <2>2, <2>3 DEF CsvDelete, NoFile, NoRun, Abstract!Remove
  <2> QED BY <2>1, <2>4 DEF Abstract!Next
<1>8. CASE CsvBuild(executor[uiAct]) /\ UNCHANGED <<life, screenVars, historyVars>>
  BY <1>8, <1>0 DEF CsvBuild
<1>9. CASE CsvCreate /\ UNCHANGED <<life, screenVars, historyVars>>
  <2>1. CASE UNCHANGED csv
    BY <1>9, <2>1, <1>0 DEF CsvCreate
  <2>2. CASE csv' = EmptyFile
    <3>1. Abstract!Create
      BY <1>9, <2>2 DEF CsvCreate, EmptyFile, NoRun, Abstract!Create
    <3> QED BY <3>1 DEF Abstract!Next
  <2> QED BY <1>9, <2>1, <2>2 DEF CsvCreate
<1>10. CASE CsvWrite(executor[uiAct]) /\ UNCHANGED <<life, screenVars, historyVars>>
  <2>1. exported = executor[uiAct] /\ csv.file = "empty" /\ uiSeen = 1 .. NBench
    BY <1>10 DEF CsvWrite, PromiseInv, CsvInv, CsvPcs, WriteInv, EmptyFile, Benchmarks
  <2>2. exported \in Abstract!Runs /\ Abstract!Complete(exported)
    BY <2>1, <1>10, ExportedIsComplete DEF CsvWrite, CsvPcs
  <2>3. \E rows \in SUBSET (1 .. NBench) : csv' = [file |-> "data", run |-> exported, rows |-> rows]
    BY <2>1, <1>10 DEF CsvWrite
  <2>4. Abstract!Write
    BY <1>10, <2>1, <2>2, <2>3 DEF CsvWrite, Abstract!Write, Abstract!Written
  <2> QED BY <2>4 DEF Abstract!Next
<1>11. CASE \E a \in Activities : Launch(a) \/ Destroy(a) \/ Collect(a)
  BY <1>11, <1>0 DEF Launch, Destroy, Collect
<1> QED
  BY <1>1, <1>2, <1>3, <1>4, <1>5, <1>6, <1>7, <1>8, <1>9, <1>10, <1>11
     DEF Next, CallbackStep, GenerateResults, PlatformStep

\* Whatever the threads, screens and messages do, runs are measured one after
\* the other, and the file is only given complete runs, in their order.
THEOREM KeepsPromise == Spec => Promise
<1>1. Init => PromiseInv
  <2>1. Init => TypeInv /\ TaskInv
    BY TypeInit DEF Init, ExecutorInit, TaskInv, Runs, WorkingPcs
  <2>2. Init => ResultsInv /\ CsvInv /\ WriteInv
    BY DEF Init, ExecutorInit, ResultsInv, CsvInv, CsvPcs, AnnouncedCsvIsComplete, WriteInv
  <2>3. Init => ScreenInv /\ OrderInv /\ ExportInv
    BY DEF Init, ExecutorInit, ScreenInv, OrderInv, ExportInv, NoRun, NoActivity
  <2> QED BY <2>1, <2>2, <2>3 DEF PromiseInv
<1>r. Init => ReportInv
  BY DEF Init, ExecutorInit, ReportInv, NoStartAfterFinish
<1>2. PromiseInv /\ ReportInv /\ [Next]_vars => PromiseInv' /\ ReportInv'
  BY TypeNext, TaskNext, ReportNext, ResultsNext, CsvNext, WriteNext, ScreenNext, OrderNext,
     ExportNext DEF PromiseInv
<1>3. Init => Abstract!Init
  BY FS_EmptySet DEF Init, ExecutorInit, NoFile, NoRun, Abstract!Init, Abstract!Runs, Runs
<1>4. PromiseInv /\ PromiseInv' /\ [Next]_vars => [Abstract!Next]_(Abstract!vars)
  BY PromiseStep
<1> QED BY <1>1, <1>r, <1>2, <1>3, <1>4, PTL DEF Spec, Promise, Abstract!Spec
------------------------------------------------------------------------------
(* A run's last report comes last.                                         *)

LEMMA LastNext == TypeInv /\ TaskInv /\ ResultsInv /\ LastInv /\ [Next]_vars => LastInv'
<1> SUFFICES ASSUME TypeInv, TaskInv, ResultsInv, LastInv, [Next]_vars PROVE LastInv'
  OBVIOUS
<1> USE DEF taskVars, uiVars
<1>t. /\ Runs \subseteq Nat
      /\ taskPc \in [Runs -> TaskPcs]
      /\ looper \in Seq(Messages)
      /\ \A m \in Messages : m.run \in Runs
      /\ uiPc \notin {"dead", "idle"} => uiMsg \in Messages
  BY DEF TypeInv, TypeOK, HandlerInv, Runs, Messages
<1>0. ASSUME \A r \in Runs : taskPc'[r] = "done" => taskPc[r] = "done",
             UNCHANGED looper,
             uiPc' \notin {"dead", "idle"} =>
               /\ uiPc \notin {"dead", "idle"} /\ uiMsg' = uiMsg
               /\ uiPc' = "callStarted" => uiPc = "callStarted"
      PROVE  LastInv'
  BY <1>0 DEF LastInv, LastReport
<1>1. CASE UNCHANGED vars
  BY <1>1, <1>0 DEF vars
<1>2. ASSUME NEW r \in Runs, BackgroundStep(r) PROVE LastInv'
  <2>1. CASE ScheduleNext(r) \/ RunPasses(r) \/ PutResults(r)
    BY <2>1, <1>0, <1>t DEF ScheduleNext, RunPasses, PutResults
  <2>2. CASE PublishStarted(r) \/ PublishFinished(r)
    <3>1. /\ UNCHANGED <<uiPc, uiMsg>>
          /\ Working(r) /\ PublishProgress(r)
          /\ \A q \in Runs : q # r => taskPc'[q] = taskPc[q]
          /\ taskPc'[r] = "done" => taskAt[r] = NBench
      BY <2>2, <1>t DEF PublishStarted, PublishFinished, NextBenchmark, Working, WorkingPcs
    <3>2. \A i \in 1 .. Len(looper') :
             IF i \in 1 .. Len(looper)
             THEN looper'[i] = looper[i]
             ELSE i = Len(looper) + 1 /\ looper'[i].run = r
      BY <3>1, <1>t DEF PublishProgress
    <3>3. /\ Len(looper) \in Nat /\ Len(looper') = Len(looper) + 1
          /\ looper'[Len(looper')] = [run |-> r, bench |-> taskAt[r]]
      BY <3>1, <1>t DEF PublishProgress
    <3>4. ASSUME NEW q \in Runs, taskPc'[q] = "done", q # r PROVE taskPc[q] = "done" /\ ~(r <= q)
      <4>1. taskPc[q] = "done"
        BY <3>1, <3>4
      <4>2. ~(r < q)
        BY <4>1, <3>1 DEF TaskInv, Working, WorkingPcs
      <4> QED BY <4>1, <4>2, <3>4, <1>t
    <3>5. ASSUME NEW q \in Runs, taskPc'[q] = "done", NEW i \in 1 .. Len(looper'), looper'[i].run <= q
          PROVE  \E j \in i .. Len(looper') : looper'[j] = LastReport(q)
      <4>1. CASE q = r
        <5>1. looper'[Len(looper')] = LastReport(q) /\ Len(looper') \in i .. Len(looper')
          BY <4>1, <3>1, <3>3, <3>5 DEF LastReport
        <5> QED BY <5>1
      <4>2. CASE q # r
        <5>1. taskPc[q] = "done" /\ ~(r <= q)
          BY <4>2, <3>4, <3>5
        <5>2. i \in 1 .. Len(looper) /\ looper[i].run <= q
          BY <5>1, <3>2, <3>5
        <5>3. PICK j \in i .. Len(looper) : looper[j] = LastReport(q)
          BY <5>1, <5>2 DEF LastInv
        <5>4. j \in i .. Len(looper') /\ looper'[j] = LastReport(q)
          BY <5>2, <5>3, <3>2, <3>3
        <5> QED BY <5>4
      <4> QED BY <4>1, <4>2
    <3>6. ASSUME NEW q \in Runs, taskPc'[q] = "done", uiPc' \notin {"dead", "idle"}, uiMsg'.run <= q
          PROVE  \/ \E j \in 1 .. Len(looper') : looper'[j] = LastReport(q)
                 \/ uiMsg' = LastReport(q) /\ uiPc' # "callStarted"
      <4>1. CASE q = r
        <5>1. looper'[Len(looper')] = LastReport(q) /\ Len(looper') \in 1 .. Len(looper')
          BY <4>1, <3>1, <3>3, <3>6 DEF LastReport
        <5> QED BY <5>1
      <4>2. CASE q # r
        <5>1. \/ \E j \in 1 .. Len(looper) : looper[j] = LastReport(q)
              \/ uiMsg = LastReport(q) /\ uiPc # "callStarted"
          BY <4>2, <3>1, <3>4, <3>6 DEF LastInv
        <5> QED BY <5>1, <3>1, <3>2, <3>3
      <4> QED BY <4>1, <4>2
    <3> QED BY <3>5, <3>6 DEF LastInv, LastReport
  <2> QED BY <1>2, <2>1, <2>2 DEF BackgroundStep
<1>3. ASSUME ProcessDies PROVE LastInv'
  BY <1>3, <1>t DEF ProcessDies, LastInv
<1>4. ASSUME NEW a \in Activities, Start(a) PROVE LastInv'
  BY <1>4, <1>0, <1>t DEF Start, Execute
<1>5. CASE OnProgressUpdate
  <2>1. /\ Head(looper) = looper[1] /\ 1 \in 1 .. Len(looper) /\ Len(looper') = Len(looper) - 1
        /\ Len(looper) \in Nat /\ uiPc = "idle" /\ taskPc' = taskPc
    BY <1>5, <1>t DEF OnProgressUpdate
  <2>2. \A i \in 1 .. Len(looper') : looper'[i] = looper[i + 1] /\ i + 1 \in 1 .. Len(looper)
    BY <1>5, <1>t DEF OnProgressUpdate
  <2>3. uiPc' \notin {"dead", "idle"} => uiMsg' = looper[1] /\ uiPc' = "containsKey"
    BY <1>5, <2>1 DEF OnProgressUpdate
  <2>5. ASSUME NEW q \in Runs, taskPc[q] = "done", NEW i \in 1 .. Len(looper'), looper'[i].run <= q
        PROVE  \E j \in i .. Len(looper') : looper'[j] = LastReport(q)
    <3>1. i + 1 \in 1 .. Len(looper) /\ looper[i + 1].run <= q
      BY <2>2, <2>5
    <3>2. PICK j \in (i + 1) .. Len(looper) : looper[j] = LastReport(q)
      BY <3>1, <2>5 DEF LastInv
    <3>3. j - 1 \in i .. Len(looper') /\ j - 1 \in 1 .. Len(looper') /\ (j - 1) + 1 = j
      BY <3>1, <3>2, <2>1
    <3>4. looper'[j - 1] = LastReport(q)
      BY <3>2, <3>3, <2>2
    <3> QED BY <3>3, <3>4
  <2>6. ASSUME NEW q \in Runs, taskPc[q] = "done", uiPc' \notin {"dead", "idle"}, uiMsg'.run <= q
        PROVE  \/ \E j \in 1 .. Len(looper') : looper'[j] = LastReport(q)
               \/ uiMsg' = LastReport(q) /\ uiPc' # "callStarted"
    <3>1. looper[1].run <= q
      BY <2>3, <2>6
    <3>2. PICK j \in 1 .. Len(looper) : looper[j] = LastReport(q)
      BY <3>1, <2>1, <2>6 DEF LastInv
    <3>3. CASE j = 1
      BY <3>2, <3>3, <2>3, <2>6
    <3>4. CASE j # 1
      <4>1. j - 1 \in 1 .. Len(looper') /\ (j - 1) + 1 = j
        BY <3>4, <2>1
      <4> QED BY <4>1, <3>2, <2>2
    <3> QED BY <3>3, <3>4
  <2> QED BY <2>1, <2>5, <2>6 DEF LastInv, LastReport
<1>6. CASE ContainsKey
  <2>1. /\ UNCHANGED <<taskPc, looper, uiMsg>>
        /\ uiPc = "containsKey"
        /\ uiPc' = "callStarted" => uiMsg.bench \notin results[uiMsg.run]
    BY <1>6 DEF ContainsKey
  <2>2. ASSUME NEW q \in Runs, taskPc[q] = "done", uiMsg = LastReport(q) PROVE uiPc' # "callStarted"
    <3>1. NBench \in results[q]
      BY <2>2, NBenchAssumption DEF ResultsInv, Benchmarks
    <3> QED BY <3>1, <2>1, <2>2 DEF LastReport
  <2> QED BY <2>1, <2>2 DEF LastInv, LastReport
<1>7. CASE CallbackStep
  BY <1>7, <1>0, <1>3 DEF CallbackStep, NullListener, OnBenchmarkStarted, OnBenchmarkFinished,
                          ShowResults, CheckComplete, GenerateResults, CsvDelete, CsvBuild,
                          CsvCreate, CsvWrite, UiReturns
<1>8. CASE PlatformStep \/ \E r \in Runs : PassThrows(r)
  BY <1>8, <1>0, <1>3 DEF PlatformStep, Kill, PassThrows, Launch, Destroy, Collect
<1> QED BY <1>1, <1>2, <1>4, <1>5, <1>6, <1>7, <1>8 DEF Next, UpdateStep
------------------------------------------------------------------------------
(* Screens: their runs, and how they come to rest.                         *)

LEMMA FieldNext == TypeInv /\ FieldInv /\ [Next]_vars => FieldInv'
<1> SUFFICES ASSUME TypeInv, FieldInv, [Next]_vars PROVE FieldInv'
  OBVIOUS
<1> USE DEF taskVars, screenVars
<1>t. /\ lastRun \in Nat /\ Runs \subseteq Nat /\ 0 \notin Runs
      /\ taskPc \in [Runs -> TaskPcs]
      /\ listener \in [Runs -> Activities \cup {NoActivity}]
      /\ life \in [Activities -> {"unborn", "live", "destroyed", "gone"}]
      /\ executor \in [Activities -> Runs \cup {NoRun}]
      /\ \A a \in Activities : executor[a] <= lastRun
  BY DEF TypeInv, TypeOK, ListenerInv, Runs
<1>0. ASSUME UNCHANGED <<listener, executor>>,
             \A a \in Activities : life'[a] = "live" => life[a] = "live",
             \A r \in Runs : taskPc'[r] = "lost" => taskPc[r] = "lost"
      PROVE  FieldInv'
  BY <1>0, <1>t DEF FieldInv, NoRun
<1>1. CASE UNCHANGED vars
  BY <1>1, <1>0 DEF vars, lifeVars
<1>2. ASSUME NEW r \in Runs, BackgroundStep(r) PROVE FieldInv'
  BY <1>2, <1>0, <1>t DEF BackgroundStep, ScheduleNext, PublishStarted, RunPasses, PutResults,
                          PublishFinished, NextBenchmark
<1>3. ASSUME ProcessDies PROVE FieldInv'
  BY <1>3 DEF ProcessDies, FieldInv
<1>4. ASSUME NEW a \in Activities, Start(a) PROVE FieldInv'
  <2>1. /\ lastRun' = lastRun + 1 /\ lastRun' \in Runs
        /\ listener' = [listener EXCEPT ![lastRun'] = a]
        /\ taskPc' = [taskPc EXCEPT ![lastRun'] = "queued"]
        /\ executor' = [executor EXCEPT ![a] = lastRun']
        /\ life' = life
    BY <1>4 DEF Start, Execute
  <2>2. \A b \in Activities : executor[b] # lastRun'
    BY <2>1, <1>t
  <2>3. \A b \in Activities : executor[b] # NoRun => executor[b] \in Runs
    BY <1>t
  <2>4. ASSUME NEW b \in Activities, life'[b] = "live", executor'[b] # NoRun
        PROVE  listener'[executor'[b]] = b /\ taskPc'[executor'[b]] # "lost"
    <3>1. CASE b = a
      BY <3>1, <2>1, <1>t
    <3>2. CASE b # a
      <4>1. executor'[b] = executor[b] /\ executor[b] # lastRun' /\ executor[b] \in Runs
        BY <3>2, <2>1, <2>2, <2>3, <2>4, <1>t
      <4> QED BY <4>1, <2>1, <2>4, <1>t DEF FieldInv
    <3> QED BY <3>1, <3>2
  <2> QED BY <2>4 DEF FieldInv
<1>5. CASE UpdateStep
  BY <1>5, <1>0 DEF UpdateStep, OnProgressUpdate, ContainsKey
<1>6. CASE CallbackStep
  BY <1>6, <1>0, <1>3 DEF CallbackStep, NullListener, OnBenchmarkStarted, OnBenchmarkFinished,
                          ShowResults, CheckComplete, GenerateResults, CsvDelete, CsvBuild,
                          CsvCreate, CsvWrite
<1>7. ASSUME NEW a \in Activities, Launch(a) PROVE FieldInv'
  BY <1>7, <1>t DEF Launch, FieldInv
<1>8. ASSUME NEW a \in Activities, Destroy(a) PROVE FieldInv'
  BY <1>8, <1>0, <1>t DEF Destroy
<1>9. ASSUME NEW a \in Activities, Collect(a) PROVE FieldInv'
  <2>1. /\ life[a] = "destroyed" /\ life' = [life EXCEPT ![a] = "gone"]
        /\ listener' = [r \in Runs |-> IF listener[r] = a THEN NoActivity ELSE listener[r]]
        /\ UNCHANGED <<executor, taskPc>>
    BY <1>9 DEF Collect
  <2>2. \A b \in Activities : life'[b] = "live" => b # a /\ life[b] = "live"
    BY <2>1, <1>t
  <2> QED BY <2>1, <2>2, <1>t DEF FieldInv
<1>10. CASE Kill \/ \E r \in Runs : PassThrows(r)
  BY <1>10, <1>3 DEF Kill, PassThrows
<1> QED
  BY <1>1, <1>2, <1>4, <1>5, <1>6, <1>7, <1>8, <1>9, <1>10 DEF Next, PlatformStep

InQueue(r) == \E j \in 1 .. Len(looper) : looper[j] = LastReport(r)
InHand(r) ==
    /\ uiMsg = LastReport(r)
    /\ uiPc \in {"containsKey", "callFinished", "showResults", "checkComplete"}

LEMMA AheadIs ==
  TypeInv => \A r \in Runs : LastReportAhead(r) <=> Waits(r) \/ InQueue(r) \/ InHand(r)
<1> SUFFICES ASSUME TypeInv, NEW r \in Runs
    PROVE LastReportAhead(r) <=> Waits(r) \/ InQueue(r) \/ InHand(r)
  OBVIOUS
<1>1. looper \in Seq(Messages)
  BY DEF TypeInv, TypeOK
<1>2. LastReport(r) \in Queued <=> InQueue(r)
  BY <1>1 DEF Queued, InQueue
<1> QED BY <1>2 DEF LastReportAhead, LastReport, Waits, InHand

\* The run in a living screen's field is waited for, at work or over.
LEMMA FieldRun ==
  ASSUME TypeInv, TaskInv, FieldInv, NEW a \in Activities, life[a] = "live", executor[a] # NoRun
  PROVE  /\ executor[a] \in Runs
         /\ listener[executor[a]] = a
         /\ taskPc[executor[a]] = "done" \/ Waits(executor[a])
<1>1. executor[a] \in Runs /\ executor[a] <= lastRun /\ lastRun \in Nat
  BY DEF TypeInv, TypeOK, ListenerInv
<1>2. taskPc[executor[a]] \notin {"none", "lost"}
  BY <1>1 DEF TaskInv, FieldInv, Runs
<1> QED BY <1>1, <1>2 DEF FieldInv, TypeInv, TypeOK, TaskPcs, Waits, Working

\* A last report ahead of a screen stays ahead until it is answered by that
\* screen, which then finds its run complete.
LEMMA AheadStep ==
  ASSUME TypeInv, TypeInv', TaskInv, ResultsInv, FieldInv, [Next]_vars,
         NEW a \in Activities, life[a] = "live",
         NEW e \in Runs, executor[a] = e, LastReportAhead(e)
  PROVE  \/ life'[a] # "live"
         \/ Start(a)
         \/ LastReportAhead(e)'
         \/ CheckComplete /\ uiAct = a /\ RunComplete(e) /\ uiMsg = LastReport(e)
<1> USE DEF taskVars, uiVars
<1>t. /\ looper \in Seq(Messages)
      /\ taskPc \in [Runs -> TaskPcs]
      /\ life \in [Activities -> {"unborn", "live", "destroyed", "gone"}]
      /\ executor[a] # NoRun /\ a # NoActivity
  BY DEF TypeInv, TypeOK, Runs, NoRun, Activities, NoActivity
<1>e. listener[e] = a /\ (taskPc[e] = "done" \/ Waits(e))
  BY <1>t, FieldRun
<1>a. Waits(e) \/ InQueue(e) \/ InHand(e)
  BY AheadIs
<1>b. Waits(e)' \/ InQueue(e)' \/ InHand(e)' => LastReportAhead(e)'
  <2>1. (TypeInv => \A r \in Runs : LastReportAhead(r) <=> Waits(r) \/ InQueue(r) \/ InHand(r))'
    BY AheadIs, PTL
  <2> QED BY <2>1
<1>0. ASSUME UNCHANGED <<taskPc, looper>>, InHand(e) => InHand(e)' PROVE LastReportAhead(e)'
  BY <1>0, <1>a, <1>b DEF Waits, Working, InQueue, LastReport
<1>1. CASE UNCHANGED vars
  BY <1>1, <1>0 DEF vars, InHand, LastReport
<1>2. ASSUME NEW r \in Runs, BackgroundStep(r) PROVE LastReportAhead(e)'
  <2>1. CASE ScheduleNext(r) \/ RunPasses(r) \/ PutResults(r)
    <3>1. UNCHANGED <<looper, uiPc, uiMsg>> /\ (Waits(e) => Waits(e)')
      BY <2>1, <1>t DEF ScheduleNext, RunPasses, PutResults, Waits, Working, WorkingPcs
    <3> QED BY <3>1, <1>a, <1>b DEF InQueue, InHand, LastReport
  <2>2. CASE PublishStarted(r) \/ PublishFinished(r)
    <3>1. UNCHANGED <<uiPc, uiMsg>> /\ PublishProgress(r)
      BY <2>2 DEF PublishStarted, PublishFinished
    <3>2. /\ \A i \in 1 .. Len(looper) : i \in 1 .. Len(looper') /\ looper'[i] = looper[i]
          /\ Len(looper') \in 1 .. Len(looper')
          /\ looper'[Len(looper')] = [run |-> r, bench |-> taskAt[r]]
      BY <3>1, <1>t DEF PublishProgress
    <3>3. Waits(e) => Waits(e)' \/ (e = r /\ taskAt[r] = NBench)
      BY <2>2, <1>t DEF PublishStarted, PublishFinished, NextBenchmark, Waits, Working, WorkingPcs
    <3>4. InQueue(e) \/ (e = r /\ taskAt[r] = NBench) => InQueue(e)'
      BY <3>2 DEF InQueue, LastReport
    <3>5. InHand(e) => InHand(e)'
      BY <3>1 DEF InHand, LastReport
    <3> QED BY <3>3, <3>4, <3>5, <1>a, <1>b
  <2> QED BY <1>2, <2>1, <2>2 DEF BackgroundStep
<1>3. ASSUME ProcessDies PROVE life'[a] # "live"
  BY <1>3 DEF ProcessDies
<1>4. ASSUME NEW b \in Activities, Start(b) PROVE LastReportAhead(e)'
  <2>1. UNCHANGED <<looper, uiPc, uiMsg>> /\ (Waits(e) => Waits(e)')
    BY <1>4, <1>t DEF Start, Execute, Waits, Working
  <2> QED BY <2>1, <1>a, <1>b DEF InQueue, InHand, LastReport
<1>5. CASE OnProgressUpdate
  <2>1. /\ Head(looper) = looper[1] /\ Len(looper') = Len(looper) - 1 /\ Len(looper) \in Nat
        /\ \A i \in 1 .. Len(looper') : looper'[i] = looper[i + 1]
        /\ taskPc' = taskPc /\ uiPc = "idle"
    BY <1>5, <1>t DEF OnProgressUpdate
  <2>2. ASSUME InQueue(e) PROVE InQueue(e)' \/ InHand(e)'
    <3>1. PICK j \in 1 .. Len(looper) : looper[j] = LastReport(e)
      BY <2>2 DEF InQueue
    <3>2. CASE j = 1
      <4>1. listener[Head(looper).run] # NoActivity
        BY <3>1, <3>2, <2>1, <1>e, <1>t DEF LastReport
      <4> QED BY <4>1, <3>1, <3>2, <2>1, <1>5 DEF OnProgressUpdate, InHand, LastReport
    <3>3. CASE j # 1
      <4>1. j - 1 \in 1 .. Len(looper') /\ (j - 1) + 1 = j
        BY <3>3, <2>1
      <4> QED BY <4>1, <3>1, <2>1 DEF InQueue, LastReport
    <3> QED BY <3>2, <3>3
  <2> QED BY <2>1, <2>2, <1>a, <1>b DEF Waits, Working, InHand
<1>6. CASE ContainsKey
  <2>1. ASSUME InHand(e), ~InHand(e)' PROVE Waits(e)
    <3>1. uiMsg = LastReport(e) /\ uiMsg.bench \notin results[uiMsg.run]
      BY <1>6, <2>1 DEF ContainsKey, InHand, LastReport
    <3>2. NBench \notin results[e]
      BY <3>1 DEF LastReport
    <3>3. taskPc[e] # "done"
      BY <3>2, NBenchAssumption DEF ResultsInv, Benchmarks
    <3> QED BY <3>3, <1>e
  <2> QED BY <2>1, <1>6, <1>a, <1>b DEF ContainsKey, Waits, Working, InQueue, LastReport
<1>7. CASE CheckComplete
  <2>1. CASE InHand(e) /\ RunComplete(e)
    <3>1. uiAct = a
      BY <2>1, <1>7, <1>e DEF CheckComplete, InHand, LastReport, TypeInv, HandlerInv, CallbackPcs
    <3> QED BY <2>1, <3>1, <1>7 DEF InHand
  <2>2. CASE InHand(e) /\ ~RunComplete(e)
    <3>1. Cardinality(Benchmarks) = NBench
      <4>1. 1 \in Int /\ NBench \in Int /\ NBench >= 1
        BY NBenchAssumption
      <4> QED BY <4>1, FS_Interval DEF Benchmarks
    <3>2. taskPc[e] # "done"
      BY <2>2, <3>1 DEF ResultsInv, RunComplete
    <3> QED BY <3>2, <1>7, <1>e, <1>b DEF CheckComplete, Waits, Working
  <2>3. CASE ~InHand(e)
    BY <2>3, <1>7, <1>0 DEF CheckComplete
  <2> QED BY <2>1, <2>2, <2>3
<1>8. CASE OnBenchmarkStarted \/ OnBenchmarkFinished \/ ShowResults \/ GenerateResults
  BY <1>8, <1>0 DEF OnBenchmarkStarted, OnBenchmarkFinished, ShowResults, GenerateResults,
                    CsvDelete, CsvBuild, CsvCreate, CsvWrite, InHand, LastReport
<1>9. CASE \E b \in Activities : Launch(b) \/ Destroy(b) \/ Collect(b)
  BY <1>9, <1>0 DEF Launch, Destroy, Collect, InHand, LastReport
<1>10. CASE Kill \/ NullListener \/ \E r \in Runs : PassThrows(r)
  BY <1>10, <1>3 DEF Kill, NullListener, PassThrows
<1> QED
  BY <1>1, <1>2, <1>4, <1>5, <1>6, <1>7, <1>8, <1>9, <1>10
     DEF Next, UpdateStep, CallbackStep, PlatformStep

\* A screen becomes busy only by being told of a start.
LEMMA BusyMover ==
  ASSUME TypeInv, [Next]_vars, NEW a \in Activities,
         life'[a] = "live", ~enabled'[a] \/ status'[a] # Idle
  PROVE  /\ life[a] = "live"
         /\ \/ ~enabled[a] \/ status[a] # Idle
            \/ OnBenchmarkStarted /\ listener[uiMsg.run] = a
<1> USE DEF screenVars
<1>t. /\ life \in [Activities -> {"unborn", "live", "destroyed", "gone"}]
      /\ enabled \in [Activities -> BOOLEAN]
      /\ status \in [Activities -> Messages \cup {Idle}]
  BY DEF TypeInv, TypeOK
<1>1. CASE UNCHANGED vars
  BY <1>1 DEF vars, lifeVars
<1>2. CASE \E r \in Runs : BackgroundStep(r)
  BY <1>2 DEF BackgroundStep
<1>3. CASE ProcessDies
  BY <1>3 DEF ProcessDies
<1>4. CASE UpdateStep \/ \E b \in Activities : Start(b)
  BY <1>4 DEF UpdateStep, Start
<1>5. CASE OnBenchmarkStarted
  BY <1>5, <1>t DEF OnBenchmarkStarted
<1>6. CASE OnBenchmarkFinished \/ ShowResults \/ GenerateResults
  BY <1>6 DEF OnBenchmarkFinished, ShowResults, GenerateResults
<1>7. CASE CheckComplete
  BY <1>7, <1>t DEF CheckComplete, BackToIdle
<1>8. CASE \E b \in Activities : Launch(b)
  BY <1>8, <1>t DEF Launch
<1>9. CASE \E b \in Activities : Destroy(b) \/ Collect(b)
  BY <1>9, <1>t DEF Destroy, Collect
<1> QED
  BY <1>1, <1>2, <1>3, <1>4, <1>5, <1>6, <1>7, <1>8, <1>9
     DEF Next, CallbackStep, NullListener, PlatformStep, Kill, PassThrows

\* The field of a living screen changes only when Start is pressed on it.
LEMMA FieldMover ==
  ASSUME TypeInv, [Next]_vars, NEW a \in Activities, life'[a] = "live", executor'[a] # NoRun
  PROVE  life[a] = "live" /\ (Start(a) \/ executor'[a] = executor[a])
<1> USE DEF screenVars
<1>t. /\ life \in [Activities -> {"unborn", "live", "destroyed", "gone"}]
      /\ executor \in [Activities -> Runs \cup {NoRun}]
  BY DEF TypeInv, TypeOK
<1>1. CASE UNCHANGED vars
  BY <1>1 DEF vars, lifeVars
<1>2. CASE \E r \in Runs : BackgroundStep(r)
  BY <1>2 DEF BackgroundStep
<1>3. CASE ProcessDies
  BY <1>3 DEF ProcessDies
<1>4. CASE \E b \in Activities : Start(b)
  BY <1>4, <1>t DEF Start
<1>5. CASE UpdateStep
  BY <1>5 DEF UpdateStep
<1>6. CASE CallbackStep
  BY <1>6, <1>3 DEF CallbackStep, NullListener, OnBenchmarkStarted, OnBenchmarkFinished, ShowResults,
                    CheckComplete, GenerateResults
<1>7. CASE \E b \in Activities : Launch(b)
  BY <1>7, <1>t DEF Launch
<1>8. CASE \E b \in Activities : Destroy(b) \/ Collect(b)
  BY <1>8, <1>t DEF Destroy, Collect
<1> QED
  BY <1>1, <1>2, <1>3, <1>4, <1>5, <1>6, <1>7, <1>8 DEF Next, PlatformStep, Kill, PassThrows

\* The run of a screen that Start was pressed on is waited for.
LEMMA StartAhead ==
  ASSUME TypeInv, TypeInv', NEW a \in Activities, Start(a)
  PROVE  \E r \in Runs : executor'[a] = r /\ taskPc'[r] = "queued" /\ LastReportAhead(r)'
<1>1. /\ lastRun' \in Runs
      /\ taskPc' = [taskPc EXCEPT ![lastRun'] = "queued"]
      /\ executor'[a] = lastRun'
  BY DEF Start, Execute, TypeInv, TypeOK
<1>2. taskPc'[lastRun'] = "queued"
  BY <1>1 DEF TypeInv, TypeOK
<1> QED BY <1>1, <1>2 DEF LastReportAhead

LEMMA BusyNext ==
  TypeInv /\ TypeInv' /\ TaskInv /\ ResultsInv /\ LastInv /\ FieldInv /\ BusyInv /\ [Next]_vars
    => BusyInv'
<1> SUFFICES ASSUME TypeInv, TypeInv', TaskInv, ResultsInv, LastInv, FieldInv, BusyInv, [Next]_vars,
                    NEW a \in Activities,
                    life'[a] = "live", ~enabled'[a] \/ status'[a] # Idle
             PROVE  \E r \in Runs : executor'[a] = r /\ LastReportAhead(r)'
  BY DEF BusyInv
<1>m. /\ life[a] = "live"
      /\ \/ ~enabled[a] \/ status[a] # Idle
         \/ OnBenchmarkStarted /\ listener[uiMsg.run] = a
  BY BusyMover
<1>1. CASE ~enabled[a] \/ status[a] # Idle
  <2>1. PICK e \in Runs : executor[a] = e /\ LastReportAhead(e)
    BY <1>1, <1>m DEF BusyInv, TypeInv, TypeOK
  <2>2. CASE Start(a)
    BY <2>2, StartAhead
  <2>3. CASE ~Start(a)
    <3>1. executor'[a] # NoRun => executor'[a] = e
      BY <2>1, <2>3, FieldMover
    <3>2. executor'[a] # NoRun
      <4>1. executor' = executor \/ (\E b \in Activities : b # a /\ (Launch(b) \/ Start(b))) \/ ProcessDies
        BY <2>3, <1>m DEF Next, vars, screenVars, BackgroundStep, PassThrows, UpdateStep, CallbackStep,
              NullListener, OnBenchmarkStarted, OnBenchmarkFinished, ShowResults, CheckComplete,
              GenerateResults, PlatformStep, Kill, Launch, Destroy, Collect
      <4>2. e # NoRun
        BY DEF Runs, NoRun
      <4>3. ASSUME NEW b \in Activities, b # a, Launch(b) \/ Start(b) PROVE executor'[a] = executor[a]
        BY <4>3 DEF Launch, Start, TypeInv, TypeOK
      <4>4. ProcessDies => executor' = executor
        BY DEF ProcessDies, screenVars
      <4>5. executor'[a] = executor[a]
        BY <4>1, <4>3, <4>4
      <4> QED BY <4>2, <4>5, <2>1
    <3>3. LastReportAhead(e)' \/ (CheckComplete /\ uiAct = a /\ RunComplete(e))
      BY <2>1, <2>3, <1>m, AheadStep
    <3>4. ~(CheckComplete /\ uiAct = a /\ RunComplete(e))
      BY <2>1 DEF CheckComplete, BackToIdle, TypeInv, TypeOK
    <3> QED BY <3>1, <3>2, <3>3, <3>4
  <2> QED BY <2>2, <2>3
<1>2. CASE OnBenchmarkStarted /\ listener[uiMsg.run] = a
  <2>1. /\ uiPc = "callStarted" /\ uiMsg.run \in Runs
        /\ UNCHANGED <<executor, taskPc, looper>>
    BY <1>2 DEF OnBenchmarkStarted, taskVars, TypeInv, HandlerInv, Messages
  <2>2. executor[a] \in Runs /\ uiMsg.run <= executor[a] /\ executor[a] # NoRun
    BY <2>1, <1>2 DEF TypeInv, ListenerInv, Activities, NoActivity, Runs, NoRun
  <2>3. taskPc[executor[a]] = "done" => InQueue(executor[a])
    BY <2>1, <2>2 DEF LastInv, InQueue
  <2>4. Waits(executor[a]) \/ InQueue(executor[a])
    BY <2>2, <2>3, <1>m, FieldRun
  <2>5. PICK e \in Runs : executor[a] = e
    BY <2>2
  <2>6. Waits(e)' \/ InQueue(e)'
    BY <2>1, <2>4, <2>5 DEF Waits, Working, InQueue, LastReport
  <2>7. (TypeInv => \A r \in Runs : LastReportAhead(r) <=> Waits(r) \/ InQueue(r) \/ InHand(r))'
    BY AheadIs, PTL
  <2> QED BY <2>1, <2>5, <2>6, <2>7
<1> QED BY <1>m, <1>1, <1>2

\* The last result is put last.
LEMMA LastResultCompletes ==
  ASSUME TypeInv, ResultsInv, NEW r \in Runs, NBench \in results[r]
  PROVE  results[r] = Benchmarks
<1>1. taskPc[r] \in TaskPcs /\ taskAt[r] \in 1 .. NBench /\ NBench \in Nat /\ Benchmarks = 1 .. NBench
  BY NBenchAssumption DEF TypeInv, TypeOK, Benchmarks
<1>2. CASE taskPc[r] \in {"none", "queued", "lost"}
  BY <1>2 DEF ResultsInv
<1>3. CASE taskPc[r] \in {"publishStarted", "passes", "put"}
  BY <1>1, <1>3 DEF ResultsInv
<1>4. CASE taskPc[r] = "publishFinished"
  <2>1. taskAt[r] = NBench
    BY <1>1, <1>4 DEF ResultsInv
  <2> QED BY <2>1, <1>1, <1>4 DEF ResultsInv
<1>5. CASE taskPc[r] = "done"
  BY <1>5 DEF ResultsInv
<1> QED BY <1>1, <1>2, <1>3, <1>4, <1>5 DEF TaskPcs, WorkingPcs

LEMMA ShownNext == TypeInv /\ ResultsInv /\ ReportInv /\ ShownInv /\ [Next]_vars => ShownInv'
<1> SUFFICES ASSUME TypeInv, ResultsInv, ReportInv, ShownInv, [Next]_vars PROVE ShownInv'
  OBVIOUS
<1> USE DEF uiVars, screenVars
<1>0. ASSUME \/ uiPc' \notin {"showResults", "checkComplete"}
             \/ UNCHANGED <<uiPc, uiMsg, uiAct, uiSeen, executor, shown>>
      PROVE  ShownInv'
  BY <1>0 DEF ShownInv, LastReport
<1>1. CASE UNCHANGED vars
  BY <1>1, <1>0 DEF vars
<1>2. ASSUME NEW r \in Runs, BackgroundStep(r) PROVE ShownInv'
  BY <1>2, <1>0 DEF BackgroundStep, ScheduleNext, PublishStarted, RunPasses, PutResults, PublishFinished
<1>3. ASSUME ProcessDies PROVE ShownInv'
  BY <1>3, <1>0 DEF ProcessDies
<1>4. CASE UpdateStep \/ \E a \in Activities : Start(a)
  BY <1>4, <1>0 DEF UpdateStep, OnProgressUpdate, ContainsKey, Start
<1>5. CASE OnBenchmarkFinished
  <2>1. /\ uiMsg \in Messages /\ uiMsg.run \in Runs /\ uiMsg.bench \in results[uiMsg.run]
        /\ uiPc' = "showResults" /\ uiSeen' = results[executor[uiAct']]
        /\ UNCHANGED <<uiMsg, executor>>
    BY <1>5 DEF OnBenchmarkFinished, TypeInv, HandlerInv, ReportInv, Messages
  <2>2. ASSUME uiMsg = LastReport(executor[uiAct']) PROVE uiSeen' = Benchmarks
    <3>1. executor[uiAct'] \in Runs /\ NBench \in results[executor[uiAct']]
      BY <2>1, <2>2 DEF LastReport
    <3> QED BY <3>1, <2>1, LastResultCompletes
  <2> QED BY <2>1, <2>2 DEF ShownInv, LastReport
<1>6. CASE ShowResults
  <2>1. /\ uiPc = "showResults" /\ uiPc' = "checkComplete"
        /\ UNCHANGED <<uiMsg, uiAct, executor>>
        /\ uiAct \in Activities /\ executor[uiAct] \in Runs
    BY <1>6, HandledRun DEF ShowResults, CallbackPcs
  <2>2. results[executor[uiAct]] \subseteq Benchmarks
    BY <2>1 DEF TypeInv, TypeOK
  <2>3. PICK keys \in SUBSET results[executor[uiAct]] :
           uiSeen \subseteq keys /\ shown' = [shown EXCEPT ![uiAct] = keys]
    BY <1>6 DEF ShowResults
  <2>4. uiSeen = Benchmarks => shown'[uiAct] = Benchmarks
    BY <2>1, <2>2, <2>3 DEF TypeInv, TypeOK
  <2> QED BY <2>1, <2>4 DEF ShownInv, LastReport
<1>7. CASE NullListener \/ OnBenchmarkStarted \/ CheckComplete \/ GenerateResults
  BY <1>7, <1>0, <1>3 DEF NullListener, OnBenchmarkStarted, CheckComplete, GenerateResults,
                          CsvDelete, CsvBuild, CsvCreate, CsvWrite, UiReturns
<1>8. CASE Kill \/ \E r \in Runs : PassThrows(r)
  BY <1>8, <1>3 DEF Kill, PassThrows
<1>9. CASE \E a \in Activities : Launch(a) \/ Destroy(a) \/ Collect(a)
  BY <1>9, <1>0 DEF Launch, Destroy, Collect
<1> QED
  BY <1>1, <1>2, <1>4, <1>5, <1>6, <1>7, <1>8, <1>9 DEF Next, CallbackStep, PlatformStep

\* A screen whose run's last report is behind it stays complete: no report of
\* an older run, on this screen or on one before, comes after.
LEMMA RestedStays ==
  ASSUME TypeInv, ScreenInv, LastInv, FieldInv, [Next]_vars,
         NEW a \in Activities, life[a] = "live", life'[a] = "live",
         NEW e \in Runs, executor[a] = e, executor'[a] = e, taskPc[e] = "done",
         ~InQueue(e), ~InHand(e), Rested(a)
  PROVE  Rested(a)'
<1> USE DEF uiVars, fileVars, screenVars, historyVars, Rested
<1>t. /\ shown \in [Activities -> SUBSET Benchmarks]
      /\ a # NoActivity /\ e # NoRun /\ listener[e] = a
  BY DEF TypeInv, TypeOK, FieldInv, Runs, NoRun, Activities, NoActivity
<1>h. uiPc \notin {"dead", "idle"} /\ uiMsg.run <= e => uiMsg = LastReport(e) /\ uiPc \notin
        {"containsKey", "callStarted", "callFinished", "showResults", "checkComplete"}
  BY DEF LastInv, InQueue, InHand
<1>0. ASSUME UNCHANGED <<exported, toast>>, shown'[a] = shown[a],
             \/ UNCHANGED <<uiPc, uiAct>>
             \/ uiPc \notin {"csvDelete", "csvBuild", "csvCreate", "csvWrite"}
      PROVE  Rested(a)'
  BY <1>0
<1>1. CASE UNCHANGED vars
  BY <1>1, <1>0 DEF vars
<1>2. ASSUME NEW r \in Runs, BackgroundStep(r) PROVE Rested(a)'
  BY <1>2, <1>0 DEF BackgroundStep, ScheduleNext, PublishStarted, RunPasses, PutResults, PublishFinished
<1>3. CASE ProcessDies
  BY <1>3 DEF ProcessDies
<1>4. CASE UpdateStep \/ \E b \in Activities : Start(b)
  BY <1>4, <1>0 DEF UpdateStep, OnProgressUpdate, ContainsKey, Start
<1>5. CASE OnBenchmarkStarted \/ OnBenchmarkFinished \/ CheckComplete
  BY <1>5, <1>0 DEF OnBenchmarkStarted, OnBenchmarkFinished, CheckComplete
<1>6. CASE ShowResults
  <2>1. uiPc = "showResults" /\ uiMsg \in Messages /\ uiMsg.run \in Runs /\ uiAct = listener[uiMsg.run]
    BY <1>6 DEF ShowResults, TypeInv, HandlerInv, CallbackPcs, Messages
  <2>2. uiAct # a
    <3> SUFFICES ASSUME uiAct = a PROVE FALSE
      OBVIOUS
    <3>1. uiMsg.run <= e
      BY <2>1, <1>t DEF TypeInv, ListenerInv
    <3> QED BY <3>1, <2>1, <1>h
  <2> QED BY <2>1, <2>2, <1>6, <1>0, <1>t DEF ShowResults
<1>7. CASE CsvDelete /\ exported' = executor[uiAct] /\ UNCHANGED <<life, screenVars, reported>>
  <2>1. /\ uiPc = "csvDelete" /\ uiMsg \in Messages /\ uiMsg.run \in Runs
        /\ uiAct \in Activities /\ uiAct = listener[uiMsg.run]
    BY <1>7 DEF CsvDelete, TypeInv, HandlerInv, CallbackPcs, Messages
  <2>2. CASE uiAct = a
    BY <2>2, <1>7 DEF CsvDelete
  <2>3. CASE uiAct # a
    <3>0. uiAct \in Nat /\ a \in Nat /\ uiMsg.run \in Nat /\ e \in Nat
      BY <2>1 DEF Activities, Runs
    <3>1. life[uiAct] \in {"live", "destroyed"}
      BY <2>1 DEF TypeInv, ListenerInv, Activities, NoActivity
    <3>2. ~(a < uiAct)
      BY <2>1, <3>1 DEF ScreenInv
    <3>3. ~(e < uiMsg.run)
      <4> SUFFICES ASSUME e < uiMsg.run PROVE FALSE
        OBVIOUS
      <4>1. a <= uiAct
        BY <2>1, <1>t, <3>1 DEF ScreenInv, Activities, NoActivity
      <4> QED BY <4>1, <3>0, <3>2, <2>3
    <3>4. uiMsg.run # e
      BY <2>1, <2>3, <1>t
    <3>5. uiMsg = LastReport(e)
      BY <2>1, <3>0, <3>3, <1>h
    <3> QED BY <3>4, <3>5 DEF LastReport
  <2> QED BY <2>2, <2>3
<1>8. CASE CsvBuild(executor[uiAct]) /\ UNCHANGED <<life, screenVars, historyVars>>
  BY <1>8 DEF CsvBuild
<1>9. CASE CsvCreate /\ UNCHANGED <<life, screenVars, historyVars>>
  BY <1>9 DEF CsvCreate, UiReturns
<1>10. CASE CsvWrite(executor[uiAct]) /\ UNCHANGED <<life, screenVars, historyVars>>
  BY <1>10 DEF CsvWrite, UiReturns
<1>11. CASE \E b \in Activities : Launch(b)
  BY <1>11, <1>0, <1>t DEF Launch
<1>12. CASE \E b \in Activities : Destroy(b) \/ Collect(b)
  BY <1>12, <1>0 DEF Destroy, Collect
<1> QED
  BY <1>1, <1>2, <1>3, <1>4, <1>5, <1>6, <1>7, <1>8, <1>9, <1>10, <1>11, <1>12
     DEF Next, CallbackStep, NullListener, GenerateResults, PlatformStep, Kill, PassThrows

ScreensInv ==
    /\ TypeInv /\ TaskInv /\ ReportInv /\ ResultsInv /\ ScreenInv
    /\ LastInv /\ FieldInv /\ BusyInv /\ ShownInv /\ RestInv

LEMMA RestNext == ScreensInv /\ TypeInv' /\ [Next]_vars => RestInv'
<1> SUFFICES ASSUME ScreensInv, TypeInv', [Next]_vars,
                    NEW a \in Activities, NEW e \in Runs,
                    life'[a] = "live", executor'[a] = e, taskPc'[e] = "done", ~LastReportAhead(e)'
             PROVE  Rested(a)'
  BY DEF RestInv
<1> USE DEF ScreensInv
<1>0. e # NoRun
  BY DEF Runs, NoRun
<1>1. ~Start(a)
  <2> SUFFICES ASSUME Start(a) PROVE FALSE
    OBVIOUS
  <2> QED BY StartAhead
<1>2. life[a] = "live" /\ executor[a] = e
  BY <1>0, <1>1, FieldMover
<1>3. CASE LastReportAhead(e)
  <2>1. CheckComplete /\ uiAct = a /\ RunComplete(e) /\ uiMsg = LastReport(e)
    BY <1>1, <1>2, <1>3, AheadStep
  <2>2. /\ uiPc = "checkComplete" /\ uiPc' = "csvDelete"
        /\ UNCHANGED <<uiAct, shown>>
    BY <2>1, <1>2 DEF CheckComplete
  <2>3. shown[a] = Benchmarks
    BY <2>1, <2>2, <1>2 DEF ShownInv
  <2> QED BY <2>1, <2>2, <2>3 DEF Rested
<1>4. CASE ~LastReportAhead(e)
  <2>1. ~Waits(e) /\ ~InQueue(e) /\ ~InHand(e)
    BY <1>4, AheadIs
  <2>2. taskPc[e] = "done"
    BY <2>1, <1>0, <1>2, FieldRun
  <2>3. Rested(a)
    BY <2>2, <1>2, <1>4 DEF RestInv
  <2> QED BY <2>1, <2>2, <2>3, <1>2, RestedStays
<1> QED BY <1>3, <1>4

LEMMA ScreensInvariant == Spec => []ScreensInv
<1>1. Init => ScreensInv
  <2>1. Init => TypeInv /\ TaskInv /\ ReportInv
    BY TypeInit DEF Init, ExecutorInit, TaskInv, ReportInv, NoStartAfterFinish, Runs, WorkingPcs
  <2>2. Init => ResultsInv /\ ScreenInv
    BY DEF Init, ExecutorInit, ResultsInv, ScreenInv, NoRun, NoActivity
  <2>3. Init => LastInv /\ FieldInv /\ BusyInv /\ ShownInv /\ RestInv
    BY DEF Init, ExecutorInit, LastInv, FieldInv, BusyInv, ShownInv, RestInv
  <2> QED BY <2>1, <2>2, <2>3 DEF ScreensInv
<1>2. ScreensInv /\ [Next]_vars => ScreensInv'
  BY TypeNext, TaskNext, ReportNext, ResultsNext, ScreenNext, LastNext, FieldNext, BusyNext,
     ShownNext, RestNext DEF ScreensInv
<1> QED BY <1>1, <1>2, PTL DEF Spec

\* No screen is left saying that a benchmark is executing, or with its button
\* off: a report that ends its wait is ahead, however late the others came.
THEOREM NoScreenIsStuck == Spec => []BusyScreenClears
<1>1. ScreensInv => BusyScreenClears
  <2> SUFFICES ASSUME ScreensInv, NEW a \in Activities,
                      life[a] = "live", ~enabled[a] \/ status[a] # Idle
               PROVE  executor[a] # NoRun /\ listener[executor[a]] = a /\ LastReportAhead(executor[a])
    BY DEF BusyScreenClears
  <2>1. PICK r \in Runs : executor[a] = r /\ LastReportAhead(r)
    BY DEF ScreensInv, BusyInv
  <2>2. executor[a] # NoRun
    BY <2>1 DEF Runs, NoRun
  <2> QED BY <2>1, <2>2 DEF ScreensInv, FieldInv
<1> QED BY <1>1, ScreensInvariant, PTL

\* Once nothing is queued, running or handled, the screen in front shows the
\* whole of its newest run, is ready for the next, and has tried to export it.
THEOREM ScreenIsComplete == Spec => []DrainedScreenIsComplete
<1>1. ScreensInv => DrainedScreenIsComplete
  <2> SUFFICES ASSUME ScreensInv, NEW a \in Activities,
                      life[a] = "live", executor[a] # NoRun,
                      uiPc = "idle", looper = <<>>, taskPc[executor[a]] = "done"
               PROVE  /\ shown[a] = Benchmarks
                      /\ enabled[a] /\ status[a] = Idle
                      /\ exported = executor[a] /\ toast # "none"
    BY DEF DrainedScreenIsComplete
  <2>1. PICK e \in Runs : executor[a] = e
    BY DEF ScreensInv, TypeInv, TypeOK
  <2>2. ~LastReportAhead(e)
    BY <2>1 DEF LastReportAhead, Queued, Working, WorkingPcs
  <2>3. enabled[a] /\ status[a] = Idle
    BY <2>1, <2>2 DEF ScreensInv, BusyInv, TypeInv, TypeOK
  <2>4. Rested(a)
    BY <2>1, <2>2 DEF ScreensInv, RestInv
  <2> QED BY <2>3, <2>4 DEF Rested
<1> QED BY <1>1, ScreensInvariant, PTL
------------------------------------------------------------------------------
(* The safety half of ButtonComesBack and RunIsExportedOrReplaced: while a  *)
(* screen waits, a thread can go on; and only presses add to the work.      *)

\* The conditions under which the main thread has a step: a message to take,
\* or a place in one at which nothing is waited for.
MainMayStep ==
    \/ uiPc = "idle" /\ looper # <<>>
    \/ uiPc \in UiPcs \ {"dead", "idle", "showResults"}
    \/ uiPc = "showResults" /\ uiSeen \subseteq results[executor[uiAct]]

\* And the background thread: a task at work, or one that the serial executor
\* may begin.
BackgroundMayStep ==
    \E r \in Runs :
        \/ Working(r)
        \/ /\ taskPc[r] = "queued"
           /\ \A q \in Runs : ~Working(q)
           /\ \A q \in 1 .. (r - 1) : taskPc[q] # "queued"

\* A screen waits while it is busy, or its run is not exported.
ScreenWaits(a) ==
    /\ life[a] = "live"
    /\ ~enabled[a] \/ status[a] # Idle \/ exported < executor[a]

WaitingIsServed == (\E a \in Activities : ScreenWaits(a)) => MainMayStep \/ BackgroundMayStep

\* The steps each task has left: four for a benchmark, and one to begin.
TaskLeft(r) ==
    IF taskPc[r] = "queued" THEN 4 * NBench + 1
    ELSE IF ~Working(r) THEN 0
    ELSE 4 * (NBench - taskAt[r]) + (CASE taskPc[r] = "publishStarted" -> 4
                                       [] taskPc[r] = "passes" -> 3
                                       [] taskPc[r] = "put" -> 2
                                       [] taskPc[r] = "publishFinished" -> 1)
TasksLeft == {step \in Runs \X (1 .. 4 * NBench + 1) : step[2] <= TaskLeft(step[1])}

\* The steps the main thread has left: nine for a message that leads to a CSV.
AnswerLeft ==
    CASE uiPc \in {"dead", "idle"} -> 0
      [] uiPc = "containsKey" -> 8
      [] uiPc \in {"callStarted", "callFinished"} -> 7
      [] uiPc = "showResults" -> 6
      [] uiPc = "checkComplete" -> 5
      [] uiPc = "csvDelete" -> 4
      [] uiPc = "csvBuild" -> 3
      [] uiPc = "csvCreate" -> 2
      [] uiPc = "csvWrite" -> 1
MainLeft == 9 * Len(looper) + AnswerLeft

\* A step of a task takes one from what the tasks have left; a step of the main
\* thread one from what it has left, and nothing from them; and only Start gives
\* the tasks more.
WorkRunsOut ==
    /\ (\E r \in Runs : BackgroundStep(r)) => TasksLeft' \subseteq TasksLeft /\ TasksLeft' # TasksLeft
    /\ UpdateStep \/ CallbackStep => MainLeft' \in 0 .. MainLeft - 1
    /\ ~(\E r \in Runs : BackgroundStep(r)) => MainLeft' <= MainLeft
    /\ ~(\E a \in Activities : Start(a)) => TasksLeft' \subseteq TasksLeft

\* The dead process has no screens.
DeadInv == uiPc = "dead" => \A a \in Activities : life[a] # "live"

LEMMA DeadNext == TypeInv /\ DeadInv /\ [Next]_vars => DeadInv'
<1> SUFFICES ASSUME TypeInv, DeadInv, [Next]_vars, uiPc' = "dead", NEW a \in Activities
    PROVE life'[a] # "live"
  BY DEF DeadInv
<1> USE DEF uiVars
<1>t. life \in [Activities -> {"unborn", "live", "destroyed", "gone"}]
  BY DEF TypeInv, TypeOK
<1>0. ASSUME uiPc = "dead", UNCHANGED life PROVE life'[a] # "live"
  BY <1>0 DEF DeadInv
<1>1. ASSUME ProcessDies PROVE life'[a] # "live"
  BY <1>1, <1>t DEF ProcessDies
<1>2. CASE UNCHANGED vars
  BY <1>2, <1>0 DEF vars, lifeVars
<1>3. ASSUME NEW r \in Runs, BackgroundStep(r) PROVE life'[a] # "live"
  BY <1>3, <1>0 DEF BackgroundStep, ScheduleNext, PublishStarted, RunPasses, PutResults, PublishFinished
<1>4. CASE UpdateStep \/ \E b \in Activities : Start(b)
  BY <1>4, <1>0 DEF UpdateStep, OnProgressUpdate, ContainsKey, Start
<1>5. CASE CallbackStep
  BY <1>5, <1>1 DEF CallbackStep, NullListener, OnBenchmarkStarted, OnBenchmarkFinished,
                    ShowResults, CheckComplete, GenerateResults, CsvDelete, CsvBuild, CsvCreate,
                    CsvWrite, UiReturns
<1>6. CASE PlatformStep \/ \E r \in Runs : PassThrows(r)
  <2>1. CASE \E b \in Activities : Collect(b)
    BY <2>1, <1>t DEF Collect, DeadInv
  <2> QED BY <1>6, <2>1, <1>1 DEF PlatformStep, Kill, PassThrows, Launch, Destroy
<1> QED BY <1>2, <1>3, <1>4, <1>5, <1>6 DEF Next

\* What the iteration of updateResultsList must meet, being there when it was
\* made, is still there.
SeenInv == uiPc = "showResults" => uiSeen \subseteq results[executor[uiAct]]

LEMMA SeenNext == TypeInv /\ SeenInv /\ [Next]_vars => SeenInv'
<1> SUFFICES ASSUME TypeInv, SeenInv, [Next]_vars PROVE SeenInv'
  OBVIOUS
<1> USE DEF uiVars, screenVars
<1>t. results \in [Runs -> SUBSET Benchmarks]
  BY DEF TypeInv, TypeOK
<1>0. ASSUME UNCHANGED <<results, executor, uiPc, uiAct, uiSeen>> PROVE SeenInv'
  BY <1>0 DEF SeenInv
<1>1. ASSUME ProcessDies PROVE SeenInv'
  BY <1>1 DEF ProcessDies, SeenInv
<1>2. CASE UNCHANGED vars
  BY <1>2, <1>0 DEF vars, taskVars
<1>3. ASSUME NEW r \in Runs, BackgroundStep(r) PROVE SeenInv'
  <2>1. UNCHANGED <<executor, uiPc, uiAct, uiSeen>>
    BY <1>3 DEF BackgroundStep, ScheduleNext, PublishStarted, RunPasses, PutResults, PublishFinished
  <2>2. \A q \in Runs : results[q] \subseteq results'[q]
    BY <1>3, <1>t DEF BackgroundStep, ScheduleNext, PublishStarted, RunPasses, PutResults,
                      PublishFinished
  <2>3. uiPc = "showResults" => executor[uiAct] \in Runs
    BY HandledRun DEF CallbackPcs
  <2> QED BY <2>1, <2>2, <2>3 DEF SeenInv
<1>4. CASE UpdateStep \/ \E a \in Activities : Start(a)
  BY <1>4 DEF UpdateStep, OnProgressUpdate, ContainsKey, Start, SeenInv
<1>5. CASE OnBenchmarkFinished
  BY <1>5 DEF OnBenchmarkFinished, SeenInv, taskVars
<1>6. CASE CallbackStep /\ ~OnBenchmarkFinished
  BY <1>6, <1>1 DEF CallbackStep, NullListener, OnBenchmarkStarted, ShowResults, CheckComplete,
                    GenerateResults, CsvDelete, CsvBuild, CsvCreate, CsvWrite, UiReturns, SeenInv
<1>7. CASE PlatformStep \/ \E r \in Runs : PassThrows(r)
  BY <1>7, <1>0, <1>1 DEF PlatformStep, Kill, PassThrows, Launch, Destroy, Collect, SeenInv
<1> QED BY <1>2, <1>3, <1>4, <1>5, <1>6, <1>7 DEF Next

\* Of the tasks that wait, one is the first.
LEMMA FirstQueued ==
  ASSUME NEW r \in Runs, taskPc[r] = "queued"
  PROVE  \E q \in Runs : taskPc[q] = "queued" /\ \A p \in 1 .. (q - 1) : taskPc[p] # "queued"
<1> DEFINE T == {q \in Runs : taskPc[q] = "queued"}
<1>1. T # {} /\ T \subseteq Nat
  BY DEF Runs
<1>2. \E q \in T : \A p \in T : <<p, q>> \notin OpToRel(<, Nat)
  <2> HIDE DEF T
  <2> QED BY <1>1, NatLessThanWellFounded, WFMin
<1>3. \E q \in T : \A p \in T : ~(p < q)
  <2>1. T \subseteq Nat
    BY <1>1
  <2> HIDE DEF T
  <2>2. \A p, q \in Nat : p < q => <<p, q>> \in OpToRel(<, Nat)
    BY DEF OpToRel
  <2> QED BY <1>2, <2>1, <2>2
<1>4. PICK q \in T : \A p \in T : ~(p < q)
  BY <1>3
<1>5. ASSUME NEW p \in 1 .. (q - 1) PROVE taskPc[p] # "queued"
  <2>1. q \in Runs
    OBVIOUS
  <2>2. p < q /\ p \in Runs
    <3> HIDE DEF T
    <3> QED BY <2>1, <1>5, MaxRunsAssumption DEF Runs
  <2> QED BY <2>1, <2>2, <1>4
<1>6. q \in Runs /\ taskPc[q] = "queued"
  OBVIOUS
<1> HIDE DEF T
<1> QED BY <1>5, <1>6

\* A task that waits or works is one that the background thread serves.
LEMMA WaitingTask ==
  ASSUME NEW r \in Runs, Waits(r)
  PROVE  BackgroundMayStep
<1>1. CASE \E q \in Runs : Working(q)
  BY <1>1 DEF BackgroundMayStep
<1>2. CASE \A q \in Runs : ~Working(q)
  <2>1. taskPc[r] = "queued"
    BY <1>2 DEF Waits
  <2> QED BY <2>1, <1>2, FirstQueued DEF BackgroundMayStep
<1> QED BY <1>1, <1>2

\* While a screen waits for its button, its status or its file, a thread has
\* a step to take: nothing is lost that only another press would bring back.
THEOREM WaitingScreensAreServed == Spec => []WaitingIsServed
<1>1. ScreensInv /\ DeadInv /\ SeenInv => WaitingIsServed
  <2> SUFFICES ASSUME ScreensInv, DeadInv, SeenInv,
                      NEW a \in Activities, ScreenWaits(a)
               PROVE  MainMayStep \/ BackgroundMayStep
    BY DEF WaitingIsServed
  <2> USE DEF ScreensInv
  <2>1. life[a] = "live" /\ uiPc # "dead" /\ uiPc \in UiPcs
    BY DEF ScreenWaits, DeadInv, TypeInv, TypeOK
  <2>2. CASE uiPc # "idle"
    BY <2>1, <2>2 DEF MainMayStep, SeenInv
  <2>3. CASE uiPc = "idle" /\ looper # <<>>
    BY <2>3 DEF MainMayStep
  <2>4. CASE uiPc = "idle" /\ looper = <<>>
    <3>1. \A r \in Runs : LastReportAhead(r) => Waits(r)
      BY <2>4, AheadIs DEF InQueue, InHand
    <3>2. CASE ~enabled[a] \/ status[a] # Idle
      BY <3>1, <3>2, <2>1, WaitingTask DEF BusyInv
    <3>3. CASE exported < executor[a] /\ enabled[a] /\ status[a] = Idle
      <4>1. PICK e \in Runs \cup {NoRun} : executor[a] = e
        BY DEF TypeInv, TypeOK
      <4>2. e # NoRun /\ e \in Runs
        BY <4>1, <3>3 DEF TypeInv, TypeOK, Runs, NoRun
      <4>3. taskPc[e] = "done" \/ Waits(e)
        BY <4>1, <4>2, <2>1, FieldRun
      <4>4. ~(taskPc[e] = "done" /\ ~LastReportAhead(e))
        <5> SUFFICES ASSUME taskPc[e] = "done", ~LastReportAhead(e) PROVE FALSE
          OBVIOUS
        <5>1. Rested(a)
          BY <4>1, <4>2, <2>1 DEF RestInv
        <5>2. exported = executor[a]
          BY <5>1, <2>4 DEF Rested
        <5> QED BY <5>2, <3>3, <4>1, <4>2 DEF Runs
      <4> QED BY <4>2, <4>3, <4>4, <3>1, WaitingTask
    <3> QED BY <3>2, <3>3, <2>1 DEF ScreenWaits, TypeInv, TypeOK
  <2> QED BY <2>2, <2>3, <2>4
<1>2. Init => DeadInv /\ SeenInv
  BY DEF Init, ExecutorInit, DeadInv, SeenInv
<1>3. ScreensInv /\ (DeadInv /\ SeenInv) /\ [Next]_vars => (DeadInv /\ SeenInv)'
  BY DeadNext, SeenNext DEF ScreensInv
<1>4. Spec => [](DeadInv /\ SeenInv)
  BY <1>2, <1>3, ScreensInvariant, PTL DEF Spec
<1> QED BY <1>1, <1>4, ScreensInvariant, PTL

\* A step of a task is one of those the task has left.
LEMMA TaskSteps ==
  ASSUME TypeInv, ResultsInv, NEW r \in Runs, BackgroundStep(r)
  PROVE  /\ TaskLeft(r) \in 1 .. 4 * NBench + 1
         /\ TaskLeft(r)' = TaskLeft(r) - 1
         /\ \A q \in Runs \ {r} : TaskLeft(q)' = TaskLeft(q)
<1>t. /\ taskPc \in [Runs -> TaskPcs] /\ taskAt \in [Runs -> Benchmarks]
      /\ taskAt[r] \in 1 .. NBench /\ NBench \in Nat
  BY NBenchAssumption DEF TypeInv, TypeOK, Benchmarks
<1> USE DEF TaskLeft, Working, WorkingPcs
<1>1. CASE ScheduleNext(r)
  <2>1. taskAt[r] = 1
    BY <1>1 DEF ScheduleNext, ResultsInv
  <2> QED BY <2>1, <1>1, <1>t DEF ScheduleNext
<1>2. CASE PublishStarted(r)
  BY <1>2, <1>t DEF PublishStarted
<1>3. CASE RunPasses(r)
  BY <1>3, <1>t DEF RunPasses
<1>4. CASE PutResults(r)
  BY <1>4, <1>t DEF PutResults
<1>5. CASE PublishFinished(r)
  <2>1. CASE taskAt[r] < NBench /\ taskAt' = [taskAt EXCEPT ![r] = @ + 1]
               /\ taskPc' = [taskPc EXCEPT ![r] = "publishStarted"]
    BY <2>1, <1>5, <1>t DEF PublishFinished
  <2>2. CASE taskAt[r] = NBench /\ taskPc' = [taskPc EXCEPT ![r] = "done"] /\ UNCHANGED taskAt
    BY <2>2, <1>5, <1>t DEF PublishFinished
  <2> QED BY <2>1, <2>2, <1>5 DEF PublishFinished, NextBenchmark
<1> QED BY <1>1, <1>2, <1>3, <1>4, <1>5 DEF BackgroundStep

LEMMA TaskLeftInt == TypeInv => \A r \in Runs : TaskLeft(r) \in Int
<1> SUFFICES ASSUME TypeInv PROVE \A r \in Runs : TaskLeft(r) \in Int
  OBVIOUS
<1>1. \A r \in Runs : taskAt[r] \in 1 .. NBench /\ NBench \in Nat
  BY NBenchAssumption DEF TypeInv, TypeOK, Benchmarks
<1> QED BY <1>1 DEF TaskLeft, Working, WorkingPcs

\* Fewer steps left of each task are fewer steps left.
LEMMA LessLeft ==
  ASSUME TypeInv, TypeInv', \A r \in Runs : TaskLeft(r)' <= TaskLeft(r)
  PROVE  TasksLeft' \subseteq TasksLeft
<1>1. \A r \in Runs : TaskLeft(r) \in Int /\ TaskLeft(r)' \in Int
  <2>1. (TypeInv => \A r \in Runs : TaskLeft(r) \in Int)'
    BY TaskLeftInt, PTL
  <2>2. \A r \in Runs : TaskLeft(r)' \in Int
    BY <2>1
  <2> QED BY <2>2, TaskLeftInt
<1>2. TasksLeft' = {step \in Runs \X (1 .. 4 * NBench + 1) : step[2] <= TaskLeft(step[1])'}
  BY DEF TasksLeft
<1>3. 4 * NBench + 1 \in Nat
  BY NBenchAssumption
<1>4. ASSUME NEW step \in Runs \X (1 .. 4 * NBench + 1), step[2] <= TaskLeft(step[1])'
      PROVE  step[2] <= TaskLeft(step[1])
  <2>1. step[1] \in Runs /\ step[2] \in Int
    BY <1>3, <1>4
  <2>2. TaskLeft(step[1])' <= TaskLeft(step[1]) /\ TaskLeft(step[1]) \in Int /\ TaskLeft(step[1])' \in Int
    BY <2>1, <1>1
  <2> QED BY <2>1, <2>2, <1>4
<1> QED BY <1>2, <1>4 DEF TasksLeft

\* Only Start gives a task steps; the process's end takes them all.
LEMMA TasksRunOut ==
  ASSUME TypeInv, TypeInv', ResultsInv, [Next]_vars
  PROVE  \/ TasksLeft' \subseteq TasksLeft
         \/ \E a \in Activities : Start(a)
<1>1. ASSUME NEW r \in Runs, BackgroundStep(r) PROVE TasksLeft' \subseteq TasksLeft
  <2>1. \A q \in Runs : TaskLeft(q)' <= TaskLeft(q)
    BY <1>1, TaskSteps, TaskLeftInt
  <2> QED BY <2>1, LessLeft
<1>2. CASE ProcessDies
  <2>1. ASSUME NEW q \in Runs PROVE TaskLeft(q)' <= TaskLeft(q)
    <3>1. TaskLeft(q)' = 0
      BY <1>2 DEF ProcessDies, TaskLeft, Working, WorkingPcs
    <3>2. TaskLeft(q) >= 0
      <4>1. taskAt[q] \in 1 .. NBench /\ NBench \in Nat
        BY NBenchAssumption DEF TypeInv, TypeOK, Benchmarks
      <4> QED BY <4>1 DEF TaskLeft, Working, WorkingPcs
    <3> QED BY <3>1, <3>2
  <2> QED BY <2>1, LessLeft
<1>3. CASE UNCHANGED <<lastRun, results, taskPc, taskAt>>
  <2>1. TasksLeft' = TasksLeft
    BY <1>3 DEF TasksLeft, TaskLeft, Working
  <2> QED BY <2>1
<1> QED BY <1>1, <1>2, <1>3, TaskMovers

\* A task that goes on has fewer steps left.
LEMMA TaskGoesOn ==
  ASSUME TypeInv, TypeInv', ResultsInv, NEW r \in Runs, BackgroundStep(r)
  PROVE  TasksLeft' # TasksLeft
<1>1. PICK k : k = TaskLeft(r)
  OBVIOUS
<1>2. /\ k \in 1 .. 4 * NBench + 1
      /\ TaskLeft(r)' = k - 1
  BY <1>1, TaskSteps
<1>3. TasksLeft' = {step \in Runs \X (1 .. 4 * NBench + 1) : step[2] <= TaskLeft(step[1])'}
  BY DEF TasksLeft
<1>4. <<r, k>> \in TasksLeft
  BY <1>1, <1>2 DEF TasksLeft
<1>5. <<r, k>> \notin TasksLeft'
  BY <1>2, <1>3
<1> QED BY <1>4, <1>5

\* Every step of the main thread in a message is one of those it has left.
LEMMA MainRunsOut ==
  ASSUME TypeInv, TypeInv', UpdateStep \/ CallbackStep
  PROVE  MainLeft' \in 0 .. MainLeft - 1
<1>t. Len(looper) \in Nat /\ Len(looper') \in Nat /\ looper \in Seq(Messages)
  BY DEF TypeInv, TypeOK
<1> USE DEF MainLeft, AnswerLeft
<1>1. CASE ProcessDies /\ uiPc \in {"callStarted", "callFinished"}
  BY <1>1, <1>t DEF ProcessDies
<1>2. CASE OnProgressUpdate
  <2>1. Len(looper') = Len(looper) - 1
    BY <1>2, <1>t DEF OnProgressUpdate
  <2> QED BY <1>2, <2>1, <1>t DEF OnProgressUpdate, uiVars
<1>3. CASE ContainsKey
  BY <1>3, <1>t DEF ContainsKey
<1>4. CASE OnBenchmarkStarted \/ OnBenchmarkFinished \/ ShowResults \/ CheckComplete
  BY <1>4, <1>t DEF OnBenchmarkStarted, OnBenchmarkFinished, ShowResults, CheckComplete, UiReturns
<1>5. CASE GenerateResults
  <2>1. CASE CsvDelete \/ CsvBuild(executor[uiAct])
    BY <2>1, <1>t DEF CsvDelete, CsvBuild
  <2>2. CASE CsvCreate
    BY <2>2, <1>t DEF CsvCreate, UiReturns
  <2>3. CASE CsvWrite(executor[uiAct])
    BY <2>3, <1>t DEF CsvWrite, UiReturns
  <2> QED BY <1>5, <2>1, <2>2, <2>3 DEF GenerateResults
<1> QED
  BY <1>1, <1>2, <1>3, <1>4, <1>5 DEF UpdateStep, CallbackStep, NullListener

\* No other step but a report of the background thread's gives it more.
LEMMA MainGetsNoMore ==
  ASSUME TypeInv, TypeInv', [Next]_vars, \A r \in Runs : ~BackgroundStep(r)
  PROVE  MainLeft' <= MainLeft
<1>t. /\ Len(looper) \in Nat
      /\ AnswerLeft \in 0 .. 8
  <2>1. uiPc \in UiPcs /\ looper \in Seq(Messages)
    BY DEF TypeInv, TypeOK
  <2>2. AnswerLeft \in 0 .. 8
    BY <2>1 DEF AnswerLeft, UiPcs, CallbackPcs
  <2> QED BY <2>1, <2>2
<1>0. ASSUME UNCHANGED <<looper, uiPc>> PROVE MainLeft' <= MainLeft
  <2>1. AnswerLeft' = AnswerLeft
    BY <1>0 DEF AnswerLeft
  <2>2. MainLeft' = MainLeft /\ MainLeft \in Int
    BY <2>1, <1>0, <1>t DEF MainLeft
  <2> QED BY <2>2
<1>1. ASSUME ProcessDies PROVE MainLeft' <= MainLeft
  <2>1. MainLeft' = 0
    BY <1>1 DEF ProcessDies, MainLeft, AnswerLeft
  <2> QED BY <2>1, <1>t DEF MainLeft
<1>2. CASE UpdateStep \/ CallbackStep
  <2>1. MainLeft \in Int
    BY <1>t DEF MainLeft
  <2> QED BY <1>2, <2>1, MainRunsOut
<1>3. CASE UNCHANGED vars
  BY <1>3, <1>0 DEF vars, uiVars
<1>4. CASE \E a \in Activities : Start(a) \/ Destroy(a) \/ Collect(a)
  BY <1>4, <1>0 DEF Start, Destroy, Collect, uiVars
<1>5. CASE \E a \in Activities : Launch(a)
  BY <1>5, <1>t DEF Launch, MainLeft, AnswerLeft
<1>6. CASE Kill \/ \E r \in Runs : PassThrows(r)
  BY <1>6, <1>1 DEF Kill, PassThrows
<1> QED BY <1>2, <1>3, <1>4, <1>5, <1>6 DEF Next, PlatformStep

\* Neither thread works for ever on what it was given: each of its steps is
\* one less, and only a press gives them more.
THEOREM WorkEnds == Spec => [][WorkRunsOut]_vars
<1>1. ScreensInv /\ ScreensInv' /\ [Next]_vars => [WorkRunsOut]_vars
  <2> SUFFICES ASSUME TypeInv, TypeInv', ResultsInv, [Next]_vars PROVE WorkRunsOut
    BY DEF ScreensInv
  <2>1. (\E r \in Runs : BackgroundStep(r)) => ~\E a \in Activities : Start(a)
    BY DEF BackgroundStep, ScheduleNext, PublishStarted, RunPasses, PutResults, PublishFinished,
           Start, Execute, TypeInv, TypeOK
  <2>2. (\E r \in Runs : BackgroundStep(r)) => TasksLeft' \subseteq TasksLeft /\ TasksLeft' # TasksLeft
    BY <2>1, TasksRunOut, TaskGoesOn
  <2>3. UpdateStep \/ CallbackStep => MainLeft' \in 0 .. MainLeft - 1
    BY MainRunsOut
  <2>4. ~(\E r \in Runs : BackgroundStep(r)) => MainLeft' <= MainLeft
    BY MainGetsNoMore
  <2>5. ~(\E a \in Activities : Start(a)) => TasksLeft' \subseteq TasksLeft
    BY TasksRunOut
  <2> QED BY <2>2, <2>3, <2>4, <2>5 DEF WorkRunsOut
<1> QED BY <1>1, ScreensInvariant, PTL DEF Spec

------------------------------------------------------------------------------
(* How far the two texts hold that the program does not keep: the check of  *)
(* the listener, and the screen's "Idle".                                   *)

\* A listener found gone between its check and its call is no living screen's:
\* the screens there are do not have the reporting run in their field.
ClearedIsDestroyed ==
    uiPc \in {"callStarted", "callFinished"} /\ ListenerGone =>
        \A a \in Activities : life[a] = "live" => executor[a] # uiMsg.run

\* The NullPointerException of listener.get() ends no process but one whose
\* screen for that run is gone.
THEOREM OnlyDestroyedAreCleared == Spec => []ClearedIsDestroyed
<1>1. ScreensInv => ClearedIsDestroyed
  <2> SUFFICES ASSUME ScreensInv, uiPc \in {"callStarted", "callFinished"}, ListenerGone,
                      NEW a \in Activities, life[a] = "live", executor[a] = uiMsg.run
               PROVE  FALSE
    BY DEF ClearedIsDestroyed
  <2>1. uiMsg \in Messages /\ uiMsg.run \in Runs
    BY DEF ScreensInv, TypeInv, HandlerInv, Messages
  <2> QED BY <2>1 DEF ScreensInv, FieldInv, ListenerGone, Activities, NoActivity, Runs, NoRun
<1> QED BY <1>1, ScreensInvariant, PTL

\* What IdleMeansNothingExecutes says, said of the run in the screen's field.
OwnRunIsTold ==
    \A a \in Activities, r \in Runs :
        life[a] = "live" /\ status[a] = Idle /\ uiPc = "idle" /\ looper = <<>> /\ executor[a] = r
          => taskPc[r] # "passes"

\* The start of the benchmark a run is at was told to the screen, or is ahead.
StartOf(r) == [run |-> r, bench |-> taskAt[r]]
Told(a, r) ==
    \/ status[a] # Idle
    \/ \E j \in 1 .. Len(looper) : looper[j] = StartOf(r)
    \/ uiMsg = StartOf(r) /\ uiPc \in {"containsKey", "callStarted"}

ToldInv ==
    \A a \in Activities, r \in Runs :
        life[a] = "live" /\ executor[a] = r /\ taskPc[r] = "passes" => Told(a, r)

\* In the passes of a benchmark its run is not complete, nor has its results.
LEMMA NotYet ==
  ASSUME TypeInv, ResultsInv, NEW r \in Runs, taskPc[r] = "passes"
  PROVE  taskAt[r] \notin results[r] /\ ~RunComplete(r)
<1>1. /\ taskAt[r] \in 1 .. NBench /\ NBench \in Nat
      /\ results[r] = 1 .. (taskAt[r] - 1)
  BY NBenchAssumption DEF TypeInv, TypeOK, Benchmarks, ResultsInv
<1>2. PICK k \in 0 .. NBench - 1 : k = taskAt[r] - 1
  BY <1>1
<1>3. Cardinality(results[r]) = IF 1 > k THEN 0 ELSE k - 1 + 1
  <2>1. 1 \in Int /\ k \in Int /\ results[r] = 1 .. k
    BY <1>1, <1>2
  <2> QED BY <2>1, FS_Interval
<1> QED BY <1>1, <1>2, <1>3 DEF RunComplete

LEMMA ToldNext == ScreensInv /\ ToldInv /\ [Next]_vars => ToldInv'
<1> SUFFICES ASSUME ScreensInv, ToldInv, [Next]_vars,
                    NEW a \in Activities, NEW r \in Runs,
                    life'[a] = "live", executor'[a] = r, taskPc'[r] = "passes"
             PROVE  Told(a, r)'
  BY DEF ToldInv
<1> USE DEF taskVars, uiVars, screenVars
<1>t. /\ taskPc \in [Runs -> TaskPcs] /\ taskAt \in [Runs -> Benchmarks]
      /\ looper \in Seq(Messages)
      /\ life \in [Activities -> {"unborn", "live", "destroyed", "gone"}]
      /\ executor \in [Activities -> Runs \cup {NoRun}]
      /\ status \in [Activities -> Messages \cup {Idle}]
      /\ r # NoRun /\ a # NoActivity
  BY DEF ScreensInv, TypeInv, TypeOK, Runs, NoRun, Activities, NoActivity
<1>i. ASSUME life[a] = "live", executor[a] = r, taskPc[r] = "passes"
      PROVE  Told(a, r) /\ listener[r] = a
  BY <1>i, <1>t DEF ToldInv, ScreensInv, FieldInv
<1>0. ASSUME UNCHANGED <<taskPc, taskAt, looper>>,
             life[a] = "live", executor[a] = r, status'[a] = status[a],
             uiPc \notin {"containsKey", "callStarted"} \/ UNCHANGED <<uiPc, uiMsg>>
      PROVE  Told(a, r)'
  BY <1>0, <1>i DEF Told, StartOf
<1>1. CASE UNCHANGED vars
  BY <1>1, <1>0 DEF vars, lifeVars
<1>2. ASSUME NEW q \in Runs, BackgroundStep(q) PROVE Told(a, r)'
  <2>0. UNCHANGED <<life, executor, status, uiPc, uiMsg>>
    BY <1>2 DEF BackgroundStep, ScheduleNext, PublishStarted, RunPasses, PutResults, PublishFinished
  <2>1. CASE PublishStarted(r)
    <3>1. looper' = Append(looper, StartOf(r)) /\ taskAt' = taskAt
      BY <2>1 DEF PublishStarted, PublishProgress, StartOf
    <3>2. Len(looper') = Len(looper) + 1 /\ looper'[Len(looper) + 1] = StartOf(r)
          /\ Len(looper) + 1 \in 1 .. Len(looper')
      BY <3>1, <1>t DEF Messages, StartOf
    <3> QED BY <3>1, <3>2 DEF Told, StartOf
  <2>2. CASE ~PublishStarted(r)
    <3>1. q # r
      BY <1>2, <2>2, <1>t DEF BackgroundStep, ScheduleNext, RunPasses, PutResults, PublishFinished,
                              NextBenchmark
    <3>2. /\ taskPc[r] = "passes" /\ taskAt'[r] = taskAt[r]
          /\ looper' = looper \/ \E m : looper' = Append(looper, m)
      BY <1>2, <3>1, <1>t DEF BackgroundStep, ScheduleNext, PublishStarted, RunPasses, PutResults,
                              PublishFinished, NextBenchmark, PublishProgress
    <3>3. \A j \in 1 .. Len(looper) : j \in 1 .. Len(looper') /\ looper'[j] = looper[j]
      BY <3>2, <1>t
    <3> QED BY <2>0, <3>2, <3>3, <1>i DEF Told, StartOf
  <2> QED BY <2>1, <2>2
<1>3. ASSUME ProcessDies PROVE FALSE
  BY <1>3, <1>t DEF ProcessDies
<1>4. ASSUME NEW b \in Activities, Start(b) PROVE Told(a, r)'
  <2>1. /\ taskPc' = [taskPc EXCEPT ![lastRun'] = "queued"]
        /\ executor' = [executor EXCEPT ![b] = lastRun']
        /\ UNCHANGED <<life, status, taskAt, looper, uiPc, uiMsg>>
    BY <1>4 DEF Start, Execute
  <2>2. lastRun' # r /\ taskPc[r] = "passes"
    BY <2>1, <1>t
  <2>3. executor[a] = r
    BY <2>1, <2>2, <1>t
  <2> QED BY <2>1, <2>2, <2>3, <1>i DEF Told, StartOf
<1>5. CASE OnProgressUpdate /\ UNCHANGED <<life, screenVars, historyVars>>
  <2>1. /\ uiPc = "idle" /\ looper # <<>> /\ looper' = Tail(looper)
        /\ UNCHANGED <<taskPc, taskAt, executor, life, status>>
    BY <1>5 DEF OnProgressUpdate
  <2>2. Told(a, r) /\ listener[r] = a
    BY <2>1, <1>i
  <2>3. CASE Head(looper) = StartOf(r)
    <3>0. PICK m : m = Head(looper)
      OBVIOUS
    <3>1. uiMsg' = StartOf(r) /\ uiPc' = "containsKey"
      <4>1. m.run = r /\ listener[m.run] # NoActivity
        BY <3>0, <2>2, <2>3, <1>t DEF StartOf
      <4>2. \/ listener[m.run] = NoActivity
            \/ uiMsg' = m /\ uiPc' = "containsKey"
        BY <3>0, <1>5 DEF OnProgressUpdate
      <4> QED BY <4>1, <4>2, <3>0, <2>3
    <3> QED BY <3>1, <2>1 DEF Told, StartOf
  <2>4. CASE Head(looper) # StartOf(r) /\ \E j \in 1 .. Len(looper) : looper[j] = StartOf(r)
    <3>1. PICK j \in 1 .. Len(looper) : looper[j] = StartOf(r)
      BY <2>4
    <3>2. j # 1
      BY <3>1, <2>4, <1>t
    <3>3. PICK i : i = j - 1
      OBVIOUS
    <3>4. i \in 1 .. Len(looper') /\ looper'[i] = StartOf(r)
      BY <3>1, <3>2, <3>3, <2>1, <1>t
    <3> QED BY <3>4, <2>1 DEF Told, StartOf
  <2>5. CASE status[a] # Idle
    BY <2>5, <2>1 DEF Told
  <2> QED BY <2>1, <2>2, <2>3, <2>4, <2>5 DEF Told
<1>6. CASE ContainsKey /\ UNCHANGED <<life, screenVars, historyVars>>
  <2>1. /\ uiPc = "containsKey"
        /\ UNCHANGED <<taskPc, taskAt, looper, uiMsg, executor, life, status, results>>
    BY <1>6 DEF ContainsKey
  <2>2. Told(a, r)
    BY <2>1, <1>i
  <2>3. CASE uiMsg = StartOf(r)
    <3>1. taskAt[r] \notin results[r]
      BY <2>1, NotYet DEF ScreensInv
    <3>2. uiPc' = "callStarted"
      BY <3>1, <2>3, <1>6 DEF ContainsKey, StartOf
    <3> QED BY <3>2, <2>1, <2>3 DEF Told, StartOf
  <2> QED BY <2>1, <2>2, <2>3 DEF Told, StartOf
<1>7. CASE OnBenchmarkStarted
  <2>1. /\ uiPc = "callStarted" /\ uiMsg \in Messages
        /\ UNCHANGED <<taskPc, taskAt, looper, executor, life>>
        /\ status' = [status EXCEPT ![listener[uiMsg.run]] = uiMsg]
    BY <1>7 DEF OnBenchmarkStarted, ScreensInv, TypeInv, HandlerInv
  <2>2. uiMsg # Idle
    BY <2>1 DEF Messages, Idle, NoMessage, Runs, NoRun
  <2>3. Told(a, r) /\ listener[r] = a
    BY <2>1, <1>i
  <2>4. status[a] # Idle => status'[a] # Idle
    BY <2>1, <2>2, <1>t
  <2>5. uiMsg = StartOf(r) => status'[a] # Idle
    BY <2>1, <2>2, <2>3, <1>t DEF StartOf
  <2> QED BY <2>1, <2>3, <2>4, <2>5 DEF Told, StartOf
<1>8. CASE OnBenchmarkFinished \/ ShowResults
  BY <1>8, <1>0 DEF OnBenchmarkFinished, ShowResults
<1>9. CASE CheckComplete
  <2>1. /\ uiPc = "checkComplete"
        /\ UNCHANGED <<taskPc, taskAt, looper, executor, life>>
    BY <1>9 DEF CheckComplete
  <2>2. RunComplete(executor[uiAct]) => uiAct # a
    BY <2>1, NotYet DEF ScreensInv
  <2>3. status'[a] = status[a]
    BY <1>9, <2>2, <1>t DEF CheckComplete, BackToIdle
  <2> QED BY <2>1, <2>3, <1>0
<1>10. CASE GenerateResults
  BY <1>10, <1>0 DEF GenerateResults, CsvDelete, CsvBuild, CsvCreate, CsvWrite
<1>11. ASSUME NEW b \in Activities, Launch(b) PROVE Told(a, r)'
  BY <1>11, <1>0, <1>t DEF Launch
<1>12. ASSUME NEW b \in Activities, Destroy(b) \/ Collect(b) PROVE Told(a, r)'
  BY <1>12, <1>0, <1>t DEF Destroy, Collect
<1> QED
  BY <1>1, <1>2, <1>3, <1>4, <1>5, <1>6, <1>7, <1>8, <1>9, <1>10, <1>11, <1>12
     DEF Next, UpdateStep, CallbackStep, NullListener, PlatformStep, Kill, PassThrows

\* A screen that has answered every report does not say "Idle" while the run it
\* started last is in a benchmark's passes: what runs under "Idle" was started
\* on a screen before, or on this one before that.
THEOREM IdleOfItsOwnRun == Spec => []OwnRunIsTold
<1>1. Init => ToldInv
  BY DEF Init, ExecutorInit, ToldInv
<1>2. ScreensInv /\ ToldInv /\ [Next]_vars => ToldInv'
  BY ToldNext
<1>3. ToldInv => OwnRunIsTold
  BY DEF ToldInv, Told, OwnRunIsTold
<1> QED BY <1>1, <1>2, <1>3, ScreensInvariant, PTL DEF Spec
==============================================================================
