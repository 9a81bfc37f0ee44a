----------------------- MODULE BenchmarkActivityProofs -----------------------
(***************************************************************************)
(* What is proved of BenchmarkActivity for any number of benchmarks, runs  *)
(* and screens: its types, that no start is told after its end, and what   *)
(* orm-benchmark.csv is given.                                             *)
(***************************************************************************)
EXTENDS BenchmarkActivity, FiniteSetTheorems, TLAPS

------------------------------------------------------------------------------
(* Types, and who is on the main thread's stack.                           *)

\* The main thread holds a message while it handles one, and an activity, the
\* message's listener, while a callback runs.
HandlerInv ==
    /\ uiPc \notin {"dead", "idle"} => uiMsg \in Messages
    /\ uiPc \in CallbackPcs => uiAct \in Activities /\ uiAct = listener[uiMsg.run]
    /\ uiPc \notin CallbackPcs => uiAct = NoActivity

\* A listener is reachable and its field names its newest run.
ListenerInv ==
    /\ \A a \in Activities : executor[a] <= lastRun
    /\ \A r \in Runs : listener[r] # NoActivity =>
        /\ executor[listener[r]] \in Runs
        /\ r <= executor[listener[r]]
        /\ r <= lastRun
        /\ life[listener[r]] \in {"live", "destroyed"}

TypeInv == TypeOK /\ HandlerInv /\ ListenerInv

USE NBenchAssumption, MaxRunsAssumption, MaxActivitiesAssumption

LEMMA TypeInit == Init => TypeInv
  BY DEF Init, ExecutorInit, TypeInv, TypeOK, HandlerInv, ListenerInv, Runs, Activities,
         Benchmarks, NoActivity, NoRun, NoMessage, NoFile, Idle, TaskPcs, WorkingPcs, UiPcs,
         CallbackPcs, Messages

\* generateResults and its callers find a run in the activity's field.
LEMMA HandledRun ==
  TypeInv /\ uiPc \in CallbackPcs => uiAct \in Activities /\ executor[uiAct] \in Runs
<1> SUFFICES ASSUME TypeInv, uiPc \in CallbackPcs
    PROVE uiAct \in Activities /\ executor[uiAct] \in Runs
  OBVIOUS
<1>1. uiAct \in Activities /\ uiAct = listener[uiMsg.run] /\ uiMsg.run \in Runs
  BY DEF TypeInv, HandlerInv, CallbackPcs, Messages
<1> QED BY <1>1 DEF TypeInv, ListenerInv, Activities, NoActivity

LEMMA TypeNext == TypeInv /\ [Next]_vars => TypeInv'
<1> SUFFICES ASSUME TypeInv, [Next]_vars PROVE TypeInv'
  OBVIOUS
<1> USE DEF TypeInv, TypeOK, HandlerInv,
            taskVars, uiVars, fileVars, lifeVars, screenVars, historyVars
<1>a. ASSUME UNCHANGED <<lastRun, listener, life, executor>> PROVE ListenerInv'
  BY <1>a DEF ListenerInv
<1>1. CASE UNCHANGED vars
  BY <1>1, <1>a DEF vars
<1>2. ASSUME NEW r \in Runs, BackgroundStep(r) PROVE TypeInv'
  <2>1. CASE ScheduleNext(r)
    BY <1>2, <2>1, <1>a DEF BackgroundStep, ScheduleNext, TaskPcs, WorkingPcs
  <2>2. CASE PublishStarted(r)
    BY <1>2, <2>2, <1>a DEF BackgroundStep, PublishStarted, PublishProgress, Messages, TaskPcs, WorkingPcs
  <2>3. CASE RunPasses(r)
    BY <1>2, <2>3, <1>a DEF BackgroundStep, RunPasses, TaskPcs, WorkingPcs
  <2>4. CASE PutResults(r)
    BY <1>2, <2>4, <1>a DEF BackgroundStep, PutResults, TaskPcs, WorkingPcs
  <2>5. CASE PublishFinished(r)
    <3>1. taskAt' \in [Runs -> Benchmarks] /\ taskPc' \in [Runs -> TaskPcs]
      <4>1. taskAt[r] \in Nat /\ 1 <= taskAt[r] /\ taskAt[r] <= NBench
        BY DEF Benchmarks
      <4>2. taskAt[r] < NBench => taskAt[r] + 1 \in Benchmarks
        BY <4>1 DEF Benchmarks
      <4> QED BY <2>5, <4>2 DEF PublishFinished, NextBenchmark, TaskPcs, WorkingPcs
    <3>2. looper' \in Seq(Messages)
      BY <2>5 DEF PublishFinished, PublishProgress, Messages
    <3> QED BY <1>2, <2>5, <3>1, <3>2, <1>a DEF BackgroundStep, PublishFinished
  <2> QED BY <1>2, <2>1, <2>2, <2>3, <2>4, <2>5 DEF BackgroundStep
<1>3. ASSUME ProcessDies, csv' \in [file : {"absent", "empty", "data"}, run : Runs \cup {NoRun}, rows : SUBSET Benchmarks]
      PROVE TypeInv'
  BY <1>3 DEF ListenerInv, ProcessDies, TaskPcs, UiPcs, CallbackPcs, NoActivity, Benchmarks
<1>4. ASSUME NEW a \in Activities, Start(a) PROVE TypeInv'
  <2>1. TypeOK' /\ HandlerInv'
    BY <1>4 DEF Start, Execute, Runs, NoRun, NoActivity, TaskPcs, CallbackPcs
  <2>2. ListenerInv'
    <3>1. lastRun' = lastRun + 1 /\ lastRun' \in Runs /\ lastRun \in Nat
      BY <1>4 DEF Start, Execute, Runs
    <3>2. executor' = [executor EXCEPT ![a] = lastRun']
      BY <1>4 DEF Start, Execute
    <3>3. listener' = [listener EXCEPT ![lastRun'] = a] /\ life' = life /\ life[a] = "live"
      BY <1>4 DEF Start, Execute
    <3>4. \A b \in Activities : executor'[b] <= lastRun'
      BY <3>1, <3>2 DEF ListenerInv, Runs, NoRun
    <3>5. ASSUME NEW r \in Runs, listener'[r] # NoActivity
          PROVE /\ executor'[listener'[r]] \in Runs
                /\ r <= executor'[listener'[r]]
                /\ r <= lastRun'
                /\ life'[listener'[r]] \in {"live", "destroyed"}
      <4>1. CASE r = lastRun'
        BY <4>1, <3>1, <3>2, <3>3 DEF Runs
      <4>2. CASE r # lastRun'
        BY <4>2, <3>1, <3>2, <3>3, <3>5 DEF ListenerInv, Runs
      <4> QED BY <4>1, <4>2
    <3> QED BY <3>4, <3>5 DEF ListenerInv
  <2> QED BY <2>1, <2>2
<1>5. CASE UpdateStep
  <2>1. CASE OnProgressUpdate
    <3>1. Head(looper) \in Messages /\ Tail(looper) \in Seq(Messages)
      BY <2>1 DEF OnProgressUpdate
    <3> QED BY <1>5, <2>1, <3>1, <1>a DEF UpdateStep, OnProgressUpdate, UiPcs, CallbackPcs
  <2>2. CASE ContainsKey
    BY <1>5, <2>2, <1>a DEF UpdateStep, ContainsKey, UiPcs, CallbackPcs
  <2> QED BY <1>5, <2>1, <2>2 DEF UpdateStep
<1>6. CASE OnBenchmarkStarted
  BY <1>6, <1>a DEF OnBenchmarkStarted, UiReturns, ListenerGone, UiPcs, CallbackPcs, Messages, Idle
<1>7. CASE OnBenchmarkFinished
  BY <1>7, <1>a DEF ListenerInv, OnBenchmarkFinished, ListenerGone, UiPcs, CallbackPcs, Messages
<1>8. CASE ShowResults
  <2>1. uiAct \in Activities /\ executor[uiAct] \in Runs
    BY <1>8, HandledRun DEF ShowResults, CallbackPcs
  <2>2. results[executor[uiAct]] \subseteq Benchmarks
    BY <2>1
  <2>3. PICK keys \in SUBSET results[executor[uiAct]] : shown' = [shown EXCEPT ![uiAct] = keys]
    BY <1>8 DEF ShowResults
  <2>4. shown' \in [Activities -> SUBSET Benchmarks]
    BY <2>1, <2>2, <2>3
  <2>5. TypeOK'
    BY <1>8, <2>4 DEF ShowResults, UiPcs, CallbackPcs
  <2> QED BY <1>8, <2>5, <1>a DEF ShowResults, CallbackPcs
<1>9. CASE CheckComplete
  BY <1>9, <1>a DEF CheckComplete, RunComplete, BackToIdle, UiReturns, UiPcs, CallbackPcs, Idle
<1>10. CASE GenerateResults
  <2>1. CASE CsvDelete /\ exported' = executor[uiAct] /\ UNCHANGED <<life, screenVars, reported>>
    BY <2>1, <1>a DEF CsvDelete, UiPcs, CallbackPcs, NoFile, EmptyFile, NoRun, NoActivity, Activities, Messages
  <2>2. CASE CsvBuild(executor[uiAct]) /\ UNCHANGED <<life, screenVars, historyVars>>
    <3>1. uiAct \in Activities /\ executor[uiAct] \in Runs
      BY <2>2, HandledRun DEF CsvBuild, CallbackPcs
    <3> QED BY <2>2, <3>1, <1>a DEF CsvBuild, UiPcs, CallbackPcs
  <2>3. CASE CsvCreate /\ UNCHANGED <<life, screenVars, historyVars>>
    BY <2>3, <1>a DEF CsvCreate, UiReturns, UiPcs, CallbackPcs, NoFile, EmptyFile, NoRun, NoActivity, Activities, Messages
  <2>4. CASE CsvWrite(executor[uiAct]) /\ UNCHANGED <<life, screenVars, historyVars>>
    BY <2>4, <1>a DEF CsvWrite, UiReturns, UiPcs, CallbackPcs, NoFile, EmptyFile, NoRun, NoActivity, Activities, Messages
  <2> QED BY <1>10, <2>1, <2>2, <2>3, <2>4 DEF GenerateResults
<1>11. ASSUME NEW a \in Activities, Launch(a) PROVE TypeInv'
  <2>1. TypeOK'
    BY <1>11 DEF Launch, Idle, UiPcs, NoRun
  <2>2. HandlerInv'
    BY <1>11 DEF Launch, CallbackPcs
  <2>3. \A r \in Runs : listener[r] # NoActivity => listener[r] # a
    BY <1>11 DEF Launch, ListenerInv
  <2>4. ListenerInv'
    BY <1>11, <2>3 DEF Launch, ListenerInv, NoRun
  <2> QED BY <2>1, <2>2, <2>4
<1>12. ASSUME NEW a \in Activities, Destroy(a) PROVE TypeInv'
  <2>1. TypeOK' /\ HandlerInv'
    BY <1>12 DEF Destroy
  <2>2. ListenerInv'
    BY <1>12 DEF Destroy, ListenerInv
  <2> QED BY <2>1, <2>2
<1>13. ASSUME NEW a \in Activities, Collect(a) PROVE TypeInv'
  <2>1. TypeOK'
    BY <1>13 DEF Collect, NoActivity
  <2>2. \A r \in Runs : listener[r] # a => listener'[r] = listener[r]
    BY <1>13 DEF Collect
  <2>3. uiPc \in CallbackPcs => uiMsg.run \in Runs /\ listener[uiMsg.run] # a
    BY <1>13 DEF Collect, Messages, CallbackPcs
  <2>4. HandlerInv'
    BY <1>13, <2>2, <2>3 DEF Collect
  <2>5. ListenerInv'
    BY <1>13 DEF Collect, ListenerInv, NoActivity
  <2> QED BY <2>1, <2>4, <2>5
<1>14. ASSUME NEW r \in Runs, PassThrows(r) PROVE TypeInv'
  BY <1>14, <1>3 DEF PassThrows
<1>15. CASE NullListener
  BY <1>15, <1>3 DEF NullListener
<1>16. CASE Kill
  <2>1. ASSUME uiPc = "csvWrite", NEW rows \in SUBSET uiSeen,
               csv' = [file |-> "data", run |-> executor[uiAct], rows |-> rows]
        PROVE csv' \in [file : {"absent", "empty", "data"}, run : Runs \cup {NoRun}, rows : SUBSET Benchmarks]
    BY <2>1 DEF CallbackPcs
  <2>2. csv' \in [file : {"absent", "empty", "data"}, run : Runs \cup {NoRun}, rows : SUBSET Benchmarks]
    BY <1>16, <2>1 DEF Kill
  <2> QED BY <1>16, <2>2, <1>3 DEF Kill
<1> QED
  BY <1>1, <1>2, <1>4, <1>5, <1>6, <1>7, <1>8, <1>9, <1>10, <1>11, <1>12, <1>13,
     <1>14, <1>15, <1>16 DEF Next, CallbackStep, PlatformStep

\* Every variable keeps its type; in particular results.get and the executor
\* field are never asked with what is not a run.
THEOREM TypeCorrect == Spec => []TypeOK
<1>1. Spec => []TypeInv
  BY TypeInit, TypeNext, PTL DEF Spec
<1> QED BY <1>1, PTL DEF TypeInv
------------------------------------------------------------------------------
(* The background thread works through the runs in the order of the presses. *)

\* Tasks start in the order they were made, each when the one before is over.
TaskInv ==
    /\ \A r \in Runs : taskPc[r] = "none" <=> r > lastRun
    /\ \A q, r \in Runs :
          q < r /\ taskPc[r] \in WorkingPcs \cup {"done"} => taskPc[q] \in {"done", "lost"}

\* Who moves the tasks: the background thread, Start and the process's end.
LEMMA TaskMovers ==
  ASSUME [Next]_vars
  PROVE  \/ \E r \in Runs : BackgroundStep(r)
         \/ \E a \in Activities : Start(a)
         \/ ProcessDies
         \/ UNCHANGED <<lastRun, results, taskPc, taskAt>>
<1> USE DEF taskVars
<1>1. CASE UNCHANGED vars
  BY <1>1 DEF vars
<1>2. CASE UpdateStep
  BY <1>2 DEF UpdateStep, OnProgressUpdate, ContainsKey
<1>3. CASE CallbackStep
  BY <1>3 DEF CallbackStep, NullListener, OnBenchmarkStarted, OnBenchmarkFinished, ShowResults,
              CheckComplete, GenerateResults, CsvDelete, CsvBuild, CsvCreate, CsvWrite
<1>4. CASE PlatformStep
  BY <1>4 DEF PlatformStep, Kill, Launch, Destroy, Collect
<1> QED BY <1>1, <1>2, <1>3, <1>4 DEF Next, PassThrows

LEMMA TaskNext == TypeInv /\ TaskInv /\ [Next]_vars => TaskInv'
<1> SUFFICES ASSUME TypeInv, TaskInv, [Next]_vars PROVE TaskInv'
  OBVIOUS
<1>t. lastRun \in Nat /\ taskPc \in [Runs -> TaskPcs] /\ Runs \subseteq Nat
  BY DEF TypeInv, TypeOK, Runs
<1>1. ASSUME NEW r \in Runs, BackgroundStep(r) PROVE TaskInv'
  <2>1. CASE ScheduleNext(r)
    <3>1. /\ lastRun' = lastRun
          /\ taskPc[r] = "queued"
          /\ taskPc' = [taskPc EXCEPT ![r] = "publishStarted"]
      BY <2>1 DEF ScheduleNext
    <3>2. ASSUME NEW q \in Runs, q < r PROVE taskPc[q] \in {"done", "lost"}
      <4>1. q \in 1 .. (r - 1)
        BY <3>2 DEF Runs
      <4>2. taskPc[q] # "queued" /\ ~Working(q)
        BY <2>1, <4>1 DEF ScheduleNext
      <4>3. taskPc[q] # "none"
        BY <3>1, <3>2, <1>t DEF TaskInv
      <4> QED BY <4>2, <4>3, <1>t DEF Working, TaskPcs
    <3> QED BY <3>1, <3>2, <1>t DEF TaskInv, WorkingPcs
  <2>2. CASE Working(r) /\ lastRun' = lastRun
               /\ \E pc \in WorkingPcs \cup {"done"} : taskPc' = [taskPc EXCEPT ![r] = pc]
    BY <2>2, <1>t DEF TaskInv, Working, WorkingPcs
  <2> QED
    BY <1>1, <2>1, <2>2 DEF BackgroundStep, PublishStarted, RunPasses, PutResults,
                            PublishFinished, NextBenchmark, Working, WorkingPcs
<1>2. ASSUME NEW a \in Activities, Start(a) PROVE TaskInv'
  <2>1. /\ lastRun' = lastRun + 1
        /\ lastRun' \in Runs
        /\ taskPc' = [taskPc EXCEPT ![lastRun'] = "queued"]
    BY <1>2 DEF Start, Execute
  <2> QED BY <2>1, <1>t DEF TaskInv, WorkingPcs
<1>3. CASE ProcessDies
  BY <1>3, <1>t DEF ProcessDies, TaskInv, WorkingPcs
<1>4. CASE UNCHANGED <<lastRun, results, taskPc, taskAt>>
  BY <1>4 DEF TaskInv
<1> QED BY <1>1, <1>2, <1>3, <1>4, TaskMovers

LEMMA TaskInvariant == Spec => [](TypeInv /\ TaskInv)
<1>1. Init => TypeInv /\ TaskInv
  BY TypeInit DEF Init, ExecutorInit, TaskInv, Runs, WorkingPcs
<1>2. TypeInv /\ TaskInv /\ [Next]_vars => (TypeInv /\ TaskInv)'
  BY TypeNext, TaskNext
<1> QED BY <1>1, <1>2, PTL DEF Spec

------------------------------------------------------------------------------
(* Starts and ends of benchmarks are told apart in time.                   *)

Begun(r) == taskPc[r] \in WorkingPcs \cup {"done"}

\* A report is of a run that was begun and not lost, and the end of a
\* benchmark is only told when its results are in.
ReportInv ==
    /\ \A i \in 1 .. Len(looper) : Begun(looper[i].run)
    /\ uiPc \notin {"dead", "idle"} => Begun(uiMsg.run)
    /\ \A r \in Runs : taskPc[r] = "none" => reported[r] = {}
    /\ \A r \in Runs : taskPc[r] # "lost" => reported[r] \subseteq results[r]
    /\ uiPc = "callFinished" => uiMsg.bench \in results[uiMsg.run]
    /\ NoStartAfterFinish

LEMMA ReportNext == TypeInv /\ TaskInv /\ ReportInv /\ [Next]_vars => ReportInv'
<1> SUFFICES ASSUME TypeInv, TaskInv, ReportInv, [Next]_vars PROVE ReportInv'
  OBVIOUS
<1> USE DEF ReportInv, NoStartAfterFinish, Begun, taskVars, uiVars, historyVars
<1>t. /\ taskPc \in [Runs -> TaskPcs]
      /\ results \in [Runs -> SUBSET Benchmarks]
      /\ reported \in [Runs -> SUBSET Benchmarks]
      /\ looper \in Seq(Messages)
      /\ uiPc \notin {"dead", "idle"} => uiMsg \in Messages
  BY DEF TypeInv, TypeOK, HandlerInv
<1>m. \A m \in Messages : m.run \in Runs
  BY DEF Messages
<1>l. \A i \in 1 .. Len(looper) : looper[i] \in Messages
  BY <1>t
<1>1. CASE UNCHANGED vars
  BY <1>1 DEF vars
<1>2. ASSUME NEW r \in Runs, BackgroundStep(r) PROVE ReportInv'
  <2>u. UNCHANGED <<uiPc, uiMsg, reported>>
    BY <1>2 DEF BackgroundStep, ScheduleNext, PublishStarted, RunPasses, PutResults, PublishFinished
  <2>p. \E pc \in WorkingPcs \cup {"done"} :
           taskPc' = [taskPc EXCEPT ![r] = pc] /\ taskPc[r] \notin {"none", "lost"}
    BY <1>2 DEF BackgroundStep, ScheduleNext, PublishStarted, RunPasses, PutResults,
                PublishFinished, NextBenchmark, WorkingPcs
  <2>r. \A q \in Runs : results[q] \subseteq results'[q]
    BY <1>2, <1>t DEF BackgroundStep, ScheduleNext, PublishStarted, RunPasses, PutResults,
                      PublishFinished
  <2>q. \A q \in Runs : Begun(q) => Begun(q)'
    BY <2>p, <1>t
  <2>l. (\A i \in 1 .. Len(looper) : Begun(looper[i].run))'
    <3>1. CASE looper' = looper
      BY <3>1, <2>q, <1>l, <1>m
    <3>2. CASE Working(r) /\ PublishProgress(r)
      <4>1. Begun(r)'
        BY <3>2, <2>q DEF Working
      <4>2. \A i \in 1 .. Len(looper') :
               IF i \in 1 .. Len(looper) THEN looper'[i] = looper[i] ELSE looper'[i].run = r
        BY <3>2, <1>t DEF PublishProgress
      <4> QED BY <4>1, <4>2, <2>q, <1>l, <1>m
    <3> QED
      BY <1>2, <3>1, <3>2 DEF BackgroundStep, ScheduleNext, PublishStarted, RunPasses, PutResults,
                              PublishFinished, Working, WorkingPcs
  <2>1. uiPc' \notin {"dead", "idle"} => Begun(uiMsg.run)'
    BY <2>u, <2>q, <1>t, <1>m
  <2>2. \A q \in Runs : taskPc'[q] = "none" => reported'[q] = {}
    BY <2>u, <2>p, <1>t DEF WorkingPcs
  <2>3. \A q \in Runs : taskPc'[q] # "lost" => reported'[q] \subseteq results'[q]
    BY <2>u, <2>p, <2>r, <1>t
  <2>4. uiPc' = "callFinished" => uiMsg'.bench \in results'[uiMsg'.run]
    BY <2>u, <2>r, <1>t, <1>m
  <2> QED BY <2>u, <2>l, <2>1, <2>2, <2>3, <2>4
<1>3. CASE ProcessDies
  BY <1>3, <1>t DEF ProcessDies
<1>4. ASSUME NEW a \in Activities, Start(a) PROVE ReportInv'
  <2>1. /\ lastRun' = lastRun + 1
        /\ lastRun' \in Runs
        /\ taskPc[lastRun'] = "none"
        /\ taskPc' = [taskPc EXCEPT ![lastRun'] = "queued"]
        /\ results' = [results EXCEPT ![lastRun'] = {}]
        /\ UNCHANGED <<looper, uiPc, uiMsg, reported>>
        /\ uiPc = "idle"
    BY <1>4 DEF Start, Execute, TaskInv, TypeInv, TypeOK
  <2>2. \A q \in Runs : Begun(q) => Begun(q)'
    BY <2>1, <1>t DEF WorkingPcs
  <2>3. (\A i \in 1 .. Len(looper) : Begun(looper[i].run))'
    BY <2>1, <2>2, <1>l, <1>m
  <2>4. \A r \in Runs : taskPc'[r] # "lost" => reported'[r] \subseteq results'[r]
    BY <2>1, <1>t
  <2> QED BY <2>1, <2>3, <2>4, <1>t
<1>5. CASE UpdateStep
  <2>1. CASE OnProgressUpdate
    <3>1. Head(looper) = looper[1] /\ 1 \in 1 .. Len(looper)
      BY <2>1, <1>t DEF OnProgressUpdate
    <3>2. \A i \in 1 .. Len(Tail(looper)) : Tail(looper)[i] = looper[i + 1] /\ i + 1 \in 1 .. Len(looper)
      BY <2>1, <1>t DEF OnProgressUpdate
    <3> QED BY <1>5, <2>1, <3>1, <3>2 DEF UpdateStep, OnProgressUpdate
  <2>2. CASE ContainsKey
    <3>1. taskPc[uiMsg.run] # "lost" /\ uiMsg.run \in Runs
      BY <2>2, <1>t, <1>m DEF ContainsKey, WorkingPcs
    <3> QED BY <1>5, <2>2, <3>1 DEF UpdateStep, ContainsKey
  <2> QED BY <1>5, <2>1, <2>2 DEF UpdateStep
<1>6. CASE OnBenchmarkFinished
  <2>1. /\ reported' = [reported EXCEPT ![uiMsg.run] = @ \cup {uiMsg.bench}]
        /\ UNCHANGED <<results, taskPc, looper, uiMsg>>
        /\ uiPc = "callFinished" /\ uiPc' = "showResults"
    BY <1>6 DEF OnBenchmarkFinished
  <2>2. uiMsg.run \in Runs /\ uiMsg.bench \in results[uiMsg.run] /\ taskPc[uiMsg.run] # "none"
    BY <2>1, <1>t, <1>m DEF WorkingPcs
  <2> QED BY <2>1, <2>2, <1>t
<1>7. CASE NullListener \/ OnBenchmarkStarted \/ ShowResults \/ CheckComplete \/ GenerateResults
  BY <1>7, <1>3 DEF NullListener, OnBenchmarkStarted, ShowResults, CheckComplete, GenerateResults,
                    CsvDelete, CsvBuild, CsvCreate, CsvWrite, UiReturns
<1>8. CASE PlatformStep
  BY <1>8, <1>3 DEF PlatformStep, Kill, Launch, Destroy, Collect
<1>9. ASSUME NEW r \in Runs, PassThrows(r) PROVE ReportInv'
  BY <1>9, <1>3 DEF PassThrows
<1> QED
  BY <1>1, <1>2, <1>4, <1>5, <1>6, <1>7, <1>8, <1>9 DEF Next, CallbackStep

\* No benchmark of a run is told to start after it was told to have ended,
\* although one containsKey of a map that another thread fills decides it.
THEOREM StartsBeforeEnds == Spec => []NoStartAfterFinish
<1>1. Init => ReportInv
  BY DEF Init, ExecutorInit, ReportInv, NoStartAfterFinish
<1>2. (TypeInv /\ TaskInv) /\ ReportInv /\ [Next]_vars => ReportInv'
  BY ReportNext
<1>3. Spec => []ReportInv
  BY <1>1, <1>2, TaskInvariant, PTL DEF Spec
<1> QED BY <1>3, PTL DEF ReportInv

------------------------------------------------------------------------------
(* orm-benchmark.csv: a file said to be generated is complete, and the file *)
(* is never given an older run's results.                                  *)

CsvPcs == {"csvDelete", "csvBuild", "csvCreate", "csvWrite"}

\* While generateCSV runs, the run it exports is complete and is the newest
\* one exported, and the rows it has gathered are all there are.
CsvInv ==
    /\ uiPc \in CsvPcs => results[executor[uiAct]] = Benchmarks
    /\ uiPc \in CsvPcs \ {"csvDelete"} => exported = executor[uiAct]
    /\ uiPc \in {"csvCreate", "csvWrite"} => uiSeen = Benchmarks
    /\ AnnouncedCsvIsComplete

\* getResults().size() == BENCHMARKS.length says that no benchmark is missing.
LEMMA SizeTellsComplete ==
  ASSUME NEW S \in SUBSET Benchmarks, Cardinality(S) = NBench
  PROVE  S = Benchmarks
<1>1. IsFiniteSet(Benchmarks) /\ Cardinality(Benchmarks) = NBench
  BY FS_Interval, NBenchAssumption DEF Benchmarks
<1> QED BY <1>1, FS_Subset

LEMMA CsvNext == TypeInv /\ CsvInv /\ [Next]_vars => CsvInv'
<1> SUFFICES ASSUME TypeInv, CsvInv, [Next]_vars PROVE CsvInv'
  OBVIOUS
<1> USE DEF CsvInv, AnnouncedCsvIsComplete, CsvPcs, taskVars, uiVars, fileVars, screenVars,
            historyVars
<1>h. uiPc \in CsvPcs \cup {"checkComplete"} =>
        uiAct \in Activities /\ executor[uiAct] \in Runs /\ results[executor[uiAct]] \subseteq Benchmarks
  BY HandledRun DEF TypeInv, TypeOK, CallbackPcs
<1>1. CASE UNCHANGED vars
  BY <1>1 DEF vars
<1>2. ASSUME NEW r \in Runs, BackgroundStep(r) PROVE CsvInv'
  <2>1. UNCHANGED <<uiVars, fileVars, executor, exported>>
    BY <1>2 DEF BackgroundStep, ScheduleNext, PublishStarted, RunPasses, PutResults, PublishFinished
  <2>2. \A q \in Runs : results[q] \subseteq results'[q] /\ results'[q] \subseteq Benchmarks
    BY <1>2 DEF BackgroundStep, ScheduleNext, PublishStarted, RunPasses, PutResults,
                PublishFinished, TypeInv, TypeOK
  <2> QED BY <2>1, <2>2, <1>h
<1>3. ASSUME ProcessDies PROVE CsvInv'
  BY <1>3 DEF ProcessDies
<1>4. ASSUME NEW a \in Activities, Start(a) PROVE CsvInv'
  BY <1>4 DEF Start
<1>5. CASE UpdateStep
  BY <1>5 DEF UpdateStep, OnProgressUpdate, ContainsKey
<1>6. CASE NullListener \/ OnBenchmarkStarted \/ OnBenchmarkFinished \/ ShowResults
  BY <1>6, <1>3 DEF NullListener, OnBenchmarkStarted, OnBenchmarkFinished, ShowResults, UiReturns
<1>7. CASE CheckComplete
  BY <1>7, <1>h, SizeTellsComplete DEF CheckComplete, RunComplete, UiReturns
<1>8. CASE GenerateResults
  <2>1. CASE CsvDelete /\ exported' = executor[uiAct] /\ UNCHANGED <<life, screenVars, reported>>
    BY <2>1 DEF CsvDelete
  <2>2. CASE CsvBuild(executor[uiAct]) /\ UNCHANGED <<life, screenVars, historyVars>>
    BY <2>2 DEF CsvBuild
  <2>3. CASE CsvCreate /\ UNCHANGED <<life, screenVars, historyVars>>
    BY <2>3 DEF CsvCreate, UiReturns
  <2>4. CASE CsvWrite(executor[uiAct]) /\ UNCHANGED <<life, screenVars, historyVars>>
    BY <2>4 DEF CsvWrite, UiReturns
  <2> QED BY <1>8, <2>1, <2>2, <2>3, <2>4 DEF GenerateResults
<1>9. CASE PlatformStep
  BY <1>9, <1>3 DEF PlatformStep, Kill, Launch, Destroy, Collect
<1>10. ASSUME NEW r \in Runs, PassThrows(r) PROVE CsvInv'
  BY <1>10, <1>3 DEF PassThrows
<1> QED
  BY <1>1, <1>2, <1>4, <1>5, <1>6, <1>7, <1>8, <1>9, <1>10 DEF Next, CallbackStep

\* "CSV file was generated" is only said of a file that has a row for every
\* benchmark of the run that was exported last.
THEOREM AnnouncedIsComplete == Spec => []AnnouncedCsvIsComplete
<1>1. Init => CsvInv
  BY DEF Init, ExecutorInit, CsvInv, CsvPcs, AnnouncedCsvIsComplete
<1>2. (TypeInv /\ TaskInv) /\ CsvInv /\ [Next]_vars => CsvInv'
  BY CsvNext
<1>3. Spec => []CsvInv
  BY <1>1, <1>2, TaskInvariant, PTL DEF Spec
<1> QED BY <1>3, PTL DEF CsvInv
------------------------------------------------------------------------------
(* The file follows the runs in the order they were started.               *)

\* Screens follow one another, and the runs in their fields do too.
ScreenInv ==
    /\ \A a, b \in Activities : a < b /\ life[b] # "unborn" => life[a] \in {"destroyed", "gone"}
    /\ \A a \in Activities : life[a] = "unborn" => executor[a] = NoRun
    /\ \A a, b \in Activities : a < b /\ executor[b] # NoRun => executor[a] <= executor[b]
    /\ \A q, r \in Runs :
          q < r /\ listener[q] # NoActivity /\ listener[r] # NoActivity => listener[q] <= listener[r]

LEMMA ScreenNext == TypeInv /\ ScreenInv /\ [Next]_vars => ScreenInv'
<1> SUFFICES ASSUME TypeInv, ScreenInv, [Next]_vars PROVE ScreenInv'
  OBVIOUS
<1> USE DEF taskVars, screenVars
<1>t. /\ lastRun \in Nat /\ Runs \subseteq Nat /\ Activities \subseteq Nat /\ 0 \notin Runs
      /\ listener \in [Runs -> Activities \cup {NoActivity}]
      /\ life \in [Activities -> {"unborn", "live", "destroyed", "gone"}]
      /\ executor \in [Activities -> Runs \cup {NoRun}]
      /\ ListenerInv
  BY DEF TypeInv, TypeOK, Runs, Activities
<1>0. ASSUME UNCHANGED <<listener, life, executor>> PROVE ScreenInv'
  BY <1>0 DEF ScreenInv
<1>1. CASE UNCHANGED vars
  BY <1>1, <1>0 DEF vars, lifeVars
<1>2. ASSUME NEW r \in Runs, BackgroundStep(r) PROVE ScreenInv'
  BY <1>2, <1>0 DEF BackgroundStep, ScheduleNext, PublishStarted, RunPasses, PutResults, PublishFinished
<1>3. ASSUME ProcessDies PROVE ScreenInv'
  BY <1>3, <1>t DEF ProcessDies, ScreenInv
<1>4. ASSUME NEW a \in Activities, Start(a) PROVE ScreenInv'
  <2>1. /\ lastRun' = lastRun + 1 /\ lastRun' \in Runs
        /\ listener' = [listener EXCEPT ![lastRun'] = a]
        /\ executor' = [executor EXCEPT ![a] = lastRun']
        /\ life' = life /\ life[a] = "live"
    BY <1>4 DEF Start, Execute
  <2>2. \A b \in Activities : a < b => life[b] = "unborn" /\ executor[b] = NoRun
    BY <2>1, <1>t DEF ScreenInv
  <2>3. \A b \in Activities : executor[b] <= lastRun
    BY <1>t DEF ListenerInv
  <2>4. \A q \in Runs : listener[q] # NoActivity => listener[q] <= a /\ q <= lastRun
    <3> SUFFICES ASSUME NEW q \in Runs, listener[q] # NoActivity PROVE listener[q] <= a /\ q <= lastRun
      OBVIOUS
    <3>1. listener[q] \in Activities /\ life[listener[q]] # "unborn" /\ q <= lastRun
      BY <1>t DEF ListenerInv
    <3>2. ~(a < listener[q])
      BY <3>1, <2>2
    <3>3. a \in Nat /\ listener[q] \in Nat
      BY <3>1 DEF Activities
    <3> QED BY <3>1, <3>2, <3>3
  <2>5. \A b, c \in Activities : b < c /\ executor'[c] # NoRun => executor'[b] <= executor'[c]
    <3> SUFFICES ASSUME NEW b \in Activities, NEW c \in Activities, b < c, executor'[c] # NoRun
                 PROVE executor'[b] <= executor'[c]
      OBVIOUS
    <3>1. b # a
      BY <2>1, <2>2, <1>t
    <3>2. CASE c = a
      <4>1. executor'[b] = executor[b] /\ executor'[c] = lastRun' /\ executor[b] <= lastRun
        BY <3>1, <3>2, <2>1, <2>3, <1>t
      <4>2. executor[b] \in Nat
        BY <1>t DEF NoRun, Runs
      <4> QED BY <4>1, <4>2, <2>1, <1>t
    <3>3. CASE c # a
      BY <3>1, <3>3, <2>1, <1>t DEF ScreenInv
    <3> QED BY <3>2, <3>3
  <2>6. \A q, r \in Runs : q < r /\ listener'[q] # NoActivity /\ listener'[r] # NoActivity
                              => listener'[q] <= listener'[r]
    BY <2>1, <2>4, <1>t DEF ScreenInv
  <2>7. \A b \in Activities : life'[b] = "unborn" => executor'[b] = NoRun
    BY <2>1, <1>t DEF ScreenInv
  <2> QED BY <2>1, <2>5, <2>6, <2>7 DEF ScreenInv
<1>5. CASE UpdateStep
  BY <1>5, <1>0 DEF UpdateStep, OnProgressUpdate, ContainsKey
<1>6. CASE CallbackStep
  BY <1>6, <1>0, <1>3 DEF CallbackStep, NullListener, OnBenchmarkStarted, OnBenchmarkFinished,
                          ShowResults, CheckComplete, GenerateResults, CsvDelete, CsvBuild,
                          CsvCreate, CsvWrite
<1>7. ASSUME NEW a \in Activities, Launch(a) PROVE ScreenInv'
  <2>1. /\ life' = [life EXCEPT ![a] = "live"] /\ life[a] = "unborn"
        /\ \A b \in Activities : b < a => life[b] \in {"destroyed", "gone"}
        /\ listener' = listener
        /\ executor' = [executor EXCEPT ![a] = NoRun]
    BY <1>7 DEF Launch, Activities
  <2>2. executor' = executor
    BY <2>1, <1>t DEF ScreenInv
  <2>3. \A b, c \in Activities : b < c /\ life'[c] # "unborn" => life'[b] \in {"destroyed", "gone"}
    BY <2>1, <1>t DEF ScreenInv
  <2> QED BY <2>1, <2>2, <2>3, <1>t DEF ScreenInv
<1>8. ASSUME NEW a \in Activities, Destroy(a) PROVE ScreenInv'
  BY <1>8, <1>t DEF Destroy, ScreenInv
<1>9. ASSUME NEW a \in Activities, Collect(a) PROVE ScreenInv'
  BY <1>9, <1>t DEF Collect, ScreenInv
<1>10. CASE Kill \/ \E r \in Runs : PassThrows(r)
  BY <1>10, <1>3 DEF Kill, PassThrows
<1> QED
  BY <1>1, <1>2, <1>4, <1>5, <1>6, <1>7, <1>8, <1>9, <1>10 DEF Next, PlatformStep

\* The run's task is yet to end.
Waits(r) == taskPc[r] = "queued" \/ Working(r)

\* Reports are queued and answered in the order of their runs.
OrderInv ==
    /\ \A i, j \in 1 .. Len(looper) : i < j => looper[i].run <= looper[j].run
    /\ \A i \in 1 .. Len(looper), r \in Runs : Waits(r) => looper[i].run <= r
    /\ uiPc \notin {"dead", "idle"} =>
        /\ \A i \in 1 .. Len(looper) : uiMsg.run <= looper[i].run
        /\ \A r \in Runs : Waits(r) => uiMsg.run <= r

LEMMA OrderNext == TypeInv /\ TaskInv /\ ReportInv /\ OrderInv /\ [Next]_vars => OrderInv'
<1> SUFFICES ASSUME TypeInv, TaskInv, ReportInv, OrderInv, [Next]_vars PROVE OrderInv'
  OBVIOUS
<1> USE DEF taskVars, uiVars
<1>t. /\ lastRun \in Nat /\ Runs \subseteq Nat
      /\ taskPc \in [Runs -> TaskPcs]
      /\ looper \in Seq(Messages)
      /\ \A m \in Messages : m.run \in Runs
      /\ uiPc \notin {"dead", "idle"} => uiMsg \in Messages
  BY DEF TypeInv, TypeOK, HandlerInv, Runs, Messages
<1>l. \A i \in 1 .. Len(looper) : looper[i] \in Messages
  BY <1>t
<1>0. ASSUME \A r \in Runs : Waits(r)' => Waits(r),
             UNCHANGED looper,
             uiPc' \notin {"dead", "idle"} => uiMsg' = uiMsg /\ uiPc \notin {"dead", "idle"}
      PROVE  OrderInv'
  BY <1>0 DEF OrderInv
<1>1. CASE UNCHANGED vars
  BY <1>1, <1>0 DEF vars, Waits, Working
<1>2. ASSUME NEW r \in Runs, BackgroundStep(r) PROVE OrderInv'
  <2>1. UNCHANGED <<uiPc, uiMsg>> /\ \A q \in Runs : Waits(q)' => Waits(q)
    BY <1>2, <1>t DEF BackgroundStep, ScheduleNext, PublishStarted, RunPasses, PutResults,
                      PublishFinished, NextBenchmark, Waits, Working, WorkingPcs
  <2>2. CASE UNCHANGED looper
    BY <2>1, <2>2, <1>0
  <2>3. CASE Working(r) /\ PublishProgress(r)
    <3>1. \A i \in 1 .. Len(looper') :
             IF i \in 1 .. Len(looper) THEN looper'[i] = looper[i]
                                       ELSE i = Len(looper) + 1 /\ looper'[i].run = r
      BY <2>3, <1>t DEF PublishProgress
    <3>2. \A i \in 1 .. Len(looper) : looper[i].run <= r
      BY <2>3 DEF OrderInv, Waits
    <3>3. \A q \in Runs : Waits(q) => r <= q
      BY <2>3, <1>t DEF TaskInv, Waits, Working, WorkingPcs
    <3>4. uiPc \notin {"dead", "idle"} => uiMsg.run <= r
      BY <2>3 DEF OrderInv, Waits
    <3>5. (\A i, j \in 1 .. Len(looper) : i < j => looper[i].run <= looper[j].run)'
      BY <3>1, <3>2, <1>t DEF OrderInv
    <3>6. (\A i \in 1 .. Len(looper), q \in Runs : Waits(q) => looper[i].run <= q)'
      BY <3>1, <3>3, <2>1 DEF OrderInv
    <3>7. (uiPc \notin {"dead", "idle"} => \A i \in 1 .. Len(looper) : uiMsg.run <= looper[i].run)'
      BY <3>1, <3>4, <2>1 DEF OrderInv
    <3>8. (uiPc \notin {"dead", "idle"} => \A q \in Runs : Waits(q) => uiMsg.run <= q)'
      BY <2>1 DEF OrderInv
    <3> QED BY <3>5, <3>6, <3>7, <3>8 DEF OrderInv
  <2> QED
    BY <1>2, <2>2, <2>3 DEF BackgroundStep, ScheduleNext, PublishStarted, RunPasses, PutResults,
                            PublishFinished, Working, WorkingPcs
<1>3. ASSUME ProcessDies PROVE OrderInv'
  BY <1>3 DEF ProcessDies, OrderInv
<1>4. ASSUME NEW a \in Activities, Start(a) PROVE OrderInv'
  <2>1. /\ lastRun' = lastRun + 1 /\ lastRun' \in Runs
        /\ taskPc' = [taskPc EXCEPT ![lastRun'] = "queued"]
        /\ UNCHANGED looper /\ uiPc' = "idle"
    BY <1>4 DEF Start, Execute
  <2>2. \A r \in Runs : Waits(r)' => Waits(r) \/ r = lastRun'
    BY <2>1, <1>t DEF Waits, Working
  <2>3. \A i \in 1 .. Len(looper) : looper[i].run \in Nat /\ looper[i].run <= lastRun
    <3> SUFFICES ASSUME NEW i \in 1 .. Len(looper)
                 PROVE looper[i].run \in Nat /\ looper[i].run <= lastRun
      OBVIOUS
    <3>1. looper[i].run \in Runs /\ taskPc[looper[i].run] # "none"
      BY <1>l, <1>t DEF ReportInv, Begun, WorkingPcs
    <3>2. looper[i].run \in Nat
      BY <3>1 DEF Runs
    <3>3. ~(looper[i].run > lastRun)
      BY <3>1 DEF TaskInv
    <3> QED BY <3>2, <3>3, <1>t
  <2> QED BY <2>1, <2>2, <2>3, <1>t DEF OrderInv
<1>5. CASE UpdateStep
  <2>1. CASE OnProgressUpdate
    <3>1. Head(looper) = looper[1] /\ 1 \in 1 .. Len(looper)
      BY <2>1, <1>t DEF OnProgressUpdate
    <3>2. \A i \in 1 .. Len(looper') :
             looper'[i] = looper[i + 1] /\ i + 1 \in 1 .. Len(looper) /\ 1 < i + 1
      BY <2>1, <1>t DEF OnProgressUpdate
    <3>3. uiPc' \notin {"dead", "idle"} => uiMsg' = looper[1]
      BY <2>1, <3>1 DEF OnProgressUpdate
    <3>4. \A r \in Runs : Waits(r)' => Waits(r)
      BY <2>1 DEF OnProgressUpdate, Waits, Working
    <3>5. (\A i, j \in 1 .. Len(looper) : i < j => looper[i].run <= looper[j].run)'
      <4> SUFFICES ASSUME NEW i \in 1 .. Len(looper'), NEW j \in 1 .. Len(looper'), i < j
                   PROVE looper'[i].run <= looper'[j].run
        OBVIOUS
      <4>1. i + 1 < j + 1
        OBVIOUS
      <4> QED BY <4>1, <3>2 DEF OrderInv
    <3>6. (\A i \in 1 .. Len(looper), q \in Runs : Waits(q) => looper[i].run <= q)'
      BY <3>2, <3>4 DEF OrderInv
    <3>7. (uiPc \notin {"dead", "idle"} =>
             /\ \A i \in 1 .. Len(looper) : uiMsg.run <= looper[i].run
             /\ \A r \in Runs : Waits(r) => uiMsg.run <= r)'
      BY <3>1, <3>2, <3>3, <3>4 DEF OrderInv
    <3> QED BY <3>5, <3>6, <3>7 DEF OrderInv
  <2>2. CASE ContainsKey
    BY <2>2, <1>0 DEF ContainsKey, Waits, Working
  <2> QED BY <1>5, <2>1, <2>2 DEF UpdateStep
<1>6. CASE CallbackStep
  BY <1>6, <1>0, <1>3 DEF CallbackStep, NullListener, OnBenchmarkStarted, OnBenchmarkFinished,
                          ShowResults, CheckComplete, GenerateResults, CsvDelete, CsvBuild,
                          CsvCreate, CsvWrite, UiReturns, Waits, Working
<1>7. CASE PlatformStep
  BY <1>7, <1>0, <1>3 DEF PlatformStep, Kill, Launch, Destroy, Collect, Waits, Working
<1>8. ASSUME NEW r \in Runs, PassThrows(r) PROVE OrderInv'
  BY <1>8, <1>3 DEF PassThrows
<1> QED
  BY <1>1, <1>2, <1>4, <1>5, <1>6, <1>7, <1>8 DEF Next
\* The run has a report ahead or in hand.
Ahead(r) ==
    \/ Waits(r)
    \/ \E i \in 1 .. Len(looper) : looper[i].run = r
    \/ uiPc \notin {"dead", "idle"} /\ uiMsg.run = r

\* What a report ahead can lead to be exported is no older than what was.
ExportInv ==
    /\ exported <= lastRun
    /\ \A r \in Runs : Ahead(r) /\ listener[r] # NoActivity => exported <= executor[listener[r]]

\* generateCSV starts with a run no older than the last exported, and with
\* one no newer than any that a report ahead can lead to.
LEMMA ExportedNext ==
  ASSUME TypeInv, ScreenInv, OrderInv, ExportInv, uiPc = "csvDelete"
  PROVE  /\ executor[uiAct] \in Runs
         /\ executor[uiAct] <= lastRun
         /\ exported <= executor[uiAct]
         /\ \A r \in Runs : Ahead(r) /\ listener[r] # NoActivity
                              => executor[uiAct] <= executor[listener[r]]
<1>1. /\ uiAct \in Activities /\ executor[uiAct] \in Runs
      /\ uiMsg \in Messages /\ uiMsg.run \in Runs
      /\ uiAct = listener[uiMsg.run]
  BY HandledRun DEF TypeInv, HandlerInv, CallbackPcs, Messages
<1>2. Ahead(uiMsg.run) /\ uiAct # NoActivity
  BY <1>1 DEF Ahead, Activities, NoActivity
<1>3. executor[uiAct] <= lastRun
  BY <1>1 DEF TypeInv, ListenerInv
<1>4. exported <= executor[uiAct]
  BY <1>1, <1>2 DEF ExportInv
<1>5. ASSUME NEW r \in Runs, Ahead(r), listener[r] # NoActivity
      PROVE  executor[uiAct] <= executor[listener[r]]
  <2>1. listener[r] \in Activities /\ executor[listener[r]] \in Runs
    BY <1>5 DEF TypeInv, TypeOK, ListenerInv
  <2>2. uiMsg.run <= r
    BY <1>5, <1>1 DEF Ahead, OrderInv, Runs
  <2>3. CASE uiMsg.run = r
    BY <2>3, <1>1, <2>1 DEF Runs
  <2>4. CASE uiMsg.run < r
    <3>1. uiAct <= listener[r]
      BY <2>4, <1>1, <1>2, <1>5 DEF ScreenInv
    <3>2. uiAct < listener[r] => executor[uiAct] <= executor[listener[r]]
      BY <2>1, <1>1 DEF ScreenInv, Runs, NoRun
    <3>3. uiAct \in Nat /\ listener[r] \in Nat /\ executor[uiAct] \in Nat
      BY <2>1, <1>1 DEF Activities, Runs
    <3> QED BY <3>1, <3>2, <3>3
  <2>5. uiMsg.run \in Nat /\ r \in Nat
    BY <1>1 DEF Runs
  <2> QED BY <2>2, <2>3, <2>4, <2>5
<1> QED BY <1>1, <1>3, <1>4, <1>5

LEMMA ExportNext ==
  TypeInv /\ TaskInv /\ ScreenInv /\ OrderInv /\ ExportInv /\ [Next]_vars => ExportInv'
<1> SUFFICES ASSUME TypeInv, TaskInv, ScreenInv, OrderInv, ExportInv, [Next]_vars PROVE ExportInv'
  OBVIOUS
<1> USE DEF taskVars, uiVars, screenVars, historyVars
<1>t. /\ lastRun \in Nat /\ exported \in Nat
      /\ taskPc \in [Runs -> TaskPcs]
      /\ looper \in Seq(Messages)
      /\ listener \in [Runs -> Activities \cup {NoActivity}]
      /\ executor \in [Activities -> Runs \cup {NoRun}]
  BY DEF TypeInv, TypeOK, Runs, NoRun
<1>0. ASSUME \A r \in Runs : Ahead(r)' => Ahead(r),
             UNCHANGED <<lastRun, listener, executor, exported>>
      PROVE  ExportInv'
  BY <1>0 DEF ExportInv
<1>1. CASE UNCHANGED vars
  BY <1>1, <1>0 DEF vars, Ahead, Waits, Working
<1>2. ASSUME NEW r \in Runs, BackgroundStep(r) PROVE ExportInv'
  <2>1. /\ UNCHANGED <<lastRun, listener, executor, exported, uiPc, uiMsg>>
        /\ \A q \in Runs : Waits(q)' => Waits(q)
    BY <1>2, <1>t DEF BackgroundStep, ScheduleNext, PublishStarted, RunPasses, PutResults,
                      PublishFinished, NextBenchmark, Waits, Working, WorkingPcs
  <2>2. CASE UNCHANGED looper
    BY <2>1, <2>2, <1>0 DEF Ahead
  <2>3. CASE Waits(r) /\ PublishProgress(r)
    <3>1. \A i \in 1 .. Len(looper') :
             IF i \in 1 .. Len(looper) THEN looper'[i] = looper[i] ELSE looper'[i].run = r
      BY <2>3, <1>t DEF PublishProgress
    <3>2. \A q \in Runs : Ahead(q)' => Ahead(q)
      BY <3>1, <2>1, <2>3 DEF Ahead
    <3> QED BY <2>1, <3>2, <1>0
  <2> QED
    BY <1>2, <2>2, <2>3 DEF BackgroundStep, ScheduleNext, PublishStarted, RunPasses, PutResults,
                            PublishFinished, Waits, Working, WorkingPcs
<1>3. ASSUME ProcessDies PROVE ExportInv'
  BY <1>3, <1>t DEF ProcessDies, ExportInv
<1>4. ASSUME NEW a \in Activities, Start(a) PROVE ExportInv'
  <2>1. /\ lastRun' = lastRun + 1 /\ lastRun' \in Runs
        /\ listener' = [listener EXCEPT ![lastRun'] = a]
        /\ executor' = [executor EXCEPT ![a] = lastRun']
        /\ taskPc' = [taskPc EXCEPT ![lastRun'] = "queued"]
        /\ UNCHANGED <<looper, uiPc, uiMsg, exported>>
    BY <1>4 DEF Start, Execute
  <2>2. exported <= lastRun'
    BY <2>1, <1>t DEF ExportInv
  <2>3. ASSUME NEW r \in Runs, Ahead(r)', listener'[r] # NoActivity
        PROVE  exported <= executor'[listener'[r]]
    <3>1. CASE listener'[r] = a
      BY <3>1, <2>1, <2>2, <1>t
    <3>2. CASE listener'[r] # a
      <4>1. r # lastRun' /\ listener'[r] = listener[r] /\ listener[r] \in Activities
        BY <3>2, <2>1, <2>3, <1>t
      <4>2. Ahead(r)
        BY <4>1, <2>1, <2>3, <1>t DEF Ahead, Waits, Working
      <4> QED BY <4>1, <4>2, <3>2, <2>1, <2>3, <1>t DEF ExportInv
    <3> QED BY <3>1, <3>2
  <2> QED BY <2>1, <2>2, <2>3 DEF ExportInv
<1>5. CASE UpdateStep
  <2>1. CASE OnProgressUpdate
    <3>1. Head(looper) = looper[1] /\ 1 \in 1 .. Len(looper)
      BY <2>1, <1>t DEF OnProgressUpdate
    <3>2. \A i \in 1 .. Len(looper') : looper'[i] = looper[i + 1] /\ i + 1 \in 1 .. Len(looper)
      BY <2>1, <1>t DEF OnProgressUpdate
    <3>3. \A r \in Runs : Ahead(r)' => Ahead(r)
      BY <2>1, <3>1, <3>2 DEF OnProgressUpdate, Ahead, Waits, Working
    <3> QED BY <1>5, <2>1, <3>3, <1>0 DEF UpdateStep, OnProgressUpdate
  <2>2. CASE ContainsKey
    BY <1>5, <2>2, <1>0 DEF UpdateStep, ContainsKey, Ahead, Waits, Working
  <2> QED BY <1>5, <2>1, <2>2 DEF UpdateStep
<1>6. CASE CsvDelete /\ exported' = executor[uiAct] /\ UNCHANGED <<life, screenVars, reported>>
  <2>1. \A r \in Runs : Ahead(r)' => Ahead(r)
    BY <1>6 DEF CsvDelete, Ahead, Waits, Working
  <2> QED BY <1>6, <2>1, ExportedNext DEF CsvDelete, ExportInv
<1>7. CASE CallbackStep /\ UNCHANGED exported
  BY <1>7, <1>0, <1>3 DEF CallbackStep, NullListener, OnBenchmarkStarted, OnBenchmarkFinished,
                          ShowResults, CheckComplete, GenerateResults, CsvDelete, CsvBuild,
                          CsvCreate, CsvWrite, UiReturns, Ahead, Waits, Working
<1>8. ASSUME NEW a \in Activities, Launch(a) PROVE ExportInv'
  <2>1. executor[a] = NoRun
    BY <1>8 DEF Launch, ScreenInv
  <2>2. executor' = executor
    BY <1>8, <2>1, <1>t DEF Launch
  <2> QED BY <1>8, <2>2, <1>0 DEF Launch, Ahead, Waits, Working
<1>9. ASSUME NEW a \in Activities, Destroy(a) PROVE ExportInv'
  BY <1>9, <1>0 DEF Destroy, Ahead, Waits, Working
<1>10. ASSUME NEW a \in Activities, Collect(a) PROVE ExportInv'
  <2>1. \A r \in Runs : listener'[r] # NoActivity => listener'[r] = listener[r]
    BY <1>10, <1>t DEF Collect
  <2>2. \A r \in Runs : Ahead(r)' => Ahead(r)
    BY <1>10 DEF Collect, Ahead, Waits, Working
  <2> QED BY <1>10, <2>1, <2>2 DEF Collect, ExportInv
<1>11. CASE Kill \/ \E r \in Runs : PassThrows(r)
  BY <1>11, <1>3 DEF Kill, PassThrows
<1>12. CASE CallbackStep
  BY <1>12, <1>6, <1>7 DEF CallbackStep, NullListener, OnBenchmarkStarted, OnBenchmarkFinished,
                           ShowResults, CheckComplete, GenerateResults, ProcessDies
<1> QED
  BY <1>1, <1>2, <1>4, <1>5, <1>8, <1>9, <1>10, <1>11, <1>12 DEF Next, PlatformStep

\* Only generateCSV changes what was exported last, and to a newer run.
LEMMA ExportedGrows ==
  TypeInv /\ ScreenInv /\ OrderInv /\ ExportInv /\ [Next]_vars => exported' >= exported
<1> SUFFICES ASSUME TypeInv, ScreenInv, OrderInv, ExportInv, [Next]_vars
    PROVE exported' >= exported
  OBVIOUS
<1>t. exported \in Nat
  BY DEF TypeInv, TypeOK, Runs, NoRun
<1>1. CASE uiPc = "csvDelete" /\ exported' = executor[uiAct]
  BY <1>1, <1>t, ExportedNext DEF Runs
<1>2. exported' = exported \/ (uiPc = "csvDelete" /\ exported' = executor[uiAct])
  <2> USE DEF historyVars
  <2>1. CASE UNCHANGED vars
    BY <2>1 DEF vars
  <2>2. CASE \E r \in Runs : BackgroundStep(r) \/ PassThrows(r)
    BY <2>2 DEF BackgroundStep, PassThrows, ProcessDies
  <2>3. CASE UpdateStep \/ \E a \in Activities : Start(a)
    BY <2>3 DEF UpdateStep, Start
  <2>4. CASE CallbackStep
    BY <2>4 DEF CallbackStep, NullListener, ProcessDies, OnBenchmarkStarted, OnBenchmarkFinished,
                ShowResults, CheckComplete, GenerateResults, CsvDelete
  <2>5. CASE PlatformStep
    BY <2>5 DEF PlatformStep, Kill, ProcessDies, Launch, Destroy, Collect
  <2> QED BY <2>1, <2>2, <2>3, <2>4, <2>5 DEF Next
<1> QED BY <1>1, <1>2, <1>t

\* The file is never given the results of an older run than it was given
\* before, whichever screens the runs were started from.
THEOREM NeverRegresses == Spec => CsvNeverRegresses
<1> DEFINE Inv == TypeInv /\ TaskInv /\ ReportInv /\ ScreenInv /\ OrderInv /\ ExportInv
<1>1. Init => Inv
  <2>1. Init => ReportInv /\ TypeInv /\ TaskInv
    BY TypeInit DEF Init, ExecutorInit, ReportInv, NoStartAfterFinish, TaskInv, Runs, WorkingPcs
  <2>2. Init => ScreenInv
    BY DEF Init, ExecutorInit, ScreenInv, NoRun, NoActivity
  <2>3. Init => OrderInv
    BY DEF Init, ExecutorInit, OrderInv
  <2>4. Init => ExportInv
    BY DEF Init, ExecutorInit, ExportInv, NoRun
  <2> QED BY <2>1, <2>2, <2>3, <2>4
<1>2. Inv /\ [Next]_vars => Inv'
  BY TypeNext, TaskNext, ReportNext, ScreenNext, OrderNext, ExportNext
<1>3. Inv /\ [Next]_vars => [exported' >= exported]_vars
  BY ExportedGrows
<1> QED BY <1>1, <1>2, <1>3, PTL DEF Spec, CsvNeverRegresses
==============================================================================
