-------------------------- MODULE BenchmarkActivity --------------------------
(***************************************************************************)
(* BenchmarkActivity.java over BenchmarkExecutor.java: the screen, the     *)
(* callbacks a report ends in, and the whole application's next-state      *)
(* relation.  The platform's part is the life of activities and of the     *)
(* process: an activity is destroyed and made again on every rotation (the *)
(* manifest declares no configChanges and nothing is saved), a destroyed   *)
(* one is collected sooner or later, and the process may die at any time.  *)
(***************************************************************************)
EXTENDS BenchmarkExecutor

VARIABLES
    life,      \* life[a]: "unborn", "live", "destroyed" (still reachable), "gone"
    executor,  \* executor[a]: the run in the activity's field, or NoRun
    enabled,   \* enabled[a]: startButton
    status,    \* status[a]: the report statusTextView shows, or Idle
    shown,     \* shown[a]: the benchmarks resultsListView lists
    reported,  \* history: reported[r], what onBenchmarkFinished was called with
    exported   \* history: the newest run a CSV was generated for

lifeVars == <<life>>
screenVars == <<executor, enabled, status, shown>>
historyVars == <<reported, exported>>
vars == <<taskVars, looper, uiVars, fileVars, lifeVars, screenVars, historyVars>>

Idle == NoMessage

Init ==
    /\ ExecutorInit
    /\ life = [a \in Activities |-> "unborn"]
    /\ executor = [a \in Activities |-> NoRun]
    /\ enabled = [a \in Activities |-> TRUE]
    /\ status = [a \in Activities |-> Idle]
    /\ shown = [a \in Activities |-> {}]
    /\ reported = [r \in Runs |-> {}]
    /\ exported = NoRun

------------------------------------------------------------------------------
(* The platform: activities and the process.                               *)

\* The launcher, or the second half of a rotation: onCreate on a fresh
\* instance, whose views are as the layout has them.
Launch(a) ==
    /\ uiPc \in {"dead", "idle"}
    /\ life[a] = "unborn"
    /\ \A b \in 1 .. (a - 1) : life[b] \in {"destroyed", "gone"}
    /\ life' = [life EXCEPT ![a] = "live"]
    /\ executor' = [executor EXCEPT ![a] = NoRun]
    /\ enabled' = [enabled EXCEPT ![a] = TRUE]
    /\ status' = [status EXCEPT ![a] = Idle]
    /\ shown' = [shown EXCEPT ![a] = {}]
    /\ uiPc' = "idle"
    /\ UNCHANGED <<taskVars, looper, uiMsg, uiAct, uiSeen, fileVars, historyVars>>

\* Back, or the first half of a rotation.  There is no onDestroy: a running
\* executor is neither cancelled nor told.
Destroy(a) ==
    /\ uiPc = "idle"
    /\ life[a] = "live"
    /\ life' = [life EXCEPT ![a] = "destroyed"]
    /\ UNCHANGED <<taskVars, looper, uiVars, fileVars, screenVars, historyVars>>

\* The collector: nothing but WeakReferences leads to a destroyed activity
\* whose callback is not on the main thread's stack.
Collect(a) ==
    /\ life[a] = "destroyed"
    /\ uiAct # a
    /\ life' = [life EXCEPT ![a] = "gone"]
    /\ listener' = [r \in Runs |-> IF listener[r] = a THEN NoActivity ELSE listener[r]]
    /\ UNCHANGED <<lastRun, results, taskPc, taskAt, looper, uiVars, fileVars,
                   screenVars, historyVars>>

\* The process ends: only the file is left of what the program had.
ProcessDies ==
    /\ results' = [r \in Runs |-> {}]
    /\ listener' = [r \in Runs |-> NoActivity]
    /\ taskPc' = [r \in Runs |-> IF taskPc[r] = "none" THEN "none" ELSE "lost"]
    /\ taskAt' = [r \in Runs |-> 1]
    /\ looper' = <<>>
    /\ uiPc' = "dead"
    /\ uiMsg' = NoMessage
    /\ uiAct' = NoActivity
    /\ uiSeen' = {}
    /\ toast' = "none"
    /\ life' = [a \in Activities |-> IF life[a] = "unborn" THEN "unborn" ELSE "gone"]
    /\ UNCHANGED <<lastRun, screenVars, historyVars>>

\* The system kills the process, in the middle of a write as well.
Kill ==
    /\ uiPc # "dead"
    /\ ProcessDies
    /\ \/ UNCHANGED csv
       \/ /\ uiPc = "csvWrite"
          /\ \E rows \in SUBSET uiSeen :
                csv' = [file |-> "data", run |-> executor[uiAct], rows |-> rows]

\* A pass throws: AsyncTask rethrows what leaves doInBackground, and the
\* uncaught exception ends the process.
PassThrows(r) ==
    /\ taskPc[r] = "passes"
    /\ ProcessDies
    /\ UNCHANGED csv

------------------------------------------------------------------------------
(* The main thread.                                                        *)

\* onClick: start()
Start(a) ==
    /\ uiPc = "idle"
    /\ life[a] = "live"
    /\ enabled[a]
    /\ Execute(lastRun + 1, a)
    /\ executor' = [executor EXCEPT ![a] = lastRun + 1]
    /\ UNCHANGED <<looper, uiVars, fileVars, life, enabled, status, shown, historyVars>>

\* listener.get().onBenchmarkX(...) on a cleared reference: a
\* NullPointerException on the main thread.
NullListener ==
    /\ uiPc \in {"callStarted", "callFinished"}
    /\ ListenerGone
    /\ ProcessDies
    /\ UNCHANGED csv

OnBenchmarkStarted ==
    /\ uiPc = "callStarted"
    /\ ~ListenerGone
    /\ enabled' = [enabled EXCEPT ![listener[uiMsg.run]] = FALSE]
    /\ status' = [status EXCEPT ![listener[uiMsg.run]] = uiMsg]
    /\ UiReturns
    /\ UNCHANGED <<taskVars, looper, fileVars, life, executor, shown, historyVars>>

\* onBenchmarkFinished up to the start of updateResultsList's iteration over
\* the keys of the activity's own executor, which need not be the reporting one.
OnBenchmarkFinished ==
    /\ uiPc = "callFinished"
    /\ ~ListenerGone
    /\ uiAct' = listener[uiMsg.run]
    /\ uiSeen' = results[executor[listener[uiMsg.run]]]
    /\ uiPc' = "showResults"
    /\ reported' = [reported EXCEPT ![uiMsg.run] = @ \cup {uiMsg.bench}]
    /\ UNCHANGED <<taskVars, looper, uiMsg, fileVars, life, screenVars, exported>>

\* The rest of updateResultsList.  A ConcurrentHashMap's iterator meets every
\* key put before it was made, and may or may not meet the later ones.
ShowResults ==
    /\ uiPc = "showResults"
    /\ \E keys \in SUBSET results[executor[uiAct]] :
          /\ uiSeen \subseteq keys
          /\ shown' = [shown EXCEPT ![uiAct] = keys]
    /\ uiSeen' = {}
    /\ uiPc' = "checkComplete"
    /\ UNCHANGED <<taskVars, looper, uiMsg, uiAct, fileVars, life,
                   executor, enabled, status, historyVars>>

\* Mutant of RunComplete: any result will do.
RunHasResults(r) == results[r] # {}

\* executor.getResults().size() == BenchmarkExecutor.BENCHMARKS.length
RunComplete(r) == Cardinality(results[r]) = NBench

\* Mutant of BackToIdle: setEnabled(true) is forgotten.
BackToIdleText(a) ==
    /\ status' = [status EXCEPT ![a] = Idle]
    /\ UNCHANGED enabled

BackToIdle(a) ==
    /\ status' = [status EXCEPT ![a] = Idle]
    /\ enabled' = [enabled EXCEPT ![a] = TRUE]

\* The rest of onBenchmarkFinished: only a complete run ends the screen's wait
\* and is exported.
CheckComplete ==
    /\ uiPc = "checkComplete"
    /\ \/ /\ RunComplete(executor[uiAct])
          /\ BackToIdle(uiAct)
          /\ uiPc' = "csvDelete"
          /\ UNCHANGED <<uiMsg, uiAct, uiSeen>>
       \/ /\ ~RunComplete(executor[uiAct])
          /\ UiReturns
          /\ UNCHANGED <<status, enabled>>
    /\ UNCHANGED <<taskVars, looper, fileVars, life, executor, shown, historyVars>>

\* generateResults: generateCSV on the activity's executor, step by step.
GenerateResults ==
    \/ /\ CsvDelete
       /\ exported' = executor[uiAct]
       /\ UNCHANGED <<life, screenVars, reported>>
    \/ /\ CsvBuild(executor[uiAct]) \/ CsvCreate \/ CsvWrite(executor[uiAct])
       /\ UNCHANGED <<life, screenVars, historyVars>>

------------------------------------------------------------------------------
BackgroundStep(r) ==
    /\ \/ ScheduleNext(r) \/ PublishStarted(r) \/ RunPasses(r)
       \/ PutResults(r) \/ PublishFinished(r)
    /\ UNCHANGED <<life, screenVars, historyVars>>

UpdateStep ==
    /\ OnProgressUpdate \/ ContainsKey
    /\ UNCHANGED <<life, screenVars, historyVars>>

CallbackStep ==
    NullListener \/ OnBenchmarkStarted \/ OnBenchmarkFinished
      \/ ShowResults \/ CheckComplete \/ GenerateResults

PlatformStep == Kill \/ (\E a \in Activities : Launch(a) \/ Destroy(a) \/ Collect(a))

Next ==
    \/ \E r \in Runs : BackgroundStep(r) \/ PassThrows(r)
    \/ \E a \in Activities : Start(a)
    \/ UpdateStep
    \/ CallbackStep
    \/ PlatformStep

Spec == Init /\ [][Next]_vars

\* The scheduler runs both threads; nobody has to press, rotate or collect.
Fairness ==
    /\ WF_vars(UpdateStep \/ CallbackStep)
    /\ WF_vars(\E r \in Runs : BackgroundStep(r) \/ PassThrows(r))

FairSpec == Spec /\ Fairness

------------------------------------------------------------------------------
TypeOK ==
    /\ lastRun \in 0 .. MaxRuns
    /\ results \in [Runs -> SUBSET Benchmarks]
    /\ listener \in [Runs -> Activities \cup {NoActivity}]
    /\ taskPc \in [Runs -> TaskPcs]
    /\ taskAt \in [Runs -> Benchmarks]
    /\ looper \in Seq(Messages)
    /\ uiPc \in UiPcs
    /\ uiMsg \in Messages \cup {NoMessage}
    /\ uiAct \in Activities \cup {NoActivity}
    /\ uiSeen \in SUBSET Benchmarks
    /\ csv \in [file : {"absent", "empty", "data"}, run : Runs \cup {NoRun}, rows : SUBSET Benchmarks]
    /\ toast \in {"none", "generated", "failed"}
    /\ life \in [Activities -> {"unborn", "live", "destroyed", "gone"}]
    /\ executor \in [Activities -> Runs \cup {NoRun}]
    /\ enabled \in [Activities -> BOOLEAN]
    /\ status \in [Activities -> Messages \cup {Idle}]
    /\ shown \in [Activities -> SUBSET Benchmarks]
    /\ reported \in [Runs -> SUBSET Benchmarks]
    /\ exported \in Runs \cup {NoRun}

\* The messages the main thread still has to take from its queue.
Queued == {looper[i] : i \in DOMAIN looper}

\* Run r will yet take a report of its last benchmark to its listener: the
\* task is not over, or the report is queued, or it is being answered as one
\* of an end.
LastReportAhead(r) ==
    \/ taskPc[r] = "queued" \/ Working(r)
    \/ [run |-> r, bench |-> NBench] \in Queued
    \/ /\ uiMsg = [run |-> r, bench |-> NBench]
       /\ uiPc \in {"containsKey", "callFinished", "showResults", "checkComplete"}

\* A screen that says a benchmark is executing, or whose Start button is off,
\* is not left so: a report is ahead that will find its run complete.  The
\* start of the last benchmark may be told late, after its results are in.
BusyScreenClears ==
    \A a \in Activities :
        life[a] = "live" /\ (~enabled[a] \/ status[a] # Idle) =>
            executor[a] # NoRun /\ listener[executor[a]] = a /\ LastReportAhead(executor[a])

\* When nothing is queued, running or handled, the screen in front shows all
\* the results of its newest run, is idle with Start on, and the attempt to
\* write that run's CSV has ended with a Toast.
DrainedScreenIsComplete ==
    \A a \in Activities :
        life[a] = "live" /\ executor[a] # NoRun
          /\ uiPc = "idle" /\ looper = <<>> /\ taskPc[executor[a]] = "done" =>
            /\ shown[a] = Benchmarks
            /\ enabled[a] /\ status[a] = Idle
            /\ exported = executor[a] /\ toast # "none"

\* "CSV file was generated" is only said of a file with a row for every
\* benchmark, and stays true until the next generateCSV or the process's end.
AnnouncedCsvIsComplete ==
    toast = "generated" /\ uiPc \notin {"csvBuild", "csvCreate", "csvWrite"} =>
        csv.file = "data" /\ csv.run = exported /\ csv.rows = Benchmarks

\* onBenchmarkStarted(name) is never called after onBenchmarkFinished(name)
\* in a run, although one containsKey tells both reports apart and either may
\* be answered late.
NoStartAfterFinish == uiPc = "callStarted" => uiMsg.bench \notin reported[uiMsg.run]

\* The file is never given the results of an older run than it was given
\* before, whichever screens the two runs were started from.
CsvNeverRegresses == [][exported' >= exported]_vars

\* A screen that stays is given back its Start button.
ButtonComesBack ==
    \A a \in Activities :
        (life[a] = "live" /\ ~enabled[a]) ~> (enabled[a] \/ life[a] # "live")

\* A run whose screen stays ends with its CSV attempted, unless Start was
\* pressed again before it was over: the field `executor` then names another.
RunIsExportedOrReplaced ==
    \A a \in Activities, r \in Runs :
        (life[a] = "live" /\ executor[a] = r)
            ~> (exported >= r \/ executor[a] # r \/ life[a] # "live")

\* The abstract specification: runs are measured one after the other, and the
\* file is only given complete runs, in their order.
Abstract == INSTANCE BenchmarkRuns WITH
    measured <- [r \in Runs |-> Cardinality(results[r])],
    newest <- exported

\* The threads, messages and screens of the program, with every race between
\* them, implement BenchmarkRuns.
Promise == Abstract!Spec

------------------------------------------------------------------------------
(* What the code or its texts say and its behaviour does not keep.         *)

\* BenchmarkExecutor.java:88 asks listener.get() != null so that no callback
\* is called on a listener that is gone.
ListenerCheckedIsThere == uiPc \in {"callStarted", "callFinished"} => ~ListenerGone

\* strings.xml and the layout have the screen say "Idle"; a screen in front
\* that has answered every report says so only when nothing is executing.
IdleMeansNothingExecutes ==
    \A a \in Activities :
        life[a] = "live" /\ status[a] = Idle /\ uiPc = "idle" /\ looper = <<>> =>
            \A r \in Runs : taskPc[r] # "passes"
==============================================================================
