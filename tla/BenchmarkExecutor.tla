-------------------------- MODULE BenchmarkExecutor --------------------------
(***************************************************************************)
(* BenchmarkExecutor.java: every press of Start makes a new executor, here *)
(* a run, whose AsyncTask goes through BENCHMARKS on the background thread *)
(* and reports to the main thread with publishProgress.  The main thread   *)
(* answers a report in onProgressUpdate, through a WeakReference to the    *)
(* activity that started the run.                                          *)
(*                                                                         *)
(* Three threads share this state: the background thread (RunPasses ...    *)
(* PublishFinished), the main thread (OnProgressUpdate ... CsvWrite) and   *)
(* the garbage collector (BenchmarkActivity!Collect).  Each action is what *)
(* one thread does between two points where another can be seen.           *)
(*                                                                         *)
(* The callbacks, the activity's life and the next-state relation are in   *)
(* BenchmarkActivity, which extends this module.                           *)
(***************************************************************************)
EXTENDS Naturals, Sequences, FiniteSets

CONSTANTS
    NBench,        \* BENCHMARKS.length (7 in the code)
    MaxRuns,       \* bound: executors made over the whole behaviour
    MaxActivities  \* bound: activity instances made over the whole behaviour

ASSUME NBenchAssumption == NBench \in Nat \ {0}
ASSUME MaxRunsAssumption == MaxRuns \in Nat
ASSUME MaxActivitiesAssumption == MaxActivities \in Nat

\* A benchmark is its position in BENCHMARKS; the seven names are distinct,
\* so that a name, the key of `results`, and a position are the same thing.
Benchmarks == 1 .. NBench
Runs == 1 .. MaxRuns
Activities == 1 .. MaxActivities
NoActivity == 0
NoRun == 0

VARIABLES
    lastRun,   \* how many executors exist: the newest one
    results,   \* results[r]: the keys of the run's ConcurrentHashMap
    listener,  \* listener[r]: the referent of the WeakReference, or NoActivity
    taskPc,    \* taskPc[r]: where the run's doInBackground stands
    taskAt,    \* taskAt[r]: the benchmark its outer loop is at
    looper,    \* the main thread's queue of onProgressUpdate messages
    uiPc,      \* where the main thread stands in a message; "dead": no process
    uiMsg,     \* the message being handled
    uiAct,     \* the activity whose callback is running, held by the stack
    uiSeen,    \* keys already met by an iteration of results.keySet()
    csv,       \* orm-benchmark.csv on the external storage
    toast      \* the last Toast about the CSV

taskVars == <<lastRun, results, listener, taskPc, taskAt>>
uiVars == <<uiPc, uiMsg, uiAct, uiSeen>>
fileVars == <<csv, toast>>

Messages == [run : Runs, bench : Benchmarks]
NoMessage == [run |-> NoRun, bench |-> 0]
NoFile == [file |-> "absent", run |-> NoRun, rows |-> {}]
EmptyFile == [file |-> "empty", run |-> NoRun, rows |-> {}]

WorkingPcs == {"publishStarted", "passes", "put", "publishFinished"}
TaskPcs == {"none", "queued", "done", "lost"} \cup WorkingPcs
CallbackPcs == {"showResults", "checkComplete",
                "csvDelete", "csvBuild", "csvCreate", "csvWrite"}
UiPcs == {"dead", "idle", "containsKey", "callStarted", "callFinished"} \cup CallbackPcs

Working(r) == taskPc[r] \in WorkingPcs

ExecutorInit ==
    /\ lastRun = 0
    /\ results = [r \in Runs |-> {}]
    /\ listener = [r \in Runs |-> NoActivity]
    /\ taskPc = [r \in Runs |-> "none"]
    /\ taskAt = [r \in Runs |-> 1]
    /\ looper = <<>>
    /\ uiPc = "dead"
    /\ uiMsg = NoMessage
    /\ uiAct = NoActivity
    /\ uiSeen = {}
    /\ csv = NoFile
    /\ toast = "none"

------------------------------------------------------------------------------
(* The main thread: a new executor is made, given its listener, executed.  *)

\* new BenchmarkExecutor(), setBenchmarkExecutorListener(a), execute(): the
\* new map is empty and the AsyncTask goes to the end of the serial executor.
Execute(r, a) ==
    /\ r = lastRun + 1
    /\ r \in Runs
    /\ lastRun' = r
    /\ results' = [results EXCEPT ![r] = {}]
    /\ listener' = [listener EXCEPT ![r] = a]
    /\ taskPc' = [taskPc EXCEPT ![r] = "queued"]
    /\ UNCHANGED taskAt

------------------------------------------------------------------------------
(* The background thread.                                                  *)

\* Mutant of ScheduleNext: executeOnExecutor(THREAD_POOL_EXECUTOR).
ScheduleNextPooled(r) ==
    /\ taskPc[r] = "queued"
    /\ taskPc' = [taskPc EXCEPT ![r] = "publishStarted"]
    /\ UNCHANGED <<lastRun, results, listener, taskAt, looper, uiVars, fileVars>>

\* Mutant of ScheduleNext: the newest task first, a stack for a queue.
ScheduleNextNewest(r) ==
    /\ taskPc[r] = "queued"
    /\ \A q \in Runs : ~Working(q)
    /\ \A q \in (r + 1) .. MaxRuns : taskPc[q] # "queued"
    /\ taskPc' = [taskPc EXCEPT ![r] = "publishStarted"]
    /\ UNCHANGED <<lastRun, results, listener, taskAt, looper, uiVars, fileVars>>

\* AsyncTask.SERIAL_EXECUTOR (the platform's; the app targets API 21): one
\* task at a time, in the order of submission.
ScheduleNext(r) ==
    /\ taskPc[r] = "queued"
    /\ \A q \in Runs : ~Working(q)
    /\ \A q \in 1 .. (r - 1) : taskPc[q] # "queued"
    /\ taskPc' = [taskPc EXCEPT ![r] = "publishStarted"]
    /\ UNCHANGED <<lastRun, results, listener, taskAt, looper, uiVars, fileVars>>

\* publishProgress: a message at the end of the main thread's queue.
PublishProgress(r) == looper' = Append(looper, [run |-> r, bench |-> taskAt[r]])

\* publishProgress(benchmark.getName()) at the top of the loop.
PublishStarted(r) ==
    /\ taskPc[r] = "publishStarted"
    /\ PublishProgress(r)
    /\ taskPc' = [taskPc EXCEPT ![r] = "passes"]
    /\ UNCHANGED <<lastRun, results, listener, taskAt, uiVars, fileVars>>

\* The PASSES passes and the two averages all end normally (BenchmarkPass has
\* the passes themselves; when one throws, see BenchmarkActivity!PassThrows).
RunPasses(r) ==
    /\ taskPc[r] = "passes"
    /\ taskPc' = [taskPc EXCEPT ![r] = "put"]
    /\ UNCHANGED <<lastRun, results, listener, taskAt, looper, uiVars, fileVars>>

\* Mutant of PutResults: a new map for every benchmark.
PutResultsAnew(r) ==
    /\ taskPc[r] = "put"
    /\ results' = [results EXCEPT ![r] = {taskAt[r]}]
    /\ taskPc' = [taskPc EXCEPT ![r] = "publishFinished"]
    /\ UNCHANGED <<lastRun, listener, taskAt, looper, uiVars, fileVars>>

\* BenchmarkExecutor.this.results.put(benchmark.getName(), medianResults)
PutResults(r) ==
    /\ taskPc[r] = "put"
    /\ results' = [results EXCEPT ![r] = @ \cup {taskAt[r]}]
    /\ taskPc' = [taskPc EXCEPT ![r] = "publishFinished"]
    /\ UNCHANGED <<lastRun, listener, taskAt, looper, uiVars, fileVars>>

\* Mutant of NextBenchmark: i <= BENCHMARKS.length.
NextBenchmarkOneMore(r) ==
    /\ taskAt' = [taskAt EXCEPT ![r] = @ + 1]
    /\ taskPc' = [taskPc EXCEPT ![r] = IF taskAt[r] <= NBench THEN "publishStarted" ELSE "done"]

\* for (Benchmark benchmark : BENCHMARKS), then return null.
NextBenchmark(r) ==
    \/ /\ taskAt[r] < NBench
       /\ taskAt' = [taskAt EXCEPT ![r] = @ + 1]
       /\ taskPc' = [taskPc EXCEPT ![r] = "publishStarted"]
    \/ /\ taskAt[r] = NBench
       /\ taskPc' = [taskPc EXCEPT ![r] = "done"]
       /\ UNCHANGED taskAt

\* Mutant of PublishFinished: the end is told by the start of the next, so
\* that of the last benchmark is not.
PublishFinishedNotLast(r) ==
    /\ taskPc[r] = "publishFinished"
    /\ IF taskAt[r] < NBench THEN PublishProgress(r) ELSE UNCHANGED looper
    /\ NextBenchmark(r)
    /\ UNCHANGED <<lastRun, results, listener, uiVars, fileVars>>

\* publishProgress at the bottom of the loop.
PublishFinished(r) ==
    /\ taskPc[r] = "publishFinished"
    /\ PublishProgress(r)
    /\ NextBenchmark(r)
    /\ UNCHANGED <<lastRun, results, listener, uiVars, fileVars>>

------------------------------------------------------------------------------
(* The main thread in onProgressUpdate.                                    *)

\* The main thread is back in its loop: nothing is on its stack.
UiReturns ==
    /\ uiPc' = "idle"
    /\ uiMsg' = NoMessage
    /\ uiAct' = NoActivity
    /\ uiSeen' = {}

\* if (listener.get() != null): otherwise the report is dropped.
OnProgressUpdate ==
    /\ uiPc = "idle"
    /\ looper # <<>>
    /\ looper' = Tail(looper)
    /\ \/ /\ listener[Head(looper).run] = NoActivity
          /\ UNCHANGED uiVars
       \/ /\ listener[Head(looper).run] # NoActivity
          /\ uiMsg' = Head(looper)
          /\ uiPc' = "containsKey"
          /\ UNCHANGED <<uiAct, uiSeen>>
    /\ UNCHANGED <<taskVars, fileVars>>

\* if (results.containsKey(values[0])): the only way a report is told to be
\* of a start or of an end, and the background thread has run on meanwhile.
ContainsKey ==
    /\ uiPc = "containsKey"
    /\ uiPc' = IF uiMsg.bench \in results[uiMsg.run] THEN "callFinished" ELSE "callStarted"
    /\ UNCHANGED <<taskVars, looper, uiMsg, uiAct, uiSeen, fileVars>>

\* The second listener.get(): the collector may have cleared it since.
ListenerGone == listener[uiMsg.run] = NoActivity

------------------------------------------------------------------------------
(* The main thread in generateCSV, called with the executor of run r.      *)

\* if (file.exists()) file.delete(); then the parent's mkdirs().
CsvDelete ==
    /\ uiPc = "csvDelete"
    /\ csv' = NoFile
    /\ uiPc' = "csvBuild"
    /\ UNCHANGED <<taskVars, looper, uiMsg, uiAct, uiSeen, toast>>

\* The rows are gathered from results.keySet().
CsvBuild(r) ==
    /\ uiPc = "csvBuild"
    /\ uiSeen' = results[r]
    /\ uiPc' = "csvCreate"
    /\ UNCHANGED <<taskVars, looper, uiMsg, uiAct, fileVars>>

\* new FileOutputStream(file): a new empty file, or an IOException.
CsvCreate ==
    /\ uiPc = "csvCreate"
    /\ \/ /\ csv' = EmptyFile
          /\ uiPc' = "csvWrite"
          /\ UNCHANGED <<uiMsg, uiAct, uiSeen, toast>>
       \/ /\ toast' = "failed"
          /\ UiReturns
          /\ UNCHANGED csv
    /\ UNCHANGED <<taskVars, looper>>

\* write, flush and close, and the Toast of generateResults; an IOException
\* leaves whatever rows reached the disk.
CsvWrite(r) ==
    /\ uiPc = "csvWrite"
    /\ \/ /\ csv' = [file |-> "data", run |-> r, rows |-> uiSeen]
          /\ toast' = "generated"
       \/ /\ \E rows \in SUBSET uiSeen : csv' = [file |-> "data", run |-> r, rows |-> rows]
          /\ toast' = "failed"
    /\ UiReturns
    /\ UNCHANGED <<taskVars, looper>>
==============================================================================
