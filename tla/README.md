# OrmBenchmark: specification and proofs

OrmBenchmark is an Android application. Its one screen has a Start button; a
press runs seven object-relational mappers (and plain `SQLiteOpenHelper`)
through the same save and load on a background thread, shows the times as they
come and writes them to `orm-benchmark.csv`. The repository also holds a small
JNI connection to SQLite, `com.epam.database.NativeSQLiteConnection`, with the
native code under it: its methods, the header of the SQLite binary they call,
and the helpers and logging macros they share.

Paths below are under `src/app/src/main/`; `J` is
`java/com/sebbia/ormbenchmark`.

## Inventory

| Component | State it keeps | Operations | Hard behaviour |
|---|---|---|---|
| `J/BenchmarkExecutor.java` | one map of results and one weak listener per press of Start | `execute`, `doInBackground`, `onProgressUpdate`, `generateCSV` | three threads (background, main, collector); reports that do not say what they report; a file that is not replaced atomically |
| `J/BenchmarkActivity.java` | button, status, list, the newest executor | `onCreate`, `start`, `onBenchmarkStarted`, `onBenchmarkFinished` | rotation makes a new instance in the middle of a run; Start may be pressed twice |
| `J/Benchmark.java` and the seven adapters | database files, connections, sessions, static helpers, entity caches | `init`, `saveEntitiesInTransaction`, `clearCache`, `loadEntities`, `dispose` | state that outlives a pass; failures that are thrown by some adapters, swallowed by others; a process that dies in a pass |
| `J/utils/TimeMeasure.java` | start, duration, kind of action | measuring constructor and `end`, averaging constructor | integer division; two kinds of measures in one list |
| `java/com/epam/database/NativeSQLiteConnection.java` | the address of a native connection, statements | `open`, `close`, `execute`, `executeForLastInsertedRowId` | manual release on every error path; a native call after another may fail between them; any method may be called on an object that is not open |
| `jni/com_epam_..._NativeSQLiteConnection.cpp`, `.h` | a struct per connection with the address of a `sqlite3` | 19 native methods Java can link, 6 it cannot; the trace and profile callbacks | SQLite holds addresses of the struct and of bound values; results and errors are read from the connection after the call; it sleeps for other connections' locks, once with the garbage collector blocked |
| `jni/sqlite3.h` | `sqlite3`, `sqlite3_stmt` | what the native code calls: open, close, callbacks, prepare, bind, step, columns, reset, finalize, errors, busy handling, lock levels | results that depend on what was called before; contention |
| `jni/SQLiteCommon.cpp`, `.h` | none | result code to Java exception | extended codes, no handle |
| `jni/JNIHelp.c`, `.h` | the cached `FileDescriptor` class and fields | throwing, logging, `FileDescriptor`s, registration | an exception stays pending until it is cleared, and hardly any JNI call is allowed before; Java code called in the middle; references and buffers given back by hand |
| `jni/cutils/log.h` | none | macros: log, priority, stripping, assertions | decided per build and per file, by the preprocessor |
| `jni/cutils/atomic.h`, `jni/cutils/uio.h`, `J/utils/{Log,Utils}.java`, `J/Blob.java`, entities, greenDAO generator, build files | | | not modelled, see below |

What makes them correct:

* executor and activity: one run at a time; a start is never told after its
  end; a screen that is busy is going to be told that it is not any more; a
  file said to be generated is complete, and is never given an older run;
* adapters: a pass measures its own rows, in its own file, all of them, from
  the database and not from a cache, and leaves nothing open;
* measures: each figure is of its own action, and no more than went by;
* connection: every handle and statement is released once, SQLite never holds
  the address of something released, the native methods are given no address
  they may not have, results and exceptions tell what the statement did, and
  waiting for a lock ends;
* helpers and logging: whatever fails, an exception is thrown, what is lost is
  in the log, everything is given back, and a release build loses only what is
  verbose.

## Modules

| Module | Models | State and actions |
|---|---|---|
| `BenchmarkExecutor` | `BenchmarkExecutor.java` | `taskPc`, `taskAt`: where each run's `doInBackground` stands; `results`, `listener`: its fields; `looper`: the messages of `publishProgress`; `uiPc`, `uiMsg`, `uiAct`, `uiSeen`: the main thread's stack; `csv`, `toast`. One action per stretch of code that no other thread can see the inside of. |
| `BenchmarkActivity` | `BenchmarkActivity.java`, the process and the life of screens | extends `BenchmarkExecutor`; `life`, `executor`, `enabled`, `status`, `shown` per activity instance; the whole next-state relation, fairness and properties |
| `BenchmarkRuns` | the abstract specification: serial runs, a file of complete runs in their order | `BenchmarkActivity` implements it (`Promise`), with `measured[r]` the size of the map of run r |
| `BenchmarkPass` | the inner loop of `doInBackground` over the seven adapters | files are numbered by the pass that created them: `path`, `rows`, `open`, `db`, `singleton`, `cached`; one `...Init` and `...Dispose` per adapter, the save as begin, inserts, commit or failure |
| `TimeMeasure` | `TimeMeasure.java` and its use | a clock, the list of measures, the two averages |
| `SQLite` | what `sqlite3.h` specifies of the functions called | `handles`, `db`, `stmts`: what is not released, with error code, counters, callbacks, bindings; operators named after the functions, each the part of an action that the call makes |
| `SQLiteCommon` | result codes to exception classes | operators only |
| `NativeMethods` | the native methods | extends `SQLite`; `wrappers`: the structs; `running`, `outcome`; one action per native method, two for those that step, during which SQLite calls back and reads what is bound. `NativeSpec` has any legal caller |
| `NativeSQLiteConnection` | the Java class | extends `NativeMethods`: one action per native call the Java code makes, with its error path, and `Crash` for the one that does not return; `LegalCaller` is the refinement to `NativeSpec` |
| `DatabaseBusy` | threads with a connection each on one file, the busy timeout, `GetStringCritical` and the collector | `lock`, `transaction`, `schema`, `pc`, `slept`, `collecting` per thread |
| `Logging` | the macros of `log.h`, `JNIHelp.h` and the connection's own | operators only: macro to log, priority and stripping; what is written and stops, by build |
| `JniHelp` | `JNIHelp.c`, and the log it writes to | extends `Logging`; `helper`, `pc`, `pending`, `refs`, `chars`, `texts`, `logs`: one action per JNI call that may fail, with those after it that may not |
| `MC...` | the instances TLC checks | |
| `BenchmarkActivityProofs`, `BenchmarkPromiseProofs` | theorems about `BenchmarkActivity`, the second extending the first | |
| `BenchmarkPassProofs`, `TimeMeasureProofs`, `JniHelpProofs`, `NativeMethodsProofs`, `NativeSQLiteConnectionProofs`, `DatabaseBusyProofs` | theorems about the module of the same name | |

Operators commented "Mutant of ..." are not part of the specifications: each
changes one definition the way a plausible bug would, and shows that the
property named for it in `PROJECT.json` notices.

### How the pieces meet

`Start` makes a run (`Execute`) and queues its task. The serial executor lets
one task work at a time (`ScheduleNext`); it sends two messages per benchmark
with the passes in between (`PublishStarted`, `RunPasses`, `PutResults`,
`PublishFinished`). The main thread takes a message (`OnProgressUpdate`: the
first `listener.get()`), asks the map which kind it is (`ContainsKey`) and
calls the listener through a second `listener.get()` (`OnBenchmarkStarted`,
`OnBenchmarkFinished`, or `NullListener`). A finished report updates the list
(`ShowResults`), asks whether the run in the *activity's* field is complete
(`CheckComplete`) and if so generates the CSV in four steps. `BenchmarkPass`
and `TimeMeasure` refine what `RunPasses` hides; a pass that throws ends the
process (`PassThrows`).

`NativeSQLiteConnection` calls `NativeMethods`, which calls `SQLite`: the
actions of the Java class are conjunctions with the native methods' actions,
and those with the operators of the library. `NativeMethods` is also checked by
itself with the most general legal caller, which also uses the methods the Java
class declares and does not call. That the class is such a caller, in every
native call that returns, is `LegalCaller`; the call that does not is that of
`execute` on an object that is not open, which passes a null connection on.
`DatabaseBusy` keeps of the same calls what takes or needs a lock, for several
connections at once. `Leaves` is what `jniThrowException` does to a native
method: the exception it was asked for, or another; `JniHelp` opens it up
(`SomethingIsThrown`).

### Abstractions

* A benchmark is its position in `BENCHMARKS`: the names are distinct.
* The text of the CSV, the list and the toasts is left out: rows and keys are
  sets of benchmarks, a file is absent, empty, or rows of a run.
* `updateResultsList` is two steps, the start of the iteration and its result:
  the keys put before are met, those put meanwhile may or may not be, as the
  iterator of a `ConcurrentHashMap` promises.
* Screens are numbered in the order they come to the front, and the front one
  is destroyed before the next is made, as on a rotation. A click is delivered
  only to an enabled button of a live activity.
* The collector may take a destroyed activity at any moment unless a callback
  of it is on the main thread's stack.
* Rows of a database are pairs of the pass and the position of the entity. The
  libraries are not in the repository; they are modelled from how the adapters
  use them: ORMLite and Sugar open when first used; greenDAO puts what it inserts
  in the session; ActiveAndroid caches on load, and its `save()` skips a failed
  insert. GenericDao's library is free to do any of the three: skip, stop or
  throw, and commits each row.
* SQLite is a binary. What its functions return and change is what `sqlite3.h`
  says, and anything it leaves open is a choice: `SQLITE_MISUSE` may or may not
  be set as the error code. Where it says nothing of success (`SQLITE_ROW`,
  `SQLITE_DONE`), the error code is the code returned.
* A statement is one of seven kinds of SQL text, which differ in what
  `sqlite3_step`, `sqlite3_changes` and `sqlite3_last_insert_rowid` say. Row n
  of a query has a value of the n-th datatype, NULL first.
* Addresses are numbers that are not used again. One thread uses a connection.
  Reading a struct at address 0 ends the process (`Crash`): formally it is
  undefined, on Android it is a signal.
* The native methods Java cannot link (`Linked` says which and why) have no
  actions of their own: a call of one, `CallUnlinked`, throws
  `UnsatisfiedLinkError`. With them go the field `canceled` and the progress
  handler, which nothing else sets, so a statement is never interrupted.
* In a native method, memory for C strings and arrays of JNI is assumed to be
  there, and so is the method `GetMethodID` asks for. In `JniHelp` every other
  JNI call may fail, `getMessage` and `printStackTrace` with any exception.
* Who may hold which lock is SQLite's protocol for a rollback journal, and that
  the collector waits for critical regions is the platform's: both are external
  to the repository and said to be so in the map.
* `LOGD`, `LOGI` and what is made of them are left out: they need `LOG_DEBUG`
  and `LOG_INFO`, which no header here defines.

## Runs

| Run | Bounds | Shows |
|---|---|---|
| `activity` | 2 benchmarks, 3 runs, 2 screens; 1,735,303 states | safety of executor and activity, and `Promise` |
| `activity_live` | 2 benchmarks, 2 runs, 2 screens; 177,382 states | `ButtonComesBack`, `RunIsExportedOrReplaced` under `FairSpec` |
| `passes` | 7 adapters, 2 passes of 2 entities, 2 runs; 372,646 states | the properties of a pass |
| `connection` | 2 opens, 3 statements of 2 parameters, 3 calls, 6 kinds of SQL, tracing on or off; 1,135,167 states | the Java class over the native methods over SQLite |
| `native` | 1 open, 2 statements, 2 rows, an insert and a query, trace on or off; 107,887 states | any legal use of the native methods |
| `busy` | 2 threads, 2 sleeps until the timeout; 91,108 states | contention for the file, with the collector |
| `jni_help` | every helper, macro, failure and build setting, no bound; 2,740 states | the properties of the helpers and the log |
| `time_measure` | 3 passes, calls of 0 to 2 ns, 2 ns to the ms; 26,974 states | the properties of the figures |
| `listener_checked`, `idle_screen`, `failed_open`, `pending_is_cleared` | one run; one run, two screens; one open; as `jni_help` | four disagreements, below |

Why the bounds are enough: two benchmarks have a first and a last, with a
report between; three runs on two screens give a screen a replaced run and a
run after it, and a later screen a run that overlaps an earlier screen's
reports. Two passes of two entities have a pass after a pass, and a
transaction with a part; two runs give a new process on the old one's files.
Three statements put one before and one after the statement asked about, and
two opens give an open over an open, three calls one before, between or after
them and a close. In `native` two rows have a NULL and an integer, and one
statement follows another on the same connection with the first still stepped;
`connection` has the other kinds of SQL and the trace callbacks (but for DDL,
which for these properties is an insert of nothing that keeps the count of
changes). Two threads
and two sleeps have every pair of locks held and asked for, and a sleeper that
is woken in vain once. The one error of a step that both runs have,
`SQLITE_CONSTRAINT_UNIQUE` (2067), is an extended code; the named primary codes
come from opening, binding and preparing. The theorems do not
depend on the bounds.

`busy` checks for deadlock: threads that wait for each other and for the
collector must always have a step. `CHECK_DEADLOCK FALSE` stands in the other
configurations because the program may rest there: nobody has to press Start, a
process may have aborted, and the bounds end every counter.

### Properties

`activity`: `BusyScreenClears` (a busy screen has a report ahead
that will find its run complete), `DrainedScreenIsComplete` (when all is
answered the screen shows everything and the CSV was attempted),
`AnnouncedCsvIsComplete`, `NoStartAfterFinish`, `CsvNeverRegresses`, `Promise`
(which has runs measured one after the other, in the order of the presses).

`passes`: `UsesTheFileOfItsName`, `LoadsOwnRows`, `MeasuredPassIsWhole`,
`SavedAllOrNothing`, `LoadIsUncached`, `OnlyGreenDaoLeaks`. These state what
the adapters share and name the exceptions the code makes: ActiveAndroid's
`init` deletes no file, so its first pass after a crash may load the rows of the
pass that died; ORMLite, Sugar (and perhaps GenericDao) measure a pass whose
save failed, and ActiveAndroid one that saved less; greenDAO closes nothing.

`connection`: `StatementsAreScoped` (no statement outlives its call),
`InsertReturnsItsRowId`, `ThrewOrInserted` (an insert that threw may be
tried again, one that returned inserted its row with all its arguments),
`CloseReleases`, `OnlyOpenLosesHandles` (a connection nothing can release any
more is what a failed `sqlite3_open_v2` gave, or was open when a successful
`open` replaced it; a `close` that throws and an `open` refused for another
reason lose none), `LegalCaller` (every native call that returns is one a caller
may make, and the one that does not is made only while no `open` has returned
since the last `close`). `TypeOK` includes the types of `NativeMethods` and `SQLite`.

`native`: `HeldDataIsAlive` (neither a callback nor a bound value is used after
its memory is released), `FailureOfTheCall` (the exception is of the call that
failed), `ResetIsWholeOrThrows`, `ValueIsOfItsRow`.

`busy`: `NoMutualSleep`, and `CallEnds`: every native call ends, also the
compilation that keeps from the collector the thread whose lock it waits for.
That one ends by the timeout only.

`jni_help`: `SomethingIsThrown`, `EverythingIsGivenBack`,
`LoggingKeepsException`, `JniCallsAreLegal`, `LossIsLogged`,
`ReleaseLosesOnlyVerbose`. Their exceptions are in them: `registerJniHelp`
leaves a reference; it, `jniCreateFileDescriptor` and
`jniGetNonMovableArrayElements` call JNI illegally when something failed.

`time_measure`: `AverageIsOfItsAction` (what the code calls `medianResults` is
a floored mean, of the measures of its own action; the milliseconds that the
screen and the CSV show are the mean floored once, although the code divides
and cuts twice).

### Fairness

`Fairness` is weak fairness of the main thread (`UpdateStep \/ CallbackStep`)
and of the background thread. The platform schedules both threads and neither
waits for the other: the main looper takes the next message when it is idle,
and the serial executor the next task when one is over. Nothing is assumed of
the user, of rotations, of the collector or of the process's end, and a pass is
free to throw instead of ending. That a pass ends at all is assumed.

`DatabaseBusy` has weak fairness of each thread's `Native` steps: a thread in a native call is
scheduled. Nothing is assumed of what callers call next, of their coming back,
or of the collector.

### Disagreements found

* `listener_checked`: `onProgressUpdate` checks `listener.get() != null` and
  calls `listener.get()` again; a collection in between makes it a
  `NullPointerException` on the main thread.
* `idle_screen`: after a rotation the new screen says "Idle" while a benchmark
  executes, and offers Start.
* `failed_open`: `nativeOpen` throws without the `sqlite3_close` that
  `sqlite3.h` asks for when `sqlite3_open_v2` fails.
* `pending_is_cleared`: `jniThrowException` says it clears a pending exception;
  the `getMessage` of that exception may throw another, which stays pending
  while the new exception's class is looked for.

More things a reader should know:
a second Start before the first report replaces `executor`, and the first
run's results are then never written (`RunIsExportedOrReplaced` says so), and
an `UPDATE` or DDL passed to `executeForLastInsertedRowId` returns an earlier
row's id (`InsertReturnsItsRowId` is about `INSERT` only). `LOGW` writes with
priority VERBOSE, because `log.h` defines `LOG_WARN` as that: a filter for
warnings does not show the exception that `jniThrowException` discards, though
no build strips it. `jniThrowException` returns -1 when it cannot throw, where
`JNIHelp.h` says that it aborts.

Of the 25 native methods that `NativeSQLiteConnection.java` declares Java can
link 19. `nativeRegisterLocalizedCollators`, `nativeExecuteForBlobFileDescriptor`
and `nativeExecuteForCursorWindow` are defined nowhere;
`nativeGetDbLookaside`, `nativeCancel` and `nativeResetCancel` are defined with
`jobject clazz` where the `extern "C"` header has `jclass`, so the definitions
are C++ overloads with mangled names, and nothing registers them. So nothing can
be canceled, and a statement that never ends never does: whoever adds the
missing cancellation has to repair the three signatures first. And `execute`
before `open`, after `close` or after a failed first `open` passes 0 to
`nativePrepareStatement`, which reads the struct there: the process ends, where
`close` checks for 0 and does nothing.

## Proofs

The theorems hold for every value of the constants that the named assumptions
allow: any number of benchmarks (at least one), runs and screens
(`BenchmarkExecutor`), of passes and entities (at least one each) and runs over
all processes (`BenchmarkPass`), of connections, statements, row ids and
parameters (at least one), any kinds of SQL and errors of a step (`SQLite`; a
query has at most five rows, one for each datatype), any callbacks asked for
(`NativeMethods`), any number of threads and any busy timeout but none (`DatabaseBusy`),
and any number of passes (at least one), of nanoseconds in a millisecond (at
least one) and durations (`TimeMeasure`). `JniHelp` has no constants; its
theorems are for traces of any length.

| Theorem | Module | States |
|---|---|---|
| `TypeCorrect` | `BenchmarkActivityProofs` | `Spec => []TypeOK` |
| `StartsBeforeEnds` | | `Spec => []NoStartAfterFinish` |
| `AnnouncedIsComplete` | | `Spec => []AnnouncedCsvIsComplete` |
| `NeverRegresses` | | `Spec => CsvNeverRegresses` |
| `KeepsPromise` | `BenchmarkPromiseProofs` | `Spec => Promise`, the refinement of `BenchmarkRuns` |
| `NoScreenIsStuck` | | `Spec => []BusyScreenClears` |
| `ScreenIsComplete` | | `Spec => []DrainedScreenIsComplete` |
| `WaitingScreensAreServed` | | `Spec => []WaitingIsServed`, for `ButtonComesBack` and `RunIsExportedOrReplaced` |
| `WorkEnds` | | `Spec => [][WorkRunsOut]_vars`, for the same two |
| `OnlyDestroyedAreCleared` | | `Spec => []ClearedIsDestroyed`, the limit of `listener_checked` |
| `IdleOfItsOwnRun` | | `Spec => []OwnRunIsTold`, the limit of `idle_screen` |
| `PassTypes` | `BenchmarkPassProofs` | `Spec => []TypeOK` |
| `FileIsTheAdapters` | | `Spec => []UsesTheFileOfItsName` |
| `RowsAreThePasses` | | `Spec => []LoadsOwnRows` |
| `PassIsWhole` | | `Spec => []MeasuredPassIsWhole` |
| `AllOrNothing` | | `Spec => []SavedAllOrNothing` |
| `CachesAreCleared` | | `Spec => []LoadIsUncached` |
| `OthersClose` | | `Spec => []OnlyGreenDaoLeaks` |
| `TypeCorrect` | `TimeMeasureProofs` | `Spec => []TypeOK` |
| `AveragesAreMeans` | | `Spec => []AverageIsOfItsAction` |
| `HeldDataStaysAlive` | `NativeMethodsProofs` | `NativeSpec => []HeldDataIsAlive` |
| `ResetIsWhole` | | `NativeSpec => ResetIsWholeOrThrows` |
| `FailureIsTold` | | `NativeSpec => []FailureOfTheCall` |
| `ValueIsOfTheRow` | | `NativeSpec => ValueIsOfItsRow` |
| `NativeTypes` | | `NativeSpec => []NativeTypeOK` |
| `JavaCallsLegally` | `NativeSQLiteConnectionProofs` | `Spec => LegalCaller`, that is `NativeSpec` and, of the call that ends the process, `~opened` |
| `NoStatementOutlivesItsCall` | | `Spec => []StatementsAreScoped` |
| `CloseAlwaysReleases` | | `Spec => CloseReleases` |
| `OnlyOpenLoses` | | `Spec => OnlyOpenLosesHandles` |
| `InsertsOrThrows` | | `Spec => []ThrewOrInserted` |
| `ReturnsItsRowId` | | `Spec => []InsertReturnsItsRowId` |
| `ConnectionTypes` | | `Spec => []TypeOK` |
| `NativePromisesReachJava` | | `Spec => []HeldDataIsAlive /\ []FailureOfTheCall` |
| `ThrowingThrows` | `JniHelpProofs` | `Spec => []SomethingIsThrown` |
| `NothingIsKept` | | `Spec => []EverythingIsGivenBack` |
| `LoggingIsTransparent` | | `Spec => []LoggingKeepsException` |
| `CallsAreLegal` | | `Spec => []JniCallsAreLegal` |
| `LossesAreLogged` | | `Spec => []LossIsLogged` |
| `OnlyVerboseIsLost` | | `Spec => []ReleaseLosesOnlyVerbose` |
| `OnlyNestedIsInTheWay` | | `Spec => []ClearedUnlessNested`, the limit of `pending_is_cleared` |
| `NobodySleepsForASleeper` | `DatabaseBusyProofs` | `Spec => []NoMutualSleep` |
| `NoCallIsStuck` | | `Spec => []CallsGoOn`, for `CallEnds` |
| `CallsComeToTheirEnd` | | `Spec => [][EndComesNearer]_vars`, for `CallEnds` |

What is proved of `NativeSpec` holds of the Java class too, since it is a legal
caller until a call ends the process (`JavaCallsLegally`); `NativePromisesReachJava` says so of the two
properties that are about calls the class makes.

Every invariant and action property of the passing runs is a theorem. Of the
three liveness properties the theorems marked "for" them prove what does not rest
on the scheduler: while something is waited for, the guard of a step of the
program holds, and the steps left are bounded and become fewer. That those
guards are the conditions under which the steps are enabled is read off the
actions (and TLC agrees, on the instances of `activity_live` and `busy`, that
`MainMayStep`, `BackgroundMayStep` and `MayGoOn` are `ENABLED` of what they are
the guards of); that an enabled step is then taken is the fairness assumed.

### Executor and activity

The argument for `BenchmarkActivity` goes in layers, each inductive given the
ones before:

1. `TypeInv`: types, `HandlerInv` (a callback on the stack is that of the
   message's listener) and `ListenerInv` (a listener is reachable, and the run
   in its field is no older than the run that listens). Without the two,
   `results[executor[uiAct]]` has no type: nothing in the callbacks checks that
   the field is not null.
2. `TaskInv`: a begun task has only ended tasks before it.
3. `ReportInv`: messages in the queue are of begun runs, what was told as an
   end is in the results, and the results of a run that is not lost never
   shrink. Only then does `containsKey` say of a start that no end was told.
4. `CsvInv`: from `CheckComplete` on, the exported run's map has every
   benchmark (`SizeTellsComplete`: its size says so), and it stays so while the
   background thread runs.
5. `ScreenInv`, `OrderInv`, `ExportInv`: screens come in order and the runs in
   their fields with them; messages are queued and answered in the order of
   their runs; so what any report ahead can lead to be exported is no older
   than what was. `NeverRegresses` follows, for screens that were destroyed
   and not collected too.
6. `ResultsInv`: the map of a run is the initial segment of the benchmarks its
   loop has passed; `WriteInv`: the file that is written to is the one just
   created. Then (`KeepsPromise`, action by action in `PromiseStep`)
   `PutResults` is the abstract `Measure`: it adds exactly one, and no run after
   it has begun (`PutMeasures`). `CsvDelete`, `CsvCreate` and `CsvWrite` are
   `Remove`, `Create` and `Write`, of a run that is complete
   (`ExportedIsComplete`) and no older than the last. Everything that ends the
   process is `Die` (`DeathDies`), a write cut short included. A press of Start
   and all else change nothing the abstract specification sees.
7. `LastInv`: when a task is over, no report of its run or of an earlier one is
   without that run's last report behind it. `FieldInv`: the run in a living
   screen's field reports to that screen and was not lost. `BusyInv`: a busy
   screen has its run's last report ahead. This is the strengthening
   `BusyScreenClears` needs: the run's task may still be at work, or over with
   its reports queued, or with the last in hand, and the steps between are of
   three threads. `ShownInv` and `RestInv` follow that report through
   `ShowResults` and `CheckComplete`: it is answered with all results, and the
   export is then ahead, under way or over (`ScreenIsComplete`).
8. `DeadInv` and `SeenInv`: a dead process has no screens, and what an iteration
   of the map must meet is still in it. With the layers before, a screen that
   waits, for its button, its status or its file, has a task or a message before
   it (`WaitingScreensAreServed`): of the tasks that wait one is the first
   (`FirstQueued`), and if nothing is queued, running or handled, `RestInv` has
   the run exported. `WorkEnds` counts: four steps to a benchmark and one to
   begin, nine to a message.
9. `ToldInv`: while a run is in the passes of a benchmark, that benchmark's start
   was told to the screen with the run in its field, or is ahead; and no
   `CheckComplete` of that screen finds the run complete (`NotYet`). So "Idle"
   over a running benchmark is only said of runs started elsewhere or before.

### Passes

None of the properties of a pass is inductive: each rests on what the other
adapters, earlier passes and dead processes left. `BenchmarkPassProofs` has one
invariant for all, in parts that every action is shown to keep:

* `CountInv`: the numbers of pass, file and run go together, so a number is
  not used again (`PassTypes` needs it for its bounds);
* `HandleInv`: a static helper outlives its pass in the content provider only
  and leads to the open file of its name there; an adapter at work uses the
  file of its name, but for those that open lazily, which have none before the
  save; and but for greenDAO what is open is in use, or the content provider's;
* `FileInv`: names lead to files created so far, and adapters do not share one;
* `SaveInv`: a transaction holds the first entities of this pass, in order, for
  the adapters that end it when an insert fails;
* `ContentInv`: a file holds all or nothing of a pass and nothing before its
  save commits, and only rows of this pass while it is used, except
  ActiveAndroid's, which may have those of a process that died;
* `LoadInv`: at a load the cache is empty, and so what is loaded comes from
  the file.

### Measures

`PcInv` says that `start` is `now` before a call that is timed, and
`ResultsInv` how many measures the list has at each call, and that saves and
loads alternate in it. The averaging loop and the sum over passes it is compared with are
recursive functions. The library's induction theorems take an operator as a
parameter and cannot be used, so `Induction` is stated of a set of numbers and
proved from `<` being well founded (`WFMin`), and `RecursionExists` gives the
functions their equations (`LoopIs`, `SumIs`). Two turns of the loop are then
one pass of the sum (`LoopIsSum`): after 2p measures it has counted p of the
action and added their durations. `SumBounds` and `Quotient` put the mean
between the least and the greatest (`MeanIs`), which is also why a figure stays
within `MaxNano` (`TypeCorrect`), and a division by a count of none cannot be.
The milliseconds of a figure are its nanoseconds divided and cut again: `MsecMeanIs`
shows that the two cuts are one, of the sum by both divisors.

### Native methods

`HeldInv` is inductive: a running statement's value was bound long before, so
every statement's values must be copies (`Shape`); and a connection gets its
callbacks in the step that makes its struct, so one that failed to open, or is
not opened yet, must have none (`CallbacksHeld`).

`FailureOfTheCall` rests on lemmas about the operators: a step leaves its own
code in the connection (`StepIsLeft`, `ReturnedCode`), so the code
`throw_sqlite3_exception` reads afterwards is the failed call's, and no class it
makes of one is the absence of an exception (`ThrownHasAClass`). `BoundsInv` has
the bounds that the types need: of statements by connection, of row ids by what
was inserted, of what a method that steps may leave.

### Java class

`CallerInv` says where the addresses it holds come from:
the connection's is null or of a struct, an object that is open has one
(`ConnectionHeld`), and within a call the statement's is null or of a statement
of that connection, not finalized. Given that, every action of the class is one
of `NativeNext` or leaves the native state alone (`NextIsLegal`), `Crash` is of
an object that is not open (`CrashIsNoStep`), and `HeldInv` comes for free. That
an open object has an address needs every way in which `open` and `close` may
throw: a refused `open` over an open connection keeps the old one's, a `close`
that throws its own. `ScopedInv` adds that a leaked address is of a
statement there is: otherwise the next one prepared might be taken for leaked.

`StoryInv` is the story of one call of `execute...`, a part for each stretch of
it: the statement is of the call's SQL; until it is stepped what is bound are
the arguments so far, and then all of them; until the step returns nothing is
inserted or thrown; after it exactly one of the two happened, and the value
tells which. `ThrewOrInserted` and `InsertReturnsItsRowId` are its last part.
`ConnectionTypes` adds `CallBounds` and `ResultBounds`: the argument bound next
stays within the parameters, and results within the row ids there are.

### Locks

`LockInv` has their types, one writer at most (`OneWriter`), and
that an INSERT which holds SHARED and has yet to reserve has not slept: SQLite
does not call the busy handler for it (`PromotesAtOnce`). A sleeper that holds a
lock is then a writer that commits, and of two threads one is no writer.

`SleptInv` has no sleep past the timeout. What a call has left (`StepsLeft`) are
the sleeps its lock is still worth, the locks a commit has still to take, and
for an INSERT the commit that may follow; another thread's lock turns a step
into a sleep or a giving up, and never into nothing (`MayGoOn`).

### Helpers

`PcInv` says which helper may be at which step, `HeldInv` what may be held
there (`MayHold`), `PendingInv` what may be pending: nothing at a step that
calls JNI, unless a `getMessage` threw. The properties ask about the return
only; which references are held in the middle is what their `DeleteLocalRef`s
must match. `TextInv` follows the buffers from the step that fills them and
`LogInv` the log from the step that says why an exception was lost, build by
build. `BuildsInv` keeps, for the debug and the release log, a witness that the
one is the other with verbose messages left out: which message of the debug log
each message of the release log is. A message more in one or both extends it
(`LosesNoMore`), and the debug build compiles whatever the release build does
(`DebugCompilesMore`). `StopInv`: no assertion stops the release build and
leaves the debug build running.

### Only model-checked

* Liveness itself: `ButtonComesBack`, `RunIsExportedOrReplaced` and
  `CallEnds`. The prover has no rules for
  fairness and `ENABLED`; what is proved of them is their safety half, above.
* That the four properties of the runs that expect it are violated.

## Plan

Done: the modules, runs and theorems above. What could still be added:

1. the longest proof steps of `BenchmarkPassProofs` cut into lemmas by adapter;
2. a count of the messages a run sends, to bound `looper`: `WorkEnds` bounds
   what is done, not how long a message waits;
3. the rest of `sqlite3.h`, should the native code come to call it.

## Not modelled

* `Log.java`, `Utils.java` (random strings), `Blob`, the application singleton:
  no state that anything depends on.
* The entities' columns and their binding, `onUpgrade` (no database has a
  second version) and `findEntity` (no caller).
* The rest of `sqlite3.h`: blobs, backups, virtual tables, user functions,
  memory, mutexes and configuration are called by nothing here, and without a
  caller there is no behaviour of this program to state.
* `cutils/atomic.h` and `cutils/uio.h`: declarations of functions that are
  defined elsewhere and called by nothing here. `NELEM` and
  `TEMP_FAILURE_RETRY` of `JNIHelp.h`, the custom-function and string class
  infos and `CopyRowResult` of the connection's file are not used either.
* The bodies of `nativeGetDbLookaside`, `nativeCancel` and `nativeResetCancel`
  and the progress handler the last installs: Java cannot reach them.
* The wording of messages, log tags and formats.
* The greenDAO generator and the build files: no behaviour at run time.
