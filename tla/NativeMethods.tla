--------------------------- MODULE NativeMethods ---------------------------
(***************************************************************************)
(* com_epam_database_NativeSQLiteConnection.cpp: the native methods of the *)
(* connection, on top of the SQLite library.  A connection is a C++ struct *)
(* (the wrapper) around a sqlite3, both allocated and released by hand;    *)
(* the callbacks that SQLite is given point to the wrapper.                *)
(*                                                                         *)
(* A native method is one action, except for the execute methods: their    *)
(* sqlite3_step runs for a while, in which it calls back and reads what is *)
(* bound.  One thread calls the methods, as the Java class does; the one   *)
(* another thread would call, nativeCancel, Java cannot link.              *)
(***************************************************************************)
EXTENDS SQLite

CONSTANT Tracing    \* the callbacks, of "trace" and "profile", ever asked for
ASSUME TracingAssumption == Tracing \subseteq {"trace", "profile"}

VARIABLES
    wrappers,   \* the SQLiteConnection structs not deleted, by their sqlite3
    running,    \* the execute method in sqlite3_step, and its statement
    outcome     \* what the last method left: its value or its exception, and
                \* (history) the code with which its SQLite call returned

nativeVars == <<sqliteVars, wrappers, running, outcome>>

NoException == "none"
Error == "Error"    \* NoClassDefFoundError, OutOfMemoryError or UnsatisfiedLinkError
NoValue == -1
Nothing == [method |-> "none", stmt |-> Null]

NonQueries == {"nativeExecute", "nativeExecuteForChangedRowCount",
               "nativeExecuteForLastInsertedRowId"}
OneRowQueries == {"nativeExecuteForLong", "nativeExecuteForString"}

NativeInit ==
    /\ SQLiteInit
    /\ wrappers = {}
    /\ running = Nothing
    /\ outcome = [code |-> SQLITE_OK, thrown |-> NoException, value |-> NoValue]

\* The method returns value, or with an exception pending: the one it meant,
\* or another when jniThrowException cannot find or make that.
Leaves(code, class, value) ==
    \E thrown \in IF class = NoException THEN {NoException} ELSE {class, Error} :
        outcome' = [code |-> code, thrown |-> thrown, value |-> value]

\* Of the methods that throw for any code but SQLITE_OK.
LeavesResult(h, code) ==
    Leaves(code, IF code = SQLITE_OK THEN NoException ELSE ThrownFor(db'[h].errcode), NoValue)

------------------------------------------------------------------------------
(* Connections.                                                            *)

OpenFlags == {"CREATE_IF_NECESSARY", "OPEN_READONLY"}

\* CREATE_IF_NECESSARY is asked for first.
sqliteFlags(flags) ==
    CASE "CREATE_IF_NECESSARY" \in flags -> Create
      [] "CREATE_IF_NECESSARY" \notin flags /\ "OPEN_READONLY" \in flags -> Readonly
      [] flags = {} -> Readwrite

\* sqlite3_open_v2 fails: nothing is closed.
OpenFails(h, flags, file) ==
    \E code \in sqlite3_open_v2_results(sqliteFlags(flags), file) \ {SQLITE_OK} :
        /\ handles' = IF OpenReturnsHandle(code) THEN handles \cup {h} ELSE handles
        /\ unopened' = IF OpenReturnsHandle(code) THEN unopened \cup {h} ELSE unopened
        /\ Returns(h, code)
        /\ Leaves(code, ExceptionClass(code), Null)
        /\ UNCHANGED wrappers

NotWritable(flags, file) ==
    sqliteFlags(flags) # Readonly /\ sqlite3_db_readonly(sqliteFlags(flags), file)

\* Mutant of OpenRefused: the sqlite3 is not closed again.
OpenRefusedKeepsHandle(h, flags, file) ==
    \E code \in IF NotWritable(flags, file) THEN {SQLITE_OK} ELSE {SQLITE_MISUSE} :
        /\ SQLITE_OK \in sqlite3_open_v2_results(sqliteFlags(flags), file)
        /\ handles' = handles \cup {h}
        /\ Returns(h, code)
        /\ Leaves(code, ThrownFor(code), Null)
        /\ UNCHANGED <<unopened, wrappers>>

\* The database is read-only although writing was asked for, or the busy
\* timeout cannot be set: the exception is made from the errcode, in which
\* there may be nothing, and the sqlite3 is closed again.
OpenRefused(h, flags, file) ==
    \E code \in IF NotWritable(flags, file) THEN {SQLITE_OK} ELSE {SQLITE_MISUSE} :
        /\ SQLITE_OK \in sqlite3_open_v2_results(sqliteFlags(flags), file)
        /\ Returns(h, code)
        /\ Leaves(code, ThrownFor(code), Null)
        /\ UNCHANGED <<handles, unopened, wrappers>>

\* enabled: which of the trace and the profile callback are asked for.
OpenSucceeds(h, flags, file, enabled) ==
    /\ SQLITE_OK \in sqlite3_open_v2_results(sqliteFlags(flags), file)
    /\ ~NotWritable(flags, file)
    /\ handles' = handles \cup {h}
    /\ wrappers' = wrappers \cup {h}
    /\ db' = [db EXCEPT ![h].callbacks = enabled,
                        ![h].readonly = sqlite3_db_readonly(sqliteFlags(flags), file)]
    /\ Leaves(SQLITE_OK, NoException, h)
    /\ UNCHANGED unopened

nativeOpen(flags, file, enabled) ==
    /\ opens < MaxOpens
    /\ opens' = opens + 1
    /\ \/ OpenFails(opens + 1, flags, file)
       \/ OpenRefused(opens + 1, flags, file)
       \/ OpenSucceeds(opens + 1, flags, file, enabled)
    /\ UNCHANGED <<stmts, rowIds, running>>

\* Mutant of nativeClose: the wrapper is deleted whether or not sqlite3_close
\* returned SQLITE_OK.
nativeCloseDeletes(h) ==
    /\ sqlite3_close(h)
    /\ wrappers' = wrappers \ {h}
    /\ LeavesResult(h, sqlite3_close_result(h))
    /\ UNCHANGED <<opens, unopened, stmts, rowIds, running>>

\* Mutant of nativeClose: sqlite3_close is not called.
nativeCloseKeepsHandle(h) ==
    /\ wrappers' = wrappers \ {h}
    /\ Leaves(SQLITE_OK, NoException, NoValue)
    /\ UNCHANGED <<sqliteVars, running>>

\* The wrapper is deleted only once the sqlite3 is gone.
nativeClose(h) ==
    /\ sqlite3_close(h)
    /\ wrappers' = IF h \in handles' THEN wrappers ELSE wrappers \ {h}
    /\ LeavesResult(h, sqlite3_close_result(h))
    /\ UNCHANGED <<opens, unopened, stmts, rowIds, running>>

------------------------------------------------------------------------------
(* Statements, up to their execution.                                      *)

unmoved == <<opens, handles, unopened, rowIds, wrappers, running>>

nativePrepareStatement(h, sql) ==
    /\ Len(stmts) < MaxStatements
    /\ \E code \in sqlite3_prepare16_v2_results(sql) :
         /\ sqlite3_prepare16_v2(h, sql, code)
         /\ Leaves(code, IF code = SQLITE_OK THEN NoException ELSE ThrownFor(db'[h].errcode),
                IF Len(stmts') > Len(stmts) THEN Len(stmts') ELSE Null)
    /\ UNCHANGED unmoved

\* The result of sqlite3_finalize is ignored.
nativeFinalizeStatement(h, s) ==
    /\ sqlite3_finalize(h, s)
    /\ Leaves(SQLITE_OK, NoException, NoValue)
    /\ UNCHANGED unmoved

nativeGetParameterCount(s) == sqlite3_bind_parameter_count(s)
nativeIsReadOnly(s) == IF sqlite3_stmt_readonly(s) THEN 1 ELSE 0
nativeGetColumnCount(s) == sqlite3_column_count(s)

\* The methods that only read and cannot fail.
Ask(s) ==
    /\ \E answer \in {nativeGetParameterCount(s), nativeIsReadOnly(s),
                      nativeGetColumnCount(s)} :
         Leaves(SQLITE_OK, NoException, answer)
    /\ UNCHANGED <<db, stmts, unmoved>>

\* A String of the text, or an OutOfMemoryError; null for no text.
NewString(code, text) ==
    \/ Leaves(code, NoException, text)
    \/ text # Null /\ Leaves(code, Error, Null)

nativeGetColumnName(s, i) ==
    /\ \E name \in sqlite3_column_name16(s, i) : NewString(SQLITE_OK, name)
    /\ UNCHANGED <<db, stmts, unmoved>>

\* Mutant of Destructor: the value is not copied.
DestructorStatic == SQLITE_STATIC

\* For a string or blob, whose Java memory is released once it is bound.
Destructor == SQLITE_TRANSIENT

\* nativeBindNull, Long, Double, String and Blob.
nativeBind(h, s, i) ==
    /\ \E code \in sqlite3_bind_results(s, i) :
         /\ sqlite3_bind(h, s, i, Destructor, code)
         /\ LeavesResult(h, code)
    /\ UNCHANGED unmoved

\* Mutant of nativeResetStatementAndClearBindings: the result of sqlite3_reset is
\* ignored, as that of sqlite3_finalize is.
ResetIgnored(h, s) ==
    /\ Returns(h, sqlite3_reset_result(s))
    /\ stmts' = IF sqlite3_reset_result(s) = SQLITE_OK
                THEN sqlite3_clear_bindings(s, ResetStatement(s)) ELSE ResetStatement(s)
    /\ Leaves(SQLITE_OK, NoException, NoValue)
    /\ UNCHANGED unmoved

\* Bindings are cleared only if the reset returned SQLITE_OK, which it does not
\* after an execution that failed.
nativeResetStatementAndClearBindings(h, s) ==
    /\ Returns(h, sqlite3_reset_result(s))
    /\ stmts' = IF sqlite3_reset_result(s) = SQLITE_OK
                THEN sqlite3_clear_bindings(s, ResetStatement(s)) ELSE ResetStatement(s)
    /\ LeavesResult(h, sqlite3_reset_result(s))
    /\ UNCHANGED unmoved

------------------------------------------------------------------------------
(* Execution.                                                              *)

\* sqlite3_step(NULL) returns at once.
ExecuteNull(method, h) ==
    /\ ReturnsMisuse(h)
    /\ Leaves(SQLITE_MISUSE, ThrownFor(db'[h].errcode), NoValue)
    /\ UNCHANGED <<stmts, unmoved>>

ExecuteBegins(method, s) ==
    /\ StepBegins(s)
    /\ running' = [method |-> method, stmt |-> s]
    /\ Leaves(SQLITE_OK, NoException, NoValue)
    /\ UNCHANGED <<opens, handles, unopened, db, rowIds, wrappers>>

\* The callbacks of a running statement: trace as it begins, profile as it ends.
\* Each reads the wrapper it points to.
CalledBack(h) == db[h].callbacks

\* Mutant of ExecuteThrows: executeOneRowQuery accepts SQLITE_DONE.
ExecuteThrowsUnlessDone(method, h, code) ==
    CASE method \in NonQueries /\ code = SQLITE_ROW -> ThrownWithoutHandle
      [] code = SQLITE_DONE -> NoException
      [] method \in OneRowQueries /\ code = SQLITE_ROW -> NoException
      [] OTHER -> ThrownFor(db'[h].errcode)

\* executeNonQuery refuses a row without telling the handle's error;
\* executeOneRowQuery refuses everything else, SQLITE_DONE too.
ExecuteThrows(method, h, code) ==
    CASE method \in NonQueries /\ code = SQLITE_ROW -> ThrownWithoutHandle
      [] method \in NonQueries /\ code = SQLITE_DONE -> NoException
      [] method \in OneRowQueries /\ code = SQLITE_ROW -> NoException
      [] OTHER -> ThrownFor(db'[h].errcode)

ChangedRowCount(h, code) == IF code = SQLITE_DONE THEN sqlite3_changes(h) ELSE NoValue

\* Mutant of LastInsertedRowId: sqlite3_changes is not asked.
LastInsertedRowIdUnchecked(h, code) ==
    IF code = SQLITE_DONE THEN sqlite3_last_insert_rowid(h) ELSE NoValue

LastInsertedRowId(h, code) ==
    IF code = SQLITE_DONE /\ sqlite3_changes(h) > 0
    THEN sqlite3_last_insert_rowid(h) ELSE NoValue

LongValue(s, code) ==
    IF code = SQLITE_ROW /\ sqlite3_column_count(s) >= 1 THEN sqlite3_column_int64(s) ELSE NoValue

StringValues(s, code) ==
    IF code = SQLITE_ROW /\ sqlite3_column_count(s) >= 1 THEN sqlite3_column_text16(s) ELSE {Null}

ExecuteValues(method, h, s, code) ==
    CASE method = "nativeExecute" -> {NoValue}
      [] method = "nativeExecuteForChangedRowCount" -> {ChangedRowCount(h, code)}
      [] method = "nativeExecuteForLastInsertedRowId" -> {LastInsertedRowId(h, code)}
      [] method = "nativeExecuteForLong" -> {LongValue(s, code)}
      [] method = "nativeExecuteForString" -> StringValues(s, code)

ExecuteReturns ==
    LET s == running.stmt
        h == stmts[s].handle
    IN  /\ running # Nothing
        /\ \E code \in sqlite3_step_results(s) :
             /\ StepReturns(s, code)
             /\ \E value \in ExecuteValues(running.method, h, s, code) :
                  IF running.method = "nativeExecuteForString" /\ code = SQLITE_ROW
                  THEN NewString(code, value)
                  ELSE Leaves(code, ExecuteThrows(running.method, h, code), value)
        /\ running' = Nothing
        /\ UNCHANGED <<opens, handles, unopened, wrappers>>

------------------------------------------------------------------------------
(* What Java can link.  There is no RegisterNatives, so a native method of  *)
(* the class is found by its name, which only what the header declares      *)
(* extern "C" has.                                                          *)

\* The header's declarations, in its order.
BeforeExecution ==
    {"nativeOpen", "nativeClose", "nativeRegisterLocalizedCollators", "nativePrepareStatement",
     "nativeFinalizeStatement", "nativeGetParameterCount", "nativeIsReadOnly",
     "nativeGetColumnCount", "nativeGetColumnName", "nativeBindNull", "nativeBindLong",
     "nativeBindDouble", "nativeBindString", "nativeBindBlob"}
FromExecution ==
    {"nativeResetStatementAndClearBindings", "nativeExecute", "nativeExecuteForLong",
     "nativeExecuteForString", "nativeExecuteForBlobFileDescriptor",
     "nativeExecuteForChangedRowCount", "nativeExecuteForLastInsertedRowId",
     "nativeExecuteForCursorWindow", "nativeGetDbLookaside", "nativeCancel",
     "nativeResetCancel"}

\* Defined nowhere.
Undefined == {"nativeRegisterLocalizedCollators", "nativeExecuteForBlobFileDescriptor",
              "nativeExecuteForCursorWindow"}

\* Defined with a jobject for the jclass of the declaration: C++ overloads of the
\* declared functions, whose names are mangled.  With them go the canceled field
\* and the progress handler, which nothing else sets.
Overloaded == {"nativeGetDbLookaside", "nativeCancel", "nativeResetCancel"}

Linked == (BeforeExecution \cup FromExecution) \ (Undefined \cup Overloaded)

\* UnsatisfiedLinkError, at the call only.
CallUnlinked(m) ==
    /\ m \notin Linked
    /\ Leaves(SQLITE_OK, Error, NoValue)
    /\ UNCHANGED <<sqliteVars, wrappers, running>>

------------------------------------------------------------------------------
(* Any caller that passes only addresses of connections not closed and of  *)
(* their statements not finalized, or null where the methods allow it.     *)

CallOn(h) ==
    \/ nativeClose(h)
    \/ \E sql \in Sql : nativePrepareStatement(h, sql)
    \/ \E s \in Unfinalized(h) \cup {Null} :
         \/ nativeFinalizeStatement(h, s)
         \/ Ask(s)
         \/ \E i \in 1 .. NumParameters + 1 : nativeBind(h, s, i)
    \/ \E s \in Unfinalized(h) :
         \/ nativeResetStatementAndClearBindings(h, s)
         \/ nativeGetColumnName(s, 0)
    \/ \E method \in NonQueries \cup OneRowQueries :
         \/ ExecuteNull(method, h)
         \/ \E s \in Unfinalized(h) : ExecuteBegins(method, s)

NativeNext ==
    \/ /\ running = Nothing
       /\ \/ \E flags \in SUBSET OpenFlags, file \in Files, enabled \in SUBSET Tracing :
               nativeOpen(flags, file, enabled)
          \/ \E h \in wrappers : CallOn(h)
          \/ \E m \in BeforeExecution \cup FromExecution : CallUnlinked(m)
    \/ ExecuteReturns

NativeSpec == NativeInit /\ [][NativeNext]_nativeVars

------------------------------------------------------------------------------
NativeTypeOK ==
    /\ SQLiteTypeOK
    /\ wrappers \subseteq Handles
    /\ running \in [method : NonQueries \cup OneRowQueries, stmt : DOMAIN stmts] \cup {Nothing}
    /\ outcome.thrown \in ExceptionClasses \cup {NoException, Error}

\* A sqlite3 that can still call back holds the address of a SQLiteConnection
\* that was not deleted; a statement that runs can call back.
CallbackDataIsAlive ==
    /\ \A h \in handles : CalledBack(h) # {} => h \in wrappers
    /\ wrappers \subseteq handles
    /\ running # Nothing => stmts[running.stmt].handle \in wrappers

\* A statement that runs reads no string or blob that Java has taken back:
\* whatever was bound, and bound again after a reset, is a copy of SQLite's own.
BoundValuesAreOwned ==
    running # Nothing => stmts[running.stmt].borrowed = {}

\* What SQLite was given the address of is there as long as SQLite may use it,
\* whatever order connections, statements and callbacks are used and released
\* in, and whichever call fails.
HeldDataIsAlive == CallbackDataIsAlive /\ BoundValuesAreOwned

\* A one-row method returns a value only of a row that its own step moved to,
\* whether the value is NULL, or of another type, or there is no row left; and
\* if there is a row, only the making of a String can fail.
ValueIsOfItsRow ==
    [][running.method \in OneRowQueries /\ running' = Nothing =>
         LET stmt == stmts'[running.stmt]
             isLong == running.method = "nativeExecuteForLong"
         IN  IF outcome'.thrown = NoException
             THEN /\ stmt.result = SQLITE_ROW /\ stmt.row = stmts[running.stmt].row + 1
                  /\ outcome'.value \in
                       IF IsNull(stmt.row) THEN {0}
                       ELSE IF isLong THEN {stmt.row} ELSE {stmt.row, Null}
             ELSE stmt.result = SQLITE_ROW => ~isLong /\ outcome'.thrown = Error]_nativeVars

\* A statement given back for another use runs from its start, and with no
\* value of its last use unless the caller was told by an exception.
ResetIsWholeOrThrows ==
    [][\A s \in DOMAIN stmts :
         stmts[s].pc = "stepped" /\ stmts'[s].pc = "ready" =>
           /\ stmts'[s].row = 0
           /\ stmts'[s].bound = {} \/ outcome'.thrown # NoException]_nativeVars

\* An exception tells the error of the call that failed, although it is made
\* from the connection's errcode after that call returned.
FailureOfTheCall ==
    outcome.code \notin {SQLITE_OK, SQLITE_ROW, SQLITE_DONE, SQLITE_MISUSE} =>
        outcome.thrown \in {ExceptionClass(outcome.code), Error}
==============================================================================
