------------------------ MODULE NativeSQLiteConnection ------------------------
(***************************************************************************)
(* com.epam.database.NativeSQLiteConnection: a Java object that owns a     *)
(* native connection by address and calls the native methods.  Nothing is  *)
(* counted or collected: every connection and statement lives until the    *)
(* code releases it, on each of its error paths too, and an address kept   *)
(* too long is undefined behaviour.                                        *)
(*                                                                         *)
(* One thread uses the object (nothing in it is synchronized), and calls   *)
(* its methods in any order: execute before open, or after close, too.  A  *)
(* method of the class is as many actions as it makes native calls, with   *)
(* the Java exceptions that may leave it between them.                     *)
(***************************************************************************)
EXTENDS NativeMethods

CONSTANT MaxCalls   \* bound: calls of the two execute methods

ASSUME MaxCallsAssumption == MaxCalls \in Nat

Methods == {"execute", "executeForLastInsertedRowId"}

VARIABLES
    connPtr,    \* mConnectionPtr
    calls,      \* calls of the execute methods so far
    pc,         \* where the method is, or "idle", or "dead" with the process
    method,     \* the method called
    sql,        \* its SQL
    stmtPtr,    \* statement.mStatementPtr
    next,       \* the argument that is bound next
    exception,  \* the class of the exception raised in the call
    value,      \* what executeForLastInsertedRowId returns
    inserted,   \* history: the row id this call inserted
    leaked,     \* history: statements whose address an Error made the call lose
    opened      \* history: an open() returned, and since then no close() did

callVars == <<method, sql, stmtPtr, next, exception, value, inserted>>
vars == <<nativeVars, connPtr, calls, pc, callVars, leaked, opened>>

Init ==
    /\ NativeInit
    /\ connPtr = Null
    /\ calls = 0
    /\ pc = "idle"
    /\ method = "execute" /\ sql = "ddl"
    /\ stmtPtr = Null /\ next = 1
    /\ exception = NoException /\ value = NoValue
    /\ inserted = 0
    /\ leaked = {}
    /\ opened = FALSE

\* The call leaves with the exception of the native method, if it has one.
Thrown == outcome'.thrown # NoException
Rethrow == exception' = outcome'.thrown

\* open and close are no call of an execute method.
NoCall ==
    /\ method' = "execute" /\ sql' = "ddl" /\ value' = NoValue /\ inserted' = 0
    /\ Rethrow
    /\ UNCHANGED <<calls, pc, stmtPtr, next, leaked>>

------------------------------------------------------------------------------
(* open and close.                                                         *)

\* Mutant of Open: an open that throws leaves no address.
OpenForgets ==
    /\ pc = "idle"
    /\ \E file \in Files, enabled \in SUBSET Tracing :
         nativeOpen({"CREATE_IF_NECESSARY"}, file, enabled)
    /\ connPtr' = IF Thrown THEN Null ELSE outcome'.value
    /\ opened' = (opened \/ ~Thrown)
    /\ NoCall

\* The address replaces what mConnectionPtr held, unless nativeOpen throws.
Open ==
    /\ pc = "idle"
    /\ \E file \in Files, enabled \in SUBSET Tracing :
         nativeOpen({"CREATE_IF_NECESSARY"}, file, enabled)
    /\ connPtr' = IF Thrown THEN connPtr ELSE outcome'.value
    /\ opened' = (opened \/ ~Thrown)
    /\ NoCall

\* Mutant of Close: mConnectionPtr = 0 is forgotten.
CloseKeepsAddress ==
    /\ pc = "idle"
    /\ connPtr # Null
    /\ nativeClose(connPtr)
    /\ opened' = (opened /\ Thrown)
    /\ NoCall
    /\ UNCHANGED connPtr

\* A close() with no address does nothing.
Close ==
    /\ pc = "idle"
    /\ connPtr # Null
    /\ nativeClose(connPtr)
    /\ connPtr' = IF Thrown THEN connPtr ELSE Null
    /\ opened' = (opened /\ Thrown)
    /\ NoCall

------------------------------------------------------------------------------
(* execute and executeForLastInsertedRowId.                                *)

Call(m, text) ==
    /\ pc = "idle"
    /\ calls < MaxCalls
    /\ calls' = calls + 1
    /\ method' = m /\ sql' = text
    /\ next' = 1
    /\ exception' = NoException /\ value' = NoValue
    /\ inserted' = 0
    /\ pc' = "prepare"
    /\ UNCHANGED <<nativeVars, connPtr, stmtPtr, leaked, opened>>

\* mConnectionPtr is passed as it is, and nativePrepareStatement reads the struct
\* at address 0: the call does not return, the process ends.
Crash ==
    /\ pc = "prepare"
    /\ connPtr = Null
    /\ pc' = "dead"
    /\ UNCHANGED <<nativeVars, connPtr, calls, callVars, leaked, opened>>

Prepare ==
    /\ pc = "prepare"
    /\ connPtr # Null
    /\ nativePrepareStatement(connPtr, sql)
    /\ Rethrow
    /\ stmtPtr' = IF Thrown THEN Null ELSE outcome'.value
    /\ pc' = IF Thrown THEN "idle" ELSE "describe"
    /\ UNCHANGED <<connPtr, calls, method, sql, next, value, inserted, leaked, opened>>

Raise(class) == exception' = class

\* Mutant of DescribeThrows: the catch of acquirePreparedStatement is missing.
DescribeThrowsUncaught ==
    /\ UNCHANGED nativeVars
    /\ Raise("RuntimeException")
    /\ UNCHANGED leaked

\* The catch finalizes the statement, which no finally block knows of yet.
DescribeThrows ==
    /\ nativeFinalizeStatement(connPtr, stmtPtr)
    /\ Raise("RuntimeException")
    /\ UNCHANGED leaked

\* Of an Error, such as the OutOfMemoryError of new PreparedStatement, the
\* catch of RuntimeException knows nothing.
DescribeFails ==
    /\ UNCHANGED nativeVars
    /\ Raise(Error)
    /\ leaked' = IF stmtPtr = Null THEN leaked ELSE leaked \cup {stmtPtr}

\* nativeGetParameterCount, getSqlStatementType, nativeIsReadOnly and the new
\* PreparedStatement, which is in no cache.
Describe ==
    /\ pc = "describe"
    /\ \/ /\ pc' = "bind"
          /\ UNCHANGED <<nativeVars, stmtPtr, exception, leaked>>
       \/ /\ DescribeThrows \/ DescribeFails
          /\ stmtPtr' = Null
          /\ pc' = "idle"
    /\ UNCHANGED <<connPtr, calls, method, sql, next, value, inserted, opened>>

AllBound == next > nativeGetParameterCount(stmtPtr)

\* Mutant of BindOne: the exception of a native bind is only met after the step.
BindOneGoesOn ==
    /\ ~AllBound
    /\ nativeBind(connPtr, stmtPtr, next)
    /\ Rethrow
    /\ next' = next + 1
    /\ UNCHANGED pc

\* getTypeOfObject chooses among the five native binds, which differ in the
\* type of the value only.
BindOne ==
    /\ ~AllBound
    /\ nativeBind(connPtr, stmtPtr, next)
    /\ Rethrow
    /\ next' = IF Thrown THEN next ELSE next + 1
    /\ pc' = IF Thrown THEN "release" ELSE "bind"

\* bindArguments: a wrong number of arguments, the toString of an argument or a
\* native bind may throw, which goes straight to the finally block.
Bind ==
    /\ pc = "bind"
    /\ \/ BindOne
       \/ /\ AllBound
          /\ pc' = "step"
          /\ UNCHANGED <<nativeVars, next, exception>>
       \/ /\ next = 1
          /\ Raise("SQLiteBindOrColumnIndexOutOfRangeException")
          /\ pc' = "release"
          /\ UNCHANGED <<nativeVars, next>>
       \/ /\ ~AllBound
          /\ Raise("RuntimeException")
          /\ pc' = "release"
          /\ UNCHANGED <<nativeVars, next>>
    /\ UNCHANGED <<connPtr, calls, method, sql, stmtPtr, value, inserted, leaked, opened>>

nativeMethod ==
    IF method = "execute" THEN "nativeExecute" ELSE "nativeExecuteForLastInsertedRowId"

\* The call of the native method, up to its sqlite3_step.
Step ==
    /\ pc = "step"
    /\ \/ /\ stmtPtr # Null
          /\ ExecuteBegins(nativeMethod, stmtPtr)
          /\ pc' = "stepping"
          /\ UNCHANGED exception
       \/ /\ stmtPtr = Null
          /\ ExecuteNull(nativeMethod, connPtr)
          /\ Rethrow
          /\ pc' = "release"
    /\ UNCHANGED <<connPtr, calls, method, sql, stmtPtr, next, value, inserted, leaked, opened>>

StepEnds ==
    /\ pc = "stepping"
    /\ ExecuteReturns
    /\ Rethrow
    /\ value' = IF Thrown THEN NoValue ELSE outcome'.value
    /\ inserted' = IF rowIds' = rowIds THEN 0 ELSE rowIds'
    /\ pc' = "release"
    /\ UNCHANGED <<connPtr, calls, method, sql, stmtPtr, next, leaked, opened>>

\* Mutant of Release: the statement is kept, as one in a cache would be.
ReleaseKeeps ==
    /\ pc = "release"
    /\ stmtPtr' = Null
    /\ pc' = "idle"
    /\ UNCHANGED <<nativeVars, connPtr, calls, method, sql, next, exception, value,
                   inserted, leaked, opened>>

\* releasePreparedStatement, in the finally block: mInCache is never set, so
\* the statement is always finalized and never reset for another use.
Release ==
    /\ pc = "release"
    /\ nativeFinalizeStatement(connPtr, stmtPtr)
    /\ stmtPtr' = Null
    /\ pc' = "idle"
    /\ UNCHANGED <<connPtr, calls, method, sql, next, exception, value,
                   inserted, leaked, opened>>

Next ==
    \/ Open \/ Close
    \/ \E m \in Methods, text \in Sql : Call(m, text)
    \/ Crash \/ Prepare \/ Describe \/ Bind \/ Step \/ StepEnds \/ Release

Spec == Init /\ [][Next]_vars

------------------------------------------------------------------------------
TypeOK ==
    /\ NativeTypeOK
    /\ connPtr \in Handles \cup {Null}
    /\ calls \in 0 .. MaxCalls
    /\ pc \in {"idle", "prepare", "describe", "bind", "step", "stepping", "release", "dead"}
    /\ method \in Methods
    /\ stmtPtr \in 0 .. MaxStatements
    /\ next \in 1 .. NumParameters + 1
    /\ exception \in ExceptionClasses \cup {NoException, Error, "RuntimeException"}
    /\ value \in -1 .. MaxRowIds
    /\ inserted \in 0 .. MaxRowIds
    /\ leaked \subseteq 1 .. MaxStatements
    /\ opened \in BOOLEAN

LiveStatements == UNION {Unfinalized(h) : h \in Handles}

\* No statement outlives the method that prepared it, whichever of its calls
\* throws an exception, and none is used after it is finalized.  Only an Error
\* at one place, where the catch is for RuntimeException, leaks one.
StatementsAreScoped ==
    LiveStatements \ leaked =
        IF pc \in {"idle", "prepare"} \/ stmtPtr = Null THEN {} ELSE {stmtPtr}

\* close() releases an open connection: it never meets the SQLITE_BUSY that
\* nativeClose has a comment and an exception for, unless a statement leaked.
CloseReleases ==
    [][Close => \/ connPtr' = Null /\ connPtr \notin handles' /\ connPtr \notin wrappers'
                \/ \E s \in leaked : stmts[s].handle = connPtr]_vars

\* A connection that nothing can release any more is one of two: what a failed
\* sqlite3_open_v2 gave, or the open connection that an open() replaced by the
\* new one.  No close() and no refused open() leaves one behind.
LostHandles == handles \ {connPtr}
OnlyOpenLosesHandles ==
    [][\A h \in LostHandles' \ LostHandles :
         \/ h \in unopened'
         \/ h = connPtr /\ connPtr' # connPtr /\ connPtr' \in wrappers']_vars

\* The id returned for an INSERT is that of the row it inserted, and none if
\* it inserted none, although both are read from the connection's counters
\* after the statement.  (Of other statements nothing is said: an UPDATE, or
\* DDL after an INSERT, returns the id of an earlier row.)
InsertReturnsItsRowId ==
    pc = "idle" /\ method = "executeForLastInsertedRowId" /\ exception = NoException
      /\ sql \in {"insert", "insertNone"} /\ calls > 0 =>
        value = IF inserted = 0 THEN NoValue ELSE inserted

\* A caller may do an INSERT that threw again: it inserted nothing, and one
\* that returned normally did, though the exception or the result goes through
\* two finally blocks and two more native calls.  What was inserted has all its
\* arguments, whichever bind failed.
ThrewOrInserted ==
    /\ pc = "idle" /\ sql = "insert" => (exception = NoException <=> inserted # 0)
    /\ inserted # 0 /\ stmtPtr # Null => stmts[stmtPtr].bound = Parameters(sql)

\* Every native call the class makes that returns is one a caller may make: with
\* the address of a connection not closed and of its statement not finalized,
\* one at a time.  One that does not return is made on an object that is not
\* open: before an open() returned, or after a close() did, whatever open(),
\* close() or execute threw meanwhile.
LegalCaller == NativeSpec /\ [][Crash => ~opened]_vars

------------------------------------------------------------------------------
\* sqlite3.h:2676: "Whether or not an error occurs when it is opened, resources
\* associated with the database connection handle should be released by passing
\* it to sqlite3_close() when it is no longer required."
FailedOpenIsReleased == pc = "idle" => handles \cap unopened = {}
==============================================================================
