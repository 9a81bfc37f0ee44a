------------------------------- MODULE SQLite -------------------------------
(***************************************************************************)
(* The SQLite library as the connection's native code uses it: connections *)
(* (sqlite3), prepared statements (sqlite3_stmt), and what each function   *)
(* that code calls returns, changes and leaves in the connection.          *)
(*                                                                         *)
(* The library itself is a binary.  Its interface is sqlite3.h, and every  *)
(* operator here is what that header declares and specifies of a function. *)
(* An operator named after a function is the part of an action that the    *)
(* call makes, for the case that it returns the given code.                *)
(***************************************************************************)
EXTENDS SQLiteCommon, FiniteSets, Sequences

CONSTANTS
    MaxOpens,       \* bound: calls of sqlite3_open_v2
    MaxStatements,  \* bound: statements prepared
    MaxRows,        \* bound: rows of a query
    MaxRowIds,      \* bound: rows inserted
    NumParameters,  \* parameters of a statement that has any
    Sql,            \* the SQL texts that occur
    StepErrors      \* the errors that running a statement meets

\* What an SQL text does: insert a row, insert none (OR IGNORE), change two
\* rows, change none and leave changes() alone, return rows, hold no statement,
\* or not compile.
SqlKinds == {"insert", "insertNone", "update", "ddl", "query", "blank", "malformed"}

SQLITE_INTEGER == 1
SQLITE_FLOAT == 2
SQLITE_TEXT == 3
SQLITE_BLOB == 4
SQLITE_NULL == 5

ASSUME MaxOpensAssumption == MaxOpens \in Nat
ASSUME MaxStatementsAssumption == MaxStatements \in Nat
ASSUME MaxRowsAssumption == MaxRows \in 1 .. 5
ASSUME MaxRowIdsAssumption == MaxRowIds \in Nat
ASSUME NumParametersAssumption == NumParameters \in Nat \ {0}
ASSUME SqlAssumption == Sql \subseteq SqlKinds
ASSUME StepErrorsAssumption ==
    StepErrors \subseteq (PrimaryCodes \cup ExtendedCodes)
                     \ {SQLITE_OK, SQLITE_ROW, SQLITE_DONE}

Handles == 1 .. MaxOpens   \* addresses, which are not used again
Null == 0

VARIABLES
    opens,      \* calls of sqlite3_open_v2 so far
    handles,    \* the sqlite3 objects not released
    unopened,   \* history: handles that sqlite3_open_v2 returned with an error
    db,         \* db[h]: the state of a sqlite3
    stmts,      \* stmts[s]: the s-th sqlite3_stmt
    rowIds      \* rows inserted so far, the row id of the newest

sqliteVars == <<opens, handles, unopened, db, stmts, rowIds>>

Callbacks == {"trace", "profile"}   \* one of each kind, or none
Connections ==
    [errcode : Nat, changes : {0, 1, 2}, lastRowId : 0 .. MaxRowIds,
     callbacks : SUBSET Callbacks, readonly : BOOLEAN]
Statements ==
    [handle : Handles, sql : Sql, pc : {"ready", "running", "stepped"},
     result : Nat, row : 0 .. MaxRows, bound : SUBSET (1 .. NumParameters),
     borrowed : SUBSET (1 .. NumParameters)]   \* bound to memory of the caller

Finalized == [handle |-> Null, sql |-> "", pc |-> "finalized",
              result |-> SQLITE_OK, row |-> 0, bound |-> {}, borrowed |-> {}]

SQLiteInit ==
    /\ opens = 0
    /\ handles = {} /\ unopened = {}
    /\ db = [h \in Handles |-> [errcode |-> SQLITE_OK, changes |-> 0, lastRowId |-> 0,
                                callbacks |-> {}, readonly |-> FALSE]]
    /\ stmts = <<>>
    /\ rowIds = 0

SQLiteTypeOK ==
    /\ opens \in 0 .. MaxOpens
    /\ handles \subseteq Handles /\ unopened \subseteq Handles
    /\ db \in [Handles -> Connections]
    /\ stmts \in Seq(Statements \cup {Finalized}) /\ Len(stmts) <= MaxStatements
    /\ rowIds \in 0 .. MaxRowIds

------------------------------------------------------------------------------
(* Connections.                                                            *)

\* sqlite3_extended_errcode: the code of the connection's last call.
Returns(h, code) == db' = [db EXCEPT ![h].errcode = code]

\* A misuse may or may not be set as the connection's error code.
ReturnsMisuse(h) == \/ Returns(h, SQLITE_MISUSE)
                    \/ UNCHANGED db

\* What a path names when it is opened: a file, or, as the empty path and
\* ":memory:" do, a new private database.
Files == {"missing", "writable", "protected", "private"}
Readonly == {"SQLITE_OPEN_READONLY"}
Readwrite == {"SQLITE_OPEN_READWRITE"}
Create == {"SQLITE_OPEN_READWRITE", "SQLITE_OPEN_CREATE"}

\* An error usually comes with a handle all the same, except when there is no
\* memory for one.
sqlite3_open_v2_results(flags, file) ==
    {SQLITE_CANTOPEN, SQLITE_NOMEM} \cup
        IF file = "missing" /\ flags # Create THEN {} ELSE {SQLITE_OK}
OpenReturnsHandle(code) == code # SQLITE_NOMEM

\* A connection for writing is readonly all the same if the file is protected.
sqlite3_db_readonly(flags, file) == flags = Readonly \/ file = "protected"

\* The statements of a connection that are not finalized.
Unfinalized(h) == {s \in DOMAIN stmts : stmts[s].handle = h}

sqlite3_close_result(h) == IF Unfinalized(h) = {} THEN SQLITE_OK ELSE SQLITE_BUSY

sqlite3_close(h) ==
    IF sqlite3_close_result(h) = SQLITE_OK
    THEN /\ handles' = handles \ {h}
         /\ UNCHANGED db
    ELSE /\ Returns(h, SQLITE_BUSY)
         /\ UNCHANGED handles

sqlite3_changes(h) == db'[h].changes              \* as they are after a step
sqlite3_last_insert_rowid(h) == db'[h].lastRowId

------------------------------------------------------------------------------
(* Statements.                                                             *)

Parameters(sql) == IF sql \in {"insert", "update"} THEN 1 .. NumParameters ELSE {}

\* The limits that an SQL text may exceed (that of VDBE_OP is not enforced, and
\* the others are met when a value is bound or a statement runs), and the code
\* for one: of a string that is too long, or of an error in the SQL.
CompileLimits == {"SQL_LENGTH", "COLUMN", "EXPR_DEPTH", "COMPOUND_SELECT", "FUNCTION_ARG",
                  "VARIABLE_NUMBER"}
ExceededCode(limit) ==
    IF limit \in {"LENGTH", "SQL_LENGTH"} THEN SQLITE_TOOBIG ELSE SQLITE_ERROR

CompileErrors == {SQLITE_BUSY, SQLITE_NOMEM} \cup {ExceededCode(limit) : limit \in CompileLimits}

\* Text without a statement compiles to NULL, which is no error.
sqlite3_prepare16_v2_results(sql) ==
    CASE sql = "malformed" -> {SQLITE_ERROR}
      [] sql = "blank" -> {SQLITE_OK}
      [] OTHER -> {SQLITE_OK} \cup CompileErrors

sqlite3_prepare16_v2(h, sql, code) ==
    /\ Returns(h, code)
    /\ stmts' = IF code = SQLITE_OK /\ sql # "blank"
                THEN Append(stmts, [handle |-> h, sql |-> sql, pc |-> "ready",
                                    result |-> SQLITE_OK, row |-> 0, bound |-> {},
                                    borrowed |-> {}])
                ELSE stmts

\* What these say of NULL is what they say of a statement without parameters,
\* effects and columns.
sqlite3_bind_parameter_count(s) ==
    IF s = Null THEN 0 ELSE Cardinality(Parameters(stmts[s].sql))
sqlite3_stmt_readonly(s) == s = Null \/ stmts[s].sql = "query"
sqlite3_column_count(s) ==
    IF s # Null /\ stmts[s].sql = "query" THEN 1 ELSE 0
\* A column's name, which is its number from 1 here; null without memory for it.
sqlite3_column_name16(s, i) ==
    {Null} \cup IF i < sqlite3_column_count(s) THEN {i + 1} ELSE {}

\* The sqlite3_bind family: MISUSE for NULL and for a statement stepped more
\* recently than reset.
sqlite3_bind_results(s, i) ==
    IF s = Null \/ stmts[s].pc # "ready" THEN {SQLITE_MISUSE}
    ELSE IF i \notin Parameters(stmts[s].sql) THEN {SQLITE_RANGE}
    ELSE {SQLITE_OK, SQLITE_NOMEM, ExceededCode("LENGTH")}

\* The value of a string or blob is copied before the call returns, or stays
\* where the caller has it.
SQLITE_TRANSIENT == -1
SQLITE_STATIC == 0

sqlite3_bind(h, s, i, destructor, code) ==
    /\ IF code = SQLITE_MISUSE THEN ReturnsMisuse(h) ELSE Returns(h, code)
    /\ stmts' = IF code # SQLITE_OK THEN stmts
                ELSE [stmts EXCEPT
                        ![s].bound = @ \cup {i},
                        ![s].borrowed = IF destructor = SQLITE_STATIC THEN @ \cup {i}
                                        ELSE @ \ {i}]

\* sqlite3_step runs for a while: it is two actions, between which it reads what
\* is bound and calls back.  After anything but a row the statement is first
\* reset, which keeps its bindings.
StepBegins(s) ==
    stmts' = [stmts EXCEPT ![s].pc = "running",
                           ![s].row = IF stmts[s].result = SQLITE_ROW THEN @ ELSE 0]

\* What a running statement may return.
Completes(s) ==
    CASE stmts[s].sql = "insert" -> rowIds < MaxRowIds /\ ~db[stmts[s].handle].readonly
      [] stmts[s].sql = "query" -> TRUE
      [] OTHER -> ~db[stmts[s].handle].readonly

sqlite3_step_results(s) ==
    LET sql == stmts[s].sql
    IN  StepErrors
          \cup (IF sql # "query" /\ db[stmts[s].handle].readonly THEN {SQLITE_READONLY} ELSE {})
          \cup (IF Completes(s) THEN {SQLITE_DONE} ELSE {})
          \cup (IF sql = "query" /\ stmts[s].row < MaxRows THEN {SQLITE_ROW} ELSE {})

StepReturns(s, code) ==
    LET h == stmts[s].handle
        sql == stmts[s].sql
        inserts == code = SQLITE_DONE /\ sql = "insert"
        counts == code = SQLITE_DONE /\ sql \in {"insert", "insertNone", "update"}
    IN  /\ stmts' = [stmts EXCEPT ![s].pc = "stepped", ![s].result = code,
                                  ![s].row = IF code = SQLITE_ROW THEN @ + 1 ELSE @]
        /\ rowIds' = IF inserts THEN rowIds + 1 ELSE rowIds
        /\ db' = [db EXCEPT
                    ![h].errcode = code,
                    ![h].lastRowId = IF inserts THEN rowIds' ELSE @,
                    ![h].changes = IF ~counts THEN @
                                   ELSE CASE sql = "insert" -> 1
                                          [] sql = "insertNone" -> 0
                                          [] sql = "update" -> 2]

\* The column of the n-th row of a query has a value of the n-th of these
\* datatypes: NULL, or n, or the fraction, text or blob that n is converted from.
Datatypes == <<SQLITE_NULL, SQLITE_INTEGER, SQLITE_TEXT, SQLITE_FLOAT, SQLITE_BLOB>>
IsNull(row) == Datatypes[row] = SQLITE_NULL

\* The column converted: every value has an integer, 0 for NULL; and all but
\* NULL have a text, if there is the memory to make it.
sqlite3_column_int64(s) == IF IsNull(stmts'[s].row) THEN 0 ELSE stmts'[s].row
sqlite3_column_text16(s) ==
    {Null} \cup IF IsNull(stmts'[s].row) THEN {} ELSE {stmts'[s].row}

\* The statement's last error is returned again, and its bindings stay.
sqlite3_reset_result(s) ==
    IF s = Null \/ stmts[s].result \in {SQLITE_ROW, SQLITE_DONE} THEN SQLITE_OK
    ELSE stmts[s].result

ResetStatement(s) == [stmts EXCEPT ![s].pc = "ready", ![s].result = SQLITE_OK, ![s].row = 0]

sqlite3_clear_bindings(s, program) ==
    [program EXCEPT ![s].bound = {}, ![s].borrowed = {}]

\* Also of NULL, and in any state of the statement.
sqlite3_finalize(h, s) ==
    IF s = Null
    THEN UNCHANGED <<db, stmts>>
    ELSE /\ Returns(h, sqlite3_reset_result(s))
         /\ stmts' = [stmts EXCEPT ![s] = Finalized]
==============================================================================
