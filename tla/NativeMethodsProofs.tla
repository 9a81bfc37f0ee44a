------------------------ MODULE NativeMethodsProofs ------------------------
(***************************************************************************)
(* HeldDataIsAlive for any number of connections, statements and rows, and *)
(* any legal caller: the native methods give SQLite no address of memory   *)
(* that is released while SQLite may use it.                               *)
(*                                                                         *)
(* HeldDataIsAlive is not inductive: a new connection's callbacks must be  *)
(* none until its wrapper is there, a failed open included, and a value    *)
(* bound to a statement must be a copy long before the statement runs.     *)
(***************************************************************************)
EXTENDS NativeMethods, TLAPS

Codes == PrimaryCodes \cup ExtendedCodes

ConnectionShape ==
    [errcode : Codes, changes : {0, 1, 2}, lastRowId : Nat,
     callbacks : SUBSET Callbacks, readonly : BOOLEAN]

\* Among the rest: no statement borrows memory of its caller.
StatementShape ==
    [handle : Handles \cup {Null}, sql : Sql \cup {""},
     pc : {"ready", "running", "stepped", "finalized"},
     result : Codes, row : Nat, bound : SUBSET Int, borrowed : {{}}]

Shape ==
    /\ opens \in 0 .. MaxOpens
    /\ rowIds \in Nat
    /\ db \in [Handles -> ConnectionShape]
    /\ stmts \in Seq(StatementShape)

\* The structs are of connections not released, which were opened.
WrappersHeld == wrappers \subseteq handles /\ handles \subseteq 1 .. opens

\* Whatever calls back has a struct: not a connection whose open failed, and
\* not one yet to be opened.
CallbacksHeld ==
    \A h \in Handles : h \notin wrappers /\ (h \in handles \/ h > opens) => db[h].callbacks = {}

RunningHeld ==
    running # Nothing =>
        running.stmt \in DOMAIN stmts /\ stmts[running.stmt].handle \in wrappers

HeldInv == Shape /\ WrappersHeld /\ CallbacksHeld /\ RunningHeld

\* The library just loaded has nothing to hold.
LEMMA HeldInvInit == NativeInit => HeldInv
<1> SUFFICES ASSUME NativeInit PROVE HeldInv
  OBVIOUS
<1>1. SQLITE_OK \in Codes
  BY DEF SQLITE_OK, Codes, PrimaryCodes
<1>2. Shape
  BY <1>1, MaxOpensAssumption DEF NativeInit, SQLiteInit, Shape, ConnectionShape, Callbacks
<1>3. WrappersHeld /\ CallbacksHeld
  BY DEF NativeInit, SQLiteInit, WrappersHeld, CallbacksHeld
<1>4. RunningHeld
  BY DEF NativeInit, RunningHeld
<1>. QED
  BY <1>2, <1>3, <1>4 DEF HeldInv

\* The invariant implies the property.
LEMMA HeldInvSuffices == HeldInv => HeldDataIsAlive
<1> SUFFICES ASSUME HeldInv PROVE HeldDataIsAlive
  OBVIOUS
<1>1. handles \subseteq Handles
  BY MaxOpensAssumption DEF HeldInv, WrappersHeld, Shape, Handles
<1>2. CallbackDataIsAlive
  BY <1>1 DEF HeldInv, WrappersHeld, CallbacksHeld, RunningHeld, CallbackDataIsAlive, CalledBack
<1>3. BoundValuesAreOwned
  <2> SUFFICES ASSUME running # Nothing PROVE stmts[running.stmt].borrowed = {}
    BY DEF BoundValuesAreOwned
  <2>1. stmts \in Seq(StatementShape) /\ running.stmt \in DOMAIN stmts
    BY DEF HeldInv, Shape, RunningHeld
  <2>2. stmts[running.stmt] \in StatementShape
    BY <2>1
  <2>. QED
    BY <2>2 DEF StatementShape
<1>. QED
  BY <1>2, <1>3 DEF HeldDataIsAlive

------------------------------------------------------------------------------
(* What calls of the library keep.                                         *)

\* Setting the error code touches neither shapes nor callbacks.
LEMMA ReturnsKeeps ==
  ASSUME db \in [Handles -> ConnectionShape], NEW h, NEW code \in Codes, Returns(h, code)
  PROVE  /\ db' \in [Handles -> ConnectionShape]
         /\ \A k \in Handles : db'[k].callbacks = db[k].callbacks
<1>1. db' = [db EXCEPT ![h].errcode = code]
  BY DEF Returns
<1>2. db' \in [Handles -> ConnectionShape]
  BY <1>1 DEF ConnectionShape
<1>3. \A k \in Handles : db'[k].callbacks = db[k].callbacks
  BY <1>1 DEF ConnectionShape
<1>. QED
  BY <1>2, <1>3

\* What a native method other than open, close and execute may do.
Quiet ==
    /\ UNCHANGED <<opens, handles, rowIds, wrappers, running>>
    /\ db' \in [Handles -> ConnectionShape]
    /\ \A k \in Handles : db'[k].callbacks = db[k].callbacks
    /\ stmts' \in Seq(StatementShape)

\* While none runs, that keeps the invariant.
LEMMA QuietKeeps ==
  ASSUME HeldInv, running = Nothing, Quiet PROVE HeldInv'
<1>1. Shape'
  BY DEF HeldInv, Shape, Quiet
<1>2. WrappersHeld' /\ CallbacksHeld' /\ RunningHeld'
  BY DEF HeldInv, WrappersHeld, CallbacksHeld, RunningHeld, Quiet
<1>. QED
  BY <1>1, <1>2 DEF HeldInv

\* A new statement, or one of them changed, leaves a sequence of statements.
LEMMA StatementsKept ==
  ASSUME stmts \in Seq(StatementShape)
  PROVE  /\ \A s \in DOMAIN stmts, e \in StatementShape :
              [stmts EXCEPT ![s] = e] \in Seq(StatementShape)
         /\ \A e \in StatementShape : Append(stmts, e) \in Seq(StatementShape)
  OBVIOUS

\* The codes the library returns are codes.
LEMMA CodesReturned ==
  /\ {SQLITE_OK, SQLITE_ERROR, SQLITE_BUSY, SQLITE_NOMEM, SQLITE_READONLY,
      SQLITE_CANTOPEN, SQLITE_TOOBIG, SQLITE_MISUSE, SQLITE_RANGE,
      SQLITE_ROW, SQLITE_DONE} \subseteq Codes
  /\ StepErrors \subseteq Codes
<1>1. StepErrors \subseteq Codes
  BY StepErrorsAssumption DEF Codes
<1>. QED
  BY <1>1 DEF Codes, PrimaryCodes, SQLITE_OK, SQLITE_ERROR, SQLITE_BUSY, SQLITE_NOMEM,
      SQLITE_READONLY, SQLITE_CANTOPEN, SQLITE_TOOBIG, SQLITE_MISUSE,
      SQLITE_RANGE, SQLITE_ROW, SQLITE_DONE

------------------------------------------------------------------------------
(* The native methods.                                                     *)

\* Compiling, finalizing, binding, resetting, asking and a step of no statement
\* are quiet.
LEMMA MethodsAreQuiet ==
  ASSUME HeldInv, NEW h \in Handles
  PROVE  /\ \A sql \in Sql : nativePrepareStatement(h, sql) => Quiet
         /\ \A s \in Unfinalized(h) \cup {Null} :
              /\ nativeFinalizeStatement(h, s) => Quiet
              /\ Ask(s) => Quiet
              /\ \A i \in Int : nativeBind(h, s, i) => Quiet
         /\ \A s \in Unfinalized(h) :
              /\ nativeResetStatementAndClearBindings(h, s) => Quiet
              /\ nativeGetColumnName(s, 0) => Quiet
         /\ \A method \in NonQueries \cup OneRowQueries : ExecuteNull(method, h) => Quiet
<1>1. db \in [Handles -> ConnectionShape] /\ stmts \in Seq(StatementShape)
  BY DEF HeldInv, Shape
<1>2. \A s \in Unfinalized(h) : s \in DOMAIN stmts /\ stmts[s] \in StatementShape
  BY <1>1 DEF Unfinalized
<1>3. UNCHANGED <<db, stmts, unmoved>> => Quiet
  BY <1>1 DEF Quiet, unmoved
<1>4. \A code \in Codes : UNCHANGED <<stmts, unmoved>> /\ Returns(h, code) => Quiet
  BY <1>1, ReturnsKeeps DEF Quiet, unmoved
<1>5. \A code \in Codes : stmts' \in Seq(StatementShape) /\ UNCHANGED unmoved /\ Returns(h, code)
                          => Quiet
  BY <1>1, ReturnsKeeps DEF Quiet, unmoved
<1>6. ASSUME NEW sql \in Sql, nativePrepareStatement(h, sql) PROVE Quiet
  <2>1. PICK code \in sqlite3_prepare16_v2_results(sql) : sqlite3_prepare16_v2(h, sql, code)
    BY <1>6 DEF nativePrepareStatement
  <2>2. code \in Codes
    BY <2>1, CodesReturned DEF sqlite3_prepare16_v2_results, CompileErrors, ExceededCode
  <2>3. [handle |-> h, sql |-> sql, pc |-> "ready", result |-> SQLITE_OK, row |-> 0,
         bound |-> {}, borrowed |-> {}] \in StatementShape
    BY CodesReturned DEF StatementShape
  <2>4. stmts' \in Seq(StatementShape)
    BY <1>1, <2>1, <2>3, StatementsKept DEF sqlite3_prepare16_v2
  <2>. QED
    BY <1>5, <1>6, <2>1, <2>2, <2>4 DEF sqlite3_prepare16_v2, nativePrepareStatement
<1>7. ASSUME NEW s \in Unfinalized(h) \cup {Null}, nativeFinalizeStatement(h, s) PROVE Quiet
  <2>1. CASE s = Null
    BY <1>3, <1>7, <2>1 DEF nativeFinalizeStatement, sqlite3_finalize
  <2>2. CASE s # Null
    <3>1. s \in DOMAIN stmts /\ stmts[s] \in StatementShape
      BY <1>2, <2>2
    <3>2. sqlite3_reset_result(s) \in Codes
      BY <3>1, CodesReturned DEF sqlite3_reset_result, StatementShape
    <3>3. Finalized \in StatementShape
      BY CodesReturned DEF Finalized, StatementShape
    <3>4. stmts' \in Seq(StatementShape)
      BY <1>1, <1>7, <2>2, <3>1, <3>3, StatementsKept DEF nativeFinalizeStatement, sqlite3_finalize
    <3>. QED
      BY <1>5, <1>7, <2>2, <3>2, <3>4 DEF nativeFinalizeStatement, sqlite3_finalize
  <2>. QED
    BY <2>1, <2>2
<1>8. ASSUME NEW s \in Unfinalized(h) \cup {Null}, Ask(s) \/ nativeGetColumnName(s, 0) PROVE Quiet
  BY <1>3, <1>8 DEF Ask, nativeGetColumnName
<1>9. ASSUME NEW s \in Unfinalized(h) \cup {Null}, NEW i \in Int, nativeBind(h, s, i) PROVE Quiet
  <2>1. PICK code \in sqlite3_bind_results(s, i) : sqlite3_bind(h, s, i, Destructor, code)
    BY <1>9 DEF nativeBind
  <2>2. code \in Codes
    BY <2>1, CodesReturned DEF sqlite3_bind_results, ExceededCode
  <2>3. CASE code # SQLITE_OK
    <3>1. UNCHANGED stmts /\ (Returns(h, code) \/ Returns(h, SQLITE_MISUSE) \/ UNCHANGED db)
      BY <2>1, <2>3 DEF sqlite3_bind, ReturnsMisuse
    <3>. QED
      BY <1>3, <1>4, <1>9, <2>2, <3>1, CodesReturned DEF nativeBind
  <2>4. CASE code = SQLITE_OK
    <3>1. s \in Unfinalized(h)
      BY <2>1, <2>4 DEF sqlite3_bind_results, ExceededCode, SQLITE_OK, SQLITE_MISUSE
    <3>2. s \in DOMAIN stmts /\ stmts[s] \in StatementShape
      BY <1>2, <3>1
    <3>3. stmts' = [stmts EXCEPT ![s].bound = @ \cup {i}, ![s].borrowed = @ \ {i}]
      BY <2>1, <2>4 DEF sqlite3_bind, Destructor, SQLITE_TRANSIENT, SQLITE_STATIC
    <3>4. [stmts[s] EXCEPT !.bound = @ \cup {i}, !.borrowed = @ \ {i}] \in StatementShape
      BY <3>2 DEF StatementShape
    <3>5. stmts' = [stmts EXCEPT ![s] = [stmts[s] EXCEPT !.bound = @ \cup {i}, !.borrowed = @ \ {i}]]
      BY <1>1, <3>2, <3>3 DEF StatementShape
    <3>6. stmts' \in Seq(StatementShape)
      BY <1>1, <3>2, <3>4, <3>5, StatementsKept
    <3>7. Returns(h, code)
      BY <2>1, <2>4 DEF sqlite3_bind, SQLITE_OK, SQLITE_MISUSE
    <3>. QED
      BY <1>5, <1>9, <2>2, <3>6, <3>7 DEF nativeBind
  <2>. QED
    BY <2>3, <2>4
<1>10. ASSUME NEW s \in Unfinalized(h), nativeResetStatementAndClearBindings(h, s) PROVE Quiet
  <2>1. s \in DOMAIN stmts /\ stmts[s] \in StatementShape
    BY <1>2
  <2>2. sqlite3_reset_result(s) \in Codes
    BY <2>1, CodesReturned DEF sqlite3_reset_result, StatementShape
  <2> DEFINE reset == [stmts[s] EXCEPT !.pc = "ready", !.result = SQLITE_OK, !.row = 0]
             cleared == [reset EXCEPT !.bound = {}, !.borrowed = {}]
  <2>3. reset \in StatementShape /\ cleared \in StatementShape
    BY <2>1, CodesReturned DEF StatementShape
  <2>4. ResetStatement(s) = [stmts EXCEPT ![s] = reset]
    BY <1>1, <2>1 DEF ResetStatement, StatementShape
  <2>5. sqlite3_clear_bindings(s, ResetStatement(s)) = [stmts EXCEPT ![s] = cleared]
    BY <1>1, <2>1, <2>4 DEF sqlite3_clear_bindings, StatementShape
  <2> HIDE DEF reset, cleared
  <2>6. stmts' = [stmts EXCEPT ![s] = cleared] \/ stmts' = [stmts EXCEPT ![s] = reset]
    BY <1>10, <2>4, <2>5 DEF nativeResetStatementAndClearBindings
  <2>7. stmts' \in Seq(StatementShape)
    BY <1>1, <2>1, <2>3, <2>6, StatementsKept
  <2>. QED
    BY <1>5, <1>10, <2>2, <2>7 DEF nativeResetStatementAndClearBindings
<1>11. ASSUME NEW method \in NonQueries \cup OneRowQueries, ExecuteNull(method, h) PROVE Quiet
  BY <1>3, <1>4, <1>11, CodesReturned DEF ExecuteNull, ReturnsMisuse
<1>. QED
  BY <1>6, <1>7, <1>8, <1>9, <1>10, <1>11

\* A connection that is opened calls back only if it has a struct by then.
LEMMA OpenKeeps ==
  ASSUME HeldInv, running = Nothing, NEW flags, NEW file, NEW enabled \in SUBSET Tracing,
         nativeOpen(flags, file, enabled)
  PROVE  HeldInv'
<1> DEFINE h == opens + 1
<1>1. /\ opens \in Nat /\ opens < MaxOpens /\ MaxOpens \in Nat
      /\ rowIds \in Nat /\ db \in [Handles -> ConnectionShape] /\ stmts \in Seq(StatementShape)
  BY MaxOpensAssumption DEF HeldInv, Shape, nativeOpen
<1>2. h \in Handles /\ opens' = h /\ h \notin wrappers /\ h \notin handles
  BY <1>1 DEF nativeOpen, HeldInv, WrappersHeld, Handles
<1>3. db[h].callbacks = {}
  BY <1>1, <1>2 DEF HeldInv, CallbacksHeld
<1>4. UNCHANGED <<stmts, rowIds, running>>
  BY DEF nativeOpen
<1>5. ASSUME db' \in [Handles -> ConnectionShape]
      PROVE  Shape'
  BY <1>1, <1>2, <1>4, <1>5 DEF Shape, Handles
<1>6. RunningHeld'
  BY <1>4 DEF RunningHeld
<1>7. ASSUME UNCHANGED wrappers, handles' \subseteq handles \cup {h},
             NEW code \in Codes, Returns(h, code)
      PROVE  HeldInv'
  <2>1. /\ db' \in [Handles -> ConnectionShape]
        /\ \A k \in Handles : db'[k].callbacks = db[k].callbacks
    BY <1>1, <1>7, ReturnsKeeps
  <2>2. WrappersHeld'
    BY <1>1, <1>2, <1>7 DEF WrappersHeld, HeldInv, nativeOpen, OpenFails, OpenRefused, OpenSucceeds
  <2>3. CallbacksHeld'
    BY <1>1, <1>2, <1>3, <1>7, <2>1 DEF CallbacksHeld, HeldInv, Handles
  <2>. QED
    BY <1>5, <1>6, <2>1, <2>2, <2>3 DEF HeldInv
<1>8. CASE OpenFails(h, flags, file)
  <2>1. PICK code \in sqlite3_open_v2_results(sqliteFlags(flags), file) \ {SQLITE_OK} :
           /\ handles' = IF OpenReturnsHandle(code) THEN handles \cup {h} ELSE handles
           /\ Returns(h, code)
           /\ UNCHANGED wrappers
    BY <1>8 DEF OpenFails
  <2>2. code \in Codes
    BY CodesReturned DEF sqlite3_open_v2_results
  <2>. QED
    BY <1>7, <2>1, <2>2
<1>9. CASE OpenRefused(h, flags, file)
  <2>1. PICK code \in {SQLITE_OK, SQLITE_MISUSE} : Returns(h, code)
    BY <1>9 DEF OpenRefused
  <2>. QED
    BY <1>7, <1>9, <2>1, CodesReturned DEF OpenRefused
<1>10. CASE OpenSucceeds(h, flags, file, enabled)
  <2>1. /\ handles' = handles \cup {h} /\ wrappers' = wrappers \cup {h}
        /\ db' = [db EXCEPT ![h].callbacks = enabled,
                            ![h].readonly = sqlite3_db_readonly(sqliteFlags(flags), file)]
    BY <1>10 DEF OpenSucceeds
  <2>2. enabled \subseteq Callbacks /\ sqlite3_db_readonly(sqliteFlags(flags), file) \in BOOLEAN
    BY TracingAssumption DEF Callbacks, sqlite3_db_readonly
  <2>3. db' \in [Handles -> ConnectionShape]
    BY <1>1, <1>2, <2>1, <2>2 DEF ConnectionShape
  <2>4. \A k \in Handles \ {h} : db'[k] = db[k]
    <3>1. DOMAIN db = Handles
      BY <1>1
    <3> HIDE DEF h
    <3>. QED
      BY <2>1, <3>1
  <2>5. WrappersHeld'
    BY <1>1, <1>2, <2>1 DEF WrappersHeld, HeldInv
  <2>6. CallbacksHeld'
    BY <1>1, <1>2, <2>1, <2>4 DEF CallbacksHeld, HeldInv, Handles
  <2>. QED
    BY <1>5, <1>6, <2>3, <2>5, <2>6 DEF HeldInv
<1>. QED
  BY <1>8, <1>9, <1>10 DEF nativeOpen

\* The struct of a connection goes with the connection, or stays.
LEMMA CloseKeeps ==
  ASSUME HeldInv, running = Nothing, NEW h \in wrappers, nativeClose(h) PROVE HeldInv'
<1>1. /\ opens \in 0 .. MaxOpens /\ wrappers \subseteq handles /\ handles \subseteq 1 .. opens
      /\ db \in [Handles -> ConnectionShape]
  BY DEF HeldInv, Shape, WrappersHeld
<1>2. UNCHANGED <<opens, stmts, rowIds, running>>
  BY DEF nativeClose
<1>3. CASE sqlite3_close_result(h) = SQLITE_OK
  <2>1. handles' = handles \ {h} /\ wrappers' = wrappers \ {h} /\ UNCHANGED db
    BY <1>3 DEF nativeClose, sqlite3_close
  <2>2. Shape' /\ WrappersHeld' /\ RunningHeld'
    BY <1>1, <1>2, <2>1 DEF HeldInv, Shape, WrappersHeld, RunningHeld
  <2>3. CallbacksHeld'
    BY <1>1, <1>2, <2>1, MaxOpensAssumption DEF HeldInv, CallbacksHeld, Handles
  <2>. QED
    BY <2>2, <2>3 DEF HeldInv
<1>4. CASE sqlite3_close_result(h) # SQLITE_OK
  <2>1. UNCHANGED <<handles, wrappers>> /\ Returns(h, SQLITE_BUSY)
    BY <1>1, <1>4 DEF nativeClose, sqlite3_close
  <2>2. Quiet
    BY <1>1, <1>2, <2>1, ReturnsKeeps, CodesReturned DEF Quiet, HeldInv, Shape
  <2>. QED
    BY <2>2, QuietKeeps
<1>. QED
  BY <1>3, <1>4

\* What runs is a statement, not finalized, of a connection with a struct.
LEMMA ExecuteBeginsKeeps ==
  ASSUME HeldInv, NEW h \in wrappers, NEW s \in Unfinalized(h), NEW method,
         ExecuteBegins(method, s)
  PROVE  HeldInv'
<1>1. stmts \in Seq(StatementShape) /\ s \in DOMAIN stmts /\ stmts[s].handle = h
  BY DEF HeldInv, Shape, Unfinalized
<1>2. stmts[s] \in StatementShape
  BY <1>1
<1>3. /\ UNCHANGED <<opens, handles, db, rowIds, wrappers>>
      /\ running' = [method |-> method, stmt |-> s]
      /\ stmts' = [stmts EXCEPT ![s].pc = "running",
                                ![s].row = IF stmts[s].result = SQLITE_ROW THEN @ ELSE 0]
  BY DEF ExecuteBegins, StepBegins
<1>4. PICK row \in Nat :
         stmts' = [stmts EXCEPT ![s] = [stmts[s] EXCEPT !.pc = "running", !.row = row]]
  BY <1>1, <1>2, <1>3 DEF StatementShape
<1>5. [stmts[s] EXCEPT !.pc = "running", !.row = row] \in StatementShape
  BY <1>2 DEF StatementShape
<1>6. stmts' \in Seq(StatementShape)
  BY <1>1, <1>4, <1>5, StatementsKept
<1>7. s \in DOMAIN stmts' /\ stmts'[s].handle = h
  BY <1>1, <1>2, <1>4 DEF StatementShape
<1>. QED
  BY <1>3, <1>6, <1>7 DEF HeldInv, Shape, WrappersHeld, CallbacksHeld, RunningHeld

\* A step that returns leaves callbacks and bound values as they were.
LEMMA ExecuteReturnsKeeps ==
  ASSUME HeldInv, ExecuteReturns PROVE HeldInv'
<1>1. /\ stmts \in Seq(StatementShape) /\ db \in [Handles -> ConnectionShape] /\ rowIds \in Nat
      /\ running # Nothing
  BY DEF HeldInv, Shape, ExecuteReturns
<1>2. PICK s \in DOMAIN stmts : s = running.stmt
  BY <1>1 DEF HeldInv, RunningHeld
<1>3. PICK h \in Handles : h = stmts[s].handle
  <2>1. stmts[s].handle \in wrappers
    BY <1>1, <1>2 DEF HeldInv, RunningHeld
  <2>2. wrappers \subseteq Handles
    BY MaxOpensAssumption DEF HeldInv, Shape, WrappersHeld, Handles
  <2>. QED
    BY <2>1, <2>2
<1>4. UNCHANGED <<opens, handles, wrappers>> /\ running' = Nothing
  BY DEF ExecuteReturns
<1>5. PICK code \in sqlite3_step_results(s) : StepReturns(s, code)
  BY <1>2, <1>3 DEF ExecuteReturns
<1>6. code \in Codes
  BY <1>5, CodesReturned DEF sqlite3_step_results
<1>7. stmts' \in Seq(StatementShape)
  <2>1. stmts[s] \in StatementShape
    BY <1>1
  <2>2. PICK row \in Nat : row = IF code = SQLITE_ROW THEN stmts[s].row + 1 ELSE stmts[s].row
    <3>1. stmts[s].row \in Nat
      BY <2>1 DEF StatementShape
    <3> DEFINE next == IF code = SQLITE_ROW THEN stmts[s].row + 1 ELSE stmts[s].row
    <3>2. next \in Nat
      BY <3>1
    <3> HIDE DEF next
    <3>3. \E row \in Nat : row = next
      BY <3>2
    <3>. QED
      BY <3>3 DEF next
  <2>3. stmts' = [stmts EXCEPT ![s] =
                    [stmts[s] EXCEPT !.pc = "stepped", !.result = code, !.row = row]]
    BY <1>1, <1>5, <2>1, <2>2 DEF StepReturns, StatementShape
  <2>4. [stmts[s] EXCEPT !.pc = "stepped", !.result = code, !.row = row] \in StatementShape
    BY <1>6, <2>1 DEF StatementShape
  <2>. QED
    BY <1>1, <2>3, <2>4, StatementsKept
<1>8. rowIds' \in Nat
  BY <1>1, <1>5 DEF StepReturns
<1>9. /\ db' \in [Handles -> ConnectionShape]
      /\ \A k \in Handles : db'[k].callbacks = db[k].callbacks
  <2>1. db[h] \in ConnectionShape
    BY <1>1
  <2>2. PICK changes \in {0, 1, 2}, lastRowId \in Nat :
           db' = [db EXCEPT ![h].errcode = code, ![h].lastRowId = lastRowId,
                            ![h].changes = changes]
    <3> DEFINE inserts == code = SQLITE_DONE /\ stmts[s].sql = "insert"
               counts == code = SQLITE_DONE /\ stmts[s].sql \in {"insert", "insertNone", "update"}
               lastRowId == IF inserts THEN rowIds' ELSE db[h].lastRowId
               changes == IF ~counts THEN db[h].changes
                          ELSE CASE stmts[s].sql = "insert" -> 1
                                 [] stmts[s].sql = "insertNone" -> 0
                                 [] stmts[s].sql = "update" -> 2
    <3>1. lastRowId \in Nat
      BY <1>8, <2>1 DEF ConnectionShape
    <3>2. changes \in {0, 1, 2}
      BY <2>1 DEF ConnectionShape
    <3>3. db' = [db EXCEPT ![h].errcode = code, ![h].lastRowId = lastRowId,
                           ![h].changes = changes]
      BY <1>1, <1>3, <1>5, <2>1 DEF StepReturns, ConnectionShape
    <3> HIDE DEF lastRowId, changes
    <3>. QED
      BY <3>1, <3>2, <3>3
  <2>3. [db[h] EXCEPT !.errcode = code, !.lastRowId = lastRowId, !.changes = changes]
          \in ConnectionShape
    BY <1>6, <2>1 DEF ConnectionShape
  <2>4. db' = [db EXCEPT ![h] = [db[h] EXCEPT !.errcode = code, !.lastRowId = lastRowId,
                                              !.changes = changes]]
    BY <1>1, <2>1, <2>2 DEF ConnectionShape
  <2>. QED
    BY <1>1, <2>1, <2>3, <2>4 DEF ConnectionShape
<1>10. Shape'
  BY <1>4, <1>7, <1>8, <1>9 DEF HeldInv, Shape
<1>. QED
  BY <1>4, <1>9, <1>10 DEF HeldInv, WrappersHeld, CallbacksHeld, RunningHeld

------------------------------------------------------------------------------
\* Every call keeps the invariant.
LEMMA HeldInvStep == HeldInv /\ [NativeNext]_nativeVars => HeldInv'
<1> SUFFICES ASSUME HeldInv, [NativeNext]_nativeVars PROVE HeldInv'
  OBVIOUS
<1>1. wrappers \subseteq Handles
  BY MaxOpensAssumption DEF HeldInv, Shape, WrappersHeld, Handles
<1>2. ASSUME running = Nothing, NEW h \in wrappers, CallOn(h) PROVE HeldInv'
  <2>1. CASE nativeClose(h)
    BY <1>2, <2>1, CloseKeeps
  <2>3. ASSUME NEW method, NEW s \in Unfinalized(h), ExecuteBegins(method, s) PROVE HeldInv'
    BY <2>3, ExecuteBeginsKeeps
  <2>4. CASE Quiet
    BY <1>2, <2>4, QuietKeeps
  <2>5. h \in Handles /\ 1 .. NumParameters + 1 \subseteq Int
    BY <1>1, NumParametersAssumption
  <2>6. ASSUME NEW sql \in Sql, nativePrepareStatement(h, sql) PROVE HeldInv'
    BY <2>4, <2>5, <2>6, MethodsAreQuiet
  <2>7. ASSUME NEW s \in Unfinalized(h) \cup {Null},
               \/ nativeFinalizeStatement(h, s) \/ Ask(s)
               \/ \E i \in 1 .. NumParameters + 1 : nativeBind(h, s, i)
        PROVE  HeldInv'
    BY <2>4, <2>5, <2>7, MethodsAreQuiet
  <2>8. ASSUME NEW s \in Unfinalized(h),
               nativeResetStatementAndClearBindings(h, s) \/ nativeGetColumnName(s, 0)
        PROVE  HeldInv'
    BY <2>4, <2>5, <2>8, MethodsAreQuiet
  <2>9. ASSUME NEW method \in NonQueries \cup OneRowQueries, ExecuteNull(method, h) PROVE HeldInv'
    BY <2>4, <2>5, <2>9, MethodsAreQuiet
  <2>. QED
    BY <1>2, <2>1, <2>3, <2>6, <2>7, <2>8, <2>9 DEF CallOn
<1>3. ASSUME UNCHANGED <<opens, handles, db, stmts, rowIds, wrappers, running>> PROVE HeldInv'
  BY <1>3 DEF HeldInv, Shape, WrappersHeld, CallbacksHeld, RunningHeld
<1>4. ASSUME NEW m, CallUnlinked(m) PROVE HeldInv'
  BY <1>3, <1>4 DEF CallUnlinked, sqliteVars
<1>6. CASE UNCHANGED nativeVars
  BY <1>3, <1>6 DEF nativeVars, sqliteVars
<1>. QED
  BY <1>2, <1>4, <1>6, OpenKeeps, ExecuteReturnsKeeps DEF NativeNext

\* In every execution, whatever a legal caller does, the SQLiteConnection that
\* the trace and profile callbacks of com_epam_database_
\* NativeSQLiteConnection.cpp read was not deleted by nativeClose, and a
\* statement that runs reads no string or blob nativeBind gave back to Java.
THEOREM HeldDataStaysAlive == NativeSpec => []HeldDataIsAlive
<1>1. NativeInit => HeldInv
  BY HeldInvInit
<1>2. HeldInv /\ [NativeNext]_nativeVars => HeldInv'
  BY HeldInvStep
<1>3. HeldInv => HeldDataIsAlive
  BY HeldInvSuffices
<1>. QED
  BY <1>1, <1>2, <1>3, PTL DEF NativeSpec

------------------------------------------------------------------------------
(* Exceptions.                                                             *)

\* The class throw_sqlite3_exception throws is one of its own: the caller is
\* never left without an exception, and can tell it from a failure to throw.
LEMMA ThrownHasAClass ==
  \A errcode : /\ ExceptionClass(errcode) \in ExceptionClasses
               /\ ExceptionClass(errcode) \notin {NoException, Error}
<1> SUFFICES ASSUME NEW errcode
             PROVE  /\ ExceptionClass(errcode) \in ExceptionClasses
                    /\ ExceptionClass(errcode) \notin {NoException, Error}
  OBVIOUS
<1>1. CASE Primary(errcode) \in DOMAIN NamedExceptions
  <2> DEFINE class == NamedExceptions[Primary(errcode)]
  <2>1. PICK case \in SwitchCases : case[1] = Primary(errcode) /\ class = case[2]
    BY <1>1 DEF NamedExceptions
  <2>2. case[2] \notin {NoException, Error}
    BY DEF SwitchCases, NoException, Error
  <2>. QED
    BY <1>1, <2>1, <2>2 DEF ExceptionClass, ExceptionClasses
<1>2. CASE Primary(errcode) \notin DOMAIN NamedExceptions
  BY <1>2 DEF ExceptionClass, ExceptionClasses, GenericException, NoException, Error
<1>. QED
  BY <1>1, <1>2

\* So a method leaves without an exception only when it meant to.
LEMMA LeavesThrown ==
  /\ \A code, class, value : Leaves(code, class, value) =>
        /\ outcome'.code = code /\ outcome'.value = value
        /\ outcome'.thrown \in {class, Error}
        /\ class = NoException => outcome'.thrown = NoException
  /\ \A code, value : NewString(code, value) => outcome'.code = code
  /\ \A h, code : LeavesResult(h, code) =>
        /\ outcome'.code = code
        /\ code = SQLITE_OK <=> outcome'.thrown = NoException
        /\ code # SQLITE_OK => outcome'.thrown \in {ThrownFor(db'[h].errcode), Error}
<1>1. /\ \A code, class, value : Leaves(code, class, value) =>
           /\ outcome'.code = code /\ outcome'.value = value
           /\ outcome'.thrown \in {class, Error}
           /\ class = NoException => outcome'.thrown = NoException
      /\ \A code, value : NewString(code, value) => outcome'.code = code
  BY DEF Leaves, NewString
<1>2. ASSUME NEW h, NEW code, LeavesResult(h, code)
      PROVE  /\ outcome'.code = code
             /\ code = SQLITE_OK <=> outcome'.thrown = NoException
             /\ code # SQLITE_OK => outcome'.thrown \in {ThrownFor(db'[h].errcode), Error}
  <2>1. ThrownFor(db'[h].errcode) # NoException /\ Error # NoException
    BY ThrownHasAClass DEF ThrownFor, Error, NoException
  <2>. QED
    BY <1>2, <2>1 DEF LeavesResult, Leaves
<1>. QED
  BY <1>1, <1>2

\* Where a method gives back an error of its SQLite call, that is its code.
LEMMA StepResults ==
  ASSUME NEW s, NEW code \in sqlite3_step_results(s)
  PROVE  code = SQLITE_ROW => stmts[s].sql = "query"
  BY StepErrorsAssumption DEF sqlite3_step_results, SQLITE_ROW, SQLITE_DONE, SQLITE_READONLY

\* The end of a step: the code with which it returned, and what is left of it.
StepLeft(s, h, code) ==
    /\ code \in sqlite3_step_results(s)
    /\ StepReturns(s, code)
    /\ outcome'.code = code
    /\ \E value \in ExecuteValues(running.method, h, s, code) :
         IF running.method = "nativeExecuteForString" /\ code = SQLITE_ROW
         THEN NewString(code, value)
         ELSE Leaves(code, ExecuteThrows(running.method, h, code), value)

LEMMA StepIsLeft ==
  ASSUME HeldInv, ExecuteReturns
  PROVE  /\ running.stmt \in DOMAIN stmts
         /\ stmts[running.stmt] \in StatementShape
         /\ stmts[running.stmt].handle \in wrappers
         /\ \E code : StepLeft(running.stmt, stmts[running.stmt].handle, code)
<1>1. /\ running.stmt \in DOMAIN stmts /\ stmts[running.stmt].handle \in wrappers
      /\ stmts \in Seq(StatementShape)
  BY DEF ExecuteReturns, HeldInv, RunningHeld, Shape
<1>2. stmts[running.stmt] \in StatementShape
  BY <1>1
<1>3. PICK s, h : s = running.stmt /\ h = stmts[s].handle
  OBVIOUS
<1>4. PICK code \in sqlite3_step_results(s) :
         /\ StepReturns(s, code)
         /\ \E value \in ExecuteValues(running.method, h, s, code) :
              IF running.method = "nativeExecuteForString" /\ code = SQLITE_ROW
              THEN NewString(code, value)
              ELSE Leaves(code, ExecuteThrows(running.method, h, code), value)
  BY <1>3 DEF ExecuteReturns
<1>5. outcome'.code = code
  BY <1>4, LeavesThrown
<1>. QED
  BY <1>1, <1>2, <1>3, <1>4, <1>5 DEF StepLeft

\* What runs ends only by returning from its step.
LEMMA RunningEnds ==
  ASSUME [NativeNext]_nativeVars, running # Nothing, running' = Nothing PROVE ExecuteReturns
  BY DEF NativeNext, nativeVars

------------------------------------------------------------------------------
(* Statements given back for another use.                                  *)

\* Of the calls, only the reset makes a stepped statement ready.
LEMMA OnlyResetRestarts ==
  ASSUME HeldInv, [NativeNext]_nativeVars, NEW k \in DOMAIN stmts,
         stmts[k].pc = "stepped", stmts'[k].pc = "ready"
  PROVE  \E h \in wrappers :
            k \in Unfinalized(h) /\ nativeResetStatementAndClearBindings(h, k)
<1>1. stmts \in Seq(StatementShape) /\ (\A s \in DOMAIN stmts : stmts[s] \in StatementShape)
  BY DEF HeldInv, Shape
<1>2. stmts' # stmts
  OBVIOUS
<1>3. PICK h \in wrappers : CallOn(h) \/ ExecuteReturns
  <2>1. ExecuteReturns => stmts[running.stmt].handle \in wrappers
    BY StepIsLeft
  <2>. QED
    BY <1>2, <2>1 DEF NativeNext, nativeVars, sqliteVars, nativeOpen, CallUnlinked
<1>4. ~ExecuteReturns
  <2> SUFFICES ASSUME ExecuteReturns PROVE FALSE
    OBVIOUS
  <2>1. PICK s, code : s \in DOMAIN stmts /\ StepReturns(s, code)
    BY StepIsLeft DEF StepLeft
  <2>2. stmts'[k].pc \in {"stepped", stmts[k].pc}
    BY <1>1, <2>1 DEF StepReturns, StatementShape
  <2>. QED
    BY <2>2
<1>5. \A sql : ~nativePrepareStatement(h, sql)
  BY <1>1 DEF nativePrepareStatement, sqlite3_prepare16_v2
<1>6. ASSUME NEW s, nativeFinalizeStatement(h, s) PROVE FALSE
  <2>1. stmts' = [stmts EXCEPT ![s] = Finalized]
    BY <1>2, <1>6 DEF nativeFinalizeStatement, sqlite3_finalize
  <2>2. stmts'[k] = IF k = s THEN Finalized ELSE stmts[k]
    BY <1>1, <2>1
  <2>3. Finalized.pc = "finalized"
    BY DEF Finalized
  <2>4. stmts'[k].pc = "finalized" \/ stmts'[k].pc = "stepped"
    BY <2>2, <2>3
  <2>. QED
    BY <2>4
<1>7. ASSUME NEW s, NEW i, nativeBind(h, s, i) PROVE FALSE
  <2>1. PICK code : sqlite3_bind(h, s, i, Destructor, code)
    BY <1>7 DEF nativeBind
  <2>2. stmts' = [stmts EXCEPT ![s].bound = @ \cup {i}, ![s].borrowed = @ \ {i}]
    BY <1>2, <2>1 DEF sqlite3_bind, Destructor, SQLITE_TRANSIENT, SQLITE_STATIC
  <2>3. stmts'[k].pc = stmts[k].pc
    BY <1>1, <2>2 DEF StatementShape
  <2>. QED
    BY <2>3
<1>8. ASSUME NEW method, NEW s, ExecuteBegins(method, s) PROVE FALSE
  <2>1. stmts'[k].pc \in {"running", stmts[k].pc}
    BY <1>1, <1>8 DEF ExecuteBegins, StepBegins, StatementShape
  <2>. QED
    BY <2>1
<1>9. PICK s \in Unfinalized(h) : nativeResetStatementAndClearBindings(h, s)
  BY <1>2, <1>3, <1>4, <1>5, <1>6, <1>7, <1>8
     DEF CallOn, nativeClose, Ask, nativeGetColumnName, ExecuteNull
<1>10. k = s
  <2> SUFFICES ASSUME k # s PROVE FALSE
    OBVIOUS
  <2>1. stmts'[k].pc = stmts[k].pc
    BY <1>1, <1>9 DEF nativeResetStatementAndClearBindings, ResetStatement,
           sqlite3_clear_bindings, StatementShape
  <2>. QED
    BY <2>1
<1>. QED
  BY <1>9, <1>10

\* In every execution, a statement that nativeResetStatementAndClearBindings
\* makes ready starts at its first row, and has none of the values of its last
\* use left, unless the method throws.
THEOREM ResetIsWhole == NativeSpec => ResetIsWholeOrThrows
<1>1. ASSUME HeldInv, [NativeNext]_nativeVars, NEW s \in DOMAIN stmts,
             stmts[s].pc = "stepped", stmts'[s].pc = "ready"
      PROVE  /\ stmts'[s].row = 0
             /\ stmts'[s].bound = {} \/ outcome'.thrown # NoException
  <2>1. PICK h : nativeResetStatementAndClearBindings(h, s)
    BY <1>1, OnlyResetRestarts
  <2>2. stmts \in Seq(StatementShape) /\ stmts[s] \in StatementShape
    BY <1>1 DEF HeldInv, Shape
  <2>3. stmts'[s].row = 0
    BY <2>1, <2>2 DEF nativeResetStatementAndClearBindings, ResetStatement,
           sqlite3_clear_bindings, StatementShape
  <2>4. CASE sqlite3_reset_result(s) = SQLITE_OK
    <3>1. stmts'[s].bound = {}
      BY <2>1, <2>2, <2>4 DEF nativeResetStatementAndClearBindings, ResetStatement,
             sqlite3_clear_bindings, StatementShape
    <3>. QED
      BY <2>3, <3>1
  <2>5. CASE sqlite3_reset_result(s) # SQLITE_OK
    BY <2>1, <2>3, <2>5, LeavesThrown DEF nativeResetStatementAndClearBindings
  <2>. QED
    BY <2>4, <2>5
<1>2. HeldInv /\ [NativeNext]_nativeVars =>
        \A s \in DOMAIN stmts :
           stmts[s].pc = "stepped" /\ stmts'[s].pc = "ready" =>
             /\ stmts'[s].row = 0
             /\ stmts'[s].bound = {} \/ outcome'.thrown # NoException
  BY <1>1
<1>. QED
  BY <1>2, HeldInvInit, HeldInvStep, PTL DEF NativeSpec, ResetIsWholeOrThrows

------------------------------------------------------------------------------
(* The error an exception tells of, and the value a method returns.        *)

\* What the connection's errcode is once a call has returned.
LEMMA ReturnedCode ==
  ASSUME HeldInv
  PROVE  /\ \A h \in Handles : \A code : Returns(h, code) => db'[h].errcode = code
         /\ \A s \in DOMAIN stmts : \A code :
              stmts[s].handle \in Handles /\ StepReturns(s, code) =>
                db'[stmts[s].handle].errcode = code
<1>1. db \in [Handles -> ConnectionShape] /\ (\A h \in Handles : db[h] \in ConnectionShape)
  BY DEF HeldInv, Shape
<1>2. \A h \in Handles : \A code : Returns(h, code) => db'[h].errcode = code
  BY <1>1 DEF Returns, ConnectionShape
<1>3. ASSUME NEW s \in DOMAIN stmts, NEW code, stmts[s].handle \in Handles, StepReturns(s, code)
      PROVE  db'[stmts[s].handle].errcode = code
  <2>1. PICK h \in Handles : h = stmts[s].handle
    BY <1>3
  <2>2. PICK lastRowId, changes :
           db' = [db EXCEPT ![h].errcode = code, ![h].lastRowId = lastRowId,
                            ![h].changes = changes]
    BY <1>1, <1>3, <2>1 DEF StepReturns, ConnectionShape
  <2>3. db'[h].errcode = code
    BY <1>1, <2>2 DEF ConnectionShape
  <2>. QED
    BY <2>1, <2>3
<1>. QED
  BY <1>2, <1>3

\* A call that ends without an error, or with a misuse, needs tell nothing.
Untold == {SQLITE_OK, SQLITE_ROW, SQLITE_DONE, SQLITE_MISUSE}

LEMMA ToldOfResult ==
  ASSUME HeldInv, NEW h \in Handles, NEW code, Returns(h, code) \/ code \in Untold,
         LeavesResult(h, code)
  PROVE  FailureOfTheCall'
<1>1. outcome'.code = code
      /\ (code # SQLITE_OK => outcome'.thrown \in {ThrownFor(db'[h].errcode), Error})
  BY LeavesThrown
<1>2. Returns(h, code) => db'[h].errcode = code
  BY ReturnedCode
<1>. QED
  BY <1>1, <1>2 DEF FailureOfTheCall, Untold, ThrownFor

LEMMA FailureStep ==
  ASSUME HeldInv, FailureOfTheCall, [NativeNext]_nativeVars PROVE FailureOfTheCall'
<1>1. outcome'.code \in Untold => FailureOfTheCall'
  BY DEF FailureOfTheCall, Untold
<1>2. \A class, value, code : code \in Untold /\ Leaves(code, class, value) => FailureOfTheCall'
  BY <1>1, LeavesThrown
<1>3. SQLITE_OK \in Untold /\ SQLITE_MISUSE \in Untold /\ SQLITE_ROW \in Untold
  BY DEF Untold
<1>4. CASE UNCHANGED outcome
  BY <1>4 DEF FailureOfTheCall
<1>5. ASSUME NEW flags, NEW file, NEW enabled, nativeOpen(flags, file, enabled)
      PROVE  FailureOfTheCall'
  <2>1. CASE OpenFails(opens + 1, flags, file)
    <3>1. PICK code : Leaves(code, ExceptionClass(code), Null)
      BY <2>1 DEF OpenFails
    <3>. QED
      BY <3>1, LeavesThrown DEF FailureOfTheCall
  <2>2. CASE OpenRefused(opens + 1, flags, file)
    BY <1>2, <1>3, <2>2 DEF OpenRefused
  <2>3. CASE OpenSucceeds(opens + 1, flags, file, enabled)
    BY <1>2, <1>3, <2>3 DEF OpenSucceeds
  <2>. QED
    BY <1>5, <2>1, <2>2, <2>3 DEF nativeOpen
<1>6. wrappers \subseteq Handles
  BY MaxOpensAssumption DEF HeldInv, Shape, WrappersHeld, Handles
<1>7. ASSUME NEW h \in wrappers, nativeClose(h) PROVE FailureOfTheCall'
  <2>1. sqlite3_close_result(h) \in Untold \/ Returns(h, sqlite3_close_result(h))
    BY <1>3, <1>7 DEF nativeClose, sqlite3_close, sqlite3_close_result
  <2>. QED
    BY <1>6, <1>7, <2>1, ToldOfResult DEF nativeClose
<1>8. ASSUME NEW h \in wrappers, NEW sql, nativePrepareStatement(h, sql) PROVE FailureOfTheCall'
  <2>1. PICK code, value :
           /\ Returns(h, code)
           /\ Leaves(code, IF code = SQLITE_OK THEN NoException ELSE ThrownFor(db'[h].errcode),
                     value)
    BY <1>8 DEF nativePrepareStatement, sqlite3_prepare16_v2
  <2>2. db'[h].errcode = code
    BY <1>6, <2>1, ReturnedCode
  <2>3. outcome'.code = code
        /\ (code # SQLITE_OK => outcome'.thrown \in {ExceptionClass(code), Error})
    BY <2>1, <2>2, LeavesThrown DEF ThrownFor
  <2>. QED
    BY <2>3 DEF FailureOfTheCall
<1>9. ASSUME NEW h \in wrappers, NEW s, NEW i, nativeBind(h, s, i) PROVE FailureOfTheCall'
  <2>1. PICK code : sqlite3_bind(h, s, i, Destructor, code) /\ LeavesResult(h, code)
    BY <1>9 DEF nativeBind
  <2>2. code \in Untold \/ Returns(h, code)
    BY <1>3, <2>1 DEF sqlite3_bind
  <2>. QED
    BY <1>6, <2>1, <2>2, ToldOfResult
<1>10. ASSUME NEW h \in wrappers, NEW s, nativeResetStatementAndClearBindings(h, s)
       PROVE  FailureOfTheCall'
  BY <1>6, <1>10, ToldOfResult DEF nativeResetStatementAndClearBindings
<1>11. ASSUME NEW h \in wrappers, NEW s,
              nativeFinalizeStatement(h, s) \/ Ask(s) \/ nativeGetColumnName(s, 0)
       PROVE  FailureOfTheCall'
  BY <1>1, <1>2, <1>3, <1>11, LeavesThrown DEF nativeFinalizeStatement, Ask, nativeGetColumnName
<1>12. ASSUME NEW h, NEW method, NEW s, ExecuteNull(method, h) \/ ExecuteBegins(method, s)
       PROVE  FailureOfTheCall'
  BY <1>2, <1>3, <1>12 DEF ExecuteNull, ExecuteBegins
<1>13. CASE ExecuteReturns
  <2>1. PICK s, h : s = running.stmt /\ h = stmts[s].handle
    OBVIOUS
  <2>2. s \in DOMAIN stmts /\ h \in wrappers /\ (\E code : StepLeft(s, h, code))
    BY <1>13, <2>1, StepIsLeft
  <2>3. PICK code : StepLeft(s, h, code)
    BY <2>2
  <2>4. db'[h].errcode = code
    BY <1>6, <2>1, <2>2, <2>3, ReturnedCode DEF StepLeft
  <2>5. CASE code \in Untold
    BY <1>1, <2>3, <2>5 DEF StepLeft
  <2>6. CASE code \notin Untold
    <3>1. ExecuteThrows(running.method, h, code) = ExceptionClass(code)
      BY <2>4, <2>6 DEF ExecuteThrows, ThrownFor, Untold
    <3>2. PICK value : Leaves(code, ExceptionClass(code), value)
      BY <1>3, <2>3, <2>6, <3>1 DEF StepLeft
    <3>. QED
      BY <3>2, LeavesThrown DEF FailureOfTheCall
  <2>. QED
    BY <2>5, <2>6
<1>14. ASSUME NEW m, CallUnlinked(m) PROVE FailureOfTheCall'
  BY <1>2, <1>3, <1>14 DEF CallUnlinked
<1>15. ASSUME NEW h \in wrappers, CallOn(h) PROVE FailureOfTheCall'
  BY <1>7, <1>8, <1>9, <1>10, <1>11, <1>12, <1>15 DEF CallOn
<1>. QED
  BY <1>4, <1>5, <1>13, <1>14, <1>15 DEF NativeNext, nativeVars

\* In every execution, an exception of a native method is of the class that
\* throw_sqlite3_exception makes of the code with which the method's own SQLite
\* call failed, though it is made of what sqlite3_extended_errcode says then; or
\* it is an error met in throwing that.
THEOREM FailureIsTold == NativeSpec => []FailureOfTheCall
<1>1. NativeInit => FailureOfTheCall
  BY DEF NativeInit, FailureOfTheCall
<1>2. HeldInv /\ FailureOfTheCall /\ [NativeNext]_nativeVars => FailureOfTheCall'
  BY FailureStep
<1>. QED
  BY <1>1, <1>2, HeldInvInit, HeldInvStep, PTL DEF NativeSpec

\* In every execution, nativeExecuteForLong and nativeExecuteForString return a
\* value only after a step to a row, and the one of that row's column; and after
\* a step to a row they throw only where a String could not be made.
THEOREM ValueIsOfTheRow == NativeSpec => ValueIsOfItsRow
<1>1. ASSUME HeldInv, [NativeNext]_nativeVars, running.method \in OneRowQueries,
             running' = Nothing
      PROVE  LET stmt == stmts'[running.stmt]
                 isLong == running.method = "nativeExecuteForLong"
             IN  IF outcome'.thrown = NoException
                 THEN /\ stmt.result = SQLITE_ROW /\ stmt.row = stmts[running.stmt].row + 1
                      /\ outcome'.value \in
                           IF IsNull(stmt.row) THEN {0}
                           ELSE IF isLong THEN {stmt.row} ELSE {stmt.row, Null}
                 ELSE stmt.result = SQLITE_ROW => ~isLong /\ outcome'.thrown = Error
  <2>1. running # Nothing
    BY <1>1 DEF Nothing, OneRowQueries
  <2>2. PICK s, h, row, method : /\ s = running.stmt /\ h = stmts[s].handle
                                 /\ row = stmts'[s].row /\ method = running.method
    OBVIOUS
  <2>3. /\ s \in DOMAIN stmts /\ stmts[s] \in StatementShape /\ stmts \in Seq(StatementShape)
        /\ \E code : StepLeft(s, h, code)
    BY <1>1, <2>1, <2>2, RunningEnds, StepIsLeft DEF HeldInv, Shape
  <2>4. PICK code : StepLeft(s, h, code)
    BY <2>3
  <2>5. /\ stmts'[s].result = code
        /\ code = SQLITE_ROW => row = stmts[s].row + 1
    BY <2>2, <2>3, <2>4 DEF StepLeft, StepReturns, StatementShape
  <2>6. method \in {"nativeExecuteForLong", "nativeExecuteForString"}
    BY <1>1, <2>2 DEF OneRowQueries
  <2>7. CASE code # SQLITE_ROW
    <3>1. ExecuteThrows(method, h, code) = ThrownFor(db'[h].errcode)
      BY <2>6, <2>7 DEF ExecuteThrows, NonQueries
    <3>2. PICK value : Leaves(code, ThrownFor(db'[h].errcode), value)
      BY <2>2, <2>4, <2>7, <3>1 DEF StepLeft
    <3>3. outcome'.thrown # NoException
      BY <3>2, LeavesThrown, ThrownHasAClass DEF ThrownFor, Error, NoException
    <3>. QED
      BY <2>2, <2>5, <2>7, <3>3
  <2>8. CASE code = SQLITE_ROW
    <3>1. sqlite3_column_count(s) = 1
      <4>1. stmts[s].sql = "query" /\ s # Null
        BY <2>3, <2>4, <2>8, StepResults DEF StepLeft, Null
      <4>. QED
        BY <4>1 DEF sqlite3_column_count
    <3>2. CASE method = "nativeExecuteForLong"
      <4>1. PICK value \in ExecuteValues(method, h, s, code) :
               Leaves(code, ExecuteThrows(method, h, code), value)
        BY <2>2, <2>4, <3>2 DEF StepLeft
      <4>2. ExecuteThrows(method, h, code) = NoException
        BY <2>8, <3>2 DEF ExecuteThrows, OneRowQueries, NonQueries, SQLITE_ROW, SQLITE_DONE
      <4>3. value = IF IsNull(row) THEN 0 ELSE row
        BY <2>2, <2>8, <3>1, <3>2, <4>1
           DEF ExecuteValues, LongValue, sqlite3_column_int64
      <4>4. outcome'.thrown = NoException /\ outcome'.value = value
        BY <4>1, <4>2, LeavesThrown
      <4>. QED
        BY <2>2, <2>5, <2>8, <3>2, <4>3, <4>4
    <3>3. CASE method = "nativeExecuteForString"
      <4>1. PICK value \in StringValues(s, code) : NewString(code, value)
        BY <2>2, <2>4, <2>8, <3>3 DEF StepLeft, ExecuteValues
      <4>2. value \in {Null} \cup IF IsNull(row) THEN {} ELSE {row}
        BY <2>2, <2>8, <3>1, <4>1 DEF StringValues, sqlite3_column_text16
      <4>3. \/ outcome'.thrown = NoException /\ outcome'.value = value
            \/ outcome'.thrown = Error
        BY <4>1 DEF NewString, Leaves
      <4>. QED
        BY <2>2, <2>5, <2>8, <3>3, <4>2, <4>3 DEF Null, Error, NoException
    <3>. QED
      BY <2>6, <3>2, <3>3
  <2>. QED
    BY <2>7, <2>8
<1>. QED
  BY <1>1, HeldInvInit, HeldInvStep, PTL DEF NativeSpec, ValueIsOfItsRow

------------------------------------------------------------------------------
(* Types.  HeldInv has the shapes of connections and statements already;   *)
(* what it lacks are the bounds, which come from where the numbers do.     *)

\* A statement that is not finalized, within the bounds.
StatementBounds(e) ==
    /\ e.handle \in Handles /\ e.sql \in Sql /\ e.pc # "finalized"
    /\ e.row <= MaxRows /\ e.bound \subseteq 1 .. NumParameters

StatementsBound ==
    /\ Len(stmts) <= MaxStatements
    /\ \A s \in DOMAIN stmts : stmts[s] = Finalized \/ StatementBounds(stmts[s])

RowIdsBound == rowIds <= MaxRowIds /\ \A h \in Handles : db[h].lastRowId <= MaxRowIds

RunningShape ==
    running = Nothing \/ \E method \in NonQueries \cup OneRowQueries, s \in Nat :
                            running = [method |-> method, stmt |-> s]

ThrownShape == outcome.thrown \in ExceptionClasses \cup {NoException, Error}

BoundsInv ==
    unopened \subseteq Handles /\ StatementsBound /\ RowIdsBound /\ RunningShape /\ ThrownShape

\* The codes are natural numbers.
LEMMA CodesAreNat == Codes \subseteq Nat
<1>1. PrimaryCodes \subseteq Nat
  BY DEF PrimaryCodes, SQLITE_ROW, SQLITE_DONE
<1>2. \A family \in Extensions : family[1] \in Nat /\ family[2] \subseteq Nat
  <2>1. \A family \in Extensions : family[1] \in Nat
    BY DEF Extensions, SQLITE_IOERR, SQLITE_LOCKED, SQLITE_BUSY, SQLITE_CANTOPEN,
           SQLITE_CORRUPT, SQLITE_READONLY, SQLITE_ABORT, SQLITE_CONSTRAINT, SQLITE_NOTICE,
           SQLITE_WARNING, SQLITE_AUTH
  <2>2. \A family \in Extensions : family[2] \subseteq Nat
    BY DEF Extensions
  <2>. QED
    BY <2>1, <2>2
<1>3. ExtendedCodes \subseteq Nat
  BY <1>2 DEF ExtendedCodes
<1>. QED
  BY <1>1, <1>3 DEF Codes

\* The invariant implies the types.
LEMMA BoundsSuffice == HeldInv /\ BoundsInv => NativeTypeOK
<1> SUFFICES ASSUME HeldInv, BoundsInv PROVE NativeTypeOK
  OBVIOUS
<1>1. opens \in 0 .. MaxOpens /\ handles \subseteq Handles /\ unopened \subseteq Handles
      /\ wrappers \subseteq Handles /\ rowIds \in 0 .. MaxRowIds
  BY MaxOpensAssumption, MaxRowIdsAssumption
     DEF HeldInv, Shape, WrappersHeld, BoundsInv, RowIdsBound, Handles
<1>2. db \in [Handles -> Connections]
  <2> SUFFICES ASSUME NEW h \in Handles PROVE db[h] \in Connections
    BY DEF HeldInv, Shape
  <2>1. db[h] \in ConnectionShape /\ db[h].lastRowId <= MaxRowIds
    BY DEF HeldInv, Shape, BoundsInv, RowIdsBound
  <2>2. db[h].lastRowId \in 0 .. MaxRowIds
    BY <2>1, MaxRowIdsAssumption DEF ConnectionShape
  <2>. QED
    BY <2>1, <2>2, CodesAreNat DEF ConnectionShape, Connections
<1>3. stmts \in Seq(Statements \cup {Finalized}) /\ Len(stmts) <= MaxStatements
  <2>1. stmts \in Seq(StatementShape) /\ Len(stmts) <= MaxStatements
    BY DEF HeldInv, Shape, BoundsInv, StatementsBound
  <2>2. ASSUME NEW s \in DOMAIN stmts PROVE stmts[s] \in Statements \cup {Finalized}
    <3>1. stmts[s] \in StatementShape /\ (stmts[s] = Finalized \/ StatementBounds(stmts[s]))
      BY <2>1 DEF BoundsInv, StatementsBound
    <3>2. CASE StatementBounds(stmts[s])
      <4>1. stmts[s].row \in 0 .. MaxRows
        <5>1. PICK row \in Nat : row = stmts[s].row
          BY <3>1 DEF StatementShape
        <5>2. MaxRows \in Nat /\ row <= MaxRows
          BY <3>2, <5>1, MaxRowsAssumption DEF StatementBounds
        <5>. QED
          BY <5>1, <5>2
      <4>2. stmts[s].result \in Nat
        BY <3>1, CodesAreNat DEF StatementShape
      <4>3. stmts[s].borrowed = {} /\ stmts[s].pc \in {"ready", "running", "stepped"}
        BY <3>1, <3>2 DEF StatementShape, StatementBounds
      <4>4. stmts[s] = [handle |-> stmts[s].handle, sql |-> stmts[s].sql, pc |-> stmts[s].pc,
                        result |-> stmts[s].result, row |-> stmts[s].row,
                        bound |-> stmts[s].bound, borrowed |-> stmts[s].borrowed]
        BY <3>1 DEF StatementShape
      <4>. QED
        BY <3>2, <4>1, <4>2, <4>3, <4>4 DEF Statements, StatementBounds
    <3>. QED
      BY <3>1, <3>2
  <2>. QED
    BY <2>1, <2>2
<1>4. running \in [method : NonQueries \cup OneRowQueries, stmt : DOMAIN stmts] \cup {Nothing}
  BY DEF HeldInv, RunningHeld, BoundsInv, RunningShape
<1>. QED
  BY <1>1, <1>2, <1>3, <1>4
     DEF NativeTypeOK, SQLiteTypeOK, BoundsInv, RowIdsBound, ThrownShape

\* What is thrown is always one of the classes.
LEMMA ThrownStep ==
  ASSUME ThrownShape, [NativeNext]_nativeVars PROVE ThrownShape'
<1> DEFINE Classes == ExceptionClasses \cup {NoException, Error}
<1>1. \A code, class, value : class \in Classes /\ Leaves(code, class, value) => ThrownShape'
  BY LeavesThrown DEF ThrownShape
<1>2. \A errcode : ThrownFor(errcode) \in Classes /\ ExceptionClass(errcode) \in Classes
  BY ThrownHasAClass DEF ThrownFor
<1>3. NoException \in Classes /\ Error \in Classes /\ ThrownWithoutHandle \in Classes
  BY <1>2 DEF ThrownWithoutHandle
<1> HIDE DEF Classes
<1>4. \A h, code : LeavesResult(h, code) => ThrownShape'
  BY <1>1, <1>2, <1>3 DEF LeavesResult
<1>5. \A code, text : NewString(code, text) => ThrownShape'
  BY <1>1, <1>3 DEF NewString, Leaves
<1>6. ASSUME NEW flags, NEW file, NEW enabled, nativeOpen(flags, file, enabled)
      PROVE  ThrownShape'
  BY <1>1, <1>2, <1>3, <1>6 DEF nativeOpen, OpenFails, OpenRefused, OpenSucceeds
<1>7. ASSUME NEW h, CallOn(h) PROVE ThrownShape'
  <2>1. ASSUME NEW sql, nativePrepareStatement(h, sql) PROVE ThrownShape'
    <3>1. PICK code, value :
             Leaves(code, IF code = SQLITE_OK THEN NoException ELSE ThrownFor(db'[h].errcode), value)
      BY <2>1 DEF nativePrepareStatement
    <3>. QED
      BY <1>1, <1>2, <1>3, <3>1
  <2>. QED
    BY <1>1, <1>2, <1>3, <1>4, <1>5, <1>7, <2>1
       DEF CallOn, nativeClose, nativeFinalizeStatement, Ask, nativeBind,
           nativeResetStatementAndClearBindings, nativeGetColumnName, ExecuteNull, ExecuteBegins
<1>8. CASE ExecuteReturns
  <2>1. PICK s, h, code, value :
           \/ NewString(code, value)
           \/ Leaves(code, ExecuteThrows(running.method, h, code), value)
    BY <1>8 DEF ExecuteReturns
  <2>2. ExecuteThrows(running.method, h, code) \in Classes
    BY <1>2, <1>3 DEF ExecuteThrows
  <2>. QED
    BY <1>1, <1>5, <2>1, <2>2
<1>9. ASSUME NEW m, CallUnlinked(m) PROVE ThrownShape'
  BY <1>1, <1>3, <1>9 DEF CallUnlinked
<1>10. CASE UNCHANGED outcome
  BY <1>10 DEF ThrownShape
<1>. QED
  BY <1>6, <1>7, <1>8, <1>9, <1>10 DEF NativeNext, nativeVars

\* One statement changed, within the bounds, keeps them.
LEMMA ChangeIsBounded ==
  ASSUME HeldInv, StatementsBound, NEW s \in DOMAIN stmts, NEW e,
         stmts' = [stmts EXCEPT ![s] = e], e = Finalized \/ StatementBounds(e)
  PROVE  StatementsBound'
<1>1. stmts \in Seq(StatementShape)
  BY DEF HeldInv, Shape
<1>2. Len(stmts') = Len(stmts) /\ DOMAIN stmts' = DOMAIN stmts
  BY <1>1
<1>3. \A k \in DOMAIN stmts : stmts'[k] = IF k = s THEN e ELSE stmts[k]
  BY <1>1
<1>4. \A k \in DOMAIN stmts' : stmts'[k] = Finalized \/ StatementBounds(stmts'[k])
  BY <1>2, <1>3 DEF StatementsBound
<1>. QED
  BY <1>2, <1>4 DEF StatementsBound, StatementBounds, Finalized

\* A statement of a connection is not finalized.
LEMMA UnfinalizedIsBounded ==
  ASSUME HeldInv, StatementsBound, NEW h \in Handles, NEW s \in Unfinalized(h)
  PROVE  s \in DOMAIN stmts /\ stmts[s] \in StatementShape /\ StatementBounds(stmts[s])
<1>1. s \in DOMAIN stmts /\ stmts[s].handle = h /\ h # Null
  BY DEF Unfinalized, Handles, Null
<1>2. stmts[s] \in StatementShape
  BY <1>1 DEF HeldInv, Shape
<1>3. stmts[s] # Finalized
  <2>1. Finalized.handle = Null
    BY DEF Finalized
  <2>. QED
    BY <1>1, <2>1
<1>. QED
  BY <1>1, <1>2, <1>3 DEF StatementsBound

LEMMA StatementsStep ==
  ASSUME HeldInv, StatementsBound, [NativeNext]_nativeVars PROVE StatementsBound'
<1>1. stmts \in Seq(StatementShape) /\ wrappers \subseteq Handles
  BY MaxOpensAssumption DEF HeldInv, Shape, WrappersHeld, Handles
<1>2. CASE UNCHANGED stmts
  BY <1>2 DEF StatementsBound, StatementBounds, Finalized
<1>3. ASSUME NEW h \in wrappers, NEW sql \in Sql, nativePrepareStatement(h, sql), ~UNCHANGED stmts
      PROVE  StatementsBound'
  <2>1. PICK e : /\ stmts' = Append(stmts, e)
                 /\ e = [handle |-> h, sql |-> sql, pc |-> "ready", result |-> SQLITE_OK,
                         row |-> 0, bound |-> {}, borrowed |-> {}]
    BY <1>3 DEF nativePrepareStatement, sqlite3_prepare16_v2
  <2>2. StatementBounds(e)
    BY <1>1, <1>3, <2>1, MaxRowsAssumption DEF StatementBounds
  <2>3. /\ Len(stmts') = Len(stmts) + 1 /\ DOMAIN stmts' = DOMAIN stmts \cup {Len(stmts) + 1}
        /\ \A k \in DOMAIN stmts : stmts'[k] = stmts[k]
        /\ stmts'[Len(stmts) + 1] = e
    BY <1>1, <2>1
  <2>4. Len(stmts') <= MaxStatements
    BY <1>1, <1>3, <2>3, MaxStatementsAssumption DEF nativePrepareStatement
  <2>5. \A k \in DOMAIN stmts' : stmts'[k] = Finalized \/ StatementBounds(stmts'[k])
    BY <2>2, <2>3 DEF StatementsBound
  <2>. QED
    BY <2>4, <2>5 DEF StatementsBound, StatementBounds, Finalized
<1>4. ASSUME NEW h \in wrappers, NEW s \in Unfinalized(h) \cup {Null},
             nativeFinalizeStatement(h, s), ~UNCHANGED stmts
      PROVE  StatementsBound'
  <2>1. s \in Unfinalized(h) /\ stmts' = [stmts EXCEPT ![s] = Finalized]
    BY <1>4 DEF nativeFinalizeStatement, sqlite3_finalize
  <2>. QED
    BY <1>1, <2>1, UnfinalizedIsBounded, ChangeIsBounded
<1>5. ASSUME NEW h \in wrappers, NEW s \in Unfinalized(h) \cup {Null}, NEW i,
             nativeBind(h, s, i), ~UNCHANGED stmts
      PROVE  StatementsBound'
  <2>1. PICK code \in sqlite3_bind_results(s, i) : sqlite3_bind(h, s, i, Destructor, code)
    BY <1>5 DEF nativeBind
  <2>2. /\ code = SQLITE_OK
        /\ stmts' = [stmts EXCEPT ![s].bound = @ \cup {i}, ![s].borrowed = @ \ {i}]
    BY <1>5, <2>1 DEF sqlite3_bind, Destructor, SQLITE_TRANSIENT, SQLITE_STATIC
  <2>3. s # Null /\ i \in Parameters(stmts[s].sql)
    BY <2>1, <2>2 DEF sqlite3_bind_results, ExceededCode, SQLITE_OK, SQLITE_MISUSE, SQLITE_RANGE
  <2>4. s \in DOMAIN stmts /\ stmts[s] \in StatementShape /\ StatementBounds(stmts[s])
    BY <1>1, <1>5, <2>3, UnfinalizedIsBounded
  <2> DEFINE e == [stmts[s] EXCEPT !.bound = @ \cup {i}, !.borrowed = @ \ {i}]
  <2>5. stmts' = [stmts EXCEPT ![s] = e]
    BY <1>1, <2>2, <2>4 DEF StatementShape
  <2>6. StatementBounds(e)
    BY <2>3, <2>4 DEF StatementBounds, StatementShape, Parameters
  <2> HIDE DEF e
  <2>. QED
    BY <2>4, <2>5, <2>6, ChangeIsBounded
<1>6. ASSUME NEW h \in wrappers, NEW s \in Unfinalized(h),
             nativeResetStatementAndClearBindings(h, s)
      PROVE  StatementsBound'
  <2>1. s \in DOMAIN stmts /\ stmts[s] \in StatementShape /\ StatementBounds(stmts[s])
    BY <1>1, UnfinalizedIsBounded
  <2> DEFINE reset == [stmts[s] EXCEPT !.pc = "ready", !.result = SQLITE_OK, !.row = 0]
             cleared == [reset EXCEPT !.bound = {}, !.borrowed = {}]
  <2>2. StatementBounds(reset) /\ StatementBounds(cleared)
    <3>1. 0 <= MaxRows
      BY MaxRowsAssumption
    <3>2. /\ reset.handle = stmts[s].handle /\ reset.sql = stmts[s].sql /\ reset.pc = "ready"
          /\ reset.row = 0 /\ reset.bound = stmts[s].bound
      BY <2>1 DEF StatementShape
    <3>3. /\ cleared.handle = stmts[s].handle /\ cleared.sql = stmts[s].sql
          /\ cleared.pc = "ready" /\ cleared.row = 0 /\ cleared.bound = {}
      BY <2>1 DEF StatementShape
    <3> HIDE DEF reset, cleared
    <3>. QED
      BY <2>1, <3>1, <3>2, <3>3 DEF StatementBounds
  <2>3. ResetStatement(s) = [stmts EXCEPT ![s] = reset]
    BY <1>1, <2>1 DEF ResetStatement, StatementShape
  <2>4. sqlite3_clear_bindings(s, ResetStatement(s)) = [stmts EXCEPT ![s] = cleared]
    BY <1>1, <2>1, <2>3 DEF sqlite3_clear_bindings, StatementShape
  <2> HIDE DEF reset, cleared
  <2>5. stmts' = [stmts EXCEPT ![s] = cleared] \/ stmts' = [stmts EXCEPT ![s] = reset]
    BY <1>6, <2>3, <2>4 DEF nativeResetStatementAndClearBindings
  <2>. QED
    BY <2>1, <2>2, <2>5, ChangeIsBounded
<1>7. ASSUME NEW h \in wrappers, NEW s \in Unfinalized(h), NEW method, ExecuteBegins(method, s)
      PROVE  StatementsBound'
  <2>1. s \in DOMAIN stmts /\ stmts[s] \in StatementShape /\ StatementBounds(stmts[s])
    BY <1>1, UnfinalizedIsBounded
  <2>2. PICK row \in {0, stmts[s].row} :
           stmts' = [stmts EXCEPT ![s] = [stmts[s] EXCEPT !.pc = "running", !.row = row]]
    BY <1>1, <1>7, <2>1 DEF ExecuteBegins, StepBegins, StatementShape
  <2>3. StatementBounds([stmts[s] EXCEPT !.pc = "running", !.row = row])
    <3>1. row <= MaxRows
      BY <2>1, <2>2, MaxRowsAssumption DEF StatementBounds
    <3>. QED
      BY <2>1, <3>1 DEF StatementBounds, StatementShape
  <2>. QED
    BY <2>1, <2>2, <2>3, ChangeIsBounded
<1>8. CASE ExecuteReturns
  <2>1. PICK s, h, code : /\ s \in DOMAIN stmts /\ stmts[s].handle = h /\ h \in wrappers
                          /\ stmts[s] \in StatementShape /\ StepLeft(s, h, code)
    BY <1>8, StepIsLeft
  <2>2. StatementBounds(stmts[s])
    BY <1>1, <2>1, UnfinalizedIsBounded DEF Unfinalized
  <2>3. PICK row \in Nat : row = stmts[s].row
    BY <2>1 DEF StatementShape
  <2>4. PICK next : next = IF code = SQLITE_ROW THEN row + 1 ELSE row
    OBVIOUS
  <2>5. code = SQLITE_ROW => row < MaxRows
    BY <2>1, <2>3, StepErrorsAssumption
       DEF StepLeft, sqlite3_step_results, SQLITE_ROW, SQLITE_DONE, SQLITE_READONLY
  <2>6. next <= MaxRows
    BY <2>2, <2>3, <2>4, <2>5, MaxRowsAssumption DEF StatementBounds
  <2>7. stmts' = [stmts EXCEPT ![s] =
                    [stmts[s] EXCEPT !.pc = "stepped", !.result = code, !.row = next]]
    BY <1>1, <2>1, <2>3, <2>4 DEF StepLeft, StepReturns, StatementShape
  <2>8. StatementBounds([stmts[s] EXCEPT !.pc = "stepped", !.result = code, !.row = next])
    BY <2>1, <2>2, <2>6 DEF StatementBounds, StatementShape
  <2>. QED
    BY <2>1, <2>7, <2>8, ChangeIsBounded
<1>9. ASSUME NEW h \in wrappers, CallOn(h) PROVE StatementsBound'
  BY <1>2, <1>3, <1>4, <1>5, <1>6, <1>7, <1>9
     DEF CallOn, nativeClose, Ask, nativeGetColumnName, ExecuteNull
<1>. QED
  BY <1>2, <1>8, <1>9 DEF NativeNext, nativeVars, sqliteVars, nativeOpen, CallUnlinked

\* Row ids are counted up to their bound, and a connection has one of them.
LEMMA RowIdsStep ==
  ASSUME HeldInv, RowIdsBound, [NativeNext]_nativeVars PROVE RowIdsBound'
<1>1. /\ db \in [Handles -> ConnectionShape] /\ (\A h \in Handles : db[h] \in ConnectionShape)
      /\ rowIds \in Nat /\ wrappers \subseteq Handles
  BY MaxOpensAssumption DEF HeldInv, Shape, WrappersHeld, Handles
<1> DEFINE Same == UNCHANGED rowIds /\ \A h \in Handles : db'[h].lastRowId = db[h].lastRowId
<1>2. CASE Same
  BY <1>2 DEF RowIdsBound
<1>3. \A h, code : UNCHANGED rowIds /\ Returns(h, code) => Same
  BY <1>1 DEF Returns, ConnectionShape
<1>4. UNCHANGED <<rowIds, db>> => Same
  OBVIOUS
<1> HIDE DEF Same
<1>5. ASSUME NEW h \in wrappers, CallOn(h) PROVE Same
  <2>2. CASE nativeClose(h)
    BY <1>3, <1>4, <2>2 DEF nativeClose, sqlite3_close
  <2>. QED
    BY <1>3, <1>4, <1>5, <2>2
       DEF CallOn, nativePrepareStatement, sqlite3_prepare16_v2, nativeFinalizeStatement,
           sqlite3_finalize, Ask, nativeBind, sqlite3_bind, ReturnsMisuse,
           nativeResetStatementAndClearBindings, nativeGetColumnName, ExecuteNull,
           ExecuteBegins, unmoved
<1>6. ASSUME NEW flags, NEW file, NEW enabled, nativeOpen(flags, file, enabled) PROVE Same
  <2>1. CASE OpenSucceeds(opens + 1, flags, file, enabled)
    BY <1>1, <1>6, <2>1 DEF nativeOpen, OpenSucceeds, ConnectionShape, Same
  <2>2. CASE OpenFails(opens + 1, flags, file) \/ OpenRefused(opens + 1, flags, file)
    BY <1>3, <1>6, <2>2 DEF nativeOpen, OpenFails, OpenRefused
  <2>. QED
    BY <1>6, <2>1, <2>2 DEF nativeOpen
<1>7. CASE ExecuteReturns
  <2>1. PICK s, h, code : /\ s \in DOMAIN stmts /\ stmts[s].handle = h /\ h \in wrappers
                          /\ StepLeft(s, h, code)
    BY <1>7, StepIsLeft
  <2>2. rowIds' = IF code = SQLITE_DONE /\ stmts[s].sql = "insert" THEN rowIds + 1 ELSE rowIds
    BY <2>1 DEF StepLeft, StepReturns
  <2>3. code = SQLITE_DONE /\ stmts[s].sql = "insert" => rowIds < MaxRowIds
    BY <2>1, StepErrorsAssumption
       DEF StepLeft, sqlite3_step_results, Completes, SQLITE_ROW, SQLITE_DONE, SQLITE_READONLY
  <2>4. rowIds <= rowIds' /\ rowIds' <= MaxRowIds /\ rowIds' \in Nat
    BY <1>1, <2>2, <2>3, MaxRowIdsAssumption DEF RowIdsBound
  <2>5. PICK id \in {rowIds', db[h].lastRowId} : \E changes :
           db' = [db EXCEPT ![h].errcode = code, ![h].lastRowId = id, ![h].changes = changes]
    BY <1>1, <2>1 DEF StepLeft, StepReturns, ConnectionShape
  <2>6. \A k \in Handles : db'[k].lastRowId \in {rowIds', db[k].lastRowId}
    BY <1>1, <2>1, <2>5 DEF ConnectionShape
  <2>. QED
    BY <2>4, <2>6 DEF RowIdsBound
<1>. QED
  BY <1>2, <1>4, <1>5, <1>6, <1>7
     DEF NativeNext, nativeVars, sqliteVars, CallUnlinked

\* Every call keeps the bounds.
LEMMA BoundsStep ==
  ASSUME HeldInv, BoundsInv, [NativeNext]_nativeVars PROVE BoundsInv'
<1>1. StatementsBound' /\ RowIdsBound' /\ ThrownShape'
  BY StatementsStep, RowIdsStep, ThrownStep DEF BoundsInv
<1>2. unopened' \subseteq Handles
  <2>1. ASSUME NEW flags, NEW file, NEW enabled, nativeOpen(flags, file, enabled)
        PROVE  unopened' \subseteq Handles
    <3>1. opens + 1 \in Handles
      BY <2>1, MaxOpensAssumption DEF nativeOpen, HeldInv, Shape, Handles
    <3>. QED
      BY <2>1, <3>1 DEF nativeOpen, OpenFails, OpenRefused, OpenSucceeds, BoundsInv
  <2>2. CASE UNCHANGED unopened
    BY <2>2 DEF BoundsInv
  <2>3. ASSUME NEW h \in wrappers, CallOn(h) PROVE UNCHANGED unopened
    BY <2>3 DEF CallOn, nativeClose, nativePrepareStatement, nativeFinalizeStatement, Ask,
           nativeBind, nativeResetStatementAndClearBindings, nativeGetColumnName, ExecuteNull,
           ExecuteBegins, unmoved
  <2>. QED
    BY <2>1, <2>2, <2>3
       DEF NativeNext, nativeVars, sqliteVars, CallUnlinked, ExecuteReturns
<1>3. RunningShape'
  <2>1. ASSUME NEW h \in wrappers, NEW s \in Unfinalized(h),
               NEW method \in NonQueries \cup OneRowQueries, ExecuteBegins(method, s)
        PROVE  RunningShape'
    <3>1. s \in Nat
      BY DEF HeldInv, Shape, Unfinalized
    <3>. QED
      BY <2>1, <3>1 DEF ExecuteBegins, RunningShape
  <2>2. CASE UNCHANGED running \/ running' = Nothing
    BY <2>2 DEF BoundsInv, RunningShape, Nothing
  <2>3. ASSUME NEW h \in wrappers, CallOn(h) PROVE RunningShape'
    BY <2>1, <2>2, <2>3
       DEF CallOn, nativeClose, nativePrepareStatement, nativeFinalizeStatement, Ask,
           nativeBind, nativeResetStatementAndClearBindings, nativeGetColumnName, ExecuteNull,
           unmoved
  <2>. QED
    BY <2>2, <2>3
       DEF NativeNext, nativeVars, nativeOpen, CallUnlinked, ExecuteReturns
<1>. QED
  BY <1>1, <1>2, <1>3 DEF BoundsInv

LEMMA NativeTypes == NativeSpec => []NativeTypeOK
<1>1. NativeInit => HeldInv /\ BoundsInv
  BY HeldInvInit, MaxStatementsAssumption, MaxRowIdsAssumption
     DEF NativeInit, SQLiteInit, BoundsInv, StatementsBound, RowIdsBound,
         RunningShape, ThrownShape
<1>2. HeldInv /\ BoundsInv /\ [NativeNext]_nativeVars =>
        HeldInv' /\ BoundsInv'
  BY HeldInvStep, BoundsStep
<1>. QED
  BY <1>1, <1>2, BoundsSuffice, PTL DEF NativeSpec
==============================================================================
