--------------------- MODULE NativeSQLiteConnectionProofs ---------------------
(***************************************************************************)
(* The Java class for any number of connections, calls, statements and     *)
(* parameters: it is a legal caller of the native methods as long as the   *)
(* object is open, and no statement outlives the call that prepared it.    *)
(*                                                                         *)
(* That a step of the class is a step of NativeSpec needs where the        *)
(* addresses it holds come from: the connection's is that of a struct, and *)
(* in a call the statement's is null or of one of the connection's         *)
(* statements not finalized.  HeldInv, of the native methods, gives types. *)
(***************************************************************************)
EXTENDS NativeSQLiteConnection, NativeMethodsProofs, FiniteSetTheorems

\* Where the class holds no statement: between calls, before nativePrepareStatement
\* returns, and once the process is dead.
WithoutStatement == {"idle", "prepare", "dead"}

\* A statement is had of a connection only, and an object that is open has one.
ConnectionHeld ==
    /\ connPtr # Null => connPtr \in wrappers
    /\ pc \notin WithoutStatement \/ opened => connPtr # Null

StatementHeld ==
    IF pc \in WithoutStatement THEN stmtPtr = Null
    ELSE stmtPtr \in Unfinalized(connPtr) \cup {Null}

\* The class is in sqlite3_step exactly when a statement runs: its own.
StepHeld ==
    IF pc = "stepping" THEN running # Nothing /\ running.stmt = stmtPtr ELSE running = Nothing

ArgumentsHeld == next \in Nat \ {0} /\ (pc = "prepare" => sql \in Sql)

CallerInv == ConnectionHeld /\ StatementHeld /\ StepHeld /\ ArgumentsHeld

\* Of the statements, the ones there are and their connections stay the same.
SameHandles ==
    /\ DOMAIN stmts' = DOMAIN stmts
    /\ \A k \in DOMAIN stmts : stmts'[k].handle = stmts[k].handle

------------------------------------------------------------------------------
\* What an address may be: of a connection, and of its statements.
LEMMA Addresses ==
  ASSUME HeldInv
  PROVE  /\ stmts \in Seq(StatementShape)
         /\ wrappers \subseteq handles /\ wrappers \subseteq Handles
         /\ handles \subseteq 1 .. opens /\ opens \in Nat
         /\ Handles \subseteq Nat \ {0}
         /\ \A h \in Handles : Unfinalized(h) \subseteq DOMAIN stmts
         /\ \A s \in DOMAIN stmts : s \in Nat \ {0} /\ stmts[s].handle \in Handles \cup {Null}
<1>1. stmts \in Seq(StatementShape)
  BY DEF HeldInv, Shape
<1>2. \A s \in DOMAIN stmts : stmts[s] \in StatementShape
  BY <1>1
<1>3. \A s \in DOMAIN stmts : s \in Nat \ {0} /\ stmts[s].handle \in Handles \cup {Null}
  <2> SUFFICES ASSUME NEW s \in DOMAIN stmts
               PROVE  s \in Nat \ {0} /\ stmts[s].handle \in Handles \cup {Null}
    OBVIOUS
  <2>1. s \in Nat \ {0}
    BY <1>1
  <2>2. stmts[s].handle \in Handles \cup {Null}
    BY <1>2 DEF StatementShape
  <2>. QED
    BY <2>1, <2>2
<1>4. Handles \subseteq Nat \ {0} /\ wrappers \subseteq Handles
  BY MaxOpensAssumption DEF HeldInv, Shape, WrappersHeld, Handles
<1>. QED
  BY <1>1, <1>3, <1>4, MaxOpensAssumption DEF HeldInv, Shape, WrappersHeld, Unfinalized

\* Binding and stepping change no statement's connection.
LEMMA HandlesStay ==
  ASSUME HeldInv
  PROVE  /\ \A h, s, i : nativeBind(h, s, i) => SameHandles
         /\ \A method_, s : ExecuteBegins(method_, s) => SameHandles
         /\ \A method_, h : ExecuteNull(method_, h) => SameHandles
         /\ ExecuteReturns => SameHandles
         /\ UNCHANGED stmts => SameHandles
<1>1. stmts \in Seq(StatementShape)
  BY Addresses
<1>2. \A k \in DOMAIN stmts : stmts[k] \in StatementShape
  BY <1>1
<1>3. ASSUME NEW h, NEW s, NEW i, nativeBind(h, s, i) PROVE SameHandles
  <2>1. PICK code : sqlite3_bind(h, s, i, Destructor, code)
    BY <1>3 DEF nativeBind
  <2>2. CASE code # SQLITE_OK
    BY <2>1, <2>2 DEF sqlite3_bind, SameHandles
  <2>3. CASE code = SQLITE_OK
    <3>1. stmts' = [stmts EXCEPT ![s].bound = @ \cup {i}, ![s].borrowed = @ \ {i}]
      BY <2>1, <2>3 DEF sqlite3_bind, Destructor, SQLITE_TRANSIENT, SQLITE_STATIC
    <3>. QED
      BY <1>1, <1>2, <3>1 DEF SameHandles, StatementShape
  <2>. QED
    BY <2>2, <2>3
<1>4. ASSUME NEW method_, NEW s, ExecuteBegins(method_, s) PROVE SameHandles
  BY <1>1, <1>2, <1>4 DEF ExecuteBegins, StepBegins, SameHandles, StatementShape
<1>5. ASSUME ExecuteReturns PROVE SameHandles
  <2>1. PICK s, code : StepReturns(s, code)
    BY <1>5 DEF ExecuteReturns
  <2>. QED
    BY <1>1, <1>2, <2>1 DEF StepReturns, SameHandles, StatementShape
<1>. QED
  BY <1>3, <1>4, <1>5 DEF ExecuteNull, SameHandles

\* So a statement stays one of its connection.
LEMMA SameUnfinalized ==
  ASSUME SameHandles PROVE \A h : Unfinalized(h)' = Unfinalized(h)
  BY DEF SameHandles, Unfinalized

\* A statement has no more parameters than any has.
LEMMA ParametersBounded ==
  \A s : nativeGetParameterCount(s) \in 0 .. NumParameters
<1>1. Cardinality({}) = 0 /\ Cardinality(1 .. NumParameters) = NumParameters
  BY NumParametersAssumption, FS_EmptySet, FS_Interval
<1>. QED
  BY <1>1, NumParametersAssumption
     DEF nativeGetParameterCount, sqlite3_bind_parameter_count, Parameters

\* Calls that throw nothing say so.
LEMMA NothingThrown ==
  /\ \A code, value_ : Leaves(code, NoException, value_) => ~Thrown
  /\ \A h, code : LeavesResult(h, code) /\ code = SQLITE_OK => ~Thrown
  BY DEF Leaves, LeavesResult, Thrown

------------------------------------------------------------------------------
(* Each action of the class: what it does to the native state is a step of *)
(* a legal caller, and the addresses it holds afterwards are legal.        *)

LegalStep == [NativeNext]_nativeVars /\ CallerInv'

\* open: the address it keeps is null, or of the struct it was just given.
LEMMA OpenIsLegal ==
  ASSUME HeldInv, CallerInv, Open PROVE LegalStep
<1>1. pc = "idle" /\ pc' = "idle" /\ running = Nothing /\ running' = Nothing /\ next' = next
  BY DEF Open, NoCall, CallerInv, StepHeld, nativeOpen
<1>2. PICK file \in Files, enabled \in SUBSET Tracing :
         nativeOpen({"CREATE_IF_NECESSARY"}, file, enabled)
  BY DEF Open
<1>3. {"CREATE_IF_NECESSARY"} \in SUBSET OpenFlags
  BY DEF OpenFlags
<1>4. NativeNext
  BY <1>1, <1>2, <1>3 DEF NativeNext
<1>5. wrappers \subseteq wrappers' /\ outcome'.value \in wrappers' \cup {Null}
  BY <1>2 DEF nativeOpen, OpenFails, OpenRefused, OpenSucceeds, Leaves
<1>6. ~Thrown => outcome'.value # Null
  <2>1. OpenFails(opens + 1, {"CREATE_IF_NECESSARY"}, file) => Thrown
    BY LeavesThrown, ThrownHasAClass DEF OpenFails, Thrown, Error, NoException
  <2>2. OpenRefused(opens + 1, {"CREATE_IF_NECESSARY"}, file) => Thrown
    BY LeavesThrown, ThrownHasAClass DEF OpenRefused, ThrownFor, Thrown, Error, NoException
  <2>3. OpenSucceeds(opens + 1, {"CREATE_IF_NECESSARY"}, file, enabled) => outcome'.value # Null
    BY LeavesThrown, Addresses DEF OpenSucceeds, Null
  <2>. QED
    BY <1>2, <2>1, <2>2, <2>3 DEF nativeOpen
<1>7. ConnectionHeld'
  BY <1>1, <1>5, <1>6 DEF ConnectionHeld, CallerInv, Open, WithoutStatement
<1>. QED
  BY <1>1, <1>4, <1>7
     DEF LegalStep, CallerInv, StatementHeld, StepHeld, ArgumentsHeld, Open, NoCall,
         WithoutStatement

\* close: the address is forgotten, or it threw, and the struct is there.
LEMMA CloseIsLegal ==
  ASSUME HeldInv, CallerInv, Close PROVE LegalStep
<1>1. /\ pc = "idle" /\ pc' = "idle" /\ running = Nothing /\ running' = Nothing /\ next' = next
      /\ connPtr \in wrappers /\ nativeClose(connPtr)
  BY DEF Close, NoCall, CallerInv, StepHeld, ConnectionHeld, nativeClose
<1>2. NativeNext
  BY <1>1 DEF NativeNext, CallOn
<1>3. connPtr' # Null => connPtr' \in wrappers'
  <2>1. CASE sqlite3_close_result(connPtr) = SQLITE_OK
    BY <1>1, <2>1, NothingThrown DEF Close, nativeClose
  <2>2. CASE sqlite3_close_result(connPtr) # SQLITE_OK
    BY <1>1, <2>2, Addresses DEF Close, nativeClose, sqlite3_close
  <2>. QED
    BY <2>1, <2>2
<1>4. opened' => connPtr' # Null
  BY <1>1 DEF Close
<1>. QED
  BY <1>1, <1>2, <1>3, <1>4
     DEF LegalStep, CallerInv, ConnectionHeld, StatementHeld, StepHeld, ArgumentsHeld, Close,
         NoCall, WithoutStatement

\* execute and executeForLastInsertedRowId begin, on any object.
LEMMA CallIsLegal ==
  ASSUME HeldInv, CallerInv, NEW m, NEW text \in Sql, Call(m, text) PROVE LegalStep
  BY DEF Call, LegalStep, CallerInv, ConnectionHeld, StatementHeld, StepHeld, ArgumentsHeld,
         WithoutStatement, nativeVars, sqliteVars

\* On one that is not open the process ends, in a call that never returns.
LEMMA CrashIsNoStep ==
  ASSUME CallerInv, Crash PROVE ~opened /\ LegalStep
  BY DEF Crash, LegalStep, CallerInv, ConnectionHeld, StatementHeld, StepHeld, ArgumentsHeld,
         WithoutStatement, callVars, nativeVars, sqliteVars

\* The statement's address is null, or of the statement just prepared.
LEMMA PrepareIsLegal ==
  ASSUME HeldInv, CallerInv, Prepare PROVE LegalStep
<1>1. /\ connPtr \in wrappers /\ connPtr # Null /\ sql \in Sql
      /\ running = Nothing /\ running' = Nothing
      /\ nativePrepareStatement(connPtr, sql)
      /\ pc' \in {"idle", "describe"}
      /\ UNCHANGED <<connPtr, next, wrappers, opened>>
  BY DEF Prepare, CallerInv, ConnectionHeld, StepHeld, ArgumentsHeld,
         nativePrepareStatement, unmoved
<1>2. NativeNext
  BY <1>1 DEF NativeNext, CallOn
<1>3. stmtPtr' \in Unfinalized(connPtr)' \cup {Null}
  <2>1. PICK code : /\ sqlite3_prepare16_v2(connPtr, sql, code)
                    /\ outcome'.value = IF Len(stmts') > Len(stmts) THEN Len(stmts') ELSE Null
    BY <1>1 DEF nativePrepareStatement, Leaves
  <2>2. CASE Len(stmts') > Len(stmts)
    <3>1. PICK e : e.handle = connPtr /\ stmts' = Append(stmts, e)
      BY <2>1, <2>2 DEF sqlite3_prepare16_v2
    <3>2. stmts \in Seq(StatementShape)
      BY Addresses
    <3>3. Len(stmts') \in DOMAIN stmts' /\ stmts'[Len(stmts')].handle = connPtr
      BY <3>1, <3>2
    <3>4. Len(stmts') \in Unfinalized(connPtr)'
      BY <1>1, <3>3 DEF Unfinalized
    <3>. QED
      BY <2>1, <2>2, <3>4 DEF Prepare
  <2>3. CASE ~(Len(stmts') > Len(stmts))
    BY <2>1, <2>3 DEF Prepare
  <2>. QED
    BY <2>2, <2>3
<1>4. pc' = "idle" => stmtPtr' = Null
  BY DEF Prepare
<1>. QED
  BY <1>1, <1>2, <1>3, <1>4
     DEF LegalStep, CallerInv, ConnectionHeld, StatementHeld, StepHeld, ArgumentsHeld,
         WithoutStatement

\* A call that ends leaves no address of a statement in use.
LEMMA EndIsLegal ==
  ASSUME HeldInv, CallerInv, pc \notin WithoutStatement, pc # "stepping", pc' = "idle",
         stmtPtr' = Null, UNCHANGED <<connPtr, next, opened>>,
         nativeFinalizeStatement(connPtr, stmtPtr) \/ UNCHANGED nativeVars
  PROVE  LegalStep
<1>1. /\ connPtr \in wrappers /\ stmtPtr \in Unfinalized(connPtr) \cup {Null}
      /\ running = Nothing
  BY DEF CallerInv, ConnectionHeld, StatementHeld, StepHeld
<1>2. UNCHANGED <<wrappers, running>>
  BY DEF nativeFinalizeStatement, unmoved, nativeVars
<1>3. [NativeNext]_nativeVars
  BY <1>1 DEF NativeNext, CallOn
<1>. QED
  BY <1>1, <1>2, <1>3
     DEF LegalStep, CallerInv, ConnectionHeld, StatementHeld, StepHeld, ArgumentsHeld,
         WithoutStatement

\* Within a call the addresses stay what they are as long as the statement does.
LEMMA WithinIsLegal ==
  ASSUME HeldInv, CallerInv, pc \notin WithoutStatement, pc' \notin WithoutStatement,
         SameHandles, UNCHANGED <<connPtr, stmtPtr, wrappers, opened>>,
         next' \in Nat \ {0}, StepHeld', [NativeNext]_nativeVars
  PROVE  LegalStep
<1>1. Unfinalized(connPtr)' = Unfinalized(connPtr)
  BY SameUnfinalized DEF Unfinalized
<1>. QED
  BY <1>1 DEF LegalStep, CallerInv, ConnectionHeld, StatementHeld, ArgumentsHeld,
              WithoutStatement

\* The description of the statement, or an exception of it.
LEMMA DescribeIsLegal ==
  ASSUME HeldInv, CallerInv, Describe PROVE LegalStep
<1>1. /\ pc = "describe" /\ UNCHANGED <<connPtr, next, opened>> /\ next \in Nat \ {0}
      /\ "describe" \notin WithoutStatement /\ "bind" \notin WithoutStatement
  BY DEF Describe, CallerInv, ArgumentsHeld, WithoutStatement
<1>2. CASE pc' = "bind" /\ UNCHANGED <<nativeVars, stmtPtr>>
  <2>1. UNCHANGED <<stmts, wrappers, running>>
    BY <1>2 DEF nativeVars, sqliteVars
  <2>2. SameHandles /\ StepHeld'
    BY <1>1, <1>2, <2>1 DEF SameHandles, StepHeld, CallerInv
  <2>. QED
    BY <1>1, <1>2, <2>1, <2>2, WithinIsLegal
<1>3. CASE /\ DescribeThrows \/ DescribeFails
           /\ stmtPtr' = Null /\ pc' = "idle"
  BY <1>1, <1>3, EndIsLegal DEF DescribeThrows, DescribeFails
<1>. QED
  BY <1>2, <1>3 DEF Describe

\* The argument is one of the statement's, and the statement stays.
LEMMA BindIsLegal ==
  ASSUME HeldInv, CallerInv, Bind PROVE LegalStep
<1>1. /\ pc = "bind" /\ UNCHANGED <<connPtr, stmtPtr, opened>> /\ next \in Nat \ {0}
      /\ connPtr \in wrappers /\ stmtPtr \in Unfinalized(connPtr) \cup {Null}
      /\ running = Nothing
      /\ WithoutStatement \cap {"bind", "step", "release"} = {}
  BY DEF Bind, CallerInv, ArgumentsHeld, ConnectionHeld, StatementHeld, StepHeld,
         WithoutStatement
<1>2. CASE BindOne
  <2>1. /\ ~AllBound /\ nativeBind(connPtr, stmtPtr, next)
        /\ next' \in Nat \ {0} /\ pc' \in {"release", "bind"}
    BY <1>1, <1>2 DEF BindOne
  <2>2. next \in 1 .. NumParameters + 1
    BY <1>1, <2>1, ParametersBounded, NumParametersAssumption DEF AllBound
  <2>3. NativeNext
    BY <1>1, <2>1, <2>2 DEF NativeNext, CallOn
  <2>4. SameHandles /\ UNCHANGED <<wrappers, running>>
    BY <2>1, HandlesStay DEF nativeBind, unmoved
  <2>. QED
    BY <1>1, <2>1, <2>3, <2>4, WithinIsLegal DEF StepHeld
<1>3. CASE UNCHANGED nativeVars /\ UNCHANGED next /\ pc' \in {"step", "release"}
  <2>1. SameHandles /\ UNCHANGED <<wrappers, running>>
    BY <1>3, HandlesStay DEF nativeVars, sqliteVars
  <2>. QED
    BY <1>1, <1>3, <2>1, WithinIsLegal DEF StepHeld
<1>. QED
  BY <1>2, <1>3 DEF Bind

\* What is run is the call's statement, or no statement.
LEMMA StepIsLegal ==
  ASSUME HeldInv, CallerInv, Step PROVE LegalStep
<1>1. /\ pc = "step" /\ UNCHANGED <<connPtr, stmtPtr, next, opened>> /\ next \in Nat \ {0}
      /\ connPtr \in wrappers /\ stmtPtr \in Unfinalized(connPtr) \cup {Null}
      /\ running = Nothing
      /\ WithoutStatement \cap {"step", "stepping", "release"} = {}
  BY DEF Step, CallerInv, ArgumentsHeld, ConnectionHeld, StatementHeld, StepHeld,
         WithoutStatement
<1>2. nativeMethod \in NonQueries
  BY DEF nativeMethod, NonQueries
<1>3. CASE stmtPtr # Null
  <2>1. ExecuteBegins(nativeMethod, stmtPtr) /\ pc' = "stepping"
    BY <1>3 DEF Step
  <2>2. NativeNext
    BY <1>1, <1>2, <1>3, <2>1 DEF NativeNext, CallOn
  <2>3. SameHandles /\ UNCHANGED wrappers
    BY <2>1, HandlesStay DEF ExecuteBegins
  <2>4. StepHeld'
    <3>1. running'.stmt = stmtPtr /\ running'.stmt # Nothing.stmt
      BY <1>3, <2>1 DEF ExecuteBegins, Nothing
    <3>. QED
      BY <1>1, <2>1, <3>1 DEF StepHeld
  <2>. QED
    BY <1>1, <2>1, <2>2, <2>3, <2>4, WithinIsLegal
<1>4. CASE stmtPtr = Null
  <2>1. ExecuteNull(nativeMethod, connPtr) /\ pc' = "release"
    BY <1>4 DEF Step
  <2>2. NativeNext
    BY <1>1, <1>2, <2>1 DEF NativeNext, CallOn
  <2>3. SameHandles /\ UNCHANGED <<wrappers, running>>
    BY <2>1, HandlesStay DEF ExecuteNull, unmoved
  <2>. QED
    BY <1>1, <2>1, <2>2, <2>3, WithinIsLegal DEF StepHeld
<1>. QED
  BY <1>3, <1>4

\* The step returns.
LEMMA StepEndsIsLegal ==
  ASSUME HeldInv, CallerInv, StepEnds PROVE LegalStep
<1>1. /\ pc = "stepping" /\ pc' = "release" /\ UNCHANGED <<connPtr, stmtPtr, next, opened>>
      /\ next \in Nat \ {0} /\ ExecuteReturns
      /\ WithoutStatement \cap {"stepping", "release"} = {}
  BY DEF StepEnds, CallerInv, ArgumentsHeld, WithoutStatement
<1>2. NativeNext /\ SameHandles /\ UNCHANGED wrappers /\ running' = Nothing
  BY <1>1, HandlesStay DEF NativeNext, ExecuteReturns
<1>. QED
  BY <1>1, <1>2, WithinIsLegal DEF StepHeld

\* Every step of the class is a legal step of the native methods, or none.
LEMMA NextIsLegal ==
  ASSUME HeldInv, CallerInv, [Next]_vars PROVE LegalStep
<1>1. CASE Release
  BY <1>1, EndIsLegal DEF Release, WithoutStatement
<1>2. CASE UNCHANGED vars
  BY <1>2 DEF vars, callVars, nativeVars, sqliteVars, LegalStep, CallerInv, ConnectionHeld,
              StatementHeld, StepHeld, ArgumentsHeld, Unfinalized
<1>. QED
  BY <1>1, <1>2, OpenIsLegal, CloseIsLegal, CallIsLegal, CrashIsNoStep, PrepareIsLegal,
     DescribeIsLegal, BindIsLegal, StepIsLegal, StepEndsIsLegal DEF Next

\* The class starts as its native methods do, with no addresses.
LEMMA CallerInvInit == Init => NativeInit /\ CallerInv
  BY DEF Init, NativeInit, CallerInv, ConnectionHeld, StatementHeld, StepHeld, ArgumentsHeld,
         WithoutStatement

------------------------------------------------------------------------------
\* In every order of open(), close() and execute, before an open() and after a
\* close() too: every native call NativeSQLiteConnection.java makes that returns,
\* on its error paths and in its finally blocks too, is one a caller may make, of
\* a connection whose struct nativeClose has not deleted and of that connection's
\* statement not yet finalized; and nativePrepareStatement is given no struct, the
\* end of the process, only while no open() has returned since the last close().
THEOREM JavaCallsLegally == Spec => LegalCaller
<1>1. Init => NativeInit /\ HeldInv /\ CallerInv
  BY CallerInvInit, HeldInvInit
<1>2. HeldInv /\ CallerInv /\ [Next]_vars => [NativeNext]_nativeVars /\ HeldInv' /\ CallerInv'
  BY NextIsLegal, HeldInvStep DEF LegalStep
<1>3. HeldInv /\ CallerInv => (Crash => ~opened)
  BY CrashIsNoStep
<1>. QED
  BY <1>1, <1>2, <1>3, PTL DEF Spec, LegalCaller, NativeSpec

------------------------------------------------------------------------------
(* Statements are scoped.  A lost address is of a statement there is: a     *)
(* statement still to be prepared is not among them.                        *)

ScopedInv == StatementsAreScoped /\ leaked \subseteq DOMAIN stmts

\* The statements not finalized are those of some connection.
LEMMA LiveAreHandled ==
  /\ LiveStatements = {s \in DOMAIN stmts : stmts[s].handle \in Handles}
  /\ LiveStatements' = {s \in DOMAIN stmts' : stmts'[s].handle \in Handles}
  BY DEF LiveStatements, Unfinalized

\* While the statements stay, what is scoped does.
LEMMA SameScope ==
  ASSUME ScopedInv, SameHandles, UNCHANGED <<stmtPtr, leaked>>,
         (pc \in {"idle", "prepare"}) = (pc' \in {"idle", "prepare"}) \/ stmtPtr = Null
  PROVE  ScopedInv'
<1>1. LiveStatements' = LiveStatements /\ DOMAIN stmts' = DOMAIN stmts
  BY LiveAreHandled DEF SameHandles
<1>. QED
  BY <1>1 DEF ScopedInv, StatementsAreScoped

\* Finalizing the call's statement leaves none but the leaked.
LEMMA FinalizedScope ==
  ASSUME HeldInv, CallerInv, ScopedInv, pc \notin WithoutStatement, pc' = "idle",
         UNCHANGED leaked, nativeFinalizeStatement(connPtr, stmtPtr)
  PROVE  ScopedInv'
<1>1. LiveStatements \ leaked = IF stmtPtr = Null THEN {} ELSE {stmtPtr}
  BY DEF ScopedInv, StatementsAreScoped, WithoutStatement
<1>2. CASE stmtPtr = Null
  <2>1. LiveStatements' = LiveStatements /\ UNCHANGED stmts
    BY <1>2, LiveAreHandled DEF nativeFinalizeStatement, sqlite3_finalize
  <2>. QED
    BY <1>1, <1>2, <2>1 DEF ScopedInv, StatementsAreScoped
<1>3. CASE stmtPtr # Null
  <2>1. stmts' = [stmts EXCEPT ![stmtPtr] = Finalized] /\ stmts \in Seq(StatementShape)
    BY <1>3, Addresses DEF nativeFinalizeStatement, sqlite3_finalize
  <2>2. Finalized.handle \notin Handles
    BY Addresses DEF Finalized, Null
  <2>3. DOMAIN stmts' = DOMAIN stmts /\ LiveStatements' \subseteq LiveStatements \ {stmtPtr}
    BY <2>1, <2>2, LiveAreHandled
  <2>. QED
    BY <1>1, <1>3, <2>3 DEF ScopedInv, StatementsAreScoped
<1>. QED
  BY <1>2, <1>3

\* Every step keeps statements scoped.
LEMMA ScopedStep ==
  ASSUME HeldInv, CallerInv, ScopedInv, [Next]_vars PROVE ScopedInv'
<1>1. stmts \in Seq(StatementShape) /\ (UNCHANGED stmts => SameHandles)
  BY Addresses, HandlesStay
<1>2. CASE Open \/ Close
  <2>1. SameHandles
    BY <1>1, <1>2 DEF Open, Close, nativeOpen, nativeClose
  <2>. QED
    BY <1>2, <2>1, SameScope DEF Open, Close, NoCall
<1>3. ASSUME NEW m, NEW text, Call(m, text) PROVE ScopedInv'
  BY <1>1, <1>3, SameScope DEF Call, nativeVars, sqliteVars
<1>4. CASE Prepare
  <2>1. PICK code :
           /\ sqlite3_prepare16_v2(connPtr, sql, code)
           /\ Leaves(code, IF code = SQLITE_OK THEN NoException ELSE ThrownFor(db'[connPtr].errcode),
                     IF Len(stmts') > Len(stmts) THEN Len(stmts') ELSE Null)
    <3>1. nativePrepareStatement(connPtr, sql)
      BY <1>4 DEF Prepare
    <3>. QED
      BY <3>1 DEF nativePrepareStatement
  <2>2. LiveStatements \ leaked = {} /\ leaked \subseteq DOMAIN stmts /\ UNCHANGED leaked
    BY <1>4 DEF Prepare, ScopedInv, StatementsAreScoped
  <2>3. CASE UNCHANGED stmts
    <3>1. LiveStatements' = LiveStatements
      BY <2>3, LiveAreHandled
    <3>2. stmtPtr' = Null
      BY <1>1, <1>4, <2>1, <2>3 DEF Prepare, Leaves
    <3>3. LiveStatements' \ leaked' = {} /\ leaked' \subseteq DOMAIN stmts'
      BY <2>2, <2>3, <3>1
    <3>. QED
      BY <3>2, <3>3 DEF ScopedInv, StatementsAreScoped
  <2>4. CASE ~UNCHANGED stmts
    <3>1. code = SQLITE_OK /\ \E e : e.handle = connPtr /\ stmts' = Append(stmts, e)
      BY <2>1, <2>4 DEF sqlite3_prepare16_v2
    <3>2. PICK e : e.handle = connPtr /\ stmts' = Append(stmts, e)
      BY <3>1
    <3>3. /\ DOMAIN stmts' = DOMAIN stmts \cup {Len(stmts')} /\ Len(stmts') \notin DOMAIN stmts
          /\ \A s \in DOMAIN stmts : stmts'[s] = stmts[s]
          /\ Len(stmts') > Len(stmts) /\ Len(stmts') # Null /\ stmts'[Len(stmts')] = e
      BY <1>1, <3>2 DEF Null
    <3>4. connPtr \in Handles
      BY <1>4, Addresses DEF Prepare, CallerInv, ConnectionHeld
    <3>5. LiveStatements' = LiveStatements \cup {Len(stmts')}
      BY <3>2, <3>3, <3>4, LiveAreHandled
    <3>6. ~Thrown /\ outcome'.value = Len(stmts')
      BY <2>1, <3>1, <3>3 DEF Leaves, Thrown
    <3>7. pc' = "describe" /\ stmtPtr' = Len(stmts')
      BY <1>4, <3>6 DEF Prepare
    <3>. QED
      BY <2>2, <3>3, <3>5, <3>7, Zenon DEF ScopedInv, StatementsAreScoped
  <2>. QED
    BY <2>3, <2>4
<1>5. CASE Describe
  <2>1. pc = "describe"
    BY <1>5 DEF Describe
  <2>2. CASE pc' = "bind" /\ UNCHANGED <<nativeVars, stmtPtr, leaked>>
    BY <1>1, <2>1, <2>2, SameScope DEF nativeVars, sqliteVars
  <2>3. CASE DescribeThrows /\ pc' = "idle"
    BY <2>1, <2>3, FinalizedScope DEF DescribeThrows, WithoutStatement
  <2>4. CASE DescribeFails /\ stmtPtr' = Null /\ pc' = "idle"
    <3>1. UNCHANGED stmts /\ leaked' = IF stmtPtr = Null THEN leaked ELSE leaked \cup {stmtPtr}
      BY <2>4 DEF DescribeFails, nativeVars, sqliteVars
    <3>2. LiveStatements' = LiveStatements
      BY <3>1, LiveAreHandled
    <3>3. LiveStatements \ leaked = IF stmtPtr = Null THEN {} ELSE {stmtPtr}
      BY <2>1 DEF ScopedInv, StatementsAreScoped
    <3>4. leaked' \subseteq DOMAIN stmts'
      BY <3>1, <3>3, LiveAreHandled DEF ScopedInv
    <3>. QED
      BY <2>4, <3>1, <3>2, <3>3, <3>4 DEF ScopedInv, StatementsAreScoped
  <2>. QED
    BY <1>5, <2>2, <2>3, <2>4 DEF Describe
<1>6. CASE Bind
  <2>1. SameHandles
    BY <1>1, <1>6, HandlesStay DEF Bind, BindOne, nativeVars, sqliteVars
  <2>2. pc = "bind" /\ pc' \in {"bind", "step", "release"}
    BY <1>6 DEF Bind, BindOne
  <2>. QED
    BY <1>6, <2>1, <2>2, SameScope DEF Bind
<1>7. CASE Step \/ StepEnds
  <2>1. SameHandles
    BY <1>7, HandlesStay DEF Step, StepEnds
  <2>2. pc \in {"step", "stepping"} /\ pc' \in {"stepping", "release"}
    BY <1>7 DEF Step, StepEnds
  <2>. QED
    BY <1>7, <2>1, <2>2, SameScope DEF Step, StepEnds
<1>8. CASE Release
  BY <1>8, FinalizedScope DEF Release, WithoutStatement
<1>9. CASE UNCHANGED vars
  BY <1>1, <1>9, SameScope DEF vars, callVars, nativeVars, sqliteVars
<1>10. CASE Crash
  <2>1. SameHandles
    BY <1>1, <1>10 DEF Crash, nativeVars, sqliteVars
  <2>2. stmtPtr = Null /\ UNCHANGED <<stmtPtr, leaked>>
    BY <1>10 DEF Crash, CallerInv, StatementHeld, WithoutStatement, callVars
  <2>. QED
    BY <2>1, <2>2, SameScope
<1>. QED
  BY <1>2, <1>3, <1>4, <1>5, <1>6, <1>7, <1>8, <1>9, <1>10 DEF Next

\* The three together are inductive.
AddressInv == HeldInv /\ CallerInv /\ ScopedInv

LEMMA AddressesAreRight == Spec => []AddressInv
<1>1. Init => AddressInv
  <2>1. Init => ScopedInv
    BY DEF Init, NativeInit, SQLiteInit, ScopedInv, StatementsAreScoped, LiveStatements,
           Unfinalized
  <2>. QED
    BY <2>1, CallerInvInit, HeldInvInit DEF AddressInv
<1>2. AddressInv /\ [Next]_vars => AddressInv'
  BY NextIsLegal, HeldInvStep, ScopedStep DEF LegalStep, AddressInv
<1>. QED
  BY <1>1, <1>2, PTL DEF Spec

\* In every execution of execute and executeForLastInsertedRowId, whichever call
\* throws, the statement prepared is finalized by the time the method is left,
\* and until then by nothing else; but for an Error that comes between
\* nativePrepareStatement and the finally block, which loses its address.
THEOREM NoStatementOutlivesItsCall == Spec => []StatementsAreScoped
<1>1. Init => HeldInv /\ CallerInv /\ ScopedInv
  <2>1. Init => ScopedInv
    BY DEF Init, NativeInit, SQLiteInit, ScopedInv, StatementsAreScoped, LiveStatements,
           Unfinalized
  <2>. QED
    BY <2>1, CallerInvInit, HeldInvInit
<1>2. HeldInv /\ CallerInv /\ ScopedInv /\ [Next]_vars => HeldInv' /\ CallerInv' /\ ScopedInv'
  BY NextIsLegal, HeldInvStep, ScopedStep DEF LegalStep
<1>3. ScopedInv => StatementsAreScoped
  BY DEF ScopedInv
<1>. QED
  BY <1>1, <1>2, <1>3, PTL DEF Spec

\* A close() that nativeClose refuses with SQLITE_BUSY finds a statement of the
\* connection, which between calls only a leaked one can be; any other close()
\* forgets the address, and the connection and its struct are gone.
THEOREM CloseAlwaysReleases == Spec => CloseReleases
<1>1. ASSUME AddressInv, Close
      PROVE  \/ connPtr' = Null /\ connPtr \notin handles' /\ connPtr \notin wrappers'
             \/ \E s \in leaked : stmts[s].handle = connPtr
  <2>1. /\ pc = "idle" /\ connPtr \in wrappers /\ connPtr \in handles /\ connPtr \in Handles
        /\ nativeClose(connPtr)
    BY <1>1, Addresses DEF AddressInv, CallerInv, ConnectionHeld, Close
  <2>2. CASE Unfinalized(connPtr) = {}
    <3>1. sqlite3_close_result(connPtr) = SQLITE_OK
      BY <2>2 DEF sqlite3_close_result
    <3>2. handles' = handles \ {connPtr} /\ wrappers' = wrappers \ {connPtr}
      BY <2>1, <3>1 DEF nativeClose, sqlite3_close
    <3>3. connPtr' = Null
      BY <1>1, <2>1, <3>1, NothingThrown DEF Close, nativeClose
    <3>. QED
      BY <3>2, <3>3
  <2>3. CASE Unfinalized(connPtr) # {}
    <3>1. PICK s \in Unfinalized(connPtr) : TRUE
      BY <2>3
    <3>2. s \in LiveStatements /\ stmts[s].handle = connPtr
      BY <2>1, <3>1 DEF LiveStatements, Unfinalized
    <3>3. LiveStatements \ leaked = {}
      BY <1>1, <2>1 DEF AddressInv, ScopedInv, StatementsAreScoped
    <3>. QED
      BY <3>2, <3>3
  <2>. QED
    BY <2>2, <2>3
<1>. QED
  BY <1>1, AddressesAreRight, PTL DEF CloseReleases

------------------------------------------------------------------------------
(* Connections that are lost.                                              *)

\* A connection that was just opened was not there before, and only a success
\* is not told by an exception.
LEMMA OpenLoses ==
  ASSUME AddressInv, Open, NEW h \in LostHandles' \ LostHandles
  PROVE  \/ h \in unopened'
         \/ h = connPtr /\ connPtr' # connPtr /\ connPtr' \in wrappers'
<1>1. PICK file \in Files, enabled \in SUBSET Tracing :
         nativeOpen({"CREATE_IF_NECESSARY"}, file, enabled)
  BY DEF Open
<1> DEFINE flags == {"CREATE_IF_NECESSARY"}
<1>2. h \in handles' /\ h # connPtr' /\ (h \in handles => h = connPtr)
  BY DEF LostHandles
<1>3. CASE OpenFails(opens + 1, flags, file)
  <2>1. Thrown
    BY <1>3, LeavesThrown, ThrownHasAClass DEF OpenFails, Thrown, Error, NoException
  <2>2. connPtr' = connPtr
    BY <2>1 DEF Open
  <2>3. h \in handles \/ h \in unopened'
    BY <1>2, <1>3 DEF OpenFails
  <2>. QED
    BY <1>2, <2>2, <2>3
<1>4. CASE OpenRefused(opens + 1, flags, file)
  <2>1. Thrown
    BY <1>4, LeavesThrown, ThrownHasAClass DEF OpenRefused, ThrownFor, Thrown, Error, NoException
  <2>2. connPtr' = connPtr /\ handles' = handles
    BY <1>4, <2>1 DEF Open, OpenRefused
  <2>. QED
    BY <1>2, <2>2
<1>5. CASE OpenSucceeds(opens + 1, flags, file, enabled)
  <2>1. ~Thrown /\ outcome'.value = opens + 1
    BY <1>5, LeavesThrown DEF OpenSucceeds, Thrown
  <2>2. connPtr' = opens + 1 /\ connPtr' \in wrappers' /\ handles' = handles \cup {opens + 1}
    BY <1>5, <2>1 DEF Open, OpenSucceeds
  <2>. QED
    BY <1>2, <2>2
<1>. QED
  BY <1>1, <1>3, <1>4, <1>5 DEF nativeOpen

\* In every execution, close() loses no connection: either nativeClose released
\* it, or it threw and mConnectionPtr still has its address.  An open() loses one
\* of two only, what sqlite3_open_v2 gave with an error and the one whose address
\* the new one's replaced; refused for another reason it closed what it had.
THEOREM OnlyOpenLoses == Spec => OnlyOpenLosesHandles
<1> DEFINE Loses ==
      \A h \in LostHandles' \ LostHandles :
         \/ h \in unopened'
         \/ h = connPtr /\ connPtr' # connPtr /\ connPtr' \in wrappers'
<1>1. ASSUME AddressInv, [Next]_vars PROVE Loses
  <2>1. CASE Open
    BY <1>1, <2>1, OpenLoses
  <2>2. CASE Close
    <3>1. nativeClose(connPtr)
      BY <2>2 DEF Close
    <3>2. CASE sqlite3_close_result(connPtr) = SQLITE_OK
      BY <3>1, <3>2 DEF nativeClose, sqlite3_close, LostHandles
    <3>3. CASE sqlite3_close_result(connPtr) # SQLITE_OK
      <4>1. handles' = handles /\ Thrown
        BY <3>1, <3>3, LeavesThrown DEF nativeClose, sqlite3_close, Thrown
      <4>. QED
        BY <2>2, <4>1 DEF Close, LostHandles
    <3>. QED
      BY <3>2, <3>3
  <2>3. CASE UNCHANGED <<handles, connPtr>>
    BY <2>3 DEF LostHandles
  <2>4. UNCHANGED <<handles, connPtr>> \/ Open \/ Close
    BY <1>1 DEF Next, Call, Crash, Prepare, nativePrepareStatement, Describe, DescribeThrows,
           DescribeFails, nativeFinalizeStatement, Bind, BindOne, nativeBind, Step,
           ExecuteBegins, ExecuteNull, StepEnds, ExecuteReturns, Release, unmoved, vars,
           nativeVars, sqliteVars
  <2>. QED
    BY <2>1, <2>2, <2>3, <2>4
<1>. QED
  BY <1>1, AddressesAreRight, PTL DEF Spec, OnlyOpenLosesHandles

------------------------------------------------------------------------------
(* What a call inserts.  The properties speak of a call that is over; what  *)
(* holds until then is a story of its statement: compiled from its SQL,     *)
(* bound one argument after the other, and run once all of them are.        *)

Bound == stmts[stmtPtr].bound
ParameterCount == nativeGetParameterCount(stmtPtr)

\* The call's statement is of its SQL, and is null only if that holds none.
StatementStory ==
    pc \notin WithoutStatement =>
        IF stmtPtr = Null THEN sql = "blank" ELSE stmts[stmtPtr].sql = sql

\* Until the statement is stepped it can be bound, and all that is bound are
\* the arguments so far; when it is stepped that is all of them.
BindingStory ==
    /\ pc \in {"prepare", "describe"} => next = 1
    /\ stmtPtr # Null =>
         /\ pc \in {"describe", "bind", "step"} => stmts[stmtPtr].pc = "ready"
         /\ pc \in {"describe", "bind"} => Bound = 1 .. (next - 1) /\ next <= ParameterCount + 1
         /\ pc \in {"step", "stepping"} => Bound = Parameters(sql)

\* Until the step returns, nothing is inserted and nothing was thrown.
StepStory ==
    /\ pc \in {"prepare", "describe", "bind", "step", "stepping"} =>
         inserted = 0 /\ exception = NoException
    /\ pc = "stepping" => running.method = nativeMethod

\* After it, one INSERT was done or something thrown, and the value tells which.
ResultStory ==
    /\ inserted # 0 /\ stmtPtr # Null => Bound = Parameters(sql)
    /\ pc \in {"release", "idle"} /\ sql = "insert" => (exception = NoException <=> inserted # 0)
    /\ pc \in {"release", "idle"} /\ sql \in {"insert", "insertNone"}
         /\ method = "executeForLastInsertedRowId" /\ exception = NoException =>
           value = IF inserted = 0 THEN NoValue ELSE inserted

StoryInv == StatementStory /\ BindingStory /\ StepStory /\ ResultStory

\* The parameters of a statement are numbered from 1.
LEMMA ParametersNumbered ==
  stmtPtr # Null =>
    /\ ParameterCount \in 0 .. NumParameters
    /\ Parameters(stmts[stmtPtr].sql) = 1 .. ParameterCount
<1> SUFFICES ASSUME stmtPtr # Null
             PROVE  /\ ParameterCount \in 0 .. NumParameters
                    /\ Parameters(stmts[stmtPtr].sql) = 1 .. ParameterCount
  OBVIOUS
<1>1. ParameterCount = Cardinality(Parameters(stmts[stmtPtr].sql))
  BY DEF ParameterCount, nativeGetParameterCount, sqlite3_bind_parameter_count
<1>2. CASE Parameters(stmts[stmtPtr].sql) = {}
  <2>1. ParameterCount = 0
    BY <1>1, <1>2, FS_EmptySet
  <2>2. 1 .. 0 = {}
    OBVIOUS
  <2>. QED
    BY <1>2, <2>1, <2>2, NumParametersAssumption
<1>3. CASE Parameters(stmts[stmtPtr].sql) = 1 .. NumParameters
  <2>1. NumParameters \in Int /\ 1 \in Int /\ NumParameters >= 1
    BY NumParametersAssumption
  <2>2. Cardinality(1 .. NumParameters) = NumParameters
    BY <2>1, FS_Interval
  <2>. QED
    BY <1>1, <1>3, <2>1, <2>2
<1>. QED
  BY <1>2, <1>3 DEF Parameters

\* A call that ends with an exception before its step inserted nothing.
LEMMA StoryEnds ==
  ASSUME pc' \in {"idle", "release"}, inserted' = 0, exception' # NoException,
         \/ pc' = "idle"
         \/ UNCHANGED <<stmts, stmtPtr, sql>> /\ pc \notin WithoutStatement,
         StoryInv
  PROVE  StoryInv'
  BY DEF StoryInv, StatementStory, WithoutStatement, BindingStory, StepStory, ResultStory

\* The story begins with the call, and goes on with a statement of its SQL.
LEMMA PrepareStory ==
  ASSUME HeldInv, StoryInv, Prepare PROVE StoryInv'
<1>1. pc = "prepare" /\ next = 1 /\ UNCHANGED <<method, sql, next, value, inserted>>
      /\ inserted = 0 /\ exception' = outcome'.thrown
  BY DEF Prepare, Rethrow, StoryInv, BindingStory, StepStory
<1>2. PICK code \in sqlite3_prepare16_v2_results(sql) :
         /\ sqlite3_prepare16_v2(connPtr, sql, code)
         /\ Leaves(code, IF code = SQLITE_OK THEN NoException ELSE ThrownFor(db'[connPtr].errcode),
                   IF Len(stmts') > Len(stmts) THEN Len(stmts') ELSE Null)
  BY DEF Prepare, nativePrepareStatement
<1>3. CASE code # SQLITE_OK
  <2>1. outcome'.thrown # NoException
    BY <1>2, <1>3, LeavesThrown, ThrownHasAClass DEF ThrownFor, Error, NoException
  <2>2. pc' = "idle" /\ exception' # NoException /\ inserted' = 0
    BY <1>1, <2>1 DEF Prepare, Thrown
  <2>. QED
    BY <2>2 DEF StoryInv, StatementStory, WithoutStatement, BindingStory, StepStory, ResultStory
<1>4. CASE code = SQLITE_OK
  <2>1. /\ outcome'.thrown = NoException
        /\ outcome'.value = IF Len(stmts') > Len(stmts) THEN Len(stmts') ELSE Null
    BY <1>2, <1>4, LeavesThrown
  <2>2. pc' = "describe" /\ exception' = NoException /\ stmtPtr' = outcome'.value
    BY <1>1, <2>1 DEF Prepare, Thrown
  <2>3. CASE sql = "blank"
    <3>1. stmtPtr' = Null
      BY <1>2, <2>1, <2>2, <2>3, Addresses DEF sqlite3_prepare16_v2
    <3>. QED
      BY <1>1, <2>2, <2>3, <3>1
         DEF StoryInv, StatementStory, WithoutStatement, BindingStory, StepStory, ResultStory
  <2>4. CASE sql # "blank"
    <3>1. PICK e : /\ stmts' = Append(stmts, e)
                   /\ e.sql = sql /\ e.pc = "ready" /\ e.bound = {}
      BY <1>2, <1>4, <2>4 DEF sqlite3_prepare16_v2
    <3>2. /\ Len(stmts') = Len(stmts) + 1 /\ Len(stmts) \in Nat
          /\ stmts'[Len(stmts')] = e
      BY <3>1, Addresses
    <3>3. stmtPtr' = Len(stmts') /\ stmtPtr' # Null
      BY <2>1, <2>2, <3>2 DEF Null
    <3>4. ParameterCount' \in 0 .. NumParameters
      <4>1. (stmtPtr # Null => ParameterCount \in 0 .. NumParameters)'
        BY ParametersNumbered, PTL
      <4>. QED
        BY <3>3, <4>1
    <3>5. Bound' = {} /\ 1 .. 0 = {}
      BY <3>1, <3>2, <3>3 DEF Bound
    <3>6. BindingStory'
      <4>1. next' = 1 /\ next' - 1 = 0
        BY <1>1
      <4>2. Bound' = 1 .. (next' - 1)
        BY <3>5, <4>1
      <4>3. next' <= ParameterCount' + 1
        <5>1. PICK n \in 0 .. NumParameters : n = ParameterCount'
          BY <3>4
        <5>2. n >= 0
          BY NumParametersAssumption
        <5>3. 1 <= n + 1
          BY <5>2, NumParametersAssumption
        <5>. QED
          BY <4>1, <5>1, <5>3
      <4>. QED
        BY <1>1, <2>2, <3>1, <3>2, <3>3, <4>2, <4>3 DEF BindingStory
    <3>. QED
      BY <1>1, <2>2, <3>1, <3>2, <3>3, <3>6
         DEF StoryInv, StatementStory, WithoutStatement, StepStory, ResultStory
  <2>. QED
    BY <2>3, <2>4
<1>. QED
  BY <1>3, <1>4

\* The statement is described, or given up.
LEMMA DescribeStory ==
  ASSUME StoryInv, Describe PROVE StoryInv'
<1>1. pc = "describe" /\ inserted = 0 /\ exception = NoException /\ next = 1
      /\ UNCHANGED <<method, sql, next, value, inserted>>
  BY DEF Describe, StoryInv, BindingStory, StepStory
<1>2. CASE pc' = "bind" /\ UNCHANGED <<nativeVars, stmtPtr, exception, leaked>>
  <2>1. UNCHANGED <<stmts, running>>
    BY <1>2 DEF nativeVars, sqliteVars
  <2>2. Bound' = Bound /\ ParameterCount' = ParameterCount
    BY <1>2, <2>1 DEF Bound, ParameterCount, nativeGetParameterCount, sqlite3_bind_parameter_count
  <2>. QED
    BY <1>1, <1>2, <2>1, <2>2
       DEF StoryInv, StatementStory, WithoutStatement, BindingStory, StepStory, ResultStory
<1>3. CASE (DescribeThrows \/ DescribeFails) /\ pc' = "idle"
  <2>1. exception' # NoException
    BY <1>3 DEF DescribeThrows, DescribeFails, Raise, Error, NoException
  <2>. QED
    BY <1>1, <1>3, <2>1, StoryEnds
<1>. QED
  BY <1>2, <1>3 DEF Describe

\* The parameter count of a statement is that of its SQL.
LEMMA SameCount ==
  ASSUME UNCHANGED stmtPtr, stmtPtr # Null => stmts'[stmtPtr].sql = stmts[stmtPtr].sql
  PROVE  ParameterCount' = ParameterCount
  BY DEF ParameterCount, nativeGetParameterCount, sqlite3_bind_parameter_count

\* One more argument is bound, and told of if it is not; or all of them are.
LEMMA BindStory ==
  ASSUME HeldInv, CallerInv, StoryInv, Bind PROVE StoryInv'
<1>1. /\ pc = "bind" /\ UNCHANGED <<method, sql, stmtPtr, value, inserted>>
      /\ inserted = 0 /\ exception = NoException /\ next \in Nat \ {0}
  BY DEF Bind, StoryInv, StepStory, CallerInv, ArgumentsHeld
<1>2. /\ stmtPtr = Null => sql = "blank"
      /\ stmtPtr # Null =>
           /\ stmts[stmtPtr].sql = sql /\ stmts[stmtPtr].pc = "ready"
           /\ Bound = 1 .. (next - 1) /\ next <= ParameterCount + 1
           /\ ParameterCount \in Nat /\ Parameters(sql) = 1 .. ParameterCount
  BY <1>1, ParametersNumbered, NumParametersAssumption
     DEF StoryInv, StatementStory, WithoutStatement, BindingStory
<1>3. CASE UNCHANGED <<nativeVars, next>> /\ pc' = "release" /\ exception' # NoException
  BY <1>1, <1>3, StoryEnds DEF nativeVars, sqliteVars, WithoutStatement
<1>4. CASE AllBound /\ pc' = "step" /\ UNCHANGED <<nativeVars, next, exception>>
  <2>1. UNCHANGED <<stmts, running>>
    BY <1>4 DEF nativeVars, sqliteVars
  <2>2. stmtPtr # Null => Bound' = Parameters(sql)
    <3> SUFFICES ASSUME stmtPtr # Null PROVE Bound' = Parameters(sql)
      OBVIOUS
    <3>1. PICK n \in Nat : n = ParameterCount
      BY <1>2
    <3>2. next > n /\ next <= n + 1
      BY <1>2, <1>4, <3>1 DEF AllBound, ParameterCount
    <3>3. next - 1 = n
      BY <1>1, <3>2
    <3>. QED
      BY <1>1, <1>2, <2>1, <3>1, <3>3 DEF Bound
  <2>. QED
    BY <1>1, <1>2, <1>4, <2>1, <2>2
       DEF StoryInv, StatementStory, WithoutStatement, BindingStory, StepStory, ResultStory
<1>5. CASE BindOne
  <2>1. ~(next > ParameterCount) /\ stmtPtr # Null
    <3>1. stmtPtr = Null => ParameterCount = 0
      BY DEF ParameterCount, nativeGetParameterCount, sqlite3_bind_parameter_count
    <3>. QED
      BY <1>1, <1>5, <3>1 DEF BindOne, AllBound, ParameterCount
  <2>2. PICK n \in Nat : n = ParameterCount
    BY <1>2, <2>1
  <2>3. next <= n /\ next \in Parameters(sql)
    BY <1>1, <1>2, <2>1, <2>2
  <2>4. PICK code \in sqlite3_bind_results(stmtPtr, next) :
           sqlite3_bind(connPtr, stmtPtr, next, Destructor, code) /\ LeavesResult(connPtr, code)
    BY <1>5 DEF BindOne, nativeBind
  <2>5. /\ stmts \in Seq(StatementShape) /\ stmtPtr \in DOMAIN stmts
        /\ stmts[stmtPtr] \in StatementShape
    <3>1. stmtPtr \in DOMAIN stmts
      BY <1>1, <2>1 DEF CallerInv, StatementHeld, Unfinalized
    <3>. QED
      BY <3>1, Addresses
  <2>6. CASE code # SQLITE_OK
    <3>1. UNCHANGED stmts /\ Thrown
      BY <2>4, <2>6, LeavesThrown DEF sqlite3_bind, Thrown
    <3>2. pc' = "release" /\ exception' # NoException
      BY <1>5, <3>1 DEF BindOne, Rethrow, Thrown
    <3>. QED
      BY <1>1, <3>1, <3>2, StoryEnds DEF WithoutStatement
  <2>7. CASE code = SQLITE_OK
    <3>1. pc' = "bind" /\ next' = next + 1 /\ exception' = NoException
      BY <1>5, <2>4, <2>7, LeavesThrown DEF BindOne, Thrown, Rethrow
    <3>2. stmts' = [stmts EXCEPT ![stmtPtr].bound = @ \cup {next}, ![stmtPtr].borrowed = @ \ {next}]
      BY <2>4, <2>7 DEF sqlite3_bind, Destructor, SQLITE_TRANSIENT, SQLITE_STATIC
    <3>3. /\ stmts'[stmtPtr].sql = sql /\ stmts'[stmtPtr].pc = "ready"
          /\ stmts'[stmtPtr].bound = stmts[stmtPtr].bound \cup {next}
      BY <1>2, <2>1, <2>5, <3>2 DEF StatementShape
    <3>4. Bound' = 1 .. (next' - 1)
      <4>1. 1 .. (next - 1) \cup {next} = 1 .. next
        BY <1>1
      <4>2. next' - 1 = next
        BY <1>1, <3>1
      <4>. QED
        BY <1>1, <1>2, <2>1, <3>3, <4>1, <4>2 DEF Bound
    <3>5. next' <= ParameterCount' + 1
      <4>1. ParameterCount' = n
        BY <1>1, <1>2, <2>1, <2>2, <3>3, SameCount
      <4>2. next + 1 <= n + 1
        BY <1>1, <2>3
      <4>. QED
        BY <3>1, <4>1, <4>2
    <3>. QED
      BY <1>1, <3>1, <3>3, <3>4, <3>5
         DEF StoryInv, StatementStory, WithoutStatement, BindingStory, StepStory, ResultStory
  <2>. QED
    BY <2>6, <2>7
<1>6. \/ UNCHANGED <<nativeVars, next>> /\ pc' = "release" /\ exception' # NoException
      \/ AllBound /\ pc' = "step" /\ UNCHANGED <<nativeVars, next, exception>>
      \/ BindOne
  BY DEF Bind, Raise, NoException
<1>. QED
  BY <1>3, <1>4, <1>5, <1>6

\* The statement is run with all its arguments; no statement is not run.
LEMMA RunStory ==
  ASSUME HeldInv, CallerInv, StoryInv, Step PROVE StoryInv'
<1>1. /\ pc = "step" /\ UNCHANGED <<method, sql, stmtPtr, next, value, inserted>>
      /\ inserted = 0 /\ exception = NoException
      /\ IF stmtPtr = Null THEN sql = "blank"
         ELSE stmts[stmtPtr].sql = sql /\ Bound = Parameters(sql)
  BY DEF Step, StoryInv, StatementStory, BindingStory, StepStory, WithoutStatement
<1>2. CASE stmtPtr = Null
  <2>1. Thrown /\ pc' = "release" /\ exception' # NoException
    <3>1. PICK code : Leaves(code, ThrownFor(db'[connPtr].errcode), NoValue)
      BY <1>2 DEF Step, ExecuteNull
    <3>2. Thrown
      BY <3>1, LeavesThrown, ThrownHasAClass DEF Thrown, ThrownFor, Error, NoException
    <3>. QED
      BY <1>2, <3>2 DEF Step, Rethrow, Thrown
  <2>2. UNCHANGED stmts
    BY <1>2 DEF Step, ExecuteNull
  <2>. QED
    BY <1>1, <2>1, <2>2, StoryEnds DEF WithoutStatement
<1>3. CASE stmtPtr # Null
  <2>1. ExecuteBegins(nativeMethod, stmtPtr) /\ pc' = "stepping" /\ UNCHANGED exception
    BY <1>3 DEF Step
  <2>2. /\ stmts \in Seq(StatementShape) /\ stmtPtr \in DOMAIN stmts
        /\ stmts[stmtPtr] \in StatementShape
    <3>1. stmtPtr \in DOMAIN stmts
      BY <1>1, <1>3 DEF CallerInv, StatementHeld, Unfinalized
    <3>. QED
      BY <3>1, Addresses
  <2>3. /\ stmts'[stmtPtr].sql = stmts[stmtPtr].sql /\ stmts'[stmtPtr].bound = stmts[stmtPtr].bound
        /\ running'.method = nativeMethod
    BY <2>1, <2>2 DEF ExecuteBegins, StepBegins, StatementShape
  <2>4. nativeMethod' = nativeMethod
    BY <1>1 DEF nativeMethod
  <2>. QED
    BY <1>1, <1>3, <2>1, <2>3, <2>4
       DEF StoryInv, StatementStory, WithoutStatement, BindingStory, StepStory, ResultStory, Bound
<1>. QED
  BY <1>2, <1>3

\* A method that is no query throws unless its step was the last, and what an
\* INSERT counts is there to be asked for.
LEMMA NonQueryLeft ==
  ASSUME HeldInv, NEW s \in DOMAIN stmts, NEW h \in Handles, stmts[s].handle = h,
         NEW code, StepLeft(s, h, code), running.method \in NonQueries
  PROVE  /\ code = SQLITE_DONE <=> outcome'.thrown = NoException
         /\ rowIds' = IF code = SQLITE_DONE /\ stmts[s].sql = "insert" THEN rowIds + 1 ELSE rowIds
         /\ stmts'[s].sql = stmts[s].sql /\ stmts'[s].bound = stmts[s].bound
         /\ code = SQLITE_DONE /\ running.method = "nativeExecuteForLastInsertedRowId" =>
              /\ stmts[s].sql = "insert" => outcome'.value = rowIds'
              /\ stmts[s].sql = "insertNone" => outcome'.value = NoValue
<1>1. /\ stmts \in Seq(StatementShape) /\ stmts[s] \in StatementShape
      /\ db \in [Handles -> ConnectionShape] /\ db[h] \in ConnectionShape
  BY DEF HeldInv, Shape
<1>2. StepReturns(s, code)
  BY DEF StepLeft
<1>3. PICK value_ \in ExecuteValues(running.method, h, s, code) :
         Leaves(code, ExecuteThrows(running.method, h, code), value_)
  BY DEF StepLeft, NonQueries
<1>4. code = SQLITE_DONE <=> outcome'.thrown = NoException
  <2>1. SQLITE_DONE # SQLITE_ROW
    BY DEF SQLITE_DONE, SQLITE_ROW
  <2>2. CASE code = SQLITE_DONE
    <3>1. ExecuteThrows(running.method, h, code) = NoException
      BY <2>1, <2>2 DEF ExecuteThrows, NonQueries, OneRowQueries
    <3>. QED
      BY <1>3, <2>2, <3>1, LeavesThrown
  <2>3. CASE code # SQLITE_DONE
    <3>1. \E errcode : ExecuteThrows(running.method, h, code) = ExceptionClass(errcode)
      BY <2>3 DEF ExecuteThrows, NonQueries, OneRowQueries, ThrownFor, ThrownWithoutHandle
    <3>2. ExecuteThrows(running.method, h, code) # NoException /\ Error # NoException
      BY <3>1, ThrownHasAClass DEF Error, NoException
    <3>. QED
      BY <1>3, <2>3, <3>2, LeavesThrown
  <2>. QED
    BY <2>2, <2>3
<1>5. rowIds' = IF code = SQLITE_DONE /\ stmts[s].sql = "insert" THEN rowIds + 1 ELSE rowIds
  BY <1>2 DEF StepReturns
<1>6. stmts'[s].sql = stmts[s].sql /\ stmts'[s].bound = stmts[s].bound
  BY <1>1, <1>2 DEF StepReturns, StatementShape
<1>7. ASSUME code = SQLITE_DONE, running.method = "nativeExecuteForLastInsertedRowId"
      PROVE  /\ stmts[s].sql = "insert" => outcome'.value = rowIds'
             /\ stmts[s].sql = "insertNone" => outcome'.value = NoValue
  <2>1. outcome'.value =
          IF db'[h].changes > 0 THEN db'[h].lastRowId ELSE NoValue
    BY <1>3, <1>7, LeavesThrown
       DEF ExecuteValues, LastInsertedRowId, sqlite3_changes, sqlite3_last_insert_rowid
  <2>2. CASE stmts[s].sql = "insert"
    <3>1. db' = [db EXCEPT ![h].errcode = code, ![h].lastRowId = rowIds', ![h].changes = 1]
      BY <1>1, <1>2, <1>7, <2>2 DEF StepReturns, ConnectionShape
    <3>2. db'[h].changes = 1 /\ db'[h].lastRowId = rowIds'
      BY <1>1, <3>1 DEF ConnectionShape
    <3>. QED
      BY <2>1, <2>2, <3>2
  <2>3. CASE stmts[s].sql = "insertNone"
    <3>1. PICK id : db' = [db EXCEPT ![h].errcode = code, ![h].lastRowId = id, ![h].changes = 0]
      BY <1>1, <1>2, <1>7, <2>3 DEF StepReturns, ConnectionShape
    <3>2. db'[h].changes = 0
      BY <1>1, <3>1 DEF ConnectionShape
    <3>. QED
      BY <2>1, <2>3, <3>2
  <2>. QED
    BY <2>2, <2>3
<1>. QED
  BY <1>4, <1>5, <1>6, <1>7

\* The step returns, and the method knows what became of it.
LEMMA StepEndsStory ==
  ASSUME HeldInv, CallerInv, StoryInv, StepEnds PROVE StoryInv'
<1>1. /\ pc = "stepping" /\ pc' = "release" /\ UNCHANGED <<method, sql, stmtPtr, next>>
      /\ ExecuteReturns /\ running.stmt = stmtPtr /\ running.method = nativeMethod
      /\ connPtr \in wrappers /\ stmtPtr \in Unfinalized(connPtr) \cup {Null}
  BY DEF StepEnds, StoryInv, StepStory, CallerInv, ConnectionHeld, StatementHeld, StepHeld,
         WithoutStatement
<1>2. /\ stmtPtr \in DOMAIN stmts /\ stmtPtr # Null
      /\ stmts[stmtPtr].sql = sql /\ Bound = Parameters(sql)
  <2>1. stmtPtr \in DOMAIN stmts
    BY <1>1, StepIsLeft
  <2>2. stmtPtr # Null
    BY <2>1, Addresses DEF Null
  <2>. QED
    BY <1>1, <2>1, <2>2 DEF StoryInv, StatementStory, WithoutStatement, BindingStory
<1>3. PICK h : h = stmts[stmtPtr].handle
  OBVIOUS
<1>4. h \in Handles /\ (\E code : StepLeft(stmtPtr, h, code))
  BY <1>1, <1>3, StepIsLeft, Addresses
<1>5. PICK code : StepLeft(stmtPtr, h, code)
  BY <1>4
<1>6. /\ code = SQLITE_DONE <=> outcome'.thrown = NoException
      /\ rowIds' = IF code = SQLITE_DONE /\ sql = "insert" THEN rowIds + 1 ELSE rowIds
      /\ stmts'[stmtPtr].sql = sql /\ stmts'[stmtPtr].bound = Parameters(sql)
      /\ code = SQLITE_DONE /\ method = "executeForLastInsertedRowId" =>
           /\ sql = "insert" => outcome'.value = rowIds'
           /\ sql = "insertNone" => outcome'.value = NoValue
  <2>1. /\ running.method \in NonQueries
        /\ method = "executeForLastInsertedRowId" =>
             running.method = "nativeExecuteForLastInsertedRowId"
    BY <1>1 DEF nativeMethod, NonQueries
  <2>. QED
    BY <1>2, <1>3, <1>4, <1>5, <2>1, NonQueryLeft DEF Bound
<1>7. rowIds \in Nat
  BY DEF HeldInv, Shape
<1>8. /\ exception' = outcome'.thrown
      /\ value' = IF outcome'.thrown # NoException THEN NoValue ELSE outcome'.value
      /\ inserted' = IF rowIds' = rowIds THEN 0 ELSE rowIds'
  BY DEF StepEnds, Rethrow, Thrown
<1>9. inserted' = IF exception' = NoException /\ sql = "insert" THEN rowIds' ELSE 0
  BY <1>6, <1>7, <1>8
<1>10. inserted' # 0 <=> exception' = NoException /\ sql = "insert"
  BY <1>6, <1>7, <1>8, <1>9
<1>11. exception' = NoException /\ method = "executeForLastInsertedRowId"
         /\ sql \in {"insert", "insertNone"} =>
           value' = IF inserted' = 0 THEN NoValue ELSE inserted'
  BY <1>6, <1>8, <1>9, <1>10
<1>. QED
  BY <1>1, <1>2, <1>6, <1>10, <1>11
     DEF StoryInv, StatementStory, WithoutStatement, BindingStory, StepStory, ResultStory, Bound

\* The story of every step.
LEMMA StoryStep ==
  ASSUME HeldInv, CallerInv, StoryInv, [Next]_vars PROVE StoryInv'
<1>1. CASE Open \/ Close
  BY <1>1 DEF Open, Close, NoCall, StoryInv, StatementStory, BindingStory, StepStory, ResultStory,
              WithoutStatement
<1>2. ASSUME NEW m, NEW text, Call(m, text) PROVE StoryInv'
  BY <1>2 DEF Call, StoryInv, StatementStory, BindingStory, StepStory, ResultStory, nativeVars,
         sqliteVars, WithoutStatement
<1>3. CASE Release
  BY <1>3 DEF Release, StoryInv, StatementStory, BindingStory, StepStory, ResultStory,
              WithoutStatement
<1>4. CASE UNCHANGED vars
  <2>1. UNCHANGED <<connPtr, calls, pc, method, sql, stmtPtr, next, exception, value, inserted,
                    stmts, running>>
    BY <1>4 DEF vars, callVars, nativeVars, sqliteVars
  <2>2. Bound' = Bound /\ ParameterCount' = ParameterCount /\ nativeMethod' = nativeMethod
    BY <2>1, SameCount DEF Bound, nativeMethod
  <2>. QED
    BY <2>1, <2>2
       DEF StoryInv, StatementStory, WithoutStatement, BindingStory, StepStory, ResultStory
<1>5. CASE Crash
  BY <1>5 DEF Crash, StoryInv, StatementStory, BindingStory, StepStory, ResultStory,
              WithoutStatement, CallerInv, StatementHeld, callVars
<1>. QED
  BY <1>1, <1>2, <1>3, <1>4, <1>5, PrepareStory, DescribeStory, BindStory, RunStory, StepEndsStory
     DEF Next

LEMMA StoriesHold == Spec => []StoryInv
<1>1. Init => StoryInv
  BY DEF Init, StoryInv, StatementStory, BindingStory, StepStory, ResultStory, WithoutStatement
<1>2. AddressInv /\ StoryInv /\ [Next]_vars => StoryInv'
  BY StoryStep DEF AddressInv
<1>. QED
  BY <1>1, <1>2, AddressesAreRight, PTL DEF Spec

\* In every execution, an INSERT called through execute or
\* executeForLastInsertedRowId inserted its row exactly if no exception left
\* the call, the exceptions of the finally block's native calls included; and
\* its row has every argument, whichever bind failed in which call.
THEOREM InsertsOrThrows == Spec => []ThrewOrInserted
<1>1. StoryInv => ThrewOrInserted
  BY DEF StoryInv, ResultStory, ThrewOrInserted, Bound
<1>. QED
  BY <1>1, StoriesHold, PTL

\* In every execution, executeForLastInsertedRowId returns for an INSERT the id
\* of the row that very call inserted, or -1 if it inserted none, although
\* nativeExecuteForLastInsertedRowId reads two counters of the connection.
THEOREM ReturnsItsRowId == Spec => []InsertReturnsItsRowId
<1>1. StoryInv => InsertReturnsItsRowId
  BY DEF StoryInv, ResultStory, InsertReturnsItsRowId
<1>. QED
  BY <1>1, StoriesHold, PTL

------------------------------------------------------------------------------
(* Types.  The argument bound next stays within the parameters there can   *)
(* be.                                                                     *)

CallBounds ==
    /\ calls \in 0 .. MaxCalls /\ method \in Methods
    /\ pc \in {"idle", "prepare", "describe", "bind", "step", "stepping", "release", "dead"}
    /\ next \in 1 .. NumParameters + 1
    /\ opened \in BOOLEAN

ResultBounds ==
    /\ exception \in ExceptionClasses \cup {NoException, Error, "RuntimeException"}
    /\ value \in -1 .. MaxRowIds
    /\ inserted \in 0 .. MaxRowIds

\* The exception of a wrong number of arguments is one of the classes.
LEMMA RangeIsAClass ==
  "SQLiteBindOrColumnIndexOutOfRangeException" \in ExceptionClasses
<1> DEFINE class == "SQLiteBindOrColumnIndexOutOfRangeException"
<1>1. <<SQLITE_RANGE, class>> \in SwitchCases
  BY DEF SwitchCases
<1>2. \A case \in SwitchCases : case[1] = SQLITE_RANGE => case[2] = class
  BY DEF SwitchCases, SQLITE_IOERR, SQLITE_CORRUPT, SQLITE_NOTADB, SQLITE_CONSTRAINT,
         SQLITE_ABORT, SQLITE_DONE, SQLITE_FULL, SQLITE_MISUSE, SQLITE_PERM, SQLITE_BUSY,
         SQLITE_LOCKED, SQLITE_READONLY, SQLITE_CANTOPEN, SQLITE_TOOBIG, SQLITE_RANGE,
         SQLITE_NOMEM, SQLITE_MISMATCH, SQLITE_INTERRUPT
<1> HIDE DEF class
<1>3. \E case \in SwitchCases : case[1] = SQLITE_RANGE
  BY <1>1
<1>4. SQLITE_RANGE \in DOMAIN NamedExceptions /\ NamedExceptions[SQLITE_RANGE] = class
  BY <1>2, <1>3 DEF NamedExceptions
<1>. QED
  BY <1>4 DEF ExceptionClasses, class

\* Every step keeps what a call is at within its bounds.
LEMMA CallBoundsStep ==
  ASSUME HeldInv, CallBounds, [Next]_vars PROVE CallBounds'
<1>1. CASE Open \/ Close
  BY <1>1 DEF Open, Close, NoCall, CallBounds, Methods
<1>2. ASSUME NEW m \in Methods, NEW text, Call(m, text) PROVE CallBounds'
  <2>1. calls' \in 0 .. MaxCalls
    BY <1>2, MaxCallsAssumption DEF Call, CallBounds
  <2>2. next' \in 1 .. NumParameters + 1
    BY <1>2, NumParametersAssumption DEF Call
  <2>. QED
    BY <1>2, <2>1, <2>2 DEF Call, CallBounds
<1>3. CASE Prepare
  BY <1>3 DEF Prepare, CallBounds
<1>4. CASE Describe
  BY <1>4 DEF Describe, CallBounds
<1>5. CASE Bind
  <2>1. next' \in 1 .. NumParameters + 1
    <3>1. CASE BindOne
      <4>1. PICK n \in 0 .. NumParameters : n = nativeGetParameterCount(stmtPtr)
        BY ParametersBounded
      <4>2. next \in Nat \ {0} /\ ~(next > n) /\ next' \in {next, next + 1}
        BY <3>1, <4>1, NumParametersAssumption DEF BindOne, AllBound, CallBounds
      <4>. QED
        BY <4>2, NumParametersAssumption
    <3>2. CASE UNCHANGED next
      BY <3>2 DEF CallBounds
    <3>. QED
      BY <1>5, <3>1, <3>2 DEF Bind
  <2>2. pc = "bind" /\ pc' \in {"bind", "step", "release"} /\ UNCHANGED <<calls, method, opened>>
    BY <1>5 DEF Bind, BindOne
  <2>. QED
    BY <2>1, <2>2 DEF CallBounds
<1>6. CASE Step \/ StepEnds
  <2>1. pc' \in {"stepping", "release"} /\ UNCHANGED <<calls, method, next, opened>>
    BY <1>6 DEF Step, StepEnds
  <2>. QED
    BY <2>1 DEF CallBounds
<1>7. CASE Release
  BY <1>7 DEF Release, CallBounds
<1>8. CASE UNCHANGED vars
  BY <1>8 DEF vars, callVars, CallBounds
<1>9. CASE Crash
  BY <1>9 DEF Crash, callVars, CallBounds
<1>. QED
  BY <1>1, <1>2, <1>3, <1>4, <1>5, <1>6, <1>7, <1>8, <1>9 DEF Next

\* So does every step with the exception, the value and the row id of a call.
LEMMA ResultBoundsStep ==
  ASSUME HeldInv, CallerInv, StoryInv, ResultBounds, HeldInv', RowIdsBound', ThrownShape',
         [Next]_vars
  PROVE  ResultBounds'
<1> DEFINE Exceptions == ExceptionClasses \cup {NoException, Error, "RuntimeException"}
<1>1. outcome'.thrown \in Exceptions /\ rowIds' \in 0 .. MaxRowIds
  BY MaxRowIdsAssumption DEF ThrownShape, RowIdsBound, HeldInv, Shape
<1>2. NoValue \in -1 .. MaxRowIds /\ 0 \in 0 .. MaxRowIds
  BY MaxRowIdsAssumption DEF NoValue
<1>3. "SQLiteBindOrColumnIndexOutOfRangeException" \in Exceptions
  BY RangeIsAClass
<1>4. NoException \in Exceptions /\ Error \in Exceptions /\ "RuntimeException" \in Exceptions
  OBVIOUS
<1> HIDE DEF Exceptions
<1>5. exception \in Exceptions /\ value \in -1 .. MaxRowIds /\ inserted \in 0 .. MaxRowIds
  BY DEF ResultBounds, Exceptions
<1>6. exception' \in Exceptions
  <2>1. ASSUME NEW m, NEW text, Call(m, text) PROVE exception' \in Exceptions
    BY <1>4, <2>1 DEF Call
  <2>2. CASE Describe
    BY <1>4, <1>5, <2>2 DEF Describe, DescribeThrows, DescribeFails, Raise
  <2>3. CASE Bind
    BY <1>1, <1>3, <1>4, <1>5, <2>3 DEF Bind, BindOne, Raise, Rethrow
  <2>4. CASE Open \/ Close \/ Prepare \/ StepEnds
    BY <1>1, <2>4 DEF Open, Close, NoCall, Prepare, StepEnds, Rethrow
  <2>5. CASE Crash \/ Step \/ Release \/ UNCHANGED vars
    BY <1>1, <1>5, <2>5 DEF Crash, Step, Release, Rethrow, vars, callVars
  <2>. QED
    BY <2>1, <2>2, <2>3, <2>4, <2>5 DEF Next
<1>7. value' \in -1 .. MaxRowIds /\ inserted' \in 0 .. MaxRowIds
  <2>1. CASE StepEnds
    <3>1. inserted' \in 0 .. MaxRowIds
      BY <1>1, <1>2, <2>1 DEF StepEnds
    <3>2. /\ ExecuteReturns /\ running.method = nativeMethod
          /\ value' = IF Thrown THEN NoValue ELSE outcome'.value
      BY <2>1 DEF StepEnds, StoryInv, StepStory
    <3>3. PICK s, h : s = running.stmt /\ h = stmts[s].handle
      OBVIOUS
    <3>4. h \in Handles /\ \E code : StepLeft(s, h, code)
      BY <3>2, <3>3, StepIsLeft, Addresses
    <3>5. PICK code : StepLeft(s, h, code)
      BY <3>4
    <3>6. nativeMethod \in {"nativeExecute", "nativeExecuteForLastInsertedRowId"}
      BY DEF nativeMethod
    <3>7. PICK value_ \in ExecuteValues(nativeMethod, h, s, code) : outcome'.value = value_
      BY <3>2, <3>5, <3>6, LeavesThrown DEF StepLeft
    <3>8. value_ \in {NoValue, db'[h].lastRowId}
      BY <3>6, <3>7 DEF ExecuteValues, LastInsertedRowId, sqlite3_last_insert_rowid
    <3>9. db'[h].lastRowId \in -1 .. MaxRowIds
      <4>1. db'[h] \in ConnectionShape /\ db'[h].lastRowId <= MaxRowIds
        BY <3>4 DEF HeldInv, Shape, RowIdsBound, ConnectionShape, Handles, Codes
      <4>2. db'[h].lastRowId \in Nat
        BY <4>1 DEF ConnectionShape
      <4>. QED
        BY <4>1, <4>2, MaxRowIdsAssumption
    <3>. QED
      BY <1>2, <3>1, <3>2, <3>7, <3>8, <3>9
  <2>2. CASE UNCHANGED <<value, inserted>>
    BY <1>5, <2>2
  <2>3. CASE value' = NoValue /\ inserted' = 0
    BY <1>2, <2>3
  <2>. QED
    BY <2>1, <2>2, <2>3
       DEF Next, Open, Close, NoCall, Call, Crash, Prepare, Describe, Bind, Step, Release,
           vars, callVars
<1>. QED
  BY <1>6, <1>7 DEF ResultBounds, Exceptions

\* In every execution, the variables of the Java class and of the native
\* library under it have their types: mConnectionPtr is null or one of the
\* connections', statements, rows and row ids stay within their bounds, and what
\* is thrown is one of the exceptions there are.
THEOREM ConnectionTypes == Spec => []TypeOK
<1> DEFINE Types == BoundsInv /\ CallBounds /\ ResultBounds
<1>1. Init => Types
  <2>1. Init => BoundsInv
    BY MaxStatementsAssumption, MaxRowIdsAssumption
       DEF Init, NativeInit, SQLiteInit, BoundsInv, StatementsBound, RowIdsBound,
           RunningShape, ThrownShape
  <2>2. 0 \in 0 .. MaxCalls /\ 1 \in 1 .. NumParameters + 1 /\ -1 \in -1 .. MaxRowIds
        /\ 0 \in 0 .. MaxRowIds
    BY MaxCallsAssumption, NumParametersAssumption, MaxRowIdsAssumption
  <2>. QED
    BY <2>1, <2>2 DEF Init, CallBounds, ResultBounds, NoValue, Methods
<1>2. AddressInv /\ AddressInv' /\ StoryInv /\ Types /\ [Next]_vars => Types'
  <2> SUFFICES ASSUME AddressInv, AddressInv', StoryInv, Types, [Next]_vars PROVE Types'
    OBVIOUS
  <2>1. HeldInv /\ CallerInv /\ HeldInv' /\ [NativeNext]_nativeVars
    BY NextIsLegal DEF AddressInv, LegalStep
  <2>2. BoundsInv'
    BY <2>1, BoundsStep
  <2>3. RowIdsBound' /\ ThrownShape'
    BY <2>2 DEF BoundsInv
  <2>. QED
    BY <2>1, <2>2, <2>3, CallBoundsStep, ResultBoundsStep
<1>3. AddressInv /\ Types => TypeOK
  <2> SUFFICES ASSUME AddressInv, Types PROVE TypeOK
    OBVIOUS
  <2>1. NativeTypeOK
    BY BoundsSuffice DEF AddressInv
  <2>2. DOMAIN stmts \subseteq 1 .. MaxStatements /\ Null \in 0 .. MaxStatements
        /\ 1 .. MaxStatements \subseteq 0 .. MaxStatements
    BY MaxStatementsAssumption
       DEF AddressInv, HeldInv, Shape, BoundsInv, StatementsBound, Null
  <2>3. stmtPtr \in 0 .. MaxStatements
    BY <2>2 DEF AddressInv, CallerInv, StatementHeld, Unfinalized
  <2>4. connPtr \in Handles \cup {Null} /\ leaked \subseteq 1 .. MaxStatements
    BY <2>2, Addresses DEF AddressInv, CallerInv, ConnectionHeld, ScopedInv
  <2>. QED
    BY <2>1, <2>3, <2>4 DEF TypeOK, CallBounds, ResultBounds
<1>. QED
  BY <1>1, <1>2, <1>3, AddressesAreRight, StoriesHold, PTL DEF Spec

------------------------------------------------------------------------------
(* The class and its native methods together.                               *)

\* What the native methods promise a legal caller, NativeSQLiteConnection.java
\* is given: no callback reads a struct that close deleted and no statement a
\* string that nativeBind gave back, and what execute, executeForLastInserted-
\* RowId, open and close throw is of the code their SQLite call failed with.
THEOREM NativePromisesReachJava == Spec => []HeldDataIsAlive /\ []FailureOfTheCall
<1>1. Spec => NativeSpec
  BY JavaCallsLegally DEF LegalCaller
<1>. QED
  BY <1>1, HeldDataStaysAlive, FailureIsTold
==============================================================================
