---------------------------- MODULE BenchmarkPass ----------------------------
(***************************************************************************)
(* The passes inside doInBackground: for every adapter of BENCHMARKS,      *)
(* PASSES times init, saveEntitiesInTransaction, clearCache, loadEntities  *)
(* and dispose, against the SQLite files the seven adapters keep.          *)
(*                                                                         *)
(* What a pass must measure is its own rows, read back from its own file.  *)
(* What can spoil it outlives a pass: the file, which nobody deletes in a  *)
(* process that dies; connections and entity caches; and the static        *)
(* singletons (DatabaseHelper.instance, ActiveAndroid's Cache, the content *)
(* provider's helper), which keep an earlier pass's database if they are   *)
(* not reset.  A file deleted while open lives on for those who opened it, *)
(* so files are numbered and path[d] says which one the name leads to.     *)
(*                                                                         *)
(* The database libraries are not in the repository: their part is modelled *)
(* from how the adapters use it.                                           *)
(***************************************************************************)
EXTENDS Naturals, Sequences, FiniteSets

CONSTANTS
    PASSES,          \* passes of one adapter in one run (5)
    ENTITIES_COUNT,  \* entities saved in one pass (1000)
    MaxRuns          \* bound: runs over all processes

ASSUME PASSESAssumption == PASSES \in Nat \ {0}
ASSUME ENTITIES_COUNTAssumption == ENTITIES_COUNT \in Nat \ {0}
ASSUME MaxRunsAssumption == MaxRuns \in Nat

BENCHMARKS == <<"NoOrm", "GreenDao", "OrmLite", "ActiveAndroid",
                "ActiveAndroidSebbia", "SugarOrm", "GenericDao">>
Adapters == {BENCHMARKS[i] : i \in DOMAIN BENCHMARKS}

MaxPasses == MaxRuns * Len(BENCHMARKS) * PASSES
Files == 1 .. MaxPasses    \* a file has the number of the pass that created it
NoFile == 0                \* a path with no file
NoDb == 0                  \* no database opened
Entities == 1 .. ENTITIES_COUNT
Rows == [pass : Files, entity : Entities]

VARIABLES
    run,        \* how many runs were begun
    at,         \* the adapter's position in BENCHMARKS
    pass,       \* the pass of the adapter
    pc,         \* the call doInBackground is in; "over": no run; "dead": no process
    no,         \* history: passes begun over all runs, the number of the current one
    diedAt,     \* history: the number of the pass in which a process last died
    path,       \* path[d]: the file the adapter's database name leads to
    rows,       \* rows[f]: what is committed in file f
    noTable,    \* the files whose onCreate failed to create the table
    open,       \* open[d]: the files the adapter's library has connections to
    db,         \* db[d]: the database the adapter's fields lead to
    singleton,  \* singleton[d]: a static helper or flag says "initialized"
    cached,     \* cached[d]: rows the library's entity cache has objects for
    tx,         \* rows inserted in the open transaction
    nextEntity, \* the save loop
    loaded,     \* rows of the list loadEntities returned
    fromCache   \* those among them whose objects were in the cache

progressVars == <<run, at, pass, no, diedAt>>
diskVars == <<path, rows, noTable>>
libraryVars == <<open, db, singleton, cached>>
saveVars == <<tx, nextEntity>>
loadVars == <<loaded, fromCache>>
vars == <<progressVars, pc, diskVars, libraryVars, saveVars, loadVars>>

Adapter == BENCHMARKS[at]
OwnRows == [pass : {no}, entity : Entities]
NoConnections == [d \in Adapters |-> {}]

Init ==
    /\ run = 0 /\ at = 1 /\ pass = 1 /\ pc = "over"
    /\ no = 0 /\ diedAt = 0
    /\ path = [d \in Adapters |-> NoFile]
    /\ rows = [f \in Files |-> {}]
    /\ noTable = {}
    /\ open = NoConnections
    /\ db = [d \in Adapters |-> NoDb]
    /\ singleton = [d \in Adapters |-> FALSE]
    /\ cached = [d \in Adapters |-> {}]
    /\ tx = {} /\ nextEntity = 1
    /\ loaded = {} /\ fromCache = {}

------------------------------------------------------------------------------
(* The platform's files and helpers.                                       *)

\* The rows left when nobody can reach file f any more.
Forget(f) == [rows EXCEPT ![f] = {}]

\* Context.deleteDatabase: the name is gone, and the file with it unless it
\* is still open.
DeleteDatabase(d) ==
    /\ path' = [path EXCEPT ![d] = NoFile]
    /\ rows' = IF path[d] \in Files \ open[d] THEN Forget(path[d]) ELSE rows

\* SQLiteOpenHelper.getWritableDatabase with the name leading to file p: that
\* file, or a new one, which is the current pass's n.
OpenDatabase(d, p, n) ==
    LET f == IF p = NoFile THEN n ELSE p IN
    /\ path' = [path EXCEPT ![d] = f]
    /\ db' = [db EXCEPT ![d] = f]
    /\ open' = [open EXCEPT ![d] = @ \cup {f}]

\* deleteDatabase, then a new helper that opens the file at once.
DeleteAndOpen(d) ==
    /\ rows' = IF path[d] \in Files \ open[d] THEN Forget(path[d]) ELSE rows
    /\ OpenDatabase(d, NoFile, no + 1)

CloseDatabase(d) == open' = [open EXCEPT ![d] = @ \ {db[d]}]

\* The process ends: the files stay, a transaction in progress is rolled back
\* when the file is next opened, files that were only held open are freed.
ProcessDies ==
    /\ pc' = "dead"
    /\ diedAt' = no
    /\ open' = NoConnections
    /\ db' = [d \in Adapters |-> NoDb]
    /\ singleton' = [d \in Adapters |-> FALSE]
    /\ cached' = [d \in Adapters |-> {}]
    /\ rows' = [f \in Files |-> IF \E d \in Adapters : path[d] = f THEN rows[f] ELSE {}]
    /\ tx' = {} /\ nextEntity' = 1
    /\ loaded' = {} /\ fromCache' = {}
    /\ UNCHANGED <<run, at, pass, no, path, noTable>>

------------------------------------------------------------------------------
(* init(context), adapter by adapter.                                      *)

\* Mutant of NoOrmInit: context.deleteDatabase is forgotten.
NoOrmInitKeepsFile ==
    /\ Adapter = "NoOrm"
    /\ OpenDatabase("NoOrm", path["NoOrm"], no + 1)
    /\ UNCHANGED <<rows, noTable, singleton, cached>>

NoOrmInit ==
    /\ Adapter = "NoOrm"
    /\ DeleteAndOpen("NoOrm")
    /\ UNCHANGED <<noTable, singleton, cached>>

\* A new DaoMaster and DaoSession, with an identity scope of its own.
GreenDaoInit ==
    /\ Adapter = "GreenDao"
    /\ DeleteAndOpen("GreenDao")
    /\ cached' = [cached EXCEPT !["GreenDao"] = {}]
    /\ UNCHANGED <<noTable, singleton>>

\* DatabaseHelper.getInstance(): only a missing instance is made, and it
\* opens its database when it is first used.
OrmLiteInit ==
    /\ Adapter = "OrmLite"
    /\ DeleteDatabase("OrmLite")
    /\ singleton' = [singleton EXCEPT !["OrmLite"] = TRUE]
    /\ db' = [db EXCEPT !["OrmLite"] = IF singleton["OrmLite"] THEN @ ELSE NoDb]
    /\ UNCHANGED <<noTable, open, cached>>

\* ActiveAndroid.initialize does nothing when already initialized.
Initialize(d, p) ==
    /\ \/ /\ singleton[d]
          /\ path' = [path EXCEPT ![d] = p]
          /\ UNCHANGED <<db, open>>
       \/ /\ ~singleton[d]
          /\ OpenDatabase(d, p, no + 1)
    /\ singleton' = [singleton EXCEPT ![d] = TRUE]

\* The only init that deletes nothing first.
ActiveAndroidInit ==
    /\ Adapter = "ActiveAndroid"
    /\ Initialize("ActiveAndroid", path["ActiveAndroid"])
    /\ UNCHANGED <<rows, noTable, cached>>

ActiveAndroidSebbiaInit ==
    /\ Adapter = "ActiveAndroidSebbia"
    /\ LET f == path["ActiveAndroidSebbia"] IN
       rows' = IF f \in Files \ open["ActiveAndroidSebbia"] THEN Forget(f) ELSE rows
    /\ Initialize("ActiveAndroidSebbia", NoFile)
    /\ UNCHANGED <<noTable, cached>>

\* SugarContext.init always makes a new SugarDb, opened when first used.
SugarOrmInit ==
    /\ Adapter = "SugarOrm"
    /\ DeleteDatabase("SugarOrm")
    /\ db' = [db EXCEPT !["SugarOrm"] = NoDb]
    /\ UNCHANGED <<noTable, open, singleton, cached>>

\* TestContentProvider.getDbHelper: one helper for the process's life.
GetDbHelper == Initialize("GenericDao", path["GenericDao"])

\* The file is never deleted; its rows are.
GenericDaoInit ==
    /\ Adapter = "GenericDao"
    /\ GetDbHelper
    /\ rows' = [rows EXCEPT ![db'["GenericDao"]] = {}]
    /\ UNCHANGED <<noTable, cached>>

InitPass ==
    /\ pc = "init"
    /\ \/ NoOrmInit \/ GreenDaoInit \/ OrmLiteInit \/ ActiveAndroidInit
       \/ ActiveAndroidSebbiaInit \/ SugarOrmInit \/ GenericDaoInit
    /\ no' = no + 1
    /\ pc' = "save"
    /\ UNCHANGED <<run, at, pass, diedAt, saveVars, loadVars>>

------------------------------------------------------------------------------
(* saveEntitiesInTransaction(entities): begin, one insert for each entity, *)
(* setTransactionSuccessful and endTransaction.                            *)

\* ORMLite and Sugar open their database here.  DatabaseHelper.onCreate logs
\* a failure to create the table and goes on, and the file is not created
\* again.
SaveBegins ==
    /\ pc = "save"
    /\ \/ /\ Adapter \in {"OrmLite", "SugarOrm"}
          /\ db[Adapter] = NoDb
          /\ OpenDatabase(Adapter, path[Adapter], no)
          /\ noTable' \in {noTable} \cup (IF Adapter = "OrmLite" THEN {noTable \cup {no}} ELSE {})
       \/ /\ Adapter \notin {"OrmLite", "SugarOrm"} \/ db[Adapter] # NoDb
          /\ UNCHANGED <<path, db, open, noTable>>
    /\ pc' = "insert"
    /\ UNCHANGED <<progressVars, rows, singleton, cached, saveVars, loadVars>>

\* One insert.  GenericDao's provider gives no transaction the adapter asked
\* for, so each of its rows is committed; greenDAO attaches the entity to the
\* session's identity scope as it inserts it.
Insert ==
    LET row == [pass |-> no, entity |-> nextEntity] IN
    /\ pc = "insert"
    /\ nextEntity \in Entities
    /\ db[Adapter] \notin noTable
    /\ nextEntity' = nextEntity + 1
    /\ IF Adapter = "GenericDao"
       THEN /\ rows' = [rows EXCEPT ![db[Adapter]] = @ \cup {row}]
            /\ UNCHANGED tx
       ELSE /\ tx' = tx \cup {row}
            /\ UNCHANGED rows
    /\ cached' = [cached EXCEPT !["GreenDao"] = IF Adapter = "GreenDao" THEN @ \cup {row} ELSE @]
    /\ UNCHANGED <<progressVars, pc, path, noTable, open, db, singleton, loadVars>>

\* An insert fails (a full disk, no table) and the adapter's loop goes on:
\* ActiveAndroid's save() is SQLiteDatabase.insert, which logs and returns -1.
InsertSkipped ==
    /\ pc = "insert"
    /\ Adapter \in {"ActiveAndroid", "GenericDao"}
    /\ nextEntity \in Entities
    /\ nextEntity' = nextEntity + 1
    /\ UNCHANGED <<progressVars, pc, diskVars, libraryVars, tx, loadVars>>

\* Mutant of SaveSwallowed: setTransactionSuccessful is in the finally block.
SaveSwallowedCommits ==
    /\ pc = "insert"
    /\ Adapter \in {"OrmLite", "SugarOrm", "GenericDao"}
    /\ nextEntity \in Entities
    /\ rows' = [rows EXCEPT ![db[Adapter]] = @ \cup tx]
    /\ tx' = {} /\ nextEntity' = 1
    /\ pc' = "clearCache"
    /\ UNCHANGED <<progressVars, path, noTable, libraryVars, loadVars>>

\* An insert fails and the exception rolls the transaction back, but goes no
\* further: OrmLiteBenchmark prints it, SugarRecord.saveInTx logs it.  The
\* pass goes on as if it had saved.
SaveSwallowed ==
    /\ pc = "insert"
    /\ Adapter \in {"OrmLite", "SugarOrm", "GenericDao"}
    /\ nextEntity \in Entities
    /\ tx' = {} /\ nextEntity' = 1
    /\ pc' = "clearCache"
    /\ UNCHANGED <<progressVars, diskVars, libraryVars, loadVars>>

\* Mutant of SaveThrows: every adapter prints the exception, as OrmLite's does.
SaveCaught ==
    /\ pc = "insert"
    /\ Adapter \in {"NoOrm", "GreenDao", "ActiveAndroidSebbia", "GenericDao"}
    /\ nextEntity \in Entities
    /\ tx' = {} /\ nextEntity' = 1
    /\ pc' = "clearCache"
    /\ UNCHANGED <<progressVars, diskVars, libraryVars, loadVars>>

\* The finally of every other adapter ends the transaction, which rolls it
\* back, and lets the exception out of doInBackground.
SaveThrows ==
    /\ pc = "insert"
    /\ Adapter \in {"NoOrm", "GreenDao", "ActiveAndroidSebbia", "GenericDao"}
    /\ nextEntity \in Entities
    /\ ProcessDies

SaveCommits ==
    /\ pc = "insert"
    /\ nextEntity \notin Entities
    /\ rows' = [rows EXCEPT ![db[Adapter]] = @ \cup tx]
    /\ tx' = {} /\ nextEntity' = 1
    /\ pc' = "clearCache"
    /\ UNCHANGED <<progressVars, path, noTable, libraryVars, loadVars>>

\* The commit itself fails: OrmLiteBenchmark's catch has it, and it leaves the
\* finally of every other adapter, SugarRecord's too.
CommitFails ==
    /\ pc = "insert"
    /\ nextEntity \notin Entities
    /\ \/ /\ Adapter = "OrmLite"
          /\ tx' = {} /\ nextEntity' = 1
          /\ pc' = "clearCache"
          /\ UNCHANGED <<progressVars, diskVars, libraryVars, loadVars>>
       \/ /\ Adapter # "OrmLite"
          /\ ProcessDies

------------------------------------------------------------------------------
(* clearCache() and loadEntities().                                        *)

\* Mutant of ClearCache: nothing is cleared.
ClearCacheSkipped ==
    /\ pc = "clearCache"
    /\ pc' = "load"
    /\ UNCHANGED <<progressVars, diskVars, libraryVars, saveVars, loadVars>>

\* daoSession.clear(), Cache.clear(), dao.clearObjectCache(); the other three
\* have no entity cache.
ClearCache ==
    /\ pc = "clearCache"
    /\ cached' = [cached EXCEPT ![Adapter] = {}]
    /\ pc' = "load"
    /\ UNCHANGED <<progressVars, diskVars, open, db, singleton, saveVars, loadVars>>

\* Every row of the table; an object the cache has is returned again, and the
\* libraries with a cache put what they load into it.
LoadEntities ==
    /\ pc = "load"
    /\ db[Adapter] \notin noTable
    /\ loaded' = rows[db[Adapter]]
    /\ fromCache' = rows[db[Adapter]] \cap cached[Adapter]
    /\ cached' = [cached EXCEPT ![Adapter] =
                    IF Adapter \in {"GreenDao", "ActiveAndroid", "ActiveAndroidSebbia"}
                    THEN @ \cup rows[db[Adapter]] ELSE @]
    /\ pc' = "dispose"
    /\ UNCHANGED <<progressVars, diskVars, open, db, singleton, saveVars>>

\* OrmLiteBenchmark prints the SQLException and returns null, which nobody
\* looks at; the others let the exception out.
LoadFails ==
    /\ pc = "load"
    /\ \/ /\ Adapter = "OrmLite"
          /\ loaded' = {} /\ fromCache' = {}
          /\ pc' = "dispose"
          /\ UNCHANGED <<progressVars, diskVars, libraryVars, saveVars>>
       \/ /\ Adapter # "OrmLite"
          /\ ProcessDies

------------------------------------------------------------------------------
(* dispose(context), adapter by adapter.                                   *)

\* sqLiteHelper.close()
NoOrmDispose ==
    /\ Adapter = "NoOrm"
    /\ CloseDatabase("NoOrm")
    /\ UNCHANGED <<path, rows, db, singleton, cached>>

\* daoSession.clear(): the database is not closed.
GreenDaoDispose ==
    /\ Adapter = "GreenDao"
    /\ cached' = [cached EXCEPT !["GreenDao"] = {}]
    /\ UNCHANGED <<path, rows, open, db, singleton>>

\* Mutant of OrmLiteDispose: instance = null is forgotten.
OrmLiteDisposeKeepsInstance ==
    /\ Adapter = "OrmLite"
    /\ CloseDatabase("OrmLite")
    /\ UNCHANGED <<path, rows, db, singleton, cached>>

\* DatabaseHelper.dispose(): close, and instance = null.
OrmLiteDispose ==
    /\ Adapter = "OrmLite"
    /\ CloseDatabase("OrmLite")
    /\ singleton' = [singleton EXCEPT !["OrmLite"] = FALSE]
    /\ UNCHANGED <<path, rows, db, cached>>

\* ActiveAndroid.dispose() closes and resets Cache; then the file is deleted.
DisposeAndDelete(d) ==
    /\ Adapter = d
    /\ CloseDatabase(d)
    /\ singleton' = [singleton EXCEPT ![d] = FALSE]
    /\ cached' = [cached EXCEPT ![d] = {}]
    /\ path' = [path EXCEPT ![d] = NoFile]
    /\ rows' = IF path[d] \in Files THEN Forget(path[d]) ELSE rows
    /\ UNCHANGED db

ActiveAndroidDispose == DisposeAndDelete("ActiveAndroid")

ActiveAndroidSebbiaDispose == DisposeAndDelete("ActiveAndroidSebbia")

\* Mutant of SugarOrmDispose: SugarContext.terminate() is forgotten.
SugarOrmDisposeSkipped ==
    /\ Adapter = "SugarOrm"
    /\ UNCHANGED <<path, rows, libraryVars>>

\* SugarContext.terminate() closes the database and keeps its instance.
SugarOrmDispose ==
    /\ Adapter = "SugarOrm"
    /\ CloseDatabase("SugarOrm")
    /\ UNCHANGED <<path, rows, db, singleton, cached>>

\* GenericDaoBenchmark does not override dispose.
GenericDaoDispose ==
    /\ Adapter = "GenericDao"
    /\ UNCHANGED <<path, rows, libraryVars>>

\* Mutant of NextPass: i <= PASSES.
NextPassOneMore ==
    \/ /\ pass <= PASSES
       /\ pass' = pass + 1 /\ pc' = "init"
       /\ UNCHANGED at
    \/ /\ pass > PASSES
       /\ at' = (at % Len(BENCHMARKS)) + 1 /\ pass' = 1
       /\ pc' = IF at < Len(BENCHMARKS) THEN "init" ELSE "over"

\* The loops of doInBackground.
NextPass ==
    \/ /\ pass < PASSES
       /\ pass' = pass + 1 /\ pc' = "init"
       /\ UNCHANGED at
    \/ /\ pass = PASSES /\ at < Len(BENCHMARKS)
       /\ at' = at + 1 /\ pass' = 1 /\ pc' = "init"
    \/ /\ pass = PASSES /\ at = Len(BENCHMARKS)
       /\ at' = 1 /\ pass' = 1 /\ pc' = "over"

Dispose ==
    /\ pc = "dispose"
    /\ \/ NoOrmDispose \/ GreenDaoDispose \/ OrmLiteDispose \/ ActiveAndroidDispose
       \/ ActiveAndroidSebbiaDispose \/ SugarOrmDispose \/ GenericDaoDispose
    /\ NextPass
    /\ loaded' = {} /\ fromCache' = {}
    /\ UNCHANGED <<run, no, diedAt, noTable, saveVars>>

------------------------------------------------------------------------------
\* doInBackground of the next run, in this process or in a new one.
StartRun ==
    /\ pc \in {"over", "dead"}
    /\ run < MaxRuns
    /\ run' = run + 1
    /\ at' = 1 /\ pass' = 1
    /\ pc' = "init"
    /\ UNCHANGED <<no, diedAt, diskVars, libraryVars, saveVars, loadVars>>

\* The system kills the process, or a call other than a save or a load throws.
Kill ==
    /\ pc # "dead"
    /\ ProcessDies

\* A database object nobody refers to any more is closed by its finalizer.
FinalizeLeaked(d) ==
    \E f \in open[d] \ {db[d]} :
        /\ open' = [open EXCEPT ![d] = @ \ {f}]
        /\ rows' = IF path[d] # f THEN Forget(f) ELSE rows
        /\ UNCHANGED <<progressVars, pc, path, noTable, db, singleton, cached, saveVars, loadVars>>

Next ==
    \/ StartRun
    \/ InitPass
    \/ SaveBegins \/ Insert \/ InsertSkipped \/ SaveSwallowed \/ SaveThrows
    \/ SaveCommits \/ CommitFails
    \/ ClearCache \/ LoadEntities \/ LoadFails
    \/ Dispose
    \/ Kill
    \/ \E d \in Adapters : FinalizeLeaked(d)

Spec == Init /\ [][Next]_vars

------------------------------------------------------------------------------
TypeOK ==
    /\ run \in 0 .. MaxRuns
    /\ at \in DOMAIN BENCHMARKS
    /\ pass \in 1 .. PASSES
    /\ pc \in {"over", "dead", "init", "save", "insert", "clearCache", "load", "dispose"}
    /\ no \in 0 .. MaxPasses
    /\ diedAt \in 0 .. MaxPasses
    /\ path \in [Adapters -> Files \cup {NoFile}]
    /\ rows \in [Files -> SUBSET Rows]
    /\ noTable \in SUBSET Files
    /\ open \in [Adapters -> SUBSET Files]
    /\ db \in [Adapters -> Files \cup {NoDb}]
    /\ singleton \in [Adapters -> BOOLEAN]
    /\ cached \in [Adapters -> SUBSET Rows]
    /\ tx \in SUBSET Rows
    /\ nextEntity \in 1 .. (ENTITIES_COUNT + 1)
    /\ loaded \in SUBSET Rows
    /\ fromCache \in SUBSET loaded

\* The database an adapter saves to and loads from is the open file its name
\* leads to, in every pass of every run: no static helper is left with a
\* database of an earlier pass, closed or deleted under it.
UsesTheFileOfItsName ==
    pc \in {"insert", "clearCache", "load"} =>
        /\ db[Adapter] # NoDb
        /\ db[Adapter] = path[Adapter]
        /\ db[Adapter] \in open[Adapter]

\* What a pass loads was saved by the same pass.  ActiveAndroid alone, whose
\* init deletes nothing, may also load what a pass left in which the process
\* died: its load is then measured over more than ENTITIES_COUNT entities.
LoadsOwnRows ==
    pc = "dispose" =>
        \A row \in loaded :
            row.pass = no \/ (Adapter = "ActiveAndroid" /\ row.pass <= diedAt)

\* The adapters that let exceptions out load everything they saved: a pass of
\* theirs that saved less is not measured at all.
MeasuredPassIsWhole ==
    pc = "dispose" /\ Adapter \in {"NoOrm", "GreenDao", "ActiveAndroidSebbia"} => loaded = OwnRows

\* No file ever holds a part of what a pass saved, whatever fails or dies in
\* the middle of a save, where a failed insert ends the transaction.
SavedAllOrNothing ==
    \A d \in Adapters \ {"ActiveAndroid", "GenericDao"} :
        path[d] # NoFile =>
            \A p \in Files :
                LET saved == {row \in rows[path[d]] : row.pass = p} IN
                saved = {} \/ saved = [pass : {p}, entity : Entities]

\* A load is measured on objects made from the database's rows: no object of
\* the save before, or of an earlier pass, is returned in their place.
LoadIsUncached == fromCache = {}

\* Between two passes only greenDAO's databases and the content provider's one
\* are open: every other adapter closes what it opened, and greenDAO leaves
\* one more connection behind with every pass until the collector finds it.
OnlyGreenDaoLeaks ==
    pc \in {"init", "over"} =>
        \A d \in Adapters \ {"GreenDao"} :
            open[d] \subseteq (IF d = "GenericDao" THEN {db[d]} ELSE {})
==============================================================================
