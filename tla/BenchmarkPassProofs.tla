------------------------- MODULE BenchmarkPassProofs -------------------------
(***************************************************************************)
(* Proofs about BenchmarkPass, for any number of passes, entities and runs: *)
(* each of its invariants, from an inductive one made of                   *)
(*   CountInv    how many passes may have begun, which bounds the files;   *)
(*   HandleInv   which database each adapter's library leads to, and which *)
(*               of its files are open, in and out of its passes;          *)
(*   FileInv     no file is the database of two adapters, and a file not   *)
(*               made yet is empty;                                        *)
(*   SaveInv     what the open transaction holds;                          *)
(*   ContentInv  whose rows a file holds;                                  *)
(*   LoadInv     what was loaded.                                          *)
(***************************************************************************)
EXTENDS BenchmarkPass, Integers, TLAPS

Working == {"save", "insert", "clearCache", "load", "dispose"}

\* An adapter between its init and its dispose.
InUse(d) == pc \in Working /\ Adapter = d

\* Those that open their database when they first use it.
Lazy == {"OrmLite", "SugarOrm"}

UsesFile(d) == db[d] # NoDb /\ db[d] = path[d] /\ db[d] \in open[d]

\* The passes of the adapters before this one, in this run and those before.
Before == ((run - 1) * 7 + (at - 1)) * PASSES

CountInv ==
    /\ no <= (run * 7) * PASSES
    /\ pc \notin {"over", "dead"} => run >= 1 /\ no <= Before + pass
    /\ pc = "init" => no < Before + pass
    /\ pc \in Working => no >= 1
    /\ diedAt <= no

\* A static helper outlives a pass only in the content provider, and leads to
\* the open file of its name there.
StaticInv ==
    \A d \in Adapters : singleton[d] =>
        \/ d = "GenericDao" /\ UsesFile(d)
        \/ d \in {"OrmLite", "ActiveAndroid", "ActiveAndroidSebbia"} /\ InUse(d)

UseInv ==
    pc \in Working =>
        IF pc = "save" /\ Adapter \in Lazy
        THEN db[Adapter] = NoDb /\ path[Adapter] = NoFile
        ELSE UsesFile(Adapter)

OpenInv ==
    /\ \A d \in Adapters \ {"GreenDao"} :
          open[d] \subseteq (IF InUse(d) \/ d = "GenericDao" THEN {db[d]} ELSE {})
    /\ ~singleton["GenericDao"] => open["GenericDao"] = {}

HandleInv == StaticInv /\ UseInv /\ OpenInv

FileInv ==
    /\ \A d \in Adapters : path[d] <= no
    /\ \A d, e \in Adapters : path[d] = path[e] => d = e \/ path[d] = NoFile
    /\ \A d \in Adapters : \A f \in open[d] : f <= no /\ \A e \in Adapters : path[e] = f => d = e
    /\ \A f \in Files : f > no => rows[f] = {}
    /\ pc = "save" /\ Adapter \in Lazy =>
          rows[no] = {} /\ \A d \in Adapters : path[d] # no /\ no \notin open[d]

\* The adapters whose every insert ends the transaction if it fails.
Strict == Adapters \ {"ActiveAndroid", "GenericDao"}

\* The first n - 1 entities of the pass.
Saved(n) == [pass : {no}, entity : 1 .. n - 1]

SaveInv ==
    /\ pc # "insert" => tx = {} /\ nextEntity = 1
    /\ pc = "insert" =>
          /\ tx \subseteq OwnRows
          /\ Adapter \in Strict => tx = Saved(nextEntity)
          /\ Adapter = "GenericDao" => tx = {}

\* What the file of the adapter at work holds; only ActiveAndroid's may hold
\* more than rows of the pass.
OwnInv ==
    /\ pc \in {"save", "insert"} /\ Adapter \in Strict /\ db[Adapter] # NoDb =>
          rows[db[Adapter]] = {}
    /\ pc \in {"save", "insert", "clearCache", "load"} /\ Adapter # "ActiveAndroid"
          /\ db[Adapter] # NoDb => rows[db[Adapter]] \subseteq OwnRows
    /\ pc \in {"clearCache", "load"} /\ Adapter \in {"NoOrm", "GreenDao", "ActiveAndroidSebbia"} =>
          rows[db[Adapter]] = OwnRows

\* What a process that died left in ActiveAndroid's file.
LeftInv ==
    path["ActiveAndroid"] # NoFile =>
        \A row \in rows[path["ActiveAndroid"]] :
            row.pass <= diedAt \/ (InUse("ActiveAndroid") /\ row.pass = no)

ContentInv == OwnInv /\ LeftInv /\ SavedAllOrNothing

LoadInv ==
    /\ LoadsOwnRows
    /\ MeasuredPassIsWhole
    /\ LoadIsUncached
    /\ pc = "load" => cached[Adapter] = {}

IInv == TypeOK /\ CountInv /\ HandleInv /\ FileInv /\ SaveInv /\ ContentInv /\ LoadInv

------------------------------------------------------------------------------
(* The adapters, and how far the numbers of the passes go.                 *)

USE PASSESAssumption, ENTITIES_COUNTAssumption, MaxRunsAssumption

LEMMA AdaptersAre ==
  /\ Len(BENCHMARKS) = 7
  /\ DOMAIN BENCHMARKS = 1 .. 7
  /\ Adapters = {"NoOrm", "GreenDao", "OrmLite", "ActiveAndroid", "ActiveAndroidSebbia",
                 "SugarOrm", "GenericDao"}
<1>1. Len(BENCHMARKS) = 7 /\ DOMAIN BENCHMARKS = 1 .. 7
  BY DEF BENCHMARKS
<1>2. 1 .. 7 = {1, 2, 3, 4, 5, 6, 7}
  OBVIOUS
<1>3. Adapters = {BENCHMARKS[i] : i \in {1, 2, 3, 4, 5, 6, 7}}
  BY <1>1, <1>2 DEF Adapters
<1>4. {BENCHMARKS[i] : i \in {1, 2, 3, 4, 5, 6, 7}} =
        {BENCHMARKS[1], BENCHMARKS[2], BENCHMARKS[3], BENCHMARKS[4], BENCHMARKS[5],
         BENCHMARKS[6], BENCHMARKS[7]}
  OBVIOUS
<1> QED BY <1>1, <1>3, <1>4 DEF BENCHMARKS

LEMMA AtWork == at \in DOMAIN BENCHMARKS => Adapter \in Adapters
  BY DEF Adapter, Adapters

\* What is left to the product of a larger number with the same PASSES.
LEMMA Monotone ==
  ASSUME NEW j \in Int, NEW k \in Int, j <= k
  PROVE  j * PASSES \in Int /\ j * PASSES <= k * PASSES
  OBVIOUS

LEMMA Distributes ==
  ASSUME NEW j \in Int
  PROVE  (j + 1) * PASSES = j * PASSES + PASSES
  OBVIOUS

LEMMA MaxPassesIsNat == MaxPasses \in Nat /\ MaxPasses = (MaxRuns * 7) * PASSES
  BY AdaptersAre DEF MaxPasses

\* The budget of the passes so far is not overrun.
LEMMA Budget ==
  ASSUME TypeOK
  PROVE  /\ (run * 7) * PASSES \in Nat
         /\ (run * 7) * PASSES <= MaxPasses
         /\ run >= 1 => Before \in Int /\ Before + pass <= (run * 7) * PASSES
<1> USE DEF TypeOK
<1>1. run \in Nat /\ run <= MaxRuns /\ at \in 1 .. 7 /\ pass \in 1 .. PASSES
  BY AdaptersAre
<1>2. (run * 7) * PASSES \in Int /\ (run * 7) * PASSES <= (MaxRuns * 7) * PASSES
  BY <1>1, Monotone
<1>3. (0 * 7) * PASSES <= (run * 7) * PASSES
  BY <1>1, Monotone
<1>4. (run - 1) * 7 + (at - 1) \in Int /\ (run - 1) * 7 + (at - 1) + 1 <= run * 7
  BY <1>1
<1>5. (((run - 1) * 7 + (at - 1)) + 1) * PASSES <= (run * 7) * PASSES
  BY <1>1, <1>4, Monotone
<1>6. Before + PASSES <= (run * 7) * PASSES /\ Before \in Int
  BY <1>1, <1>4, <1>5, Distributes, Monotone DEF Before
<1> QED BY <1>1, <1>2, <1>3, <1>6, MaxPassesIsNat

LEMMA NumbersAreFiles ==
  ASSUME TypeOK, CountInv
  PROVE  /\ no \in Nat /\ diedAt \in Nat
         /\ no >= 1 => no \in Files
         /\ pc = "init" => no + 1 \in Files
         /\ pc \in Working => no \in Files
         /\ \A f \in Files : f \in Nat /\ f # NoFile /\ f # NoDb
<1>1. no \in Nat /\ no <= MaxPasses /\ diedAt \in Nat /\ MaxPasses \in Nat /\ pass \in Nat
  BY MaxPassesIsNat DEF TypeOK
<1>2. pc = "init" => no + 1 <= MaxPasses
  <2> SUFFICES ASSUME pc = "init" PROVE no + 1 <= MaxPasses
    OBVIOUS
  <2>1. run >= 1 /\ no < Before + pass
    BY DEF CountInv
  <2>2. Before \in Int /\ Before + pass <= (run * 7) * PASSES /\ (run * 7) * PASSES <= MaxPasses
        /\ (run * 7) * PASSES \in Nat
    BY <2>1, Budget
  <2> HIDE DEF Before, MaxPasses
  <2> QED BY <1>1, <2>1, <2>2
<1>3. pc \in Working => no >= 1
  BY DEF CountInv
<1> QED BY <1>1, <1>2, <1>3 DEF Files, NoFile, NoDb

------------------------------------------------------------------------------
(* What the platform's helpers do to the files.                            *)

LEMMA ForgetIsRows ==
  ASSUME TypeOK, NEW f
  PROVE  Forget(f) \in [Files -> SUBSET Rows]
  BY DEF TypeOK, Forget

LEMMA AddedAreRows ==
  ASSUME TypeOK, NEW f, NEW added \in SUBSET Rows
  PROVE  [rows EXCEPT ![f] = @ \cup added] \in [Files -> SUBSET Rows]
<1>1. CASE f \in Files
  BY <1>1 DEF TypeOK
<1>2. CASE f \notin Files
  BY <1>2 DEF TypeOK
<1> QED BY <1>1, <1>2

LEMMA OpenIsTyped ==
  ASSUME TypeOK, NEW d \in Adapters, NEW p \in Files \cup {NoFile}, NEW n \in Files,
         OpenDatabase(d, p, n)
  PROVE  /\ path' \in [Adapters -> Files \cup {NoFile}]
         /\ db' \in [Adapters -> Files \cup {NoDb}]
         /\ open' \in [Adapters -> SUBSET Files]
  BY DEF TypeOK, OpenDatabase

LEMMA InitializeIsTyped ==
  ASSUME TypeOK, NEW d \in Adapters, NEW p \in Files \cup {NoFile}, no + 1 \in Files,
         Initialize(d, p)
  PROVE  /\ path' \in [Adapters -> Files \cup {NoFile}]
         /\ db' \in [Adapters -> Files \cup {NoDb}]
         /\ open' \in [Adapters -> SUBSET Files]
         /\ singleton' \in [Adapters -> BOOLEAN]
  BY OpenIsTyped DEF TypeOK, Initialize

LEMMA DeathIsTyped ==
  ASSUME TypeOK, ProcessDies
  PROVE  TypeOK'
  BY DEF TypeOK, ProcessDies, NoConnections

LEMMA CloseIsTyped ==
  ASSUME TypeOK, NEW d \in Adapters, CloseDatabase(d)
  PROVE  open' \in [Adapters -> SUBSET Files]
  BY DEF TypeOK, CloseDatabase

------------------------------------------------------------------------------
(* Types.                                                                  *)

LEMMA TypeInit == Init => TypeOK
  BY AdaptersAre, MaxPassesIsNat DEF Init, TypeOK, NoConnections, NoFile, NoDb, Files

LEMMA TypeInitPass ==
  ASSUME TypeOK, CountInv, InitPass
  PROVE  TypeOK'
<1> USE DEF TypeOK
<1>1. no \in Nat /\ no + 1 \in Files /\ no + 1 \in 0 .. MaxPasses
  BY NumbersAreFiles DEF InitPass, Files
<1>2. /\ path' \in [Adapters -> Files \cup {NoFile}]
      /\ db' \in [Adapters -> Files \cup {NoDb}]
      /\ open' \in [Adapters -> SUBSET Files]
      /\ singleton' \in [Adapters -> BOOLEAN]
      /\ rows' \in [Files -> SUBSET Rows]
      /\ cached' \in [Adapters -> SUBSET Rows]
      /\ noTable' = noTable
  <2>1. CASE NoOrmInit
    BY <1>1, <2>1, OpenIsTyped, ForgetIsRows, AdaptersAre DEF NoOrmInit, DeleteAndOpen
  <2>2. CASE GreenDaoInit
    BY <1>1, <2>2, OpenIsTyped, ForgetIsRows, AdaptersAre DEF GreenDaoInit, DeleteAndOpen
  <2>3. CASE OrmLiteInit
    BY <2>3, ForgetIsRows DEF OrmLiteInit, DeleteDatabase
  <2>4. CASE ActiveAndroidInit
    BY <1>1, <2>4, InitializeIsTyped, AdaptersAre DEF ActiveAndroidInit
  <2>5. CASE ActiveAndroidSebbiaInit
    BY <1>1, <2>5, InitializeIsTyped, ForgetIsRows, AdaptersAre DEF ActiveAndroidSebbiaInit
  <2>6. CASE SugarOrmInit
    BY <2>6, ForgetIsRows DEF SugarOrmInit, DeleteDatabase
  <2>7. CASE GenericDaoInit
    BY <1>1, <2>7, InitializeIsTyped, AdaptersAre DEF GenericDaoInit, GetDbHelper
  <2> QED BY <2>1, <2>2, <2>3, <2>4, <2>5, <2>6, <2>7 DEF InitPass
<1> QED BY <1>1, <1>2 DEF InitPass, saveVars, loadVars

LEMMA TypeDispose ==
  ASSUME TypeOK, Dispose
  PROVE  TypeOK'
<1> USE DEF TypeOK
<1>1. /\ path' \in [Adapters -> Files \cup {NoFile}]
      /\ db' = db
      /\ open' \in [Adapters -> SUBSET Files]
      /\ singleton' \in [Adapters -> BOOLEAN]
      /\ rows' \in [Files -> SUBSET Rows]
      /\ cached' \in [Adapters -> SUBSET Rows]
  <2>1. CASE NoOrmDispose
    BY <2>1, CloseIsTyped, AdaptersAre DEF NoOrmDispose
  <2>2. CASE GreenDaoDispose
    BY <2>2 DEF GreenDaoDispose
  <2>3. CASE OrmLiteDispose
    BY <2>3, CloseIsTyped, AdaptersAre DEF OrmLiteDispose
  <2>4. ASSUME NEW d \in Adapters, DisposeAndDelete(d)
        PROVE <1>1!1 /\ <1>1!2 /\ <1>1!3 /\ <1>1!4 /\ <1>1!5 /\ <1>1!6
    BY <2>4, CloseIsTyped, ForgetIsRows DEF DisposeAndDelete
  <2>5. CASE SugarOrmDispose
    BY <2>5, CloseIsTyped, AdaptersAre DEF SugarOrmDispose
  <2>6. CASE GenericDaoDispose
    BY <2>6 DEF GenericDaoDispose, libraryVars
  <2> QED BY <2>1, <2>2, <2>3, <2>4, <2>5, <2>6, AdaptersAre
          DEF Dispose, ActiveAndroidDispose, ActiveAndroidSebbiaDispose
<1>2. at' \in DOMAIN BENCHMARKS /\ pass' \in 1 .. PASSES /\ pc' \in {"init", "over"}
  BY AdaptersAre DEF Dispose, NextPass
<1> QED BY <1>1, <1>2 DEF Dispose, saveVars
LEMMA TypeNext == TypeOK /\ CountInv /\ HandleInv /\ [Next]_vars => TypeOK'
<1> SUFFICES ASSUME TypeOK, CountInv, HandleInv, [Next]_vars PROVE TypeOK'
  OBVIOUS
<1> USE DEF TypeOK, progressVars, diskVars, libraryVars, saveVars, loadVars
<1>a. Adapter \in Adapters
  BY AtWork
<1>b. ASSUME ProcessDies PROVE TypeOK'
  BY <1>b, DeathIsTyped
<1>1. CASE UNCHANGED vars
  BY <1>1 DEF vars
<1>2. CASE StartRun
  BY <1>2, AdaptersAre DEF StartRun
<1>3. CASE InitPass
  BY <1>3, TypeInitPass
<1>4. CASE SaveBegins
  <2>1. no \in Files
    BY <1>4, NumbersAreFiles DEF SaveBegins, Working
  <2>2. /\ path' \in [Adapters -> Files \cup {NoFile}]
        /\ db' \in [Adapters -> Files \cup {NoDb}]
        /\ open' \in [Adapters -> SUBSET Files]
        /\ noTable' \in SUBSET Files
    BY <1>4, <1>a, <2>1, OpenIsTyped DEF SaveBegins
  <2> QED BY <1>4, <2>2 DEF SaveBegins
<1>5. CASE Insert
  <2>1. no \in Files
    BY <1>5, NumbersAreFiles DEF Insert, Working
  <2>2. [pass |-> no, entity |-> nextEntity] \in Rows
    BY <1>5, <2>1 DEF Insert, Rows
  <2>3. nextEntity' \in 1 .. (ENTITIES_COUNT + 1)
    BY <1>5 DEF Insert, Entities
  <2>4. rows' \in [Files -> SUBSET Rows] /\ tx' \in SUBSET Rows /\ cached' \in [Adapters -> SUBSET Rows]
    <3>1. PICK row \in Rows : row = [pass |-> no, entity |-> nextEntity]
      BY <2>2
    <3>2. rows' = rows \/ rows' = [rows EXCEPT ![db[Adapter]] = rows[db[Adapter]] \cup {row}]
      BY <1>5, <3>1 DEF Insert
    <3>3. tx' = tx \/ tx' = tx \cup {row}
      BY <1>5, <3>1 DEF Insert
    <3>4. cached' = [cached EXCEPT !["GreenDao"] =
                       IF Adapter = "GreenDao" THEN cached["GreenDao"] \cup {row} ELSE cached["GreenDao"]]
      BY <1>5, <3>1 DEF Insert
    <3>5. rows' \in [Files -> SUBSET Rows]
      BY <3>2, AddedAreRows
    <3>6. cached' \in [Adapters -> SUBSET Rows]
      BY <3>4, AdaptersAre
    <3> QED BY <3>3, <3>5, <3>6
  <2> QED BY <1>5, <2>3, <2>4 DEF Insert
<1>6. CASE InsertSkipped
  BY <1>6 DEF InsertSkipped, Entities
<1>7. CASE SaveSwallowed
  BY <1>7 DEF SaveSwallowed
<1>8. CASE SaveThrows
  BY <1>8, <1>b DEF SaveThrows
<1>9. CASE SaveCommits
  <2>1. rows' \in [Files -> SUBSET Rows]
    BY <1>9, AddedAreRows DEF SaveCommits
  <2> QED BY <1>9, <2>1 DEF SaveCommits
<1>10. CASE CommitFails
  BY <1>10, <1>b DEF CommitFails
<1>11. CASE ClearCache
  BY <1>11 DEF ClearCache
<1>12. CASE LoadEntities
  <2>1. db[Adapter] \in Files
    BY <1>12, <1>a DEF LoadEntities, HandleInv, UseInv, UsesFile, Working
  <2>2. rows[db[Adapter]] \subseteq Rows
    BY <2>1
  <2> QED BY <1>12, <1>a, <2>2 DEF LoadEntities
<1>13. CASE LoadFails
  BY <1>13, <1>b DEF LoadFails
<1>14. CASE Dispose
  BY <1>14, TypeDispose
<1>15. CASE Kill
  BY <1>15, <1>b DEF Kill
<1>16. ASSUME NEW d \in Adapters, FinalizeLeaked(d) PROVE TypeOK'
  BY <1>16, ForgetIsRows DEF FinalizeLeaked
<1> QED BY <1>1, <1>2, <1>3, <1>4, <1>5, <1>6, <1>7, <1>8, <1>9, <1>10, <1>11, <1>12, <1>13,
           <1>14, <1>15, <1>16 DEF Next

------------------------------------------------------------------------------
(* The count of the passes.                                                *)

LEMMA CountNext == TypeOK /\ CountInv /\ [Next]_vars => CountInv'
<1> SUFFICES ASSUME TypeOK, CountInv, [Next]_vars PROVE CountInv'
  OBVIOUS
<1> USE DEF CountInv, progressVars, Working
<1>a. no \in Nat /\ diedAt \in Nat /\ run \in Nat /\ pass \in 1 .. PASSES /\ at \in 1 .. 7
  BY AdaptersAre, NumbersAreFiles DEF TypeOK
<1>b. (run * 7) * PASSES \in Nat /\ (run >= 1 => Before \in Int /\ Before + pass <= (run * 7) * PASSES)
  BY Budget
<1>c. ASSUME UNCHANGED progressVars, pc \in Working, pc' \in Working PROVE CountInv'
  BY <1>c DEF Before
<1>d. ASSUME ProcessDies PROVE CountInv'
  <2>1. no <= (run * 7) * PASSES
    OBVIOUS
  <2> QED BY <1>a, <1>d, <2>1 DEF ProcessDies
<1>1. CASE UNCHANGED vars
  BY <1>1 DEF vars, Before
<1>2. CASE StartRun
  <2>1. run' = run + 1 /\ at' = 1 /\ pass' = 1 /\ pc' = "init" /\ UNCHANGED <<no, diedAt>>
    BY <1>2 DEF StartRun
  <2>2. Before' = (run * 7) * PASSES
    BY <1>a, <2>1 DEF Before
  <2>3. no <= (run * 7) * PASSES /\ (run * 7) * PASSES <= (run' * 7) * PASSES
    BY <1>a, <2>1, Monotone
  <2> QED BY <1>a, <1>b, <2>1, <2>2, <2>3
<1>3. CASE InitPass
  <2>1. no' = no + 1 /\ pc = "init" /\ pc' = "save" /\ UNCHANGED <<run, at, pass, diedAt>>
    BY <1>3 DEF InitPass
  <2>2. no + 1 <= Before + pass /\ Before' = Before /\ run >= 1
    BY <1>a, <1>b, <2>1 DEF Before
  <2>3. no + 1 <= (run * 7) * PASSES
    <3> HIDE DEF Before
    <3> QED BY <1>a, <1>b, <2>2
  <2> QED BY <1>a, <1>b, <2>1, <2>2, <2>3
<1>4. CASE SaveBegins \/ Insert \/ InsertSkipped \/ SaveSwallowed \/ SaveCommits \/ ClearCache \/ LoadEntities
  BY <1>4, <1>c DEF SaveBegins, Insert, InsertSkipped, SaveSwallowed, SaveCommits, ClearCache, LoadEntities
<1>5. CASE SaveThrows \/ CommitFails \/ LoadFails \/ Kill
  BY <1>5, <1>c, <1>d DEF SaveThrows, CommitFails, LoadFails, Kill
<1>6. CASE Dispose
  <2>1. pc \in Working /\ run >= 1 /\ no <= Before + pass /\ UNCHANGED <<run, no, diedAt>>
    BY <1>6 DEF Dispose
  <2>0. run' >= 1 /\ no' <= (run' * 7) * PASSES /\ diedAt' <= no'
    BY <2>1
  <2>2. CASE pass < PASSES /\ pass' = pass + 1 /\ pc' = "init" /\ UNCHANGED at
    <3>1. Before' = Before /\ no < Before + pass'
      BY <1>a, <1>b, <2>1, <2>2 DEF Before
    <3>2. pc' \notin Working /\ (pc' = "init" => no' < Before' + pass') /\ no' <= Before' + pass'
      <4> HIDE DEF Before
      <4> QED BY <1>a, <1>b, <2>1, <2>2, <3>1
    <3> QED BY <2>0, <2>1, <3>2
  <2>3. CASE pass = PASSES /\ at < 7 /\ at' = at + 1 /\ pass' = 1 /\ pc' = "init"
    <3>1. Before' = Before + PASSES
      BY <1>a, <2>1, <2>3, Distributes DEF Before
    <3>2. no < Before' + pass'
      <4> HIDE DEF Before
      <4> QED BY <1>a, <1>b, <2>1, <2>3, <3>1
    <3>3. pc' \notin Working /\ no' < Before' + pass' /\ no' <= Before' + pass'
      <4> HIDE DEF Before
      <4> QED BY <1>a, <1>b, <2>1, <2>3, <3>1, <3>2
    <3> QED BY <2>0, <2>1, <3>3
  <2>4. CASE pc' = "over"
    BY <1>a, <2>1, <2>4
  <2> QED BY <1>6, <2>2, <2>3, <2>4, AdaptersAre DEF Dispose, NextPass
<1>7. ASSUME NEW d \in Adapters, FinalizeLeaked(d) PROVE CountInv'
  BY <1>7 DEF FinalizeLeaked, Before
<1> QED BY <1>1, <1>2, <1>3, <1>4, <1>5, <1>6, <1>7 DEF Next

------------------------------------------------------------------------------
(* Which databases the libraries hold.                                     *)

LEMMA HandleInit == Init => HandleInv
  BY AdaptersAre DEF Init, HandleInv, StaticInv, UseInv, OpenInv, Working, NoConnections

\* What an init leaves: the other adapters' handles as they were, and the
\* adapter's own database open, or still to be opened.
LEMMA HandleInitPass ==
  ASSUME TypeOK, CountInv, HandleInv, InitPass
  PROVE  HandleInv'
<1> DEFINE Others ==
      \A d \in Adapters : d # Adapter =>
         path'[d] = path[d] /\ db'[d] = db[d] /\ open'[d] = open[d] /\ singleton'[d] = singleton[d]
<1> DEFINE This ==
      /\ IF Adapter \in Lazy
         THEN db'[Adapter] = NoDb /\ path'[Adapter] = NoFile /\ open'[Adapter] = {}
         ELSE /\ db'[Adapter] # NoDb /\ db'[Adapter] = path'[Adapter]
              /\ db'[Adapter] \in open'[Adapter]
              /\ Adapter # "GreenDao" => open'[Adapter] = {db'[Adapter]}
      /\ Adapter = "GenericDao" => singleton'[Adapter]
      /\ singleton'[Adapter] =>
           Adapter \in {"OrmLite", "ActiveAndroid", "ActiveAndroidSebbia", "GenericDao"}
<1>a. /\ Adapter \in Adapters /\ Adapter' = Adapter
      /\ pc = "init" /\ pc' = "save"
  BY AtWork DEF TypeOK, InitPass, Adapter
<1>b. no + 1 \in Files /\ no + 1 # NoDb
  BY <1>a, NumbersAreFiles
<1>c. \A d \in Adapters : ~InUse(d)
  BY <1>a DEF InUse, Working
<1>d. /\ singleton[Adapter] => Adapter = "GenericDao" /\ UsesFile(Adapter)
      /\ Adapter \notin {"GreenDao", "GenericDao"} => open[Adapter] = {}
      /\ Adapter = "GenericDao" => open[Adapter] \subseteq {db[Adapter]}
      /\ Adapter = "GenericDao" /\ ~singleton[Adapter] => open[Adapter] = {}
  BY <1>a, <1>c DEF HandleInv, StaticInv, OpenInv
<1>e. Others /\ This
  <2> USE DEF TypeOK, Lazy
  <2>1. CASE NoOrmInit
    BY <1>a, <1>b, <1>d, <2>1 DEF NoOrmInit, DeleteAndOpen, OpenDatabase
  <2>2. CASE GreenDaoInit
    BY <1>a, <1>b, <1>d, <2>2 DEF GreenDaoInit, DeleteAndOpen, OpenDatabase
  <2>3. CASE OrmLiteInit
    BY <1>a, <1>b, <1>d, <2>3 DEF OrmLiteInit, DeleteDatabase
  <2>4. CASE ActiveAndroidInit
    BY <1>a, <1>b, <1>d, <2>4 DEF ActiveAndroidInit, Initialize, OpenDatabase, NoFile, NoDb
  <2>5. CASE ActiveAndroidSebbiaInit
    BY <1>a, <1>b, <1>d, <2>5 DEF ActiveAndroidSebbiaInit, Initialize, OpenDatabase
  <2>6. CASE SugarOrmInit
    BY <1>a, <1>b, <1>d, <2>6 DEF SugarOrmInit, DeleteDatabase
  <2>7. CASE GenericDaoInit
    BY <1>a, <1>b, <1>d, <2>7 DEF GenericDaoInit, GetDbHelper, Initialize, OpenDatabase, UsesFile,
           NoFile, NoDb
  <2> QED BY <2>1, <2>2, <2>3, <2>4, <2>5, <2>6, <2>7 DEF InitPass
<1>f. StaticInv'
  BY <1>a, <1>c, <1>e DEF HandleInv, StaticInv, UsesFile, InUse, Working, Lazy
<1>g. UseInv'
  BY <1>a, <1>e DEF UseInv, UsesFile, Working
<1>h. OpenInv'
  <2>1. ASSUME NEW d \in Adapters \ {"GreenDao"}
        PROVE open'[d] \subseteq (IF InUse(d)' \/ d = "GenericDao" THEN {db'[d]} ELSE {})
    BY <1>a, <1>c, <1>e, <2>1 DEF HandleInv, OpenInv, InUse, Working
  <2>2. ~singleton'["GenericDao"] => open'["GenericDao"] = {}
    BY <1>a, <1>e, AdaptersAre DEF HandleInv, OpenInv
  <2> QED BY <2>1, <2>2 DEF OpenInv
<1> QED BY <1>f, <1>g, <1>h DEF HandleInv

LEMMA HandleDispose ==
  ASSUME TypeOK, HandleInv, Dispose
  PROVE  HandleInv'
<1>a. /\ Adapter \in Adapters /\ pc = "dispose" /\ pc' \in {"init", "over"} /\ db' = db
  BY AtWork DEF TypeOK, Dispose, NextPass, NoOrmDispose, GreenDaoDispose, OrmLiteDispose,
     ActiveAndroidDispose, ActiveAndroidSebbiaDispose, DisposeAndDelete, SugarOrmDispose,
     GenericDaoDispose, libraryVars
<1>b. \A d \in Adapters : InUse(d) <=> d = Adapter
  BY <1>a DEF InUse, Working
<1>c. \A d \in Adapters : ~InUse(d)'
  BY <1>a DEF InUse, Working
<1>d. Adapter \notin {"GreenDao", "GenericDao"} => open[Adapter] \subseteq {db[Adapter]}
  BY <1>a, <1>b DEF HandleInv, OpenInv
<1>e. /\ \A d \in Adapters : d # Adapter =>
           path'[d] = path[d] /\ open'[d] = open[d] /\ singleton'[d] = singleton[d]
      /\ IF Adapter \in {"GreenDao", "GenericDao"}
         THEN /\ path'[Adapter] = path[Adapter] /\ open'[Adapter] = open[Adapter]
              /\ singleton'[Adapter] = singleton[Adapter]
         ELSE /\ open'[Adapter] = {}
              /\ singleton'[Adapter] =>
                   Adapter \notin {"OrmLite", "ActiveAndroid", "ActiveAndroidSebbia"} /\ singleton[Adapter]
  <2> USE DEF TypeOK, CloseDatabase
  <2>1. CASE NoOrmDispose
    BY <1>a, <1>d, <2>1 DEF NoOrmDispose
  <2>2. CASE GreenDaoDispose
    BY <1>a, <2>2 DEF GreenDaoDispose
  <2>3. CASE OrmLiteDispose
    BY <1>a, <1>d, <2>3 DEF OrmLiteDispose
  <2>4. CASE ActiveAndroidDispose \/ ActiveAndroidSebbiaDispose
    BY <1>a, <1>d, <2>4 DEF ActiveAndroidDispose, ActiveAndroidSebbiaDispose, DisposeAndDelete
  <2>5. CASE SugarOrmDispose
    BY <1>a, <1>d, <2>5 DEF SugarOrmDispose
  <2>6. CASE GenericDaoDispose
    BY <1>a, <2>6 DEF GenericDaoDispose, libraryVars
  <2> QED BY <2>1, <2>2, <2>3, <2>4, <2>5, <2>6 DEF Dispose
<1>f. StaticInv'
  <2> SUFFICES ASSUME NEW d \in Adapters, singleton'[d]
      PROVE d = "GenericDao" /\ UsesFile(d)'
    BY DEF StaticInv
  <2>1. singleton[d] /\ d \notin {"OrmLite", "ActiveAndroid", "ActiveAndroidSebbia"}
    BY <1>a, <1>b, <1>e DEF HandleInv, StaticInv
  <2>2. d = "GenericDao" /\ UsesFile(d)
    BY <2>1 DEF HandleInv, StaticInv
  <2> QED BY <1>a, <1>e, <2>2 DEF UsesFile
<1>g. UseInv'
  BY <1>a DEF UseInv, Working
<1>h. OpenInv'
  <2>1. ASSUME NEW d \in Adapters \ {"GreenDao"}
        PROVE open'[d] \subseteq (IF d = "GenericDao" THEN {db'[d]} ELSE {})
    BY <1>a, <1>b, <1>e, <2>1 DEF HandleInv, OpenInv
  <2>2. ~singleton'["GenericDao"] => open'["GenericDao"] = {}
    BY <1>a, <1>e, AdaptersAre DEF HandleInv, OpenInv
  <2> QED BY <1>c, <2>1, <2>2 DEF OpenInv
<1> QED BY <1>f, <1>g, <1>h DEF HandleInv

LEMMA HandleNext == TypeOK /\ CountInv /\ HandleInv /\ [Next]_vars => HandleInv'
<1> SUFFICES ASSUME TypeOK, CountInv, HandleInv, [Next]_vars PROVE HandleInv'
  OBVIOUS
<1> USE DEF progressVars, diskVars, libraryVars
<1>a. Adapter \in Adapters
  BY AtWork DEF TypeOK
<1>b. ASSUME ProcessDies PROVE HandleInv'
  <2>1. pc' = "dead" /\ \A d \in Adapters : open'[d] = {} /\ ~singleton'[d]
    BY <1>b DEF ProcessDies, NoConnections
  <2> QED BY <2>1, AdaptersAre DEF HandleInv, StaticInv, UseInv, OpenInv, Working
<1>c. ASSUME UNCHANGED <<at, path, db, open, singleton>>,
             pc = pc' \/ {pc, pc'} \subseteq Working \ {"save"} \/ {pc, pc'} \cap Working = {}
      PROVE HandleInv'
  <2>1. Adapter' = Adapter
    BY <1>c DEF Adapter
  <2>2. \A d : (InUse(d)' <=> InUse(d)) /\ (UsesFile(d)' <=> UsesFile(d))
    BY <1>c, <2>1 DEF InUse, UsesFile
  <2> QED BY <1>c, <2>1, <2>2 DEF HandleInv, StaticInv, UseInv, OpenInv
<1>1. CASE UNCHANGED vars
  BY <1>1, <1>c DEF vars
<1>2. CASE StartRun
  <2>1. pc \notin Working /\ pc' \notin Working /\ UNCHANGED <<path, db, open, singleton>>
    BY <1>2 DEF StartRun, Working
  <2>2. \A d : ~InUse(d) /\ ~InUse(d)' /\ (UsesFile(d)' <=> UsesFile(d))
    BY <2>1 DEF InUse, UsesFile
  <2> QED BY <2>1, <2>2 DEF HandleInv, StaticInv, UseInv, OpenInv
<1>3. CASE InitPass
  BY <1>3, HandleInitPass
<1>4. CASE SaveBegins
  <2>1. pc = "save" /\ pc' = "insert" /\ Adapter' = Adapter /\ singleton' = singleton
    BY <1>4 DEF SaveBegins, Adapter
  <2>2. no \in Files
    BY <2>1, NumbersAreFiles DEF Working
  <2>3. \A d : InUse(d)' <=> InUse(d)
    BY <2>1 DEF InUse, Working
  <2>4. /\ UsesFile(Adapter)'
        /\ Adapter # "GreenDao" => open'[Adapter] \subseteq {db'[Adapter]}
        /\ Adapter = "GenericDao" => UNCHANGED <<path, db, open>>
        /\ \A d \in Adapters : d # Adapter =>
              path'[d] = path[d] /\ db'[d] = db[d] /\ open'[d] = open[d]
    <3>1. CASE db[Adapter] = NoDb
      <4>1. Adapter \in Lazy /\ path[Adapter] = NoFile /\ open[Adapter] \subseteq {NoDb}
        BY <1>a, <2>1, <2>3, <3>1 DEF HandleInv, UseInv, OpenInv, UsesFile, Working, InUse, Lazy
      <4>2. open[Adapter] = {}
        BY <1>a, <4>1, NumbersAreFiles DEF TypeOK
      <4>3. no # NoDb
        BY <2>2, NumbersAreFiles
      <4>4. OpenDatabase(Adapter, path[Adapter], no)
        BY <1>4, <3>1, <4>1 DEF SaveBegins, Lazy
      <4> QED BY <1>a, <2>1, <2>2, <4>1, <4>2, <4>3, <4>4 DEF OpenDatabase, UsesFile, Lazy, TypeOK
    <3>2. CASE db[Adapter] # NoDb
      <4>1. UNCHANGED <<path, db, open>>
        BY <1>4, <3>2 DEF SaveBegins
      <4>2. UsesFile(Adapter)
        BY <2>1, <3>2 DEF HandleInv, UseInv, Working
      <4> QED BY <1>a, <2>1, <4>1, <4>2 DEF UsesFile, HandleInv, OpenInv, InUse, Working
    <3> QED BY <3>1, <3>2
  <2>5. StaticInv'
    <3> SUFFICES ASSUME NEW d \in Adapters, singleton[d]
        PROVE \/ d = "GenericDao" /\ UsesFile(d)'
              \/ d \in {"OrmLite", "ActiveAndroid", "ActiveAndroidSebbia"} /\ InUse(d)'
      BY <2>1 DEF StaticInv
    <3> QED BY <2>3, <2>4 DEF HandleInv, StaticInv, UsesFile
  <2>6. UseInv'
    BY <2>1, <2>4 DEF UseInv, Working
  <2>7. OpenInv'
    <3>1. ASSUME NEW d \in Adapters \ {"GreenDao"}
          PROVE open'[d] \subseteq (IF InUse(d)' \/ d = "GenericDao" THEN {db'[d]} ELSE {})
      <4>1. InUse(Adapter)
        BY <2>1 DEF InUse, Working
      <4> QED BY <2>3, <2>4, <4>1 DEF HandleInv, OpenInv
    <3>2. ~singleton["GenericDao"] => open'["GenericDao"] = {}
      BY <2>4, AdaptersAre DEF HandleInv, OpenInv
    <3> QED BY <2>1, <3>1, <3>2 DEF OpenInv
  <2> QED BY <2>5, <2>6, <2>7 DEF HandleInv
<1>5. CASE Insert \/ InsertSkipped \/ SaveSwallowed \/ SaveCommits \/ ClearCache \/ LoadEntities
  BY <1>5, <1>c DEF Insert, InsertSkipped, SaveSwallowed, SaveCommits, ClearCache, LoadEntities, Working
<1>6. CASE SaveThrows \/ CommitFails \/ LoadFails \/ Kill
  BY <1>6, <1>b, <1>c DEF SaveThrows, CommitFails, LoadFails, Kill, Working
<1>7. CASE Dispose
  BY <1>7, HandleDispose
<1>8. ASSUME NEW d \in Adapters, FinalizeLeaked(d) PROVE HandleInv'
  <2>1. PICK f \in open[d] \ {db[d]} : open' = [open EXCEPT ![d] = open[d] \ {f}]
    BY <1>8 DEF FinalizeLeaked
  <2>2. UNCHANGED <<at, pc, path, db, singleton>> /\ Adapter' = Adapter
    BY <1>8 DEF FinalizeLeaked, Adapter
  <2>3. \A e \in Adapters : open'[e] \subseteq open[e] /\ (db[e] \in open[e] => db[e] \in open'[e])
    BY <2>1 DEF TypeOK
  <2>4. \A e \in Adapters : (InUse(e)' <=> InUse(e)) /\ (UsesFile(e) => UsesFile(e)')
    BY <2>2, <2>3 DEF InUse, UsesFile
  <2>5. StaticInv' /\ UseInv'
    BY <1>a, <2>2, <2>4 DEF HandleInv, StaticInv, UseInv
  <2>6. OpenInv'
    <3>1. ASSUME NEW e \in Adapters \ {"GreenDao"}
          PROVE open'[e] \subseteq (IF InUse(e)' \/ e = "GenericDao" THEN {db'[e]} ELSE {})
      BY <2>2, <2>3, <2>4 DEF HandleInv, OpenInv
    <3>2. ~singleton'["GenericDao"] => open'["GenericDao"] = {}
      BY <2>2, <2>3, AdaptersAre DEF HandleInv, OpenInv
    <3> QED BY <3>1, <3>2 DEF OpenInv
  <2> QED BY <2>5, <2>6 DEF HandleInv
<1> QED BY <1>1, <1>2, <1>3, <1>4, <1>5, <1>6, <1>7, <1>8 DEF Next

------------------------------------------------------------------------------
(* Whose file is whose.                                                    *)

LEMMA FileInit == Init => FileInv
  BY AdaptersAre DEF Init, FileInv, NoConnections, NoFile

\* What an init does to the files: names are given up or lead to the new file,
\* rows are at most forgotten.
LEMMA InitPassFiles ==
  ASSUME TypeOK, CountInv, HandleInv, InitPass
  PROVE  /\ \A d \in Adapters : d # Adapter => path'[d] = path[d] /\ open'[d] = open[d]
         /\ path'[Adapter] \in {NoFile, no + 1, path[Adapter]}
         /\ open'[Adapter] \subseteq open[Adapter] \cup ({path'[Adapter]} \ {NoFile})
         /\ \A f \in Files : rows'[f] = rows[f] \/ rows'[f] = {}
         /\ Adapter \in Lazy => path'[Adapter] = NoFile
         /\ Adapter \in Strict \ Lazy => path'[Adapter] = no + 1
         /\ Adapter = "GenericDao" => rows'[db'["GenericDao"]] = {}
<1>a. /\ Adapter \in Adapters /\ pc = "init"
      /\ no + 1 \in Files /\ no + 1 # NoFile
  BY AtWork, NumbersAreFiles DEF TypeOK, InitPass
<1>b. singleton[Adapter] => Adapter = "GenericDao"
  BY <1>a DEF HandleInv, StaticInv, InUse, Working
<1>c. \A g : \A f \in Files : Forget(g)[f] = rows[f] \/ Forget(g)[f] = {}
  BY DEF TypeOK, Forget
<1> USE DEF TypeOK, Lazy, Strict, NoFile
<1>1. CASE NoOrmInit \/ GreenDaoInit
  BY <1>a, <1>b, <1>c, <1>1 DEF NoOrmInit, GreenDaoInit, DeleteAndOpen, OpenDatabase
<1>2. CASE OrmLiteInit \/ SugarOrmInit
  BY <1>a, <1>b, <1>c, <1>2 DEF OrmLiteInit, SugarOrmInit, DeleteDatabase
<1>3. CASE ActiveAndroidInit
  BY <1>a, <1>b, <1>3 DEF ActiveAndroidInit, Initialize, OpenDatabase
<1>4. CASE ActiveAndroidSebbiaInit
  BY <1>a, <1>b, <1>c, <1>4 DEF ActiveAndroidSebbiaInit, Initialize, OpenDatabase
<1>5. CASE GenericDaoInit
  <2>1. db'["GenericDao"] \in Files
    <3>1. Adapter = "GenericDao" /\ (singleton[Adapter] => db[Adapter] # NoDb)
      BY <1>5, <1>a DEF GenericDaoInit, HandleInv, StaticInv, UsesFile
    <3> QED BY <1>5, <1>a, <3>1 DEF GenericDaoInit, GetDbHelper, Initialize, OpenDatabase, NoDb
  <2>2. rows' = [rows EXCEPT ![db'["GenericDao"]] = {}]
    BY <1>5 DEF GenericDaoInit
  <2> QED BY <1>a, <1>5, <2>1, <2>2 DEF GenericDaoInit, GetDbHelper, Initialize, OpenDatabase
<1> QED BY <1>1, <1>2, <1>3, <1>4, <1>5 DEF InitPass

\* A step that makes no file keeps the files apart.
LEMMA FileShrinks ==
  ASSUME TypeOK, CountInv, FileInv, no' = no, at' = at \/ pc' # "save", pc' = "save" => pc = "save",
         \A d \in Adapters : path'[d] \in {path[d], NoFile} /\ open'[d] \subseteq open[d],
         \A f \in Files : f > no => rows'[f] = {},
         pc' = "save" => \A f \in Files : rows'[f] \in {rows[f], {}}
  PROVE  FileInv'
<1>1. no \in 0 .. MaxPasses
  BY DEF TypeOK
<1>2. pc' = "save" => Adapter' = Adapter
  BY DEF Adapter
<1>3. \A d \in Adapters : path'[d] <= no'
  BY <1>1, MaxPassesIsNat DEF FileInv, NoFile
<1>4. \A d, e \in Adapters : path'[d] = path'[e] => d = e \/ path'[d] = NoFile
  BY DEF FileInv
<1>5. \A d \in Adapters : \A f \in open'[d] : f <= no' /\ \A e \in Adapters : path'[e] = f => d = e
  <2> SUFFICES ASSUME NEW d \in Adapters, NEW f \in open'[d]
      PROVE f <= no /\ \A e \in Adapters : path'[e] = f => d = e
    OBVIOUS
  <2>1. f \in open[d] /\ f # NoFile
    BY NumbersAreFiles DEF TypeOK
  <2> QED BY <2>1 DEF FileInv
<1>6. pc' = "save" /\ Adapter' \in Lazy =>
         rows'[no'] = {} /\ \A d \in Adapters : path'[d] # no' /\ no' \notin open'[d]
  <2> SUFFICES ASSUME pc' = "save", Adapter' \in Lazy
      PROVE rows'[no] = {} /\ \A d \in Adapters : path'[d] # no /\ no \notin open'[d]
    OBVIOUS
  <2>1. rows[no] = {} /\ \A d \in Adapters : path[d] # no /\ no \notin open[d]
    BY <1>2 DEF FileInv
  <2>2. no \in Files /\ no # NoFile
    BY NumbersAreFiles DEF Working
  <2> QED BY <2>1, <2>2
<1> QED BY <1>3, <1>4, <1>5, <1>6 DEF FileInv

LEMMA FileNext == TypeOK /\ CountInv /\ HandleInv /\ FileInv /\ [Next]_vars => FileInv'
<1> SUFFICES ASSUME TypeOK, CountInv, HandleInv, FileInv, [Next]_vars PROVE FileInv'
  OBVIOUS
<1> USE DEF progressVars, diskVars, libraryVars
<1>a. Adapter \in Adapters
  BY AtWork DEF TypeOK
<1>b. no \in Nat /\ (\A f \in Files : f > no => rows[f] = {}) /\ (\A d \in Adapters : path[d] <= no)
  BY NumbersAreFiles DEF FileInv
<1>c. \A g : \A f \in Files : Forget(g)[f] \in {rows[f], {}}
  BY DEF TypeOK, Forget
<1>d. ASSUME ProcessDies PROVE FileInv'
  <2>1. /\ pc' = "dead" /\ no' = no /\ path' = path
        /\ \A d \in Adapters : open'[d] = {}
        /\ \A f \in Files : rows'[f] \in {rows[f], {}}
    BY <1>d DEF ProcessDies, NoConnections
  <2> QED BY <1>b, <2>1, FileShrinks
<1>e. ASSUME UNCHANGED <<at, no, path, open, rows>>, pc' = "save" => pc = "save" PROVE FileInv'
  BY <1>b, <1>e, FileShrinks
<1>f. ASSUME UNCHANGED <<at, no, path, open>>, pc = "insert", pc' # "save",
             NEW added, rows' = [rows EXCEPT ![db[Adapter]] = @ \cup added]
      PROVE FileInv'
  <2>1. db[Adapter] = path[Adapter]
    BY <1>f DEF HandleInv, UseInv, UsesFile, Working
  <2>2. \A f \in Files : f > no => rows'[f] = {}
    BY <1>a, <1>b, <1>f, <2>1 DEF TypeOK, Files
  <2> QED BY <1>f, <2>2, FileShrinks
<1>1. CASE UNCHANGED vars
  BY <1>1, <1>e DEF vars
<1>2. CASE StartRun
  <2>1. pc' = "init" /\ UNCHANGED <<no, path, open, rows>>
    BY <1>2 DEF StartRun
  <2> QED BY <1>b, <2>1, FileShrinks
<1>3. CASE InitPass
  <2>0. /\ no' = no + 1 /\ pc = "init" /\ Adapter' = Adapter /\ no + 1 \in Files /\ no + 1 # NoFile
        /\ \A f \in Files : f \in Nat /\ f # NoFile
    BY <1>3, NumbersAreFiles DEF InitPass, Adapter
  <2>1. \A d \in Adapters : path[d] \in Nat /\ open[d] \subseteq Files
    BY <2>0 DEF TypeOK, NoFile
  <2>2. /\ \A d \in Adapters : d # Adapter => path'[d] = path[d] /\ open'[d] = open[d]
        /\ path'[Adapter] \in {NoFile, no + 1, path[Adapter]}
        /\ open'[Adapter] \subseteq open[Adapter] \cup ({path'[Adapter]} \ {NoFile})
        /\ \A f \in Files : rows'[f] = rows[f] \/ rows'[f] = {}
        /\ Adapter \in Lazy => path'[Adapter] = NoFile
    BY <1>3, InitPassFiles
  <2>3. \A d \in Adapters : path'[d] <= no'
    BY <1>a, <1>b, <2>0, <2>1, <2>2 DEF NoFile
  <2>4. \A d, e \in Adapters : path'[d] = path'[e] => d = e \/ path'[d] = NoFile
    <3> SUFFICES ASSUME NEW d \in Adapters, NEW e \in Adapters, path'[d] = path'[e], d # e
        PROVE path'[d] = NoFile
      OBVIOUS
    <3>1. path[d] = path[e] => path[d] = NoFile
      BY DEF FileInv
    <3>2. path[d] # no + 1 /\ path[e] # no + 1
      BY <1>b, <2>1
    <3> QED BY <2>2, <3>1, <3>2
  <2>5. \A d \in Adapters : \A f \in open'[d] : f <= no' /\ \A e \in Adapters : path'[e] = f => d = e
    <3> SUFFICES ASSUME NEW d \in Adapters, NEW f \in open'[d]
        PROVE f <= no + 1 /\ \A e \in Adapters : path'[e] = f => d = e
      BY <2>0
    <3>1. CASE f \in open[d]
      <4>1. f <= no /\ f # NoFile /\ f \in Nat /\ \A e \in Adapters : path[e] = f => d = e
        BY <2>0, <2>1, <3>1 DEF FileInv
      <4> QED BY <1>b, <2>2, <4>1
    <3>2. CASE d = Adapter /\ f = path'[Adapter] /\ f # NoFile
      BY <1>a, <2>0, <2>3, <2>4, <3>2
    <3> QED BY <2>2, <3>1, <3>2
  <2>6. \A f \in Files : f > no' => rows'[f] = {}
    BY <1>b, <2>0, <2>2
  <2>7. Adapter \in Lazy =>
          rows'[no'] = {} /\ \A d \in Adapters : path'[d] # no' /\ no' \notin open'[d]
    <3> SUFFICES ASSUME Adapter \in Lazy, NEW d \in Adapters
        PROVE rows'[no + 1] = {} /\ path'[d] # no + 1 /\ no + 1 \notin open'[d]
      BY <1>a, <2>0
    <3>1. rows'[no + 1] = {}
      BY <1>b, <2>0, <2>2
    <3>2. path[d] # no + 1 /\ no + 1 \notin open[d]
      BY <1>b, <2>0, <2>1 DEF FileInv
    <3> QED BY <2>0, <2>2, <3>1, <3>2
  <2> QED BY <2>0, <2>3, <2>4, <2>5, <2>6, <2>7 DEF FileInv
<1>4. CASE SaveBegins
  <2>1. CASE UNCHANGED <<path, open>>
    BY <1>4, <1>e, <2>1 DEF SaveBegins
  <2>2. CASE db[Adapter] = NoDb
    <3>1. /\ pc = "save" /\ pc' = "insert" /\ Adapter \in Lazy /\ UNCHANGED <<no, rows>>
          /\ OpenDatabase(Adapter, path[Adapter], no)
      BY <1>4, <2>2 DEF SaveBegins, Lazy, HandleInv, UseInv, UsesFile, Working
    <3>2. path[Adapter] = NoFile
      BY <3>1 DEF HandleInv, UseInv, Working
    <3>3. /\ path' = [path EXCEPT ![Adapter] = no]
          /\ open' = [open EXCEPT ![Adapter] = open[Adapter] \cup {no}]
      BY <3>1, <3>2 DEF OpenDatabase
    <3>4. /\ \A d \in Adapters : d # Adapter => path'[d] = path[d] /\ open'[d] = open[d]
          /\ path'[Adapter] = no /\ open'[Adapter] = open[Adapter] \cup {no}
      BY <1>a, <3>3 DEF TypeOK
    <3>5. \A d \in Adapters : path[d] # no /\ no \notin open[d]
      BY <3>1 DEF FileInv
    <3>6. \A d \in Adapters : path'[d] <= no'
      BY <1>b, <3>1, <3>4
    <3>7. \A d, e \in Adapters : path'[d] = path'[e] => d = e \/ path'[d] = NoFile
      BY <3>4, <3>5 DEF FileInv
    <3>8. \A d \in Adapters : \A f \in open'[d] : f <= no' /\ \A e \in Adapters : path'[e] = f => d = e
      <4> SUFFICES ASSUME NEW d \in Adapters, NEW f \in open'[d]
          PROVE f <= no /\ \A e \in Adapters : path'[e] = f => d = e
        BY <3>1
      <4>1. CASE f \in open[d]
        BY <3>4, <3>5, <4>1 DEF FileInv
      <4>2. CASE d = Adapter /\ f = no
        BY <1>b, <3>4, <3>5, <4>2
      <4> QED BY <3>4, <4>1, <4>2
    <3> QED BY <1>b, <3>1, <3>6, <3>7, <3>8 DEF FileInv
  <2> QED BY <1>4, <2>1, <2>2 DEF SaveBegins
<1>5. CASE Insert
  <2>1. CASE rows' = rows
    BY <1>5, <1>e, <2>1 DEF Insert
  <2>2. CASE Adapter = "GenericDao"
    BY <1>5, <1>f, <2>2 DEF Insert
  <2> QED BY <1>5, <2>1, <2>2 DEF Insert
<1>6. CASE SaveCommits
  BY <1>6, <1>f DEF SaveCommits
<1>7. CASE InsertSkipped \/ SaveSwallowed \/ ClearCache \/ LoadEntities
  BY <1>7, <1>e DEF InsertSkipped, SaveSwallowed, ClearCache, LoadEntities
<1>8. CASE SaveThrows \/ CommitFails \/ LoadFails \/ Kill
  BY <1>8, <1>d, <1>e DEF SaveThrows, CommitFails, LoadFails, Kill
<1>9. CASE Dispose
  <2>1. no' = no /\ pc' # "save"
    BY <1>9 DEF Dispose, NextPass
  <2>2. /\ \A d \in Adapters : path'[d] \in {path[d], NoFile} /\ open'[d] \subseteq open[d]
        /\ \A f \in Files : rows'[f] \in {rows[f], {}}
    BY <1>9, <1>c DEF TypeOK, Dispose, NoOrmDispose, GreenDaoDispose, OrmLiteDispose,
       ActiveAndroidDispose, ActiveAndroidSebbiaDispose, DisposeAndDelete, SugarOrmDispose,
       GenericDaoDispose, CloseDatabase
  <2> QED BY <1>b, <2>1, <2>2, FileShrinks
<1>10. ASSUME NEW d \in Adapters, FinalizeLeaked(d) PROVE FileInv'
  <2>1. PICK f \in open[d] \ {db[d]} :
          open' = [open EXCEPT ![d] = open[d] \ {f}] /\ rows' = IF path[d] # f THEN Forget(f) ELSE rows
    BY <1>10 DEF FinalizeLeaked
  <2>2. UNCHANGED <<at, no, pc, path>>
    BY <1>10 DEF FinalizeLeaked
  <2>3. \A e \in Adapters : open'[e] \subseteq open[e]
    BY <2>1 DEF TypeOK
  <2>4. \A g \in Files : rows'[g] \in {rows[g], {}}
    BY <1>c, <2>1
  <2> QED BY <1>b, <2>2, <2>3, <2>4, FileShrinks
<1> QED BY <1>1, <1>2, <1>3, <1>4, <1>5, <1>6, <1>7, <1>8, <1>9, <1>10 DEF Next

------------------------------------------------------------------------------
(* What the open transaction holds.                                        *)

LEMMA SavedNone == Saved(1) = {}
  BY DEF Saved

LEMMA SavedOneMore ==
  ASSUME NEW n \in Nat \ {0}
  PROVE  Saved(n + 1) = Saved(n) \cup {[pass |-> no, entity |-> n]}
<1>1. 1 .. (n + 1) - 1 = (1 .. n - 1) \cup {n}
  OBVIOUS
<1>2. ASSUME NEW A, NEW B, A = B \cup {n}
      PROVE [pass : {no}, entity : A] = [pass : {no}, entity : B] \cup {[pass |-> no, entity |-> n]}
  <2>1. ASSUME NEW r \in [pass : {no}, entity : A]
        PROVE r \in [pass : {no}, entity : B] \/ r = [pass |-> no, entity |-> n]
    <3>1. r = [pass |-> no, entity |-> r.entity] /\ r.entity \in A
      OBVIOUS
    <3> QED BY <1>2, <3>1
  <2>2. ASSUME NEW r \in [pass : {no}, entity : B]
        PROVE r \in [pass : {no}, entity : A]
    BY <1>2
  <2>3. [pass |-> no, entity |-> n] \in [pass : {no}, entity : A]
    BY <1>2
  <2> QED BY <2>1, <2>2, <2>3
<1> QED BY <1>1, <1>2 DEF Saved

LEMMA SavedAll ==
  ASSUME TypeOK, nextEntity \notin Entities
  PROVE  Saved(nextEntity) = OwnRows
<1>1. nextEntity = ENTITIES_COUNT + 1
  BY DEF TypeOK, Entities
<1>2. 1 .. (ENTITIES_COUNT + 1) - 1 = 1 .. ENTITIES_COUNT
  OBVIOUS
<1> QED BY <1>1, <1>2 DEF Saved, OwnRows, Entities

LEMMA SaveInit == Init => SaveInv
  BY DEF Init, SaveInv

LEMMA SaveNext == TypeOK /\ CountInv /\ SaveInv /\ [Next]_vars => SaveInv'
<1> SUFFICES ASSUME TypeOK, CountInv, SaveInv, [Next]_vars PROVE SaveInv'
  OBVIOUS
<1> USE DEF progressVars, saveVars
<1>a. ASSUME tx' = {}, nextEntity' = 1, pc' # "insert" PROVE SaveInv'
  BY <1>a DEF SaveInv
<1>b. ASSUME UNCHANGED saveVars, pc # "insert", pc' # "insert" PROVE SaveInv'
  BY <1>b DEF SaveInv
<1>c. ASSUME UNCHANGED <<pc, at, no, saveVars>> PROVE SaveInv'
  BY <1>c DEF SaveInv, OwnRows, Saved, Adapter
<1>1. CASE UNCHANGED vars
  BY <1>1, <1>c DEF vars
<1>2. CASE StartRun \/ InitPass \/ Dispose
  BY <1>2, <1>b DEF StartRun, InitPass, Dispose, NextPass
<1>3. CASE SaveBegins
  <2>1. tx' = {} /\ nextEntity' = 1 /\ pc' = "insert"
    BY <1>3 DEF SaveBegins, SaveInv
  <2>2. Saved(nextEntity)' = Saved(1) /\ tx' \subseteq OwnRows'
    BY <1>3, <2>1 DEF SaveBegins, Saved
  <2> QED BY <2>1, <2>2, SavedNone DEF SaveInv
<1>4. CASE Insert
  <2>1. PICK row : row = [pass |-> no, entity |-> nextEntity]
    OBVIOUS
  <2>2. /\ pc = "insert" /\ pc' = "insert" /\ UNCHANGED <<no, at>>
        /\ nextEntity \in Entities /\ nextEntity' = nextEntity + 1
        /\ tx' = IF Adapter = "GenericDao" THEN tx ELSE tx \cup {row}
    BY <1>4, <2>1 DEF Insert
  <2>3. Adapter' = Adapter /\ OwnRows' = OwnRows /\ row \in OwnRows
    BY <2>1, <2>2 DEF Adapter, OwnRows
  <2>4. Saved(nextEntity)' = Saved(nextEntity) \cup {row}
    <3>1. Saved(nextEntity)' = Saved(nextEntity + 1)
      BY <2>2 DEF Saved
    <3>2. nextEntity \in Nat \ {0}
      BY <2>2 DEF Entities
    <3> QED BY <2>1, <3>1, <3>2, SavedOneMore
  <2>5. Adapter \in Strict => Adapter # "GenericDao"
    BY DEF Strict
  <2> HIDE DEF Strict, Saved, OwnRows
  <2> QED BY <2>2, <2>3, <2>4, <2>5 DEF SaveInv
<1>5. CASE InsertSkipped
  BY <1>5 DEF InsertSkipped, SaveInv, OwnRows, Adapter, Strict
<1>6. CASE SaveSwallowed \/ SaveCommits
  BY <1>6, <1>a DEF SaveSwallowed, SaveCommits
<1>7. CASE SaveThrows \/ CommitFails
  BY <1>7, <1>a DEF SaveThrows, CommitFails, ProcessDies
<1>8. CASE ClearCache \/ LoadEntities
  BY <1>8, <1>b DEF ClearCache, LoadEntities
<1>9. CASE LoadFails \/ Kill
  BY <1>9, <1>a, <1>b DEF LoadFails, Kill, ProcessDies
<1>10. ASSUME NEW d \in Adapters, FinalizeLeaked(d) PROVE SaveInv'
  BY <1>10, <1>c DEF FinalizeLeaked
<1> QED BY <1>1, <1>2, <1>3, <1>4, <1>5, <1>6, <1>7, <1>8, <1>9, <1>10 DEF Next

------------------------------------------------------------------------------
(* Whose rows a file holds.                                                *)

\* All or nothing of every pass, in a set of rows.
Whole(set) ==
    \A p \in Files :
        LET saved == {row \in set : row.pass = p} IN
        saved = {} \/ saved = [pass : {p}, entity : Entities]

LEMMA EmptyIsWhole == Whole({})
  BY DEF Whole

LEMMA OwnIsWhole == Whole(OwnRows)
<1> SUFFICES ASSUME NEW p \in Files
    PROVE LET saved == {row \in OwnRows : row.pass = p} IN
          saved = {} \/ saved = [pass : {p}, entity : Entities]
  BY DEF Whole
<1>1. CASE p = no
  BY <1>1 DEF OwnRows
<1>2. CASE p # no
  BY <1>2 DEF OwnRows
<1> QED BY <1>1, <1>2

LEMMA WholeFiles ==
  SavedAllOrNothing <=> \A d \in Strict : path[d] # NoFile => Whole(rows[path[d]])
  BY DEF SavedAllOrNothing, Whole, Strict

LEMMA ContentInit == Init => ContentInv
  BY AdaptersAre DEF Init, ContentInv, OwnInv, LeftInv, SavedAllOrNothing, Strict

LEMMA NamesAreFiles ==
  ASSUME TypeOK, NEW d \in Adapters, path[d] # NoFile
  PROVE  path[d] \in Files
  BY DEF TypeOK

\* A step that only gives up names and forgets rows.
LEMMA ContentShrinks ==
  ASSUME TypeOK, ContentInv, diedAt' = diedAt, no' = no,
         \A d \in Adapters : path'[d] \in {path[d], NoFile},
         \A f \in Files : rows'[f] \in {rows[f], {}},
         path'["ActiveAndroid"] # NoFile => (InUse("ActiveAndroid") => InUse("ActiveAndroid")')
  PROVE  LeftInv' /\ SavedAllOrNothing'
<1>1. ASSUME NEW d \in Adapters, path'[d] # NoFile
      PROVE path'[d] = path[d] /\ path[d] \in Files /\ rows'[path'[d]] \in {rows[path[d]], {}}
  BY <1>1, NamesAreFiles
<1>2. LeftInv'
  BY <1>1, AdaptersAre DEF LeftInv, ContentInv
<1>3. \A d \in Strict : path'[d] # NoFile => Whole(rows'[path'[d]])
  <2> SUFFICES ASSUME NEW d \in Strict, path'[d] # NoFile PROVE Whole(rows'[path'[d]])
    OBVIOUS
  <2>1. Whole(rows[path[d]])
    BY <1>1, WholeFiles DEF ContentInv, Strict
  <2> QED BY <1>1, <2>1, EmptyIsWhole DEF Strict
<1>4. SavedAllOrNothing'
  BY <1>3 DEF SavedAllOrNothing, Whole, Strict
<1> QED BY <1>2, <1>4

LEMMA ContentNext ==
  TypeOK /\ CountInv /\ HandleInv /\ FileInv /\ SaveInv /\ ContentInv /\ [Next]_vars => ContentInv'
<1> SUFFICES ASSUME TypeOK, CountInv, HandleInv, FileInv, SaveInv, ContentInv, [Next]_vars
    PROVE ContentInv'
  OBVIOUS
<1> USE DEF progressVars, diskVars, libraryVars
<1>a. /\ Adapter \in Adapters
      /\ \A f \in Files : f \in Nat /\ f # NoFile /\ f # NoDb
  BY AtWork, NumbersAreFiles DEF TypeOK
<1>b. pc \in {"insert", "clearCache", "load"} =>
        db[Adapter] \in Files /\ db[Adapter] # NoDb /\ db[Adapter] = path[Adapter]
  BY <1>a DEF HandleInv, UseInv, UsesFile, Working, TypeOK
<1>c. \A g : \A f \in Files : Forget(g)[f] \in {rows[f], {}}
  BY DEF TypeOK, Forget
<1>d. ASSUME ProcessDies PROVE ContentInv'
  <2>1. /\ pc' = "dead" /\ path' = path /\ diedAt' = no
        /\ \A f \in Files : rows'[f] \in {rows[f], {}}
    BY <1>d DEF ProcessDies
  <2>2. OwnInv'
    BY <2>1 DEF OwnInv
  <2>3. LeftInv'
    <3> SUFFICES ASSUME path["ActiveAndroid"] # NoFile, NEW row \in rows'[path["ActiveAndroid"]]
        PROVE row.pass <= no
      BY <2>1 DEF LeftInv
    <3>1. path["ActiveAndroid"] \in Files
      BY NamesAreFiles, AdaptersAre
    <3>2. row \in rows[path["ActiveAndroid"]] /\ row \in Rows
      BY <2>1, <3>1 DEF TypeOK
    <3>3. row.pass <= diedAt \/ row.pass = no
      BY <3>2 DEF ContentInv, LeftInv
    <3>4. row.pass \in Nat /\ diedAt \in Nat /\ no \in Nat /\ diedAt <= no
      BY <1>a, <3>2, NumbersAreFiles DEF Rows, CountInv
    <3> QED BY <3>3, <3>4
  <2>4. \A d \in Strict : path'[d] # NoFile => Whole(rows'[path'[d]])
    <3> SUFFICES ASSUME NEW d \in Strict, path[d] # NoFile PROVE Whole(rows'[path[d]])
      BY <2>1
    <3>1. Whole(rows[path[d]]) /\ path[d] \in Files
      BY WholeFiles, NamesAreFiles DEF ContentInv, Strict
    <3> QED BY <2>1, <3>1, EmptyIsWhole
  <2>5. SavedAllOrNothing'
    BY <2>4 DEF SavedAllOrNothing, Whole, Strict
  <2> QED BY <2>2, <2>3, <2>5 DEF ContentInv
<1>e. ASSUME UNCHANGED <<no, at, diedAt, path, db, rows>>,
             \/ pc' = pc
             \/ pc = "save" /\ pc' = "insert"
             \/ pc = "clearCache" /\ pc' = "load"
             \/ pc = "load" /\ pc' = "dispose"
             \/ /\ pc = "insert" /\ pc' = "clearCache"
                /\ Adapter \notin {"NoOrm", "GreenDao", "ActiveAndroidSebbia"}
      PROVE ContentInv'
  <2>1. Adapter' = Adapter /\ OwnRows' = OwnRows
    BY <1>e DEF Adapter, OwnRows
  <2>2. OwnInv'
    BY <1>e, <2>1 DEF ContentInv, OwnInv
  <2>3. InUse("ActiveAndroid") => InUse("ActiveAndroid")'
    BY <1>e, <2>1 DEF InUse, Working
  <2>4. LeftInv' /\ SavedAllOrNothing'
    BY <1>e, <2>3, ContentShrinks
  <2> QED BY <2>2, <2>4 DEF ContentInv
<1>f. ASSUME pc' \in {"init", "over", "dispose"} PROVE OwnInv'
  BY <1>f DEF OwnInv
<1>1. CASE UNCHANGED vars
  BY <1>1, <1>e DEF vars
<1>2. CASE StartRun
  <2>1. pc' = "init" /\ ~InUse("ActiveAndroid") /\ UNCHANGED <<no, diedAt, path, rows>>
    BY <1>2 DEF StartRun, InUse, Working
  <2>2. LeftInv' /\ SavedAllOrNothing'
    BY <2>1, ContentShrinks
  <2> QED BY <1>f, <2>1, <2>2 DEF ContentInv
<1>3. CASE InitPass
  <2>0. /\ no' = no + 1 /\ pc = "init" /\ pc' = "save" /\ Adapter' = Adapter /\ diedAt' = diedAt
        /\ no + 1 \in Files /\ no \in Nat /\ ~InUse("ActiveAndroid")
    BY <1>3, NumbersAreFiles DEF InitPass, Adapter, InUse, Working
  <2>1. rows[no + 1] = {}
    BY <2>0 DEF FileInv
  <2>2. /\ \A d \in Adapters : d # Adapter => path'[d] = path[d]
        /\ path'[Adapter] \in {NoFile, no + 1, path[Adapter]}
        /\ \A f \in Files : rows'[f] = rows[f] \/ rows'[f] = {}
        /\ Adapter \in Lazy => path'[Adapter] = NoFile
        /\ Adapter \in Strict \ Lazy => path'[Adapter] = no + 1
        /\ Adapter = "GenericDao" => rows'[db'["GenericDao"]] = {}
    BY <1>3, InitPassFiles
  <2>3. /\ Adapter \in Lazy => db'[Adapter] = NoDb
        /\ Adapter \notin Lazy => db'[Adapter] = path'[Adapter]
    BY <1>3, <2>0, HandleInitPass DEF HandleInv, UseInv, UsesFile, Working
  <2>4. OwnInv'
    <3>1. Adapter \in Strict /\ db'[Adapter] # NoDb => rows'[db'[Adapter]] = {}
      BY <2>0, <2>1, <2>2, <2>3
    <3>2. Adapter # "ActiveAndroid" /\ db'[Adapter] # NoDb => rows'[db'[Adapter]] = {}
      BY <1>a, <2>2, <3>1 DEF Strict
    <3> QED BY <2>0, <3>1, <3>2 DEF OwnInv
  <2>5. \A d \in Adapters : path'[d] # NoFile =>
          rows'[path'[d]] = {} \/ (path'[d] = path[d] /\ rows'[path'[d]] = rows[path[d]])
    <3> SUFFICES ASSUME NEW d \in Adapters, path'[d] # NoFile
        PROVE rows'[path'[d]] = {} \/ (path'[d] = path[d] /\ rows'[path'[d]] = rows[path[d]])
      OBVIOUS
    <3>1. path'[d] = path[d] \/ path'[d] = no + 1
      BY <2>2
    <3>2. path'[d] = path[d] => path[d] \in Files
      BY NamesAreFiles
    <3> QED BY <2>0, <2>1, <2>2, <3>1, <3>2
  <2>6. LeftInv'
    BY <2>0, <2>5, AdaptersAre DEF ContentInv, LeftInv
  <2>7. \A d \in Strict : path'[d] # NoFile => Whole(rows'[path'[d]])
    BY <2>5, WholeFiles, EmptyIsWhole DEF ContentInv, Strict
  <2>8. SavedAllOrNothing'
    BY <2>7 DEF SavedAllOrNothing, Whole, Strict
  <2> QED BY <2>4, <2>6, <2>8 DEF ContentInv
<1>4. CASE SaveBegins
  <2>1. CASE UNCHANGED <<path, db>>
    BY <1>4, <1>e, <2>1 DEF SaveBegins
  <2>2. CASE db[Adapter] = NoDb
    <3>1. /\ pc = "save" /\ pc' = "insert" /\ Adapter \in Lazy /\ UNCHANGED <<at, no, diedAt, rows>>
          /\ OpenDatabase(Adapter, path[Adapter], no)
      BY <1>4, <2>2 DEF SaveBegins, Lazy, HandleInv, UseInv, UsesFile, Working
    <3>2. path[Adapter] = NoFile /\ rows[no] = {} /\ no # NoDb
      BY <1>a, <3>1, NumbersAreFiles DEF HandleInv, UseInv, Working, FileInv
    <3>3. path' = [path EXCEPT ![Adapter] = no] /\ db' = [db EXCEPT ![Adapter] = no]
      BY <3>1, <3>2 DEF OpenDatabase
    <3>4. /\ \A d \in Adapters : d # Adapter => path'[d] = path[d]
          /\ path'[Adapter] = no /\ db'[Adapter] = no
      BY <1>a, <3>3 DEF TypeOK
    <3>5. Adapter' = Adapter /\ Adapter # "ActiveAndroid"
      BY <3>1 DEF Adapter, Lazy
    <3>6. OwnInv'
      BY <3>1, <3>2, <3>4, <3>5 DEF OwnInv
    <3>7. LeftInv'
      <4>1. path'["ActiveAndroid"] = path["ActiveAndroid"]
        BY <3>4, <3>5, AdaptersAre
      <4>2. ~InUse("ActiveAndroid")
        BY <3>5 DEF InUse
      <4> QED BY <3>1, <4>1, <4>2 DEF ContentInv, LeftInv
    <3>8. \A d \in Strict : path'[d] # NoFile => Whole(rows'[path'[d]])
      BY <3>1, <3>2, <3>4, WholeFiles, EmptyIsWhole DEF ContentInv, Strict
    <3>9. SavedAllOrNothing'
      BY <3>8 DEF SavedAllOrNothing, Whole, Strict
    <3> QED BY <3>6, <3>7, <3>9 DEF ContentInv
  <2> QED BY <1>4, <2>1, <2>2 DEF SaveBegins
<1>5. CASE Insert
  <2>1. CASE rows' = rows
    BY <1>5, <1>e, <2>1 DEF Insert
  <2>2. CASE Adapter = "GenericDao"
    <3>1. PICK row : row = [pass |-> no, entity |-> nextEntity]
      OBVIOUS
    <3>2. /\ pc = "insert" /\ pc' = "insert" /\ UNCHANGED <<at, no, diedAt, path, db>>
          /\ nextEntity \in Entities
          /\ rows' = [rows EXCEPT ![db[Adapter]] = rows[db[Adapter]] \cup {row}]
      BY <1>5, <2>2, <3>1 DEF Insert
    <3>3. row \in OwnRows
      BY <3>1, <3>2 DEF OwnRows
    <3>4. Adapter' = Adapter /\ OwnRows' = OwnRows
      BY <3>2 DEF Adapter, OwnRows
    <3>5. /\ rows'[db[Adapter]] = rows[db[Adapter]] \cup {row}
          /\ \A f : f # db[Adapter] => rows'[f] = rows[f]
      BY <1>b, <3>2 DEF TypeOK
    <3>6. OwnInv'
      BY <2>2, <3>2, <3>3, <3>4, <3>5 DEF ContentInv, OwnInv, Strict
    <3>7. \A d \in Adapters \ {"GenericDao"} : path[d] # NoFile => rows'[path[d]] = rows[path[d]]
      BY <1>a, <1>b, <2>2, <3>2, <3>5 DEF FileInv
    <3>8. LeftInv'
      <4>1. ~InUse("ActiveAndroid")
        BY <2>2 DEF InUse
      <4> QED BY <3>2, <3>7, <4>1, AdaptersAre DEF ContentInv, LeftInv
    <3>9. \A d \in Strict : path'[d] # NoFile => Whole(rows'[path'[d]])
      BY <3>2, <3>7, WholeFiles DEF ContentInv, Strict
    <3>10. SavedAllOrNothing'
      BY <3>9 DEF SavedAllOrNothing, Whole, Strict
    <3> QED BY <3>6, <3>8, <3>10 DEF ContentInv
  <2> QED BY <1>5, <2>1, <2>2 DEF Insert
<1>6. CASE SaveCommits
  <2>1. /\ pc = "insert" /\ pc' = "clearCache" /\ UNCHANGED <<at, no, diedAt, path, db>>
        /\ nextEntity \notin Entities
        /\ rows' = [rows EXCEPT ![db[Adapter]] = rows[db[Adapter]] \cup tx]
    BY <1>6 DEF SaveCommits
  <2>2. Adapter' = Adapter /\ OwnRows' = OwnRows
    BY <2>1 DEF Adapter, OwnRows
  <2>3. /\ rows'[db[Adapter]] = rows[db[Adapter]] \cup tx
        /\ \A f : f # db[Adapter] => rows'[f] = rows[f]
    BY <1>b, <2>1 DEF TypeOK
  <2>4. Adapter \in Strict => rows'[db[Adapter]] = OwnRows
    BY <1>b, <2>1, <2>3, SavedAll DEF SaveInv, ContentInv, OwnInv
  <2>5. tx \subseteq OwnRows
    BY <2>1 DEF SaveInv
  <2>6. OwnInv'
    <3>1. Adapter # "ActiveAndroid" => rows'[db[Adapter]] \subseteq OwnRows
      BY <1>b, <2>1, <2>3, <2>5 DEF ContentInv, OwnInv
    <3>2. Adapter \in {"NoOrm", "GreenDao", "ActiveAndroidSebbia"} => rows'[db[Adapter]] = OwnRows
      BY <1>a, <2>4 DEF Strict
    <3> HIDE DEF OwnRows
    <3> QED BY <2>1, <2>2, <3>1, <3>2 DEF OwnInv
  <2>7. \A d \in Adapters : d # Adapter /\ path[d] # NoFile => rows'[path[d]] = rows[path[d]]
    BY <1>a, <1>b, <2>1, <2>3 DEF FileInv
  <2>8. LeftInv'
    <3> SUFFICES ASSUME path["ActiveAndroid"] # NoFile, NEW row \in rows'[path["ActiveAndroid"]]
        PROVE row.pass <= diedAt \/ (InUse("ActiveAndroid")' /\ row.pass = no)
      BY <2>1 DEF LeftInv
    <3>1. InUse("ActiveAndroid")' <=> Adapter = "ActiveAndroid"
      BY <2>1, <2>2 DEF InUse, Working
    <3>2. row \in rows[path["ActiveAndroid"]] \/ (Adapter = "ActiveAndroid" /\ row \in OwnRows)
      BY <1>b, <2>1, <2>3, <2>5, <2>7, AdaptersAre
    <3>3. row \in OwnRows => row.pass = no
      BY DEF OwnRows
    <3> QED BY <2>1, <3>1, <3>2, <3>3 DEF ContentInv, LeftInv, InUse
  <2>9. \A d \in Strict : path'[d] # NoFile => Whole(rows'[path'[d]])
    <3> SUFFICES ASSUME NEW d \in Strict, path[d] # NoFile PROVE Whole(rows'[path[d]])
      BY <2>1
    <3>1. CASE d = Adapter
      BY <1>b, <2>1, <2>4, <3>1, OwnIsWhole
    <3>2. CASE d # Adapter
      BY <2>7, <3>2, WholeFiles DEF ContentInv, Strict
    <3> QED BY <3>1, <3>2
  <2>10. SavedAllOrNothing'
    BY <2>9 DEF SavedAllOrNothing, Whole, Strict
  <2> QED BY <2>6, <2>8, <2>10 DEF ContentInv
<1>7. CASE InsertSkipped \/ ClearCache \/ LoadEntities
  BY <1>7, <1>e DEF InsertSkipped, ClearCache, LoadEntities
<1>8. CASE SaveSwallowed
  BY <1>8, <1>e DEF SaveSwallowed
<1>9. CASE SaveThrows \/ CommitFails \/ LoadFails \/ Kill
  BY <1>9, <1>d, <1>e DEF SaveThrows, CommitFails, LoadFails, Kill
<1>10. CASE Dispose
  <2>1. /\ pc = "dispose" /\ pc' \in {"init", "over"} /\ no' = no /\ diedAt' = diedAt
    BY <1>10 DEF Dispose, NextPass
  <2>2. /\ \A d \in Adapters : path'[d] \in {path[d], NoFile}
        /\ \A f \in Files : rows'[f] \in {rows[f], {}}
    BY <1>10, <1>c DEF TypeOK, Dispose, NoOrmDispose, GreenDaoDispose, OrmLiteDispose,
       ActiveAndroidDispose, ActiveAndroidSebbiaDispose, DisposeAndDelete, SugarOrmDispose,
       GenericDaoDispose
  <2>3. Adapter = "ActiveAndroid" => path'["ActiveAndroid"] = NoFile
    BY <1>10, <1>a DEF TypeOK, Dispose, NoOrmDispose, GreenDaoDispose, OrmLiteDispose,
       ActiveAndroidDispose, ActiveAndroidSebbiaDispose, DisposeAndDelete, SugarOrmDispose,
       GenericDaoDispose
  <2>4. LeftInv' /\ SavedAllOrNothing'
    BY <2>1, <2>2, <2>3, ContentShrinks DEF InUse
  <2> QED BY <1>f, <2>1, <2>4 DEF ContentInv
<1>11. ASSUME NEW d \in Adapters, FinalizeLeaked(d) PROVE ContentInv'
  <2>1. PICK f \in open[d] \ {db[d]} : rows' = IF path[d] # f THEN Forget(f) ELSE rows
    BY <1>11 DEF FinalizeLeaked
  <2>2. UNCHANGED <<at, no, diedAt, pc, path, db>> /\ Adapter' = Adapter
    BY <1>11 DEF FinalizeLeaked, Adapter
  <2>3. \A g \in Files : rows'[g] \in {rows[g], {}}
    BY <1>c, <2>1
  <2>4. InUse("ActiveAndroid")' <=> InUse("ActiveAndroid")
    BY <2>2 DEF InUse
  <2>5. LeftInv' /\ SavedAllOrNothing'
    BY <2>2, <2>3, <2>4, ContentShrinks
  <2>6. pc \in {"save", "insert", "clearCache", "load"} /\ db[Adapter] # NoDb => rows'[db[Adapter]] = rows[db[Adapter]]
    <3> SUFFICES ASSUME pc \in {"save", "insert", "clearCache", "load"}, db[Adapter] # NoDb
        PROVE rows'[db[Adapter]] = rows[db[Adapter]]
      OBVIOUS
    <3>1. db[Adapter] = path[Adapter] /\ db[Adapter] \in Files
      BY <1>a DEF HandleInv, UseInv, UsesFile, Working, TypeOK
    <3>2. path[Adapter] = f => d = Adapter
      BY <1>a DEF FileInv
    <3>3. f # db[Adapter]
      BY <2>1, <3>1, <3>2
    <3> QED BY <2>1, <3>1, <3>3 DEF Forget, TypeOK
  <2>7. OwnInv'
    <3>1. OwnRows' = OwnRows
      BY <2>2 DEF OwnRows
    <3> QED BY <1>b, <2>2, <2>6, <3>1 DEF ContentInv, OwnInv
  <2> QED BY <2>5, <2>7 DEF ContentInv
<1> QED BY <1>1, <1>2, <1>3, <1>4, <1>5, <1>6, <1>7, <1>8, <1>9, <1>10, <1>11 DEF Next

------------------------------------------------------------------------------
(* What was loaded.                                                        *)

LEMMA LoadInit == Init => LoadInv
  BY DEF Init, LoadInv, LoadsOwnRows, MeasuredPassIsWhole, LoadIsUncached

LEMMA LoadNext ==
  TypeOK /\ CountInv /\ HandleInv /\ ContentInv /\ LoadInv /\ [Next]_vars => LoadInv'
<1> SUFFICES ASSUME TypeOK, CountInv, HandleInv, ContentInv, LoadInv, [Next]_vars PROVE LoadInv'
  OBVIOUS
<1> USE DEF progressVars, libraryVars, loadVars, LoadIsUncached
<1>a. Adapter \in Adapters
  BY AtWork DEF TypeOK
<1>b. ASSUME fromCache' = fromCache \/ fromCache' = {}, pc' \notin {"load", "dispose"} PROVE LoadInv'
  BY <1>b DEF LoadInv, LoadsOwnRows, MeasuredPassIsWhole
<1>c. ASSUME UNCHANGED <<pc, at, no, diedAt, loaded, fromCache, cached>> PROVE LoadInv'
  BY <1>c DEF LoadInv, LoadsOwnRows, MeasuredPassIsWhole, OwnRows, Adapter
<1>1. CASE UNCHANGED vars
  BY <1>1, <1>c DEF vars
<1>2. CASE StartRun \/ InitPass \/ SaveBegins
  BY <1>2, <1>b DEF StartRun, InitPass, SaveBegins
<1>3. CASE Insert \/ InsertSkipped \/ SaveSwallowed \/ SaveCommits
  BY <1>3, <1>b DEF Insert, InsertSkipped, SaveSwallowed, SaveCommits
<1>4. CASE SaveThrows \/ CommitFails \/ Kill
  BY <1>4, <1>b DEF SaveThrows, CommitFails, Kill, ProcessDies
<1>5. CASE ClearCache
  <2>1. cached'[Adapter'] = {}
    BY <1>5, <1>a DEF ClearCache, TypeOK, Adapter
  <2> QED BY <1>5, <2>1 DEF ClearCache, LoadInv, LoadsOwnRows, MeasuredPassIsWhole
<1>6. CASE LoadEntities
  <2>1. /\ pc = "load" /\ pc' = "dispose" /\ UNCHANGED <<at, no, diedAt, path, rows>>
        /\ loaded' = rows[db[Adapter]] /\ fromCache' = rows[db[Adapter]] \cap cached[Adapter]
    BY <1>6 DEF LoadEntities, diskVars
  <2>2. Adapter' = Adapter /\ OwnRows' = OwnRows
    BY <2>1 DEF Adapter, OwnRows
  <2>3. db[Adapter] # NoDb /\ db[Adapter] = path[Adapter] /\ path[Adapter] # NoFile
    BY <2>1, <1>a DEF HandleInv, UseInv, UsesFile, Working, NoFile, NoDb
  <2>4. fromCache' = {}
    BY <2>1 DEF LoadInv
  <2>5. LoadsOwnRows'
    <3> SUFFICES ASSUME NEW row \in rows[db[Adapter]]
        PROVE row.pass = no \/ (Adapter = "ActiveAndroid" /\ row.pass <= diedAt)
      BY <2>1, <2>2 DEF LoadsOwnRows
    <3>1. CASE Adapter = "ActiveAndroid"
      BY <2>1, <2>3, <3>1 DEF ContentInv, LeftInv
    <3>2. CASE Adapter # "ActiveAndroid"
      <4>1. row \in OwnRows
        BY <2>1, <2>3, <3>2 DEF ContentInv, OwnInv
      <4> QED BY <4>1 DEF OwnRows
    <3> QED BY <3>1, <3>2
  <2>6. MeasuredPassIsWhole'
    BY <2>1, <2>2 DEF MeasuredPassIsWhole, ContentInv, OwnInv
  <2> QED BY <2>1, <2>4, <2>5, <2>6 DEF LoadInv
<1>7. CASE LoadFails
  <2>1. CASE ProcessDies
    BY <1>b, <2>1 DEF ProcessDies
  <2>2. CASE Adapter = "OrmLite" /\ loaded' = {} /\ fromCache' = {} /\ pc' = "dispose" /\ at' = at
    BY <2>2 DEF LoadInv, LoadsOwnRows, MeasuredPassIsWhole, Adapter
  <2> QED BY <1>7, <2>1, <2>2 DEF LoadFails
<1>8. CASE Dispose
  BY <1>8, <1>b DEF Dispose, NextPass
<1>9. ASSUME NEW d \in Adapters, FinalizeLeaked(d) PROVE LoadInv'
  BY <1>9, <1>c DEF FinalizeLeaked
<1> QED BY <1>1, <1>2, <1>3, <1>4, <1>5, <1>6, <1>7, <1>8, <1>9 DEF Next

------------------------------------------------------------------------------
(* The invariant, and what it says of the code.                            *)

\* However many passes, entities and runs, and whenever processes die, the
\* state of doInBackground's passes is the one all its steps expect.
THEOREM PassInvariant == Spec => []IInv
<1>1. Init => IInv
  <2>1. Init => CountInv
    BY MaxPassesIsNat DEF Init, CountInv, Working
  <2> QED BY <2>1, TypeInit, HandleInit, FileInit, SaveInit, ContentInit, LoadInit DEF IInv
<1>2. IInv /\ [Next]_vars => IInv'
  BY TypeNext, CountNext, HandleNext, FileNext, SaveNext, ContentNext, LoadNext DEF IInv
<1> QED BY <1>1, <1>2, PTL DEF Spec

\* The numbers of passes, files and rows stay in their ranges: no pass begins
\* beyond those of MaxRuns runs.
THEOREM PassTypes == Spec => []TypeOK
<1>1. IInv => TypeOK
  BY DEF IInv
<1> QED BY <1>1, PassInvariant, PTL

\* An adapter saves to and loads from the open file its name leads to.
THEOREM FileIsTheAdapters == Spec => []UsesTheFileOfItsName
<1>1. IInv => UsesTheFileOfItsName
  BY DEF IInv, HandleInv, UseInv, UsesFile, UsesTheFileOfItsName, Working
<1> QED BY <1>1, PassInvariant, PTL

\* A pass loads its own rows; ActiveAndroid may load a dead process's too.
THEOREM RowsAreThePasses == Spec => []LoadsOwnRows
<1>1. IInv => LoadsOwnRows
  BY DEF IInv, LoadInv
<1> QED BY <1>1, PassInvariant, PTL

\* The adapters that let exceptions out load everything they saved.
THEOREM PassIsWhole == Spec => []MeasuredPassIsWhole
<1>1. IInv => MeasuredPassIsWhole
  BY DEF IInv, LoadInv
<1> QED BY <1>1, PassInvariant, PTL

\* A file never holds a part of what a pass saved.
THEOREM AllOrNothing == Spec => []SavedAllOrNothing
<1>1. IInv => SavedAllOrNothing
  BY DEF IInv, ContentInv
<1> QED BY <1>1, PassInvariant, PTL

\* What clearCache clears is all a load could find.
THEOREM CachesAreCleared == Spec => []LoadIsUncached
<1>1. IInv => LoadIsUncached
  BY DEF IInv, LoadInv
<1> QED BY <1>1, PassInvariant, PTL

\* Between two passes nothing is open but greenDAO's databases and the
\* content provider's.
THEOREM OthersClose == Spec => []OnlyGreenDaoLeaks
<1>1. IInv => OnlyGreenDaoLeaks
  BY DEF IInv, HandleInv, OpenInv, OnlyGreenDaoLeaks, InUse, Working
<1> QED BY <1>1, PassInvariant, PTL
==============================================================================
