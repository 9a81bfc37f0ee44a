---------------------------- MODULE DatabaseBusy ----------------------------
(***************************************************************************)
(* Threads with a NativeSQLiteConnection each, on one database file.  They *)
(* wait for each other's file locks inside native calls: the busy handler  *)
(* nativeOpen sets sleeps and tries again, for BUSY_TIMEOUT_MS at most.    *)
(*                                                                         *)
(* nativePrepareStatement holds the SQL text with GetStringCritical while  *)
(* SQLite compiles it.  The first compilation reads the schema, which      *)
(* needs a lock, so a thread may sleep there; and until it is done no      *)
(* other thread gets its garbage collected, the thread that holds the lock *)
(* included.                                                               *)
(*                                                                         *)
(* A thread runs one call of the class at a time, as NativeSQLiteConnection*)
(* has them, of which only the steps that take or need locks are kept.     *)
(* The lock levels are the header's.  Who may hold which is SQLite's       *)
(* protocol for a rollback journal, which is not in this repository.       *)
(***************************************************************************)
EXTENDS Naturals

CONSTANTS
    Threads,          \* the threads, one connection each
    BUSY_TIMEOUT      \* sleeps of the busy handler until BUSY_TIMEOUT_MS are over

ASSUME BusyTimeoutAssumption == BUSY_TIMEOUT \in Nat \ {0}

SQLITE_LOCK_NONE == 0
SQLITE_LOCK_SHARED == 1
SQLITE_LOCK_RESERVED == 2
SQLITE_LOCK_PENDING == 3
SQLITE_LOCK_EXCLUSIVE == 4

Texts == {"BEGIN", "SELECT", "INSERT", "COMMIT", "ROLLBACK"}

VARIABLES
    lock,          \* lock[t]: the lock of t's connection on the file
    transaction,   \* transaction[t]: a BEGIN is not yet committed or rolled back
    schema,        \* schema[t]: t's connection has read the schema
    pc,            \* pc[t]: between calls, or which native call is at what
    text,          \* text[t]: the statement; "autocommit" once an INSERT outside
                   \* a transaction has its lock and commits
    slept,         \* slept[t]: how often the busy handler slept for this lock
    collecting     \* the threads that wait for the garbage collector

vars == <<lock, transaction, schema, pc, text, slept, collecting>>

Init ==
    /\ lock = [t \in Threads |-> SQLITE_LOCK_NONE]
    /\ transaction = [t \in Threads |-> FALSE]
    /\ schema = [t \in Threads |-> FALSE]
    /\ pc = [t \in Threads |-> "idle"]
    /\ text = [t \in Threads |-> "BEGIN"]
    /\ slept = [t \in Threads |-> 0]
    /\ collecting = {}

GoTo(t, label) == pc' = [pc EXCEPT ![t] = label]

------------------------------------------------------------------------------
(* SQLite's locks.                                                         *)

OthersBelow(t, level) == \A u \in Threads \ {t} : lock[u] < level

MayShare(t) == lock[t] # SQLITE_LOCK_NONE \/ OthersBelow(t, SQLITE_LOCK_PENDING)
MayReserve(t) == MayShare(t) /\ OthersBelow(t, SQLITE_LOCK_RESERVED)
MayExclude(t) == OthersBelow(t, SQLITE_LOCK_SHARED)

NeedsSchema(t) == text[t] \in {"SELECT", "INSERT"} /\ ~schema[t]
Writing(t) == lock[t] >= SQLITE_LOCK_RESERVED
Committing(t) == text[t] \in {"COMMIT", "autocommit"} /\ Writing(t)

\* The native call that t is in cannot get the lock it needs.
Blocked(t) ==
    \/ pc[t] = "compiling" /\ NeedsSchema(t) /\ ~MayShare(t)
    \/ pc[t] = "stepping" /\ text[t] = "SELECT" /\ ~MayShare(t)
    \/ pc[t] = "stepping" /\ text[t] = "INSERT" /\ ~Writing(t) /\ ~MayReserve(t)
    \/ pc[t] = "stepping" /\ Committing(t) /\ lock[t] = SQLITE_LOCK_PENDING /\ ~MayExclude(t)

\* Mutant of HandlerInvoked: in every case.
HandlerAlwaysInvoked(t) == TRUE

\* Not for a read lock that cannot be promoted because another connection is
\* writing: that one will wait for this read lock.
HandlerInvoked(t) == ~(text[t] = "INSERT" /\ lock[t] = SQLITE_LOCK_SHARED)

MaySleep(t) == slept[t] < BUSY_TIMEOUT

\* Mutant of Sleep: the time slept is not counted.
SleepUncounted(t) ==
    /\ Blocked(t) /\ HandlerInvoked(t) /\ MaySleep(t)
    /\ UNCHANGED vars

Sleep(t) ==
    /\ Blocked(t) /\ HandlerInvoked(t) /\ MaySleep(t)
    /\ slept' = [slept EXCEPT ![t] = @ + 1]
    /\ UNCHANGED <<lock, transaction, schema, pc, text, collecting>>

\* A commit by itself fails as a whole; a COMMIT can be tried again.
LockAfterBusy(t) == IF text[t] = "autocommit" THEN SQLITE_LOCK_NONE ELSE lock[t]

\* SQLITE_BUSY, which the native method throws.
GiveUp(t) ==
    /\ Blocked(t) /\ ~(HandlerInvoked(t) /\ MaySleep(t))
    /\ GoTo(t, IF pc[t] = "compiling" THEN "idle" ELSE "stepped")
    /\ lock' = [lock EXCEPT ![t] = LockAfterBusy(t)]
    /\ UNCHANGED <<transaction, schema, text, slept, collecting>>

\* After an error SQLite may have ended the transaction: after SQLITE_BUSY, or
\* because a statement that writes met a full disk, an I/O error or no memory.
RolledBack(t) ==
    /\ pc[t] = "stepping" /\ transaction[t]
    /\ \/ Blocked(t) /\ ~(HandlerInvoked(t) /\ MaySleep(t))
       \/ text[t] = "INSERT"
    /\ GoTo(t, "stepped")
    /\ lock' = [lock EXCEPT ![t] = SQLITE_LOCK_NONE]
    /\ transaction' = [transaction EXCEPT ![t] = FALSE]
    /\ UNCHANGED <<schema, text, slept, collecting>>

------------------------------------------------------------------------------
(* The native calls.                                                       *)

\* nativePrepareStatement: GetStringCritical.
Prepare(t, sql) ==
    /\ pc[t] = "idle" /\ t \notin collecting
    /\ GoTo(t, "compiling")
    /\ text' = [text EXCEPT ![t] = sql]
    /\ slept' = [slept EXCEPT ![t] = 0]
    /\ UNCHANGED <<lock, transaction, schema, collecting>>

\* sqlite3_prepare16_v2 returns: ReleaseStringCritical.
Compiled(t) ==
    /\ pc[t] = "compiling" /\ ~Blocked(t)
    /\ schema' = [schema EXCEPT ![t] = @ \/ NeedsSchema(t)]
    /\ GoTo(t, "prepared")
    /\ UNCHANGED <<lock, transaction, text, slept, collecting>>

\* An execute method calls sqlite3_step.
Step(t) ==
    /\ pc[t] = "prepared" /\ t \notin collecting
    /\ GoTo(t, "stepping")
    /\ slept' = [slept EXCEPT ![t] = 0]
    /\ UNCHANGED <<lock, transaction, schema, text, collecting>>

Stepped(t, level, open) ==
    /\ GoTo(t, "stepped")
    /\ lock' = [lock EXCEPT ![t] = level]
    /\ transaction' = [transaction EXCEPT ![t] = open]
    /\ UNCHANGED <<schema, text, slept, collecting>>

Begin(t) ==
    /\ pc[t] = "stepping" /\ text[t] = "BEGIN" /\ ~transaction[t]
    /\ Stepped(t, lock[t], TRUE)

\* SQLITE_ERROR: a transaction in a transaction, or the end of none.
Refused(t) ==
    /\ pc[t] = "stepping"
    /\ text[t] \in IF transaction[t] THEN {"BEGIN"} ELSE {"COMMIT", "ROLLBACK"}
    /\ Stepped(t, lock[t], transaction[t])

\* The lock is kept until the statement is finalized.
Select(t) ==
    /\ pc[t] = "stepping" /\ text[t] = "SELECT" /\ ~Blocked(t)
    /\ Stepped(t, IF lock[t] = SQLITE_LOCK_NONE THEN SQLITE_LOCK_SHARED ELSE lock[t],
               transaction[t])

Reserved(t) == [lock EXCEPT ![t] = IF Writing(t) THEN @ ELSE SQLITE_LOCK_RESERVED]

Insert(t) ==
    /\ pc[t] = "stepping" /\ text[t] = "INSERT" /\ ~Blocked(t)
    /\ lock' = Reserved(t)
    /\ IF transaction[t]
       THEN GoTo(t, "stepped") /\ UNCHANGED <<text, slept>>
       ELSE /\ text' = [text EXCEPT ![t] = "autocommit"]
            /\ slept' = [slept EXCEPT ![t] = 0]
            /\ UNCHANGED pc
    /\ UNCHANGED <<transaction, schema, collecting>>

\* From RESERVED to PENDING, which keeps new readers out, to EXCLUSIVE.
Commit(t) ==
    /\ pc[t] = "stepping" /\ Committing(t) /\ lock[t] < SQLITE_LOCK_EXCLUSIVE /\ ~Blocked(t)
    /\ lock' = [lock EXCEPT ![t] = @ + 1]
    /\ UNCHANGED <<transaction, schema, pc, text, slept, collecting>>

\* The file is written, or there was nothing to write.
Committed(t) ==
    /\ pc[t] = "stepping" /\ text[t] \in {"COMMIT", "autocommit"}
    /\ transaction[t] \/ text[t] = "autocommit"
    /\ ~Committing(t) \/ lock[t] = SQLITE_LOCK_EXCLUSIVE
    /\ Stepped(t, SQLITE_LOCK_NONE, FALSE)

Rollback(t) ==
    /\ pc[t] = "stepping" /\ text[t] = "ROLLBACK" /\ transaction[t]
    /\ Stepped(t, SQLITE_LOCK_NONE, FALSE)

\* nativeFinalizeStatement, in the finally block.
Finalize(t) ==
    /\ pc[t] = "stepped" /\ t \notin collecting
    /\ GoTo(t, "idle")
    /\ lock' = [lock EXCEPT ![t] = IF transaction[t] THEN @ ELSE SQLITE_LOCK_NONE]
    /\ UNCHANGED <<transaction, schema, text, slept, collecting>>

\* nativeClose, which rolls an open transaction back, and nativeOpen again.
Reopen(t) ==
    /\ pc[t] = "idle" /\ t \notin collecting
    /\ lock' = [lock EXCEPT ![t] = SQLITE_LOCK_NONE]
    /\ transaction' = [transaction EXCEPT ![t] = FALSE]
    /\ schema' = [schema EXCEPT ![t] = FALSE]
    /\ UNCHANGED <<pc, text, slept, collecting>>

------------------------------------------------------------------------------
(* The garbage collector.                                                  *)

\* In Java, a thread may find the heap full.
Allocate(t) ==
    /\ pc[t] \in {"idle", "prepared", "stepped"} /\ t \notin collecting
    /\ collecting' = collecting \cup {t}
    /\ UNCHANGED <<lock, transaction, schema, pc, text, slept>>

\* Not while any thread is in a critical region.
Collect ==
    /\ collecting # {}
    /\ \A t \in Threads : pc[t] # "compiling"
    /\ collecting' = {}
    /\ UNCHANGED <<lock, transaction, schema, pc, text, slept>>

------------------------------------------------------------------------------
\* What a thread does by itself once it is in a native call.
Native(t) ==
    \/ Sleep(t) \/ GiveUp(t) \/ RolledBack(t) \/ Compiled(t)
    \/ Begin(t) \/ Refused(t) \/ Select(t) \/ Insert(t) \/ Commit(t) \/ Committed(t) \/ Rollback(t)

Next ==
    \/ \E t \in Threads :
         \/ \E sql \in Texts : Prepare(t, sql)
         \/ Step(t) \/ Native(t) \/ Finalize(t) \/ Reopen(t) \/ Allocate(t)
    \/ Collect

\* A thread in a native call is scheduled.  What the callers do next, and
\* whether they ever do, is left open.
Spec == Init /\ [][Next]_vars /\ \A t \in Threads : WF_vars(Native(t))

------------------------------------------------------------------------------
\* No two threads sleep for each other's locks: a reader that wants to write
\* as well is told SQLITE_BUSY when another is writing and waits for it.
Asleep(t) == Blocked(t) /\ slept[t] > 0
NoMutualSleep ==
    \A t, u \in Threads : t # u /\ Asleep(t) /\ Asleep(u) =>
        lock[t] = SQLITE_LOCK_NONE \/ lock[u] = SQLITE_LOCK_NONE

\* Every native call ends, whatever the other threads do with their locks:
\* also nativePrepareStatement, when the thread whose lock it sleeps for waits
\* for the collector, and so for that very call.
CallEnds ==
    \A t \in Threads :
        pc[t] \in {"compiling", "stepping"} ~> pc[t] \notin {"compiling", "stepping"}
==============================================================================
