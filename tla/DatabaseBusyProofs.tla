------------------------- MODULE DatabaseBusyProofs -------------------------
(***************************************************************************)
(* NoMutualSleep for any number of threads.  A thread that sleeps with a   *)
(* lock of its own is a writer that commits: a reader is never blocked     *)
(* while it keeps its lock, and one that wants to write is told            *)
(* SQLITE_BUSY without a sleep.  And there is one writer at most.          *)
(***************************************************************************)
EXTENDS DatabaseBusy, Integers, TLAPS

Pcs == {"idle", "compiling", "prepared", "stepping", "stepped"}

LockTypes ==
    /\ lock \in [Threads -> 0 .. 4]
    /\ slept \in [Threads -> Nat]
    /\ pc \in [Threads -> Pcs]
    /\ text \in [Threads -> Texts \cup {"autocommit"}]

\* Two connections never both hold more than SHARED.
OneWriter ==
    \A t, u \in Threads : t # u =>
        lock[t] < SQLITE_LOCK_RESERVED \/ lock[u] < SQLITE_LOCK_RESERVED

\* A read lock is not slept with while it is to be promoted.
PromotesAtOnce ==
    \A t \in Threads :
        pc[t] = "stepping" /\ text[t] = "INSERT" /\ lock[t] = SQLITE_LOCK_SHARED =>
            slept[t] = 0

LockInv == LockTypes /\ OneWriter /\ PromotesAtOnce

\* Connections just opened have no locks.
LEMMA LockInvInit == Init => LockInv
  BY DEF Init, LockInv, LockTypes, Pcs, Texts, OneWriter, PromotesAtOnce,
         SQLITE_LOCK_NONE, SQLITE_LOCK_SHARED, SQLITE_LOCK_RESERVED

\* An INSERT that is not blocked makes no second writer.
LEMMA ReserveKeepsOneWriter ==
  ASSUME LockTypes, OneWriter, NEW t \in Threads,
         lock' = Reserved(t), Writing(t) \/ MayReserve(t)
  PROVE  /\ lock' \in [Threads -> 0 .. 4]
         /\ OneWriter'
  BY DEF LockTypes, OneWriter, Reserved, Writing, MayReserve, OthersBelow,
         SQLITE_LOCK_RESERVED

\* No native call, its sleep or its end, and no call after it breaks LockInv.
LEMMA StepKeepsLockInv == LockInv /\ [Next]_vars => LockInv'
<1> SUFFICES ASSUME LockInv, [Next]_vars PROVE LockInv'
  OBVIOUS
<1> USE DEF LockInv, LockTypes, Pcs
<1>1. CASE UNCHANGED vars
  BY <1>1 DEF vars, OneWriter, PromotesAtOnce
<1>2. CASE Collect
  BY <1>2 DEF Collect, OneWriter, PromotesAtOnce
<1>3. ASSUME NEW t \in Threads, NEW sql \in Texts, Prepare(t, sql) PROVE LockInv'
  BY <1>3 DEF Prepare, GoTo, OneWriter, PromotesAtOnce
<1>4. ASSUME NEW t \in Threads, Step(t) PROVE LockInv'
  BY <1>4 DEF Step, GoTo, OneWriter, PromotesAtOnce
<1>5. ASSUME NEW t \in Threads, Sleep(t) PROVE LockInv'
  <2>1. ~(text[t] = "INSERT" /\ lock[t] = SQLITE_LOCK_SHARED)
    BY <1>5 DEF Sleep, HandlerInvoked
  <2>. QED
    BY <1>5, <2>1 DEF Sleep, OneWriter, PromotesAtOnce
<1>6. ASSUME NEW t \in Threads, GiveUp(t) PROVE LockInv'
  BY <1>6 DEF GiveUp, GoTo, LockAfterBusy, OneWriter, PromotesAtOnce,
              SQLITE_LOCK_NONE, SQLITE_LOCK_RESERVED
<1>7. ASSUME NEW t \in Threads, RolledBack(t) PROVE LockInv'
  BY <1>7 DEF RolledBack, GoTo, OneWriter, PromotesAtOnce,
              SQLITE_LOCK_NONE, SQLITE_LOCK_RESERVED
<1>8. ASSUME NEW t \in Threads, Compiled(t) PROVE LockInv'
  BY <1>8 DEF Compiled, GoTo, OneWriter, PromotesAtOnce
<1>9. ASSUME NEW t \in Threads, Begin(t) \/ Refused(t) PROVE LockInv'
  BY <1>9 DEF Begin, Refused, Stepped, GoTo, OneWriter, PromotesAtOnce
<1>10. ASSUME NEW t \in Threads, Select(t) PROVE LockInv'
  BY <1>10 DEF Select, Stepped, GoTo, OneWriter, PromotesAtOnce,
               SQLITE_LOCK_NONE, SQLITE_LOCK_SHARED, SQLITE_LOCK_RESERVED
<1>11. ASSUME NEW t \in Threads, Committed(t) \/ Rollback(t) PROVE LockInv'
  BY <1>11 DEF Committed, Rollback, Stepped, GoTo, OneWriter, PromotesAtOnce,
               SQLITE_LOCK_NONE, SQLITE_LOCK_RESERVED
<1>12. ASSUME NEW t \in Threads, Insert(t) PROVE LockInv'
  <2>1. Writing(t) \/ MayReserve(t)
    BY <1>12 DEF Insert, Blocked
  <2>2. lock' \in [Threads -> 0 .. 4] /\ OneWriter'
    BY <1>12, <2>1, ReserveKeepsOneWriter DEF Insert
  <2>3. lock'[t] # SQLITE_LOCK_SHARED
    BY <1>12 DEF Insert, Reserved, Writing, SQLITE_LOCK_SHARED, SQLITE_LOCK_RESERVED
  <2>4. /\ pc' \in [Threads -> Pcs] /\ text' \in [Threads -> Texts \cup {"autocommit"}]
        /\ slept' \in [Threads -> Nat]
    BY <1>12 DEF Insert, GoTo
  <2>5. \A u \in Threads \ {t} : /\ lock'[u] = lock[u] /\ pc'[u] = pc[u]
                                 /\ text'[u] = text[u] /\ slept'[u] = slept[u]
    BY <1>12 DEF Insert, GoTo, Reserved
  <2>6. PromotesAtOnce'
    BY <2>3, <2>5 DEF PromotesAtOnce
  <2>. QED
    BY <2>2, <2>4, <2>6
<1>13. ASSUME NEW t \in Threads, Commit(t) PROVE LockInv'
  <2>1. lock[t] >= SQLITE_LOCK_RESERVED /\ lock[t] < SQLITE_LOCK_EXCLUSIVE
    BY <1>13 DEF Commit, Committing, Writing
  <2>. QED
    BY <1>13, <2>1 DEF Commit, OneWriter, PromotesAtOnce, SQLITE_LOCK_SHARED,
                       SQLITE_LOCK_RESERVED, SQLITE_LOCK_EXCLUSIVE
<1>14. ASSUME NEW t \in Threads, Finalize(t) PROVE LockInv'
  BY <1>14 DEF Finalize, GoTo, OneWriter, PromotesAtOnce,
               SQLITE_LOCK_NONE, SQLITE_LOCK_RESERVED
<1>15. ASSUME NEW t \in Threads, Reopen(t) PROVE LockInv'
  BY <1>15 DEF Reopen, OneWriter, PromotesAtOnce, SQLITE_LOCK_NONE,
               SQLITE_LOCK_SHARED, SQLITE_LOCK_RESERVED
<1>16. ASSUME NEW t \in Threads, Allocate(t) PROVE LockInv'
  BY <1>16 DEF Allocate, OneWriter, PromotesAtOnce
<1>. QED
  BY <1>1, <1>2, <1>3, <1>4, <1>5, <1>6, <1>7, <1>8, <1>9, <1>10, <1>11, <1>12,
     <1>13, <1>14, <1>15, <1>16 DEF Next, Native

\* A blocked thread that slept and holds a lock is committing.
LEMMA SleeperWithLockCommits ==
  ASSUME LockInv, NEW t \in Threads, Asleep(t), lock[t] # SQLITE_LOCK_NONE
  PROVE  lock[t] >= SQLITE_LOCK_RESERVED
<1>1. slept[t] # 0 /\ MayShare(t)
  BY DEF Asleep, MayShare, LockInv, LockTypes
<1>2. CASE pc[t] = "stepping" /\ text[t] = "INSERT" /\ ~Writing(t)
  <2>1. lock[t] = SQLITE_LOCK_SHARED
    BY <1>2 DEF Writing, LockInv, LockTypes, SQLITE_LOCK_NONE, SQLITE_LOCK_SHARED,
                SQLITE_LOCK_RESERVED
  <2>. QED
    BY <1>1, <1>2, <2>1 DEF LockInv, PromotesAtOnce
<1>3. CASE Committing(t)
  BY <1>3 DEF Committing, Writing
<1>. QED
  BY <1>1, <1>2, <1>3 DEF Asleep, Blocked

\* No two threads sleep in native calls for locks that the other holds: what
\* nativeOpen's busy timeout and SQLite's refusal to sleep come to, together.
THEOREM NobodySleepsForASleeper == Spec => []NoMutualSleep
<1>1. LockInv => NoMutualSleep
  <2> SUFFICES ASSUME LockInv, NEW t \in Threads, NEW u \in Threads, t # u,
                      Asleep(t), Asleep(u),
                      lock[t] # SQLITE_LOCK_NONE, lock[u] # SQLITE_LOCK_NONE
               PROVE  FALSE
    BY DEF NoMutualSleep
  <2>1. lock[t] >= SQLITE_LOCK_RESERVED /\ lock[u] >= SQLITE_LOCK_RESERVED
    BY SleeperWithLockCommits
  <2>. QED
    BY <2>1 DEF LockInv, LockTypes, OneWriter, SQLITE_LOCK_RESERVED
<1>. QED
  BY <1>1, LockInvInit, StepKeepsLockInv, PTL DEF Spec

------------------------------------------------------------------------------
(* The safety half of CallEnds: a call under way can go on, and every step  *)
(* of it brings its end nearer.                                            *)

InCall(t) == pc[t] \in {"compiling", "stepping"}

\* The conditions under which the native call of t has a step: one of its
\* actions, each by its guard.
MayGoOn(t) ==
    \/ Blocked(t)                                        \* Sleep or GiveUp
    \/ pc[t] = "compiling" /\ ~Blocked(t)                \* Compiled
    \/ /\ pc[t] = "stepping"
       /\ \/ text[t] = "BEGIN" /\ ~transaction[t]        \* Begin
          \/ text[t] \in IF transaction[t] THEN {"BEGIN"} ELSE {"COMMIT", "ROLLBACK"}  \* Refused
          \/ text[t] \in {"SELECT", "INSERT"} /\ ~Blocked(t)
          \/ Committing(t) /\ lock[t] < SQLITE_LOCK_EXCLUSIVE /\ ~Blocked(t)  \* Commit
          \/ /\ text[t] \in {"COMMIT", "autocommit"}     \* Committed
             /\ transaction[t] \/ text[t] = "autocommit"
             /\ ~Committing(t) \/ lock[t] = SQLITE_LOCK_EXCLUSIVE
          \/ text[t] = "ROLLBACK" /\ transaction[t]      \* Rollback

\* How many steps the call of t may still take: the sleeps its lock is still
\* worth, the locks a commit has still to take, and for an INSERT the commit
\* that may follow it with sleeps of its own.
StepsLeft(t) ==
    (BUSY_TIMEOUT - slept[t])
      + IF text[t] = "INSERT" THEN BUSY_TIMEOUT + 5
        ELSE IF text[t] \in {"COMMIT", "autocommit"} THEN 4 - lock[t] ELSE 0

\* No sleep is one too many.
SleptInv ==
    /\ \A t \in Threads : slept[t] <= BUSY_TIMEOUT
    /\ transaction \in [Threads -> BOOLEAN]

CallsGoOn == \A t \in Threads : InCall(t) => MayGoOn(t)

\* What the others do, their locks, sleeps and collections, costs a call
\* nothing; what it does itself costs it a step it had left, or ends it.
EndComesNearer ==
    \A t \in Threads : InCall(t) =>
        /\ Native(t) => pc'[t] \in {"idle", "prepared", "stepped"} \/ StepsLeft(t)' \in 0 .. StepsLeft(t) - 1
        /\ ~Native(t) => pc'[t] = pc[t] /\ StepsLeft(t)' = StepsLeft(t)

LEMMA StepKeepsSleptInv == LockInv /\ SleptInv /\ [Next]_vars => SleptInv'
<1> SUFFICES ASSUME LockInv, SleptInv, [Next]_vars PROVE SleptInv'
  OBVIOUS
<1> USE BusyTimeoutAssumption DEF SleptInv, LockInv, LockTypes
<1>1. CASE UNCHANGED vars \/ Collect
  BY <1>1 DEF vars, Collect
<1>2. ASSUME NEW t \in Threads, NEW sql \in Texts, Prepare(t, sql) PROVE SleptInv'
  BY <1>2 DEF Prepare
<1>3. ASSUME NEW t \in Threads, Step(t) \/ Allocate(t) \/ Finalize(t) \/ Reopen(t) PROVE SleptInv'
  <2>1. CASE Step(t)
    BY <2>1 DEF Step
  <2>2. CASE Allocate(t)
    BY <2>2 DEF Allocate
  <2>3. CASE Finalize(t)
    BY <2>3 DEF Finalize
  <2>4. CASE Reopen(t)
    BY <2>4 DEF Reopen
  <2>. QED
    BY <1>3, <2>1, <2>2, <2>3, <2>4
<1>4. ASSUME NEW t \in Threads, Sleep(t) PROVE SleptInv'
  BY <1>4 DEF Sleep, MaySleep
<1>5. ASSUME NEW t \in Threads, GiveUp(t) \/ RolledBack(t) \/ Compiled(t) PROVE SleptInv'
  BY <1>5 DEF GiveUp, RolledBack, Compiled
<1>6. ASSUME NEW t \in Threads,
             Begin(t) \/ Refused(t) \/ Select(t) \/ Committed(t) \/ Rollback(t)
      PROVE  SleptInv'
  BY <1>6 DEF Begin, Refused, Select, Committed, Rollback, Stepped
<1>7. ASSUME NEW t \in Threads, Insert(t) \/ Commit(t) PROVE SleptInv'
  BY <1>7 DEF Insert, Commit
<1>. QED
  BY <1>1, <1>2, <1>3, <1>4, <1>5, <1>6, <1>7 DEF Next, Native

\* The number of steps left is one.
LEMMA StepsLeftIsNat ==
  ASSUME LockInv, SleptInv, NEW t \in Threads
  PROVE  StepsLeft(t) \in Nat
  BY BusyTimeoutAssumption DEF LockInv, LockTypes, SleptInv, StepsLeft

\* Every case of a call has its step.
LEMMA EveryCaseGoesOn == LockInv /\ SleptInv => CallsGoOn
<1> SUFFICES ASSUME LockInv, SleptInv, NEW t \in Threads, InCall(t), ~Blocked(t) PROVE MayGoOn(t)
  BY DEF CallsGoOn, MayGoOn
<1>1. /\ lock[t] \in 0 .. 4 /\ text[t] \in Texts \cup {"autocommit"}
      /\ transaction[t] \in BOOLEAN
  BY DEF LockInv, LockTypes, SleptInv
<1>2. lock[t] < SQLITE_LOCK_EXCLUSIVE \/ lock[t] = SQLITE_LOCK_EXCLUSIVE
  BY <1>1 DEF SQLITE_LOCK_EXCLUSIVE
<1>. QED
  BY <1>1, <1>2 DEF MayGoOn, InCall, Texts

\* A native step ends the call or leaves it fewer steps.
LEMMA NativeStepCounts ==
  ASSUME LockInv, SleptInv, LockInv', SleptInv', NEW t \in Threads, InCall(t), Native(t)
  PROVE  pc'[t] \in {"idle", "prepared", "stepped"} \/ StepsLeft(t)' \in 0 .. StepsLeft(t) - 1
<1>1. StepsLeft(t) \in Nat /\ StepsLeft(t)' \in Nat
  <2>1. LockInv /\ SleptInv => StepsLeft(t) \in Nat
    BY StepsLeftIsNat
  <2>2. (LockInv /\ SleptInv)' => (StepsLeft(t) \in Nat)'
    BY StepsLeftIsNat, BusyTimeoutAssumption DEF LockInv, LockTypes, SleptInv, StepsLeft
  <2>. QED
    BY <2>1, <2>2
<1>2. /\ lock[t] \in 0 .. 4 /\ slept[t] \in 0 .. BUSY_TIMEOUT /\ BUSY_TIMEOUT \in Nat
      /\ t \in DOMAIN pc /\ t \in DOMAIN lock /\ t \in DOMAIN slept /\ t \in DOMAIN text
  BY BusyTimeoutAssumption DEF LockInv, LockTypes, SleptInv
<1>3. CASE GiveUp(t) \/ RolledBack(t) \/ Compiled(t)
  BY <1>2, <1>3 DEF GiveUp, RolledBack, Compiled, GoTo
<1>4. CASE Begin(t) \/ Refused(t) \/ Select(t) \/ Committed(t) \/ Rollback(t)
  BY <1>2, <1>4 DEF Begin, Refused, Select, Committed, Rollback, Stepped, GoTo
<1>5. CASE Sleep(t)
  <2>1. /\ slept'[t] = slept[t] + 1 /\ text' = text /\ lock' = lock
    BY <1>2, <1>5 DEF Sleep
  <2>2. StepsLeft(t)' = StepsLeft(t) - 1
    BY <1>2, <2>1 DEF StepsLeft
  <2>. QED
    BY <1>1, <2>2
<1>6. CASE Commit(t)
  <2>1. /\ lock'[t] = lock[t] + 1 /\ text' = text /\ slept' = slept
        /\ text[t] \in {"COMMIT", "autocommit"}
    BY <1>2, <1>6 DEF Commit, Committing
  <2>2. StepsLeft(t)' = StepsLeft(t) - 1
    BY <1>2, <2>1 DEF StepsLeft
  <2>. QED
    BY <1>1, <2>2
<1>7. CASE Insert(t)
  <2>1. CASE transaction[t]
    BY <1>2, <1>7, <2>1 DEF Insert, GoTo
  <2>2. CASE ~transaction[t]
    <3>1. text[t] = "INSERT" /\ text'[t] = "autocommit" /\ slept'[t] = 0 /\ lock'[t] \in 0 .. 4
      BY <1>2, <1>7, <2>2 DEF Insert, LockInv, LockTypes
    <3>2. StepsLeft(t)' < StepsLeft(t)
      BY <1>2, <3>1 DEF StepsLeft
    <3>. QED
      BY <1>1, <3>2
  <2>. QED
    BY <2>1, <2>2
<1>. QED
  BY <1>3, <1>4, <1>5, <1>6, <1>7 DEF Native

\* A step that is not the call's own leaves it where it is.
LEMMA OthersCostNothing ==
  ASSUME LockInv, [Next]_vars, NEW t \in Threads, InCall(t), ~Native(t)
  PROVE  pc'[t] = pc[t] /\ slept'[t] = slept[t] /\ text'[t] = text[t] /\ lock'[t] = lock[t]
<1> USE DEF LockInv, LockTypes
<1>1. CASE UNCHANGED vars \/ Collect
  BY <1>1 DEF vars, Collect
<1>2. ASSUME NEW u \in Threads, NEW sql \in Texts, Prepare(u, sql)
      PROVE  pc'[t] = pc[t] /\ slept'[t] = slept[t] /\ text'[t] = text[t] /\ lock'[t] = lock[t]
  BY <1>2 DEF Prepare, GoTo, InCall
<1>3. ASSUME NEW u \in Threads, Step(u) \/ Allocate(u) \/ Finalize(u) \/ Reopen(u)
      PROVE  pc'[t] = pc[t] /\ slept'[t] = slept[t] /\ text'[t] = text[t] /\ lock'[t] = lock[t]
  BY <1>3 DEF Step, Allocate, Finalize, Reopen, GoTo, InCall
<1>4. ASSUME NEW u \in Threads \ {t}, Native(u)
      PROVE  pc'[t] = pc[t] /\ slept'[t] = slept[t] /\ text'[t] = text[t] /\ lock'[t] = lock[t]
  <2>1. CASE Sleep(u) \/ GiveUp(u) \/ RolledBack(u) \/ Compiled(u)
    BY <2>1 DEF Sleep, GiveUp, RolledBack, Compiled, GoTo
  <2>2. CASE Begin(u) \/ Refused(u) \/ Select(u) \/ Committed(u) \/ Rollback(u)
    BY <2>2 DEF Begin, Refused, Select, Committed, Rollback, Stepped, GoTo
  <2>3. CASE Insert(u) \/ Commit(u)
    BY <2>3 DEF Insert, Reserved, Commit, GoTo
  <2>. QED
    BY <1>4, <2>1, <2>2, <2>3 DEF Native
<1>. QED
  BY <1>1, <1>2, <1>3, <1>4 DEF Next

\* A native call that waits for locks is never without a step, whatever locks
\* the other threads hold, and whoever waits for the collector: the busy handler
\* sleeps, or it gives up.
THEOREM NoCallIsStuck == Spec => []CallsGoOn
<1>1. Init => SleptInv
  BY BusyTimeoutAssumption DEF Init, SleptInv
<1>. QED
  BY <1>1, LockInvInit, StepKeepsLockInv, StepKeepsSleptInv, EveryCaseGoesOn, PTL DEF Spec

\* And its steps are numbered: each lowers StepsLeft, which is at most twice the
\* timeout and five, or ends the call; no other thread's step raises it.  The
\* fairness of Native that CallEnds assumes has nothing else to do.
THEOREM CallsComeToTheirEnd == Spec => [][EndComesNearer]_vars
<1>1. Init => SleptInv
  BY BusyTimeoutAssumption DEF Init, SleptInv
<1>2. LockInv /\ SleptInv /\ [Next]_vars => [EndComesNearer]_vars
  <2> SUFFICES ASSUME LockInv, SleptInv, [Next]_vars, NEW t \in Threads, InCall(t)
               PROVE  /\ Native(t) => pc'[t] \in {"idle", "prepared", "stepped"}
                                        \/ StepsLeft(t)' \in 0 .. StepsLeft(t) - 1
                      /\ ~Native(t) => pc'[t] = pc[t] /\ StepsLeft(t)' = StepsLeft(t)
    BY DEF EndComesNearer
  <2>1. LockInv' /\ SleptInv'
    BY StepKeepsLockInv, StepKeepsSleptInv
  <2>2. ASSUME Native(t)
        PROVE  pc'[t] \in {"idle", "prepared", "stepped"} \/ StepsLeft(t)' \in 0 .. StepsLeft(t) - 1
    BY <2>1, <2>2, NativeStepCounts
  <2>3. ASSUME ~Native(t) PROVE pc'[t] = pc[t] /\ StepsLeft(t)' = StepsLeft(t)
    BY <2>3, OthersCostNothing DEF StepsLeft
  <2>. QED
    BY <2>2, <2>3
<1>. QED
  BY <1>1, <1>2, LockInvInit, StepKeepsLockInv, StepKeepsSleptInv, PTL DEF Spec
==============================================================================
