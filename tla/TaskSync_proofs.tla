-------------------------- MODULE TaskSync_proofs --------------------------
(***************************************************************************)
(* The safety of the mutexes and the semaphores, for any number of tasks,  *)
(* mutexes, semaphores and condvars.  Inv adds to the properties what      *)
(* makes them inductive: which mutex a suspended lock continues with, that *)
(* only a blocking mutex has a wait queue, and that an id not yet created  *)
(* is in its initial state.                                                *)
(***************************************************************************)
EXTENDS TaskSync, SequenceFacts, WellFoundedInduction, TLAPS

\* The prover of the leaves that name none: arithmetic, tuples and sequences need SMT.
USE ZenonT(30)

\* A lock that continues after a switch is for a mutex of the process, and a
\* timer interrupt from user code has a task to suspend.
Continuations ==
  /\ \A t \in Tasks : pc[t] \in {"spin", "relock"} =>
       want[t] \in MutexIds /\ kind[want[t]] # "none"
  /\ \A t \in Tasks : \A m \in held[t] : kind[m] # "none"
  /\ intr = "user" => current \in Tasks

QueuesOfBlocking ==
  \A m \in MutexIds : kind[m] # "blocking" => mwait[m] = <<>>

NotCreated ==
  \A s \in SemIds :
    /\ res[s] \in Nat \cup {-1}
    /\ res[s] = -1 => count[s] = 0 /\ swait[s] = <<>> /\ granted[s] = 0

TInv == TypeOK /\ Continuations
MInv == MutualExclusion /\ WaitersHaveAnOwner /\ QueuesOfBlocking
SInv == SemaphoreConserves /\ NotCreated
Inv == TInv /\ MInv /\ SInv

\* The boot state of the scheduler satisfies the inductive invariant.
LEMMA InitInv == Init => Inv
<1> SUFFICES ASSUME Init PROVE Inv
  OBVIOUS
<1> USE TaskSyncAssumption
<1>0. <<>> \in Seq(Tasks) /\ \A t \in Tasks : <<t>> \in Seq(Tasks)
  BY SMTT(30)
<1>a. locked \in [MutexIds -> BOOLEAN] /\ sie \in BOOLEAN
  BY DEF Init
<1>b. /\ mwait \in [MutexIds -> Seq(Tasks)] /\ swait \in [SemIds -> Seq(Tasks)]
      /\ cwait \in [CondIds -> Seq(Tasks)] /\ ready \in Seq(Tasks)
  BY <1>0 DEF Init
<1>c. /\ kind \in [MutexIds -> {"none", "spin", "blocking"}]
      /\ held \in [Tasks -> SUBSET MutexIds]
      /\ res \in [SemIds -> Int] /\ count \in [SemIds -> Int] /\ granted \in [SemIds -> Int]
  BY SMTT(30) DEF Init
<1>1. TypeOK
  BY <1>a, <1>b, <1>c DEF Init, TypeOK
<1>2. Continuations
  BY DEF Init, Continuations
<1>3. MInv
  BY DEF Init, MInv, MutualExclusion, WaitersHaveAnOwner, QueuesOfBlocking
<1>4. SInv
  BY DEF Init, SInv, SemaphoreConserves, NotCreated, SemIds
<1> QED
  BY <1>1, <1>2, <1>3, <1>4 DEF Inv, TInv

\* What the cast returns is an isize.
LEMMA CastType ==
  ASSUME NEW n \in Nat
  PROVE  isize(n) \in Int
BY TaskSyncAssumption, SMTT(30) DEF isize

\* push_back and pop_front keep a wait queue a queue of tasks.
LEMMA Queues ==
  /\ \A q \in Seq(Tasks), t \in Tasks : Append(q, t) \in Seq(Tasks)
  /\ \A q \in Seq(Tasks) : q # <<>> => Head(q) \in Tasks /\ Tail(q) \in Seq(Tasks)
  BY SMTT(30)

\* What TypeOK says of the scheduler's variables.
SchedOK ==
  /\ current \in Tasks \cup {NoTask} /\ ready \in Seq(Tasks)
  /\ status \in [Tasks -> {"Ready", "Running", "Blocked"}]

\* suspend, block and wakeup keep the types of the scheduler.
LEMMA SwitchType ==
  ASSUME TypeOK, NEW t \in Tasks
  PROVE  /\ suspend_current_and_run_next(t) => SchedOK'
         /\ block_current_and_run_next(t) => SchedOK'
         /\ wakeup(t) => SchedOK'
         /\ UNCHANGED sched => SchedOK'
<1>1. suspend_current_and_run_next(t) => SchedOK'
  BY Queues, SMTT(30) DEF TypeOK, SchedOK, suspend_current_and_run_next
<1>2. block_current_and_run_next(t) => SchedOK'
  BY DEF TypeOK, SchedOK, block_current_and_run_next
<1>3. wakeup(t) => SchedOK'
  BY Queues, SMTT(30) DEF TypeOK, SchedOK, wakeup
<1>4. UNCHANGED sched => SchedOK'
  BY DEF TypeOK, SchedOK, sched
<1> QED
  BY <1>1, <1>2, <1>3, <1>4

\* Mutex::lock, in each of its three outcomes, keeps the types.
LEMMA LockType ==
  ASSUME TInv, NEW t \in Tasks, NEW m \in MutexIds, lock(t, m), kind[m] # "none",
         intr = "none", UNCHANGED <<started, intr, now, timers, kind, sems, condvars>>,
         sie' \in BOOLEAN
  PROVE  TInv'
<1>0. TypeOK /\ Continuations
  BY DEF TInv
<1>1. CASE LockFree(t, m)
  <2>1. locked' \in [MutexIds -> BOOLEAN]
    BY <1>0, <1>1 DEF TypeOK, LockFree
  <2>2. held' \in [Tasks -> SUBSET MutexIds]
    BY <1>0, <1>1 DEF TypeOK, LockFree
  <2>3. pc' \in [Tasks -> {"user", "spin", "relock", "sleep"}]
    BY <1>0, <1>1 DEF TypeOK, LockFree
  <2>4. TypeOK'
    BY <1>0, <1>1, <2>1, <2>2, <2>3 DEF TypeOK, LockFree, sched, sems, condvars
  <2>5. Continuations'
    BY <1>0, <1>1 DEF TypeOK, LockFree, Continuations, sched
  <2> QED
    BY <2>4, <2>5 DEF TInv
<1>2. CASE LockSpins(t, m)
  <2>1. /\ current' \in Tasks \cup {NoTask} /\ ready' \in Seq(Tasks)
        /\ status' \in [Tasks -> {"Ready", "Running", "Blocked"}]
    BY <1>0, <1>2, Queues DEF TypeOK, LockSpins, suspend_current_and_run_next
  <2>2. pc' \in [Tasks -> {"user", "spin", "relock", "sleep"}] /\ want' \in [Tasks -> Nat]
    BY <1>0, <1>2, TaskSyncAssumption, SMTT(30) DEF TypeOK, LockSpins, MutexIds
  <2>3. TypeOK'
    BY <1>0, <1>2, <2>1, <2>2 DEF TypeOK, LockSpins, sems, condvars
  <2>4. Continuations'
    BY <1>0, <1>2 DEF TypeOK, LockSpins, Continuations
  <2> QED
    BY <2>3, <2>4 DEF TInv
<1>3. CASE LockBlocks(t, m)
  <2>1. /\ current' \in Tasks \cup {NoTask} /\ ready' \in Seq(Tasks)
        /\ status' \in [Tasks -> {"Ready", "Running", "Blocked"}]
    BY <1>0, <1>3 DEF TypeOK, LockBlocks, block_current_and_run_next
  <2>2. pc' \in [Tasks -> {"user", "spin", "relock", "sleep"}]
    BY <1>0, <1>3 DEF TypeOK, LockBlocks
  <2>3. mwait' \in [MutexIds -> Seq(Tasks)]
    BY <1>0, <1>3, Queues DEF TypeOK, LockBlocks
  <2>4. TypeOK'
    BY <1>0, <1>3, <2>1, <2>2, <2>3 DEF TypeOK, LockBlocks, sems, condvars
  <2>5. Continuations'
    BY <1>0, <1>3 DEF TypeOK, LockBlocks, Continuations
  <2> QED
    BY <2>4, <2>5 DEF TInv
<1> QED
  BY <1>1, <1>2, <1>3 DEF lock
\* The task that Blocking::unlock hands the mutex to is a task.
LEMMA WaiterType ==
  ASSUME TypeOK, NEW m \in MutexIds, HandsOver(m)
  PROVE  Waiter(m) \in Tasks /\ Tail(mwait[m]) \in Seq(Tasks)
BY Queues DEF TypeOK, HandsOver, Waiter

\* Mutex::unlock keeps the types, and held mutexes are created ones.
LEMMA UnlockType ==
  ASSUME TypeOK, Continuations, NEW t \in Tasks, NEW m \in MutexIds, m \in held[t],
         unlock(t, m)
  PROVE  /\ locked' \in [MutexIds -> BOOLEAN] /\ mwait' \in [MutexIds -> Seq(Tasks)]
         /\ held' \in [Tasks -> SUBSET MutexIds]
         /\ \A u \in Tasks : \A n \in held'[u] : kind[n] # "none"
<1>1. locked' \in [MutexIds -> BOOLEAN]
  <2>1. LockedAfterUnlock(m) \in BOOLEAN
    BY DEF LockedAfterUnlock, HandsOver
  <2> QED
    BY <2>1 DEF TypeOK, unlock
<1>2. CASE HandsOver(m)
  <2>1. /\ mwait' = [mwait EXCEPT ![m] = Tail(@)]
        /\ held' = [u \in Tasks |-> IF u = Waiter(m) THEN held[u] \cup {m}
                                    ELSE IF u = t THEN held[u] \ {m} ELSE held[u]]
    BY <1>2 DEF unlock
  <2>2. mwait' \in [MutexIds -> Seq(Tasks)]
    BY <1>2, <2>1, WaiterType DEF TypeOK
  <2> QED
    BY <1>1, <2>1, <2>2 DEF TypeOK, Continuations
<1>3. CASE ~HandsOver(m)
  <2>1. UNCHANGED mwait /\ held' = [held EXCEPT ![t] = @ \ {m}]
    BY <1>3 DEF unlock
  <2> QED
    BY <1>1, <2>1 DEF TypeOK, Continuations
<1> QED
  BY <1>2, <1>3

\* Every step of the kernel keeps the types and the continuations.
LEMMA TypeStep ==
  ASSUME TInv, [Next]_vars
  PROVE  TInv'
<1> USE DEF sched, running, clock, mutexes, sems, condvars, SchedOK
<1>0. TypeOK /\ Continuations
  BY DEF TInv
<1>1. ASSUME run_tasks PROVE TInv'
  <2>1. SchedOK'
    BY <1>0, <1>1, Queues DEF TypeOK, run_tasks
  <2>2. TypeOK'
    BY <1>0, <1>1, <2>1 DEF TypeOK, run_tasks
  <2>3. Continuations'
    BY <1>0, <1>1, <2>1 DEF TypeOK, Continuations, run_tasks
  <2> QED
    BY <2>2, <2>3 DEF TInv
<1>2. ASSUME NEW t \in Tasks, sys_yield(t) PROVE TInv'
  <2>1. SchedOK'
    BY <1>0, <1>2, Queues DEF TypeOK, sys_yield, suspend_current_and_run_next
  <2>2. TypeOK'
    BY <1>0, <1>2, <2>1 DEF TypeOK, EnterSyscall, InUser, sys_yield, suspend_current_and_run_next
  <2>3. Continuations'
    BY <1>0, <1>2, <2>1 DEF TypeOK, Continuations, EnterSyscall, InUser, sys_yield, suspend_current_and_run_next
  <2> QED
    BY <2>2, <2>3 DEF TInv
<1>3. ASSUME NEW t \in Tasks, NEW u \in Tasks, sys_thread_create(t, u) PROVE TInv'
  <2>1. SchedOK'
    BY <1>0, <1>3, Queues DEF TypeOK, sys_thread_create
  <2>2. TypeOK'
    BY <1>0, <1>3, <2>1 DEF TypeOK, EnterSyscall, InUser, sys_thread_create
  <2>3. Continuations'
    BY <1>0, <1>3, <2>1 DEF TypeOK, Continuations, EnterSyscall, InUser, sys_thread_create
  <2> QED
    BY <2>2, <2>3 DEF TInv
<1>4. ASSUME NEW t \in Tasks, NEW m \in MutexIds, NEW k \in {"spin", "blocking"}, sys_mutex_create(t, m, k) PROVE TInv'
  <2>1. TypeOK'
    BY <1>0, <1>4 DEF TypeOK, EnterSyscall, InUser, sys_mutex_create
  <2>2. Continuations'
    BY <1>0, <1>4 DEF TypeOK, Continuations, EnterSyscall, InUser, sys_mutex_create
  <2> QED
    BY <2>1, <2>2 DEF TInv
<1>5. ASSUME NEW t \in Tasks, NEW s \in SemIds, NEW n \in ResCounts, sys_semaphore_create(t, s, n) PROVE TInv'
  <2>0. n \in Nat /\ n \in Int /\ isize(n) \in Int
    BY TaskSyncAssumption, CastType, SMTT(30)
  <2>1. res' \in [SemIds -> Int] /\ count' \in [SemIds -> Int]
    BY <1>0, <1>5, <2>0 DEF TypeOK, sys_semaphore_create
  <2>2. TypeOK'
    BY <1>0, <1>5, <2>1 DEF TypeOK, EnterSyscall, InUser, sys_semaphore_create
  <2>3. Continuations'
    BY <1>0, <1>5, <2>1 DEF TypeOK, Continuations, EnterSyscall, InUser, sys_semaphore_create
  <2> QED
    BY <2>2, <2>3 DEF TInv
<1>6. ASSUME NEW t \in Tasks, NEW s \in SemIds, sys_semaphore_up(t, s) PROVE TInv'
  <2>1. count' \in [SemIds -> Int]
    BY <1>0, <1>6, SMTT(60) DEF TypeOK, sys_semaphore_up
  <2>2. SchedOK' /\ swait' \in [SemIds -> Seq(Tasks)] /\ granted' \in [SemIds -> Int]
    <3>1. CASE UpWakes(s)
      <4>1. Head(swait[s]) \in Tasks /\ Tail(swait[s]) \in Seq(Tasks)
        BY <1>0, <3>1, Queues DEF TypeOK, UpWakes
      <4>2. /\ wakeup(Head(swait[s])) /\ UNCHANGED granted
            /\ swait' = [swait EXCEPT ![s] = Tail(@)]
        BY <1>6, <3>1 DEF sys_semaphore_up
      <4>3. SchedOK'
        BY <1>0, <4>1, <4>2, SwitchType DEF TypeOK
      <4> QED
        BY <1>0, <4>1, <4>2, <4>3 DEF TypeOK
    <3>2. CASE ~UpWakes(s)
      <4>1. UNCHANGED <<sched, swait>> /\ granted' = [granted EXCEPT ![s] = @ - 1]
        BY <1>6, <3>2 DEF sys_semaphore_up
      <4> QED
        BY <1>0, <4>1, SMTT(30) DEF TypeOK
    <3> QED
      BY <3>1, <3>2
  <2>3. TypeOK'
    BY <1>0, <1>6, <2>1, <2>2 DEF TypeOK, EnterSyscall, InUser, sys_semaphore_up
  <2>4. Continuations'
    BY <1>0, <1>6 DEF Continuations, EnterSyscall, InUser, sys_semaphore_up
  <2> QED
    BY <2>3, <2>4 DEF TInv
<1>7. ASSUME NEW t \in Tasks, NEW s \in SemIds, sys_semaphore_down(t, s) PROVE TInv'
  <2>1. count' \in [SemIds -> Int]
    BY <1>0, <1>7, SMTT(60) DEF TypeOK, sys_semaphore_down
  <2>2. SchedOK' /\ swait' \in [SemIds -> Seq(Tasks)] /\ granted' \in [SemIds -> Int]
    <3>1. CASE DownBlocks(s)
      <4>1. /\ block_current_and_run_next(t) /\ UNCHANGED granted
            /\ swait' = [swait EXCEPT ![s] = Append(@, t)]
        BY <1>7, <3>1 DEF sys_semaphore_down
      <4>2. SchedOK'
        BY <1>0, <1>7, <4>1, SwitchType
      <4> QED
        BY <1>0, <1>7, <4>1, <4>2, Queues DEF TypeOK
    <3>2. CASE ~DownBlocks(s)
      <4>1. UNCHANGED <<sched, swait>> /\ granted' = [granted EXCEPT ![s] = @ + 1]
        BY <1>7, <3>2 DEF sys_semaphore_down
      <4> QED
        BY <1>0, <4>1, SMTT(60) DEF TypeOK
    <3> QED
      BY <3>1, <3>2
  <2>3. TypeOK'
    BY <1>0, <1>7, <2>1, <2>2 DEF TypeOK, EnterSyscall, InUser, sys_semaphore_down
  <2>4. Continuations'
    BY <1>0, <1>7 DEF Continuations, EnterSyscall, InUser, sys_semaphore_down
  <2> QED
    BY <2>3, <2>4 DEF TInv
<1>8. ASSUME NEW t \in Tasks, NEW c \in CondIds, sys_condvar_create(t, c) PROVE TInv'
  <2>1. TypeOK'
    BY <1>0, <1>8 DEF TypeOK, EnterSyscall, InUser, sys_condvar_create
  <2>2. Continuations'
    BY <1>0, <1>8 DEF TypeOK, Continuations, EnterSyscall, InUser, sys_condvar_create
  <2> QED
    BY <2>1, <2>2 DEF TInv
<1>9. ASSUME NEW t \in Tasks, NEW c \in CondIds, sys_condvar_signal(t, c) PROVE TInv'
  <2>1. SchedOK' /\ cwait' \in [CondIds -> Seq(Tasks)]
    <3>1. CASE cwait[c] # <<>>
      <4>1. Head(cwait[c]) \in Tasks /\ Tail(cwait[c]) \in Seq(Tasks)
        BY <1>0, <1>9, <3>1, Queues DEF TypeOK
      <4>2. wakeup(Head(cwait[c])) /\ cwait' = [cwait EXCEPT ![c] = Tail(@)]
        BY <1>9, <3>1 DEF sys_condvar_signal
      <4>3. SchedOK'
        BY <1>0, <4>1, <4>2, SwitchType
      <4> QED
        BY <1>0, <4>1, <4>2, <4>3 DEF TypeOK
    <3>2. CASE cwait[c] = <<>>
      <4>1. UNCHANGED <<sched, cwait>>
        BY <1>9, <3>2 DEF sys_condvar_signal
      <4> QED
        BY <1>0, <4>1 DEF TypeOK
    <3> QED
      BY <3>1, <3>2
  <2>2. TypeOK'
    BY <1>0, <1>9, <2>1 DEF TypeOK, EnterSyscall, InUser, sys_condvar_signal
  <2>3. Continuations'
    BY <1>0, <1>9 DEF Continuations, EnterSyscall, InUser, sys_condvar_signal
  <2> QED
    BY <2>2, <2>3 DEF TInv
<1>10. ASSUME NEW t \in Tasks, NEW ms \in Durations, sys_sleep(t, ms) PROVE TInv'
  <2>1. pc' \in [Tasks -> {"user", "spin", "relock", "sleep"}]
    BY <1>0, <1>10 DEF TypeOK, sys_sleep
  <2>2. timers' \subseteq Tasks \X Nat
    BY <1>0, <1>10, <2>1, TaskSyncAssumption, SMTT(30) DEF TypeOK, sys_sleep, ExpireMs
  <2>3. TypeOK'
    BY <1>0, <1>10, <2>1, <2>2 DEF TypeOK, EnterSyscall, InUser, sys_sleep
  <2>4. Continuations'
    BY <1>0, <1>10, <2>1, <2>2, SMTT(60) DEF TypeOK, Continuations, EnterSyscall, InUser, sys_sleep
  <2> QED
    BY <2>3, <2>4 DEF TInv
<1>11. ASSUME NEW t \in Tasks, sleep_block(t) PROVE TInv'
  <2>1. SchedOK'
    BY <1>0, <1>11 DEF TypeOK, sleep_block, block_current_and_run_next
  <2>2. pc' \in [Tasks -> {"user", "spin", "relock", "sleep"}]
    BY <1>0, <1>11, <2>1 DEF TypeOK, sleep_block
  <2>3. TypeOK'
    BY <1>0, <1>11, <2>1, <2>2 DEF TypeOK, sleep_block, InKernel
  <2>4. Continuations'
    BY <1>0, <1>11, <2>1, <2>2, SMTT(30) DEF TypeOK, Continuations, sleep_block, InKernel
  <2> QED
    BY <2>3, <2>4 DEF TInv
<1>12. ASSUME NEW from \in {"user", "kernel"}, timer_interrupt(from) PROVE TInv'
  <2>1. TypeOK'
    BY <1>0, <1>12, SMTT(30) DEF TypeOK, timer_interrupt
  <2>2. Continuations'
    BY <1>0, <1>12 DEF TypeOK, Continuations, timer_interrupt
  <2> QED
    BY <2>1, <2>2 DEF TInv
<1>13. ASSUME NEW timer \in timers, check_timer(timer) PROVE TInv'
  <2>1. timer[1] \in Tasks
    BY <1>0, <1>13 DEF TypeOK
  <2>2. SchedOK'
    BY <1>0, <1>13, <2>1, Queues DEF TypeOK, check_timer, wakeup
  <2>3. TypeOK'
    BY <1>0, <1>13, <2>1, <2>2 DEF TypeOK, check_timer, wakeup
  <2>4. Continuations'
    BY <1>0, <1>13, <2>1, <2>2 DEF TypeOK, Continuations, check_timer, wakeup
  <2> QED
    BY <2>3, <2>4 DEF TInv
<1>14. ASSUME timer_return PROVE TInv'
  <2>1. SchedOK' /\ sie' \in BOOLEAN
    <3>1. CASE intr = "user"
      <4>1. current \in Tasks /\ suspend_current_and_run_next(current) /\ sie' = FALSE
        BY <1>0, <1>14, <3>1 DEF Continuations, timer_return
      <4> QED
        BY <1>0, <4>1, SwitchType
    <3>2. CASE intr # "user"
      <4>1. UNCHANGED <<sched, sie>>
        BY <1>14, <3>2 DEF timer_return
      <4> QED
        BY <1>0, <4>1 DEF TypeOK
    <3> QED
      BY <3>1, <3>2
  <2>2. TypeOK'
    BY <1>0, <1>14, <2>1 DEF TypeOK, timer_return
  <2>3. Continuations'
    BY <1>0, <1>14 DEF Continuations, timer_return
  <2> QED
    BY <2>2, <2>3 DEF TInv
<1>15. ASSUME NEW t \in Tasks, NEW m \in MutexIds, sys_mutex_lock(t, m) PROVE TInv'
  BY <1>15, LockType DEF sys_mutex_lock, EnterSyscall, InUser
<1>16. ASSUME NEW t \in Tasks, spin_again(t) \/ relock(t) PROVE TInv'
  <2>1. want[t] \in MutexIds /\ kind[want[t]] # "none" /\ intr = "none" /\ lock(t, want[t])
    BY <1>0, <1>16 DEF Continuations, spin_again, relock, InKernel
  <2>2. UNCHANGED <<started, clock, kind, sems, condvars>>
    BY <1>16 DEF spin_again, relock
  <2>3. sie' \in BOOLEAN
    BY <1>0, <2>2 DEF TypeOK
  <2> QED
    BY <2>1, <2>2, <2>3, LockType
<1>17. ASSUME NEW t \in Tasks, NEW m \in MutexIds, sys_mutex_unlock(t, m) PROVE TInv'
  <2>1. SchedOK'
    BY <1>0, <1>17, SwitchType, WaiterType DEF sys_mutex_unlock
  <2>2. TypeOK'
    BY <1>0, <1>17, <2>1, UnlockType DEF TypeOK, sys_mutex_unlock, EnterSyscall, InUser
  <2>3. Continuations'
    BY <1>0, <1>17, UnlockType DEF Continuations, sys_mutex_unlock, EnterSyscall, InUser
  <2> QED
    BY <2>2, <2>3 DEF TInv
<1>18. ASSUME NEW t \in Tasks, NEW c \in CondIds, NEW m \in MutexIds,
              sys_condvar_wait(t, c, m)
       PROVE  TInv'
  <2>1. /\ m \in held[t] /\ unlock(t, m) /\ intr = "none" /\ intr' = "none"
        /\ UNCHANGED <<started, intr, now, timers, kind, sems, conds>>
    BY <1>18 DEF sys_condvar_wait, EnterSyscall, InUser
  <2>2. SchedOK'
    <3>1. CASE HandsOver(m)
      <4>1. /\ current' = NoTask /\ ready' = Append(ready, Waiter(m))
            /\ status' = [status EXCEPT ![Waiter(m)] = "Ready", ![t] = "Blocked"]
        BY <1>18, <3>1 DEF sys_condvar_wait
      <4> QED
        BY <1>0, <3>1, <4>1, WaiterType, Queues DEF TypeOK
    <3>2. CASE ~HandsOver(m)
      BY <1>0, <1>18, <3>2 DEF TypeOK, sys_condvar_wait
    <3> QED
      BY <3>1, <3>2
  <2>3. /\ pc' = [pc EXCEPT ![t] = "relock"] /\ want' = [want EXCEPT ![t] = m]
        /\ pc' \in [Tasks -> {"user", "spin", "relock", "sleep"}]
        /\ want' \in [Tasks -> Nat]
    <3>1. pc' = [pc EXCEPT ![t] = "relock"] /\ want' = [want EXCEPT ![t] = m]
      BY <1>18 DEF sys_condvar_wait
    <3>2. m \in Nat
      BY TaskSyncAssumption, SMTT(30) DEF MutexIds
    <3> QED
      BY <1>0, <3>1, <3>2 DEF TypeOK
  <2>4. cwait' \in [CondIds -> Seq(Tasks)]
    BY <1>0, <1>18, Queues DEF TypeOK, sys_condvar_wait
  <2>5. sie' = TRUE
    BY <1>18 DEF sys_condvar_wait, EnterSyscall
  <2>6. /\ locked' \in [MutexIds -> BOOLEAN] /\ mwait' \in [MutexIds -> Seq(Tasks)]
        /\ held' \in [Tasks -> SUBSET MutexIds]
        /\ \A u \in Tasks : \A n \in held'[u] : kind[n] # "none"
    BY <1>0, <2>1, UnlockType
  <2>7. TypeOK'
    BY <1>0, <2>1, <2>2, <2>3, <2>4, <2>5, <2>6 DEF TypeOK
  <2>8. Continuations'
    BY <1>0, <2>1, <2>3, <2>6 DEF TypeOK, Continuations
  <2> QED
    BY <2>7, <2>8 DEF TInv
<1>19. ASSUME UNCHANGED vars PROVE TInv'
  BY <1>0, <1>19 DEF TypeOK, Continuations, TInv, vars
<1> QED
  BY <1>1, <1>2, <1>3, <1>4, <1>5, <1>6, <1>7, <1>8, <1>9, <1>10, <1>11, <1>12, <1>13, <1>14,
     <1>15, <1>16, <1>17, <1>18, <1>19 DEF Next, Syscall, Resume, Timer

-----------------------------------------------------------------------------
(* Mutexes *)

\* Mutex::lock never gives a mutex a second owner or an orphaned waiter.
LEMMA LockMutex ==
  ASSUME TypeOK, MInv, NEW t \in Tasks, NEW m \in MutexIds, lock(t, m), UNCHANGED kind
  PROVE  MInv'
<1> USE DEF MInv, MutualExclusion, WaitersHaveAnOwner, QueuesOfBlocking, TypeOK
<1>1. CASE LockFree(t, m)
  <2>1. /\ ~locked[m] /\ UNCHANGED mwait
        /\ locked' = [locked EXCEPT ![m] = TRUE]
        /\ held' = [held EXCEPT ![t] = @ \cup {m}]
    BY <1>1 DEF LockFree
  <2>2. \A u \in Tasks : m \notin held[u]
    BY <2>1
  <2>3. MutualExclusion'
    BY <2>1, <2>2, SMTT(30)
  <2>4. WaitersHaveAnOwner'
    BY <2>1, SMTT(30)
  <2> QED
    BY <2>1, <2>3, <2>4
<1>2. CASE LockSpins(t, m)
  BY <1>2 DEF LockSpins
<1>3. CASE LockBlocks(t, m)
  <2>1. /\ locked[m] /\ kind[m] = "blocking" /\ UNCHANGED <<locked, held>>
        /\ mwait' = [mwait EXCEPT ![m] = Append(@, t)]
    BY <1>3 DEF LockBlocks
  <2> QED
    BY <2>1, SMTT(30)
<1> QED
  BY <1>1, <1>2, <1>3 DEF lock

\* Mutex::unlock, with or without a hand-over, keeps owners and waiters right.
LEMMA UnlockMutex ==
  ASSUME TypeOK, MInv, NEW t \in Tasks, NEW m \in MutexIds, m \in held[t], unlock(t, m),
         UNCHANGED kind
  PROVE  MInv'
<1> USE DEF MInv, MutualExclusion, WaitersHaveAnOwner, QueuesOfBlocking, TypeOK
<1>1. CASE HandsOver(m)
  <2>1. /\ locked' = [locked EXCEPT ![m] = TRUE]
        /\ mwait' = [mwait EXCEPT ![m] = Tail(@)]
        /\ held' = [u \in Tasks |-> IF u = Waiter(m) THEN held[u] \cup {m}
                                    ELSE IF u = t THEN held[u] \ {m} ELSE held[u]]
        /\ kind[m] = "blocking"
    BY <1>1 DEF unlock, LockedAfterUnlock, HandsOver
  <2>2. Waiter(m) \in Tasks
    BY <1>1, WaiterType
  <2>3. \A u \in Tasks : m \in held[u] => u = t
    OBVIOUS
  <2>4. MutualExclusion'
    BY <2>1, <2>2, <2>3, SMTT(20)
  <2>5. WaitersHaveAnOwner'
    <3>1. \A n \in MutexIds \ {m} : \A u \in Tasks : n \in held'[u] <=> n \in held[u]
      BY <2>1
    <3>2. m \in held'[Waiter(m)]
      BY <2>1, <2>2
    <3> QED
      BY <2>1, <2>2, <3>1, <3>2, SMTT(30)
  <2> QED
    BY <2>1, <2>4, <2>5, SMTT(30)
<1>2. CASE ~HandsOver(m)
  <2>0. LockedAfterUnlock(m) = FALSE
    BY <1>2 DEF LockedAfterUnlock, HandsOver
  <2>1. /\ locked' = [locked EXCEPT ![m] = FALSE] /\ UNCHANGED mwait
        /\ held' = [held EXCEPT ![t] = @ \ {m}]
    BY <1>2, <2>0 DEF unlock
  <2>2. mwait[m] = <<>>
    BY <1>2 DEF HandsOver
  <2>3. \A u \in Tasks : m \in held[u] => u = t
    OBVIOUS
  <2>4. MutualExclusion'
    BY <2>1, <2>3, SMTT(30)
  <2>5. WaitersHaveAnOwner'
    BY <2>1, <2>2, SMTT(20)
  <2> QED
    BY <2>1, <2>4, <2>5
<1> QED
  BY <1>1, <1>2

\* The actions that leave the mutexes alone.
LEMMA MutexesKept ==
  ASSUME MInv, UNCHANGED mutexes
  PROVE  MInv'
BY DEF MInv, MutualExclusion, WaitersHaveAnOwner, QueuesOfBlocking, mutexes

\* Every step of the kernel keeps owners and waiters of mutexes right.
LEMMA MutexStep ==
  ASSUME TInv, MInv, [Next]_vars
  PROVE  MInv'
<1>0. TypeOK /\ Continuations
  BY DEF TInv
<1>1. ASSUME NEW t \in Tasks, NEW m \in MutexIds, sys_mutex_lock(t, m) PROVE MInv'
  BY <1>0, <1>1, LockMutex DEF sys_mutex_lock
<1>2. ASSUME NEW t \in Tasks, spin_again(t) \/ relock(t) PROVE MInv'
  BY <1>0, <1>2, LockMutex DEF spin_again, relock, InKernel, Continuations
<1>3. ASSUME NEW t \in Tasks, NEW m \in MutexIds, sys_mutex_unlock(t, m) PROVE MInv'
  BY <1>0, <1>3, UnlockMutex DEF sys_mutex_unlock
<1>4. ASSUME NEW t \in Tasks, NEW c \in CondIds, NEW m \in MutexIds, sys_condvar_wait(t, c, m)
      PROVE  MInv'
  BY <1>0, <1>4, UnlockMutex DEF sys_condvar_wait
<1>5. ASSUME NEW t \in Tasks, NEW m \in MutexIds, NEW k \in {"spin", "blocking"},
             sys_mutex_create(t, m, k)
      PROVE  MInv'
  BY <1>0, <1>5, SMTT(30) DEF sys_mutex_create, IsNextId, TypeOK, MInv, MutualExclusion,
     WaitersHaveAnOwner, QueuesOfBlocking
<1>6. ASSUME NEW t \in Tasks,
             \/ sys_yield(t) \/ sleep_block(t)
             \/ \E u \in Tasks : sys_thread_create(t, u)
             \/ \E s \in SemIds, n \in ResCounts : sys_semaphore_create(t, s, n)
             \/ \E s \in SemIds : sys_semaphore_up(t, s) \/ sys_semaphore_down(t, s)
             \/ \E c \in CondIds : sys_condvar_create(t, c) \/ sys_condvar_signal(t, c)
             \/ \E ms \in Durations : sys_sleep(t, ms)
      PROVE  MInv'
  <2>1. UNCHANGED mutexes
    BY <1>6 DEF sys_yield, sleep_block, sys_thread_create, sys_semaphore_create,
       sys_semaphore_up, sys_semaphore_down, sys_condvar_create, sys_condvar_signal, sys_sleep
  <2> QED
    BY <2>1, MutexesKept
<1>7. ASSUME run_tasks \/ Timer \/ UNCHANGED vars PROVE MInv'
  <2>1. UNCHANGED mutexes
    BY <1>7 DEF run_tasks, Timer, timer_interrupt, check_timer, timer_return, mutexes, vars
  <2> QED
    BY <2>1, MutexesKept
<1> QED
  BY <1>1, <1>2, <1>3, <1>4, <1>5, <1>6, <1>7 DEF Next, Syscall, Resume

-----------------------------------------------------------------------------
(* Semaphores *)

\* A queue one longer or one shorter.
LEMMA QueueLengths ==
  ASSUME NEW q \in Seq(Tasks), NEW t \in Tasks
  PROVE  /\ Len(q) \in Nat /\ Len(Append(q, t)) = Len(q) + 1
         /\ q # <<>> => Len(q) > 0 /\ Len(Tail(q)) = Len(q) - 1 /\ Tail(q) \in Seq(Tasks)
         /\ Len(q) = 0 <=> q = <<>>
BY EmptySeq, LenProperties, AppendProperties, HeadTailProperties, SMTT(20)

\* SemaphoreConserves for one semaphore, of its grants, count, queue length and first count.
Conserved(g, c, n, i) ==
  /\ g + c + n = i
  /\ IF c >= 0 THEN n = 0 ELSE n <= -c
  /\ g <= IF i >= 0 THEN i ELSE 0

SemConserved(s) == Conserved(granted[s], count[s], Len(swait[s]), isize(res[s]))

\* create, up and down, each with and without a task to wake or to block.
LEMMA ConservedSteps ==
  ASSUME NEW g \in Int, NEW c \in Int, NEW n \in Nat, NEW i \in Int
  PROVE  /\ Conserved(0, i, 0, i)
         /\ Conserved(g, c, n, i) /\ c + 1 <= 0 /\ n > 0 => Conserved(g, c + 1, n - 1, i)
         /\ Conserved(g, c, n, i) /\ ~(c + 1 <= 0 /\ n > 0) => Conserved(g - 1, c + 1, n, i)
         /\ Conserved(g, c, n, i) /\ c - 1 < 0 => Conserved(g, c - 1, n + 1, i)
         /\ Conserved(g, c, n, i) /\ ~(c - 1 < 0) => Conserved(g + 1, c - 1, n, i)
BY SMTT(30) DEF Conserved

\* SemaphoreConserves is Conserved for every semaphore.
LEMMA ConservesEach ==
  ASSUME TypeOK
  PROVE  SemaphoreConserves <=> \A s \in SemIds : res[s] # -1 => SemConserved(s)
<1>1. ASSUME NEW s \in SemIds PROVE Len(swait[s]) = 0 <=> swait[s] = <<>>
  BY EmptySeq, SMTT(30) DEF TypeOK
<1> QED
  BY <1>1 DEF SemaphoreConserves, SemConserved, Conserved

\* Every step of the kernel keeps count, wait_queue and grants of semaphores balanced.
LEMMA SemaphoreStep ==
  ASSUME TInv, TypeOK', SInv, [Next]_vars
  PROVE  SInv'
<1>0. TypeOK
  BY DEF TInv
<1>a. SInv <=> NotCreated /\ \A s \in SemIds : res[s] # -1 => SemConserved(s)
  BY <1>0, ConservesEach DEF SInv
<1>b. SInv' <=> NotCreated' /\ \A s \in SemIds : res'[s] # -1 => SemConserved(s)'
  <2>1. ASSUME NEW s \in SemIds PROVE Len(swait'[s]) = 0 <=> swait'[s] = <<>>
    BY EmptySeq, SMTT(30) DEF TypeOK
  <2>2. SemaphoreConserves' <=> \A s \in SemIds : res'[s] # -1 => SemConserved(s)'
    BY <2>1 DEF SemaphoreConserves, SemConserved, Conserved, isize
  <2> QED
    BY <2>2 DEF SInv
<1>c. ASSUME NEW s \in SemIds, NEW r \in SemIds \ {s},
             res'[r] = res[r], swait'[r] = swait[r], count'[r] = count[r], granted'[r] = granted[r]
      PROVE  res'[r] # -1 => SemConserved(r)'
  BY <1>a, <1>c DEF SemConserved, isize
<1>d. ASSUME NEW s \in SemIds
      PROVE  /\ count[s] \in Int /\ granted[s] \in Int /\ swait[s] \in Seq(Tasks)
             /\ Len(swait[s]) \in Nat /\ (res[s] # -1 => isize(res[s]) \in Int)
  <2>1. count[s] \in Int /\ granted[s] \in Int /\ swait[s] \in Seq(Tasks)
    BY <1>0 DEF TypeOK
  <2>2. Len(swait[s]) \in Nat
    BY <2>1, LenProperties
  <2>3. res[s] # -1 => res[s] \in Nat
    BY DEF SInv, NotCreated
  <2> QED
    BY <2>1, <2>2, <2>3, CastType
<1>1. ASSUME NEW t \in Tasks, NEW s \in SemIds, NEW n \in ResCounts,
             sys_semaphore_create(t, s, n)
      PROVE  SInv'
  <2>1. n \in Nat /\ n # -1
    BY TaskSyncAssumption, SMTT(30)
  <2>2. /\ res' = [res EXCEPT ![s] = n] /\ count' = [count EXCEPT ![s] = isize(n)]
        /\ UNCHANGED <<swait, granted>> /\ res[s] = -1
    BY <1>1 DEF sys_semaphore_create, IsNextId
  <2>3. /\ res'[s] = n /\ count'[s] = isize(n) /\ granted'[s] = 0 /\ swait'[s] = <<>>
        /\ \A r \in SemIds \ {s} : res'[r] = res[r] /\ count'[r] = count[r]
    BY <1>0, <1>a, <2>2 DEF TypeOK, NotCreated
  <2>4. SemConserved(s)'
    <3>1. Len(swait'[s]) = 0
      BY <2>3, SMTT(30)
    <3>2. Conserved(0, isize(n), 0, isize(n))
      BY <2>1, CastType, ConservedSteps, SMTT(30)
    <3> QED
      BY <2>3, <3>1, <3>2 DEF SemConserved, isize
  <2>5. NotCreated'
    BY <1>a, <2>1, <2>2, <2>3 DEF NotCreated
  <2> QED
    BY <1>b, <1>c, <2>2, <2>3, <2>4, <2>5
<1>2. ASSUME NEW t \in Tasks, NEW s \in SemIds,
             sys_semaphore_up(t, s) \/ sys_semaphore_down(t, s)
      PROVE  SInv'
  <2> DEFINE g == granted[s]
             c == count[s]
             n == Len(swait[s])
             i == isize(res[s])
  <2>1. UNCHANGED res /\ res[s] # -1
    BY <1>2 DEF sys_semaphore_up, sys_semaphore_down
  <2>2. g \in Int /\ c \in Int /\ n \in Nat /\ i \in Int /\ Conserved(g, c, n, i)
    BY <1>a, <1>d, <2>1 DEF SemConserved
  <2>3. /\ n = 0 <=> swait[s] = <<>>
        /\ Len(Append(swait[s], t)) = n + 1
        /\ swait[s] # <<>> => Len(Tail(swait[s])) = n - 1
    BY <1>d, QueueLengths
  <2>4. \A r \in SemIds \ {s} :
          swait'[r] = swait[r] /\ count'[r] = count[r] /\ granted'[r] = granted[r]
    <3>1. /\ swait' = [swait EXCEPT ![s] = swait'[s]] /\ count' = [count EXCEPT ![s] = count'[s]]
          /\ granted' = [granted EXCEPT ![s] = granted'[s]]
      BY <1>0, <1>2 DEF sys_semaphore_up, sys_semaphore_down, TypeOK
    <3> QED
      BY <1>0, <3>1 DEF TypeOK
  <2>5. Conserved(granted'[s], count'[s], Len(swait'[s]), i)
    <3>a. /\ Conserved(g, c, n, i) /\ c + 1 <= 0 /\ n > 0 => Conserved(g, c + 1, n - 1, i)
          /\ Conserved(g, c, n, i) /\ ~(c + 1 <= 0 /\ n > 0) => Conserved(g - 1, c + 1, n, i)
          /\ Conserved(g, c, n, i) /\ c - 1 < 0 => Conserved(g, c - 1, n + 1, i)
          /\ Conserved(g, c, n, i) /\ ~(c - 1 < 0) => Conserved(g + 1, c - 1, n, i)
      <4> HIDE DEF g, c, n, i
      <4> QED
        BY <2>2, ConservedSteps
    <3>b. n > 0 <=> swait[s] # <<>>
      <4> HIDE DEF n
      <4>1. n > 0 <=> n # 0
        BY <2>2, SMTT(30)
      <4> QED
        BY <2>3, <4>1
    <3>1. CASE sys_semaphore_up(t, s) /\ UpWakes(s)
      <4>1. /\ count'[s] = c + 1 /\ granted'[s] = g /\ swait'[s] = Tail(swait[s])
            /\ c + 1 <= 0 /\ swait[s] # <<>>
        BY <1>0, <3>1 DEF sys_semaphore_up, UpWakes, TypeOK
      <4> QED
        BY <2>2, <2>3, <3>a, <3>b, <4>1
    <3>2. CASE sys_semaphore_up(t, s) /\ ~UpWakes(s)
      <4>1. /\ count'[s] = c + 1 /\ granted'[s] = g - 1 /\ swait'[s] = swait[s]
            /\ ~(c + 1 <= 0 /\ swait[s] # <<>>)
        BY <1>0, <3>2 DEF sys_semaphore_up, UpWakes, TypeOK
      <4> QED
        BY <2>2, <2>3, <3>a, <3>b, <4>1
    <3>3. CASE sys_semaphore_down(t, s) /\ DownBlocks(s)
      <4>1. /\ count'[s] = c - 1 /\ granted'[s] = g /\ swait'[s] = Append(swait[s], t)
            /\ c - 1 < 0
        BY <1>0, <3>3 DEF sys_semaphore_down, DownBlocks, TypeOK
      <4> QED
        BY <2>2, <2>3, <3>a, <4>1
    <3>4. CASE sys_semaphore_down(t, s) /\ ~DownBlocks(s)
      <4>1. /\ count'[s] = c - 1 /\ granted'[s] = g + 1 /\ swait'[s] = swait[s]
            /\ ~(c - 1 < 0)
        BY <1>0, <3>4 DEF sys_semaphore_down, DownBlocks, TypeOK
      <4> QED
        BY <2>2, <2>3, <3>a, <4>1
    <3> QED
      BY <1>2, <3>1, <3>2, <3>3, <3>4
  <2>6. SemConserved(s)'
    BY <2>1, <2>5 DEF SemConserved, isize
  <2>7. NotCreated'
    BY <1>a, <2>1, <2>4 DEF NotCreated
  <2> QED
    BY <1>b, <1>c, <2>1, <2>4, <2>6, <2>7
<1>3. ASSUME UNCHANGED sems PROVE SInv'
  <2>1. UNCHANGED <<res, count, swait, granted>>
    BY <1>3 DEF sems
  <2> QED
    BY <2>1 DEF SInv, SemaphoreConserves, NotCreated, isize
<1>4. ASSUME NEW t \in Tasks,
             \/ sys_yield(t) \/ Resume(t)
             \/ \E u \in Tasks : sys_thread_create(t, u)
             \/ \E m \in MutexIds, k \in {"spin", "blocking"} : sys_mutex_create(t, m, k)
             \/ \E m \in MutexIds : sys_mutex_lock(t, m) \/ sys_mutex_unlock(t, m)
             \/ \E c \in CondIds : sys_condvar_create(t, c) \/ sys_condvar_signal(t, c)
             \/ \E c \in CondIds, m \in MutexIds : sys_condvar_wait(t, c, m)
             \/ \E ms \in Durations : sys_sleep(t, ms)
      PROVE  SInv'
  <2>1. UNCHANGED sems
    BY <1>4 DEF sys_yield, Resume, spin_again, relock, sleep_block, sys_thread_create,
       sys_mutex_create, sys_mutex_lock, sys_mutex_unlock, sys_condvar_create,
       sys_condvar_signal, sys_condvar_wait, sys_sleep
  <2> QED
    BY <1>3, <2>1
<1>5. ASSUME run_tasks \/ Timer \/ UNCHANGED vars PROVE SInv'
  <2>1. UNCHANGED sems
    BY <1>5 DEF run_tasks, Timer, timer_interrupt, check_timer, timer_return, sems, vars
  <2> QED
    BY <1>3, <2>1
<1> QED
  BY <1>1, <1>2, <1>4, <1>5 DEF Next, Syscall

-----------------------------------------------------------------------------
(* What a step may do to the queues *)

\* The queue of a mutex stays, loses its first task, or gets one at the end.
QueueStep(m) ==
  \/ mwait'[m] = mwait[m]
  \/ mwait[m] # <<>> /\ mwait'[m] = Tail(mwait[m])
  \/ mwait'[m] # <<>> /\ mwait[m] = SubSeq(mwait'[m], 1, Len(mwait'[m]) - 1)

\* A mutex that passes from one task to another passes to the first in its queue.
OwnerStep(m) ==
  \A t, u \in Tasks :
    t # u /\ m \in held[t] /\ m \in held'[u] => mwait[m] # <<>> /\ u = Head(mwait[m])

\* push_back leaves what was in the queue in front.
LEMMA PushBack ==
  ASSUME NEW q \in Seq(Tasks), NEW t \in Tasks
  PROVE  /\ Append(q, t) # <<>>
         /\ q = SubSeq(Append(q, t), 1, Len(Append(q, t)) - 1)
<1>1. Append(q, t) \in Seq(Tasks) /\ Len(Append(q, t)) = Len(q) + 1 /\ Len(q) \in Nat
  BY AppendProperties, LenProperties
<1>2. \A i \in 1 .. Len(q) : Append(q, t)[i] = q[i]
  BY AppendProperties, SMTT(30)
<1>3. Append(q, t) # <<>>
  BY <1>1, EmptySeq, SMTT(30)
<1> DEFINE a == Append(q, t)
           b == SubSeq(a, 1, Len(q))
<1>4. b \in Seq(Tasks) /\ Len(b) = Len(q) /\ \A i \in 1 .. Len(q) : b[i] = a[i]
  BY <1>1, SubSeqProperties, SMTT(30)
<1>5. q = b
  BY <1>2, <1>4, SeqEqual
<1> QED
  BY <1>1, <1>3, <1>5, SMTT(30)

\* Mutex::lock puts the task at the end of the queue, if anywhere, and takes the
\* mutex from nobody.
LEMMA LockFifo ==
  ASSUME TypeOK, MutualExclusion, NEW t \in Tasks, NEW m \in MutexIds, lock(t, m)
  PROVE  \A n \in MutexIds : QueueStep(n) /\ OwnerStep(n)
<1> USE DEF QueueStep, OwnerStep, MutualExclusion
<1>1. CASE LockFree(t, m)
  <2>1. ~locked[m] /\ UNCHANGED mwait /\ held' = [held EXCEPT ![t] = @ \cup {m}]
    BY <1>1 DEF LockFree
  <2> QED
    BY <2>1, SMTT(30) DEF TypeOK
<1>2. CASE LockSpins(t, m)
  BY <1>2 DEF LockSpins
<1>3. CASE LockBlocks(t, m)
  <2>1. UNCHANGED held /\ mwait' = [mwait EXCEPT ![m] = Append(@, t)]
    BY <1>3 DEF LockBlocks
  <2>2. \A n \in MutexIds : OwnerStep(n)
    BY <2>1
  <2>3. mwait[m] \in Seq(Tasks) /\ mwait'[m] = Append(mwait[m], t)
    BY <2>1 DEF TypeOK
  <2>4. QueueStep(m)
    BY <2>3, PushBack
  <2>5. \A n \in MutexIds \ {m} : QueueStep(n)
    BY <2>1 DEF TypeOK
  <2> QED
    BY <2>2, <2>4, <2>5
<1> QED
  BY <1>1, <1>2, <1>3 DEF lock

\* Mutex::unlock gives the mutex to the first of the queue, if to anybody.
LEMMA UnlockFifo ==
  ASSUME TypeOK, MutualExclusion, NEW t \in Tasks, NEW m \in MutexIds, m \in held[t],
         unlock(t, m)
  PROVE  \A n \in MutexIds : QueueStep(n) /\ OwnerStep(n)
<1> USE DEF QueueStep, OwnerStep, MutualExclusion
<1>1. CASE HandsOver(m)
  <2>1. /\ mwait' = [mwait EXCEPT ![m] = Tail(@)] /\ mwait[m] # <<>>
        /\ held' = [u \in Tasks |-> IF u = Waiter(m) THEN held[u] \cup {m}
                                    ELSE IF u = t THEN held[u] \ {m} ELSE held[u]]
    BY <1>1 DEF unlock, HandsOver
  <2>2. \A n \in MutexIds : QueueStep(n)
    BY <2>1 DEF TypeOK
  <2>3. \A n \in MutexIds : OwnerStep(n)
    BY <2>1 DEF Waiter, TypeOK
  <2> QED
    BY <2>2, <2>3
<1>2. CASE ~HandsOver(m)
  <2>1. UNCHANGED mwait /\ held' = [held EXCEPT ![t] = @ \ {m}]
    BY <1>2 DEF unlock
  <2> QED
    BY <2>1, SMTT(30) DEF TypeOK
<1> QED
  BY <1>1, <1>2

\* Every step of the kernel keeps the order of every wait queue.
LEMMA FifoStep ==
  ASSUME TInv, MInv, [Next]_vars
  PROVE  \A n \in MutexIds : QueueStep(n) /\ OwnerStep(n)
<1> DEFINE Kept == \A n \in MutexIds : QueueStep(n) /\ OwnerStep(n)
<1>0. TypeOK /\ Continuations /\ MutualExclusion
  BY DEF TInv, MInv
<1>a. UNCHANGED <<mwait, held>> => Kept
  BY <1>0 DEF QueueStep, OwnerStep, MutualExclusion
<1>1. ASSUME NEW t \in Tasks, NEW m \in MutexIds, sys_mutex_lock(t, m) PROVE Kept
  BY <1>0, <1>1, LockFifo DEF sys_mutex_lock
<1>2. ASSUME NEW t \in Tasks, spin_again(t) \/ relock(t) PROVE Kept
  BY <1>0, <1>2, LockFifo DEF spin_again, relock, InKernel, Continuations
<1>3. ASSUME NEW t \in Tasks, NEW m \in MutexIds, sys_mutex_unlock(t, m) PROVE Kept
  BY <1>0, <1>3, UnlockFifo DEF sys_mutex_unlock
<1>4. ASSUME NEW t \in Tasks, NEW c \in CondIds, NEW m \in MutexIds, sys_condvar_wait(t, c, m)
      PROVE  Kept
  BY <1>0, <1>4, UnlockFifo DEF sys_condvar_wait
<1>5. ASSUME NEW t \in Tasks,
             \/ sys_yield(t) \/ sleep_block(t)
             \/ \E m \in MutexIds, k \in {"spin", "blocking"} : sys_mutex_create(t, m, k)
             \/ \E u \in Tasks : sys_thread_create(t, u)
             \/ \E s \in SemIds, n \in ResCounts : sys_semaphore_create(t, s, n)
             \/ \E s \in SemIds : sys_semaphore_up(t, s) \/ sys_semaphore_down(t, s)
             \/ \E c \in CondIds : sys_condvar_create(t, c) \/ sys_condvar_signal(t, c)
             \/ \E ms \in Durations : sys_sleep(t, ms)
      PROVE  Kept
  <2>1. UNCHANGED <<mwait, held>>
    BY <1>5 DEF sys_yield, sleep_block, sys_mutex_create, sys_thread_create,
       sys_semaphore_create, sys_semaphore_up, sys_semaphore_down, sys_condvar_create,
       sys_condvar_signal, sys_sleep, mutexes
  <2> QED
    BY <1>a, <2>1
<1>6. ASSUME run_tasks \/ Timer \/ UNCHANGED vars PROVE Kept
  <2>1. UNCHANGED <<mwait, held>>
    BY <1>6 DEF run_tasks, Timer, timer_interrupt, check_timer, timer_return, mutexes, vars
  <2> QED
    BY <1>a, <2>1
<1> QED
  BY <1>1, <1>2, <1>3, <1>4, <1>5, <1>6 DEF Next, Syscall, Resume

\* A nonempty set of deadlines has an earliest one.
LEMMA Earliest ==
  ASSUME NEW T, T \subseteq Nat, T # {}
  PROVE  \E x \in T : \A y \in T : x <= y
<1> DEFINE Less == OpToRel(<, Nat)
<1>1. IsWellFoundedOn(Less, Nat)
  BY NatLessThanWellFounded
<1> HIDE DEF Less
<1>2. PICK x \in T : \A y \in T : <<y, x>> \notin Less
  BY <1>1, WFMin
<1>3. ASSUME NEW y \in T PROVE x <= y
  <2>1. x \in Nat /\ y \in Nat
    OBVIOUS
  <2>2. y < x => <<y, x>> \in Less
    BY <2>1 DEF Less, OpToRel
  <2> QED
    BY <1>2, <2>1, <2>2, SMTT(30)
<1> QED
  BY <1>3

\* The timer on top of the heap is one with the earliest deadline.
LEMMA PeekIsEarliest ==
  ASSUME TypeOK, NEW timer \in timers
  PROVE  Peek(timer) <=> \A other \in timers : timer[2] <= other[2]
<1>1. ASSUME NEW other \in timers
      PROVE  cmp(other, timer) # "Greater" <=> timer[2] <= other[2]
  <2>1. timer[2] \in Nat /\ other[2] \in Nat
    BY SMTT(30) DEF TypeOK
  <2> QED
    BY <2>1, SMTT(30) DEF cmp, usize_cmp
<1> QED
  BY <1>1 DEF Peek

\* When the top of the heap has not expired, nothing in the heap has.
LEMMA NothingOverdue ==
  ASSUME TypeOK, \A timer \in timers : Peek(timer) => ~Expired(timer)
  PROVE  \A x \in timers : now < x[2]
<1> SUFFICES ASSUME NEW x \in timers PROVE now < x[2]
  OBVIOUS
<1> DEFINE T == {y[2] : y \in timers}
<1>1. T \subseteq Nat /\ T # {} /\ x[2] \in Nat /\ now \in Nat
  BY SMTT(30) DEF TypeOK
<1>2. PICK d \in T : \A e \in T : d <= e
  BY <1>1, Earliest
<1>3. PICK timer \in timers : timer[2] = d
  BY <1>2
<1>4. Peek(timer)
  BY <1>2, <1>3, PeekIsEarliest
<1>5. ~(d <= now) /\ d <= x[2] /\ d \in Nat
  BY <1>1, <1>2, <1>3, <1>4 DEF Expired
<1> QED
  BY <1>1, <1>5, SMTT(30)

OnTime ==
  /\ intr # "none" /\ intr' = "none" => \A x \in timers' : now < x[2]
  /\ \A x \in timers \ timers' : x[2] <= now

\* Only check_timer takes timers out of the heap, and only timer_return ends the interrupt.
LEMMA TimerStep ==
  ASSUME TypeOK, [Next]_vars
  PROVE  OnTime
<1>1. ASSUME NEW timer \in timers, check_timer(timer) PROVE OnTime
  <2>1. timers' = timers \ {timer} /\ Expired(timer) /\ UNCHANGED intr
    BY <1>1 DEF check_timer
  <2> QED
    BY <2>1 DEF Expired, OnTime
<1>2. ASSUME timer_return PROVE OnTime
  <2>1. UNCHANGED timers /\ \A timer \in timers : Peek(timer) => ~Expired(timer)
    BY <1>2 DEF timer_return
  <2> QED
    BY <2>1, NothingOverdue DEF OnTime
<1>3. ASSUME timers \subseteq timers', intr = "none" \/ UNCHANGED intr PROVE OnTime
  BY <1>3 DEF OnTime
<1>4. ASSUME NEW t \in Tasks, Syscall(t) \/ Resume(t)
      PROVE  timers \subseteq timers' /\ UNCHANGED intr
  BY <1>4 DEF Syscall, sys_yield, Resume, spin_again, relock, sleep_block, sys_thread_create,
     sys_mutex_create, sys_mutex_lock, sys_mutex_unlock, sys_semaphore_create,
     sys_semaphore_up, sys_semaphore_down, sys_condvar_create, sys_condvar_signal,
     sys_condvar_wait, sys_sleep, clock
<1>5. ASSUME run_tasks \/ UNCHANGED vars PROVE timers \subseteq timers' /\ UNCHANGED intr
  BY <1>5 DEF run_tasks, clock, vars
<1>6. ASSUME timer_interrupt("user") \/ timer_interrupt("kernel")
      PROVE  timers \subseteq timers' /\ intr = "none"
  BY <1>6 DEF timer_interrupt
<1> QED
  BY <1>1, <1>2, <1>3, <1>4, <1>5, <1>6 DEF Next, Timer

-----------------------------------------------------------------------------

\* Every reachable state of the scheduler and the primitives satisfies Inv.
THEOREM Invariance == Spec => []Inv
<1>1. Init => Inv
  BY InitInv
<1>2. Inv /\ [Next]_vars => Inv'
  BY TypeStep, MutexStep, SemaphoreStep DEF Inv, TInv
<1> QED
  BY <1>1, <1>2, PTL DEF Spec

\* The variables keep their types.
THEOREM TypeCorrect == Spec => []TypeOK
<1>1. Inv => TypeOK
  BY DEF Inv, TInv
<1> QED
  BY <1>1, Invariance, PTL

\* Whatever the number of tasks and mutexes, a mutex has at most one owner, is locked
\* exactly while it has one, and only a locked mutex has waiters.
THEOREM MutexesAreSound == Spec => []MutexesSound
<1>1. Inv => MutexesSound
  BY DEF Inv, MInv, MutexesSound
<1> QED
  BY <1>1, Invariance, PTL

\* Whatever the counts, a semaphore never grants more than its first count plus the ups,
\* and unless the cast made that one negative, its queue is as long as its count is negative.
THEOREM SemaphoresConserve == Spec => []SemaphoreConserves
<1>1. Inv => SemaphoreConserves
  BY DEF Inv, SInv
<1> QED
  BY <1>1, Invariance, PTL

\* Whatever the number of tasks, mutexes and condvars, nobody overtakes in the queue of
\* a blocking mutex.
THEOREM HandoversAreFifo == Spec => HandoverIsFifo
<1>1. Inv /\ [Next]_vars =>
        [\A m \in MutexIds :
           /\ \/ mwait'[m] = mwait[m]
              \/ mwait[m] # <<>> /\ mwait'[m] = Tail(mwait[m])
              \/ mwait'[m] # <<>> /\ mwait[m] = SubSeq(mwait'[m], 1, Len(mwait'[m]) - 1)
           /\ \A t, u \in Tasks :
                t # u /\ m \in held[t] /\ m \in held'[u] =>
                  mwait[m] # <<>> /\ u = Head(mwait[m])]_vars
  BY FifoStep DEF Inv, QueueStep, OwnerStep
<1> QED
  BY <1>1, Invariance, PTL DEF Spec, HandoverIsFifo

\* Whatever the number of tasks and sleeps, after the timer interrupt nobody sleeps beyond
\* the deadline, and no sleep ends early: the reversed order of the heap puts the earliest
\* deadline on top.
THEOREM SleepersOnTime == Spec => SleepersWakeOnTime
<1>1. Inv /\ [Next]_vars =>
        [/\ intr # "none" /\ intr' = "none" => \A x \in timers' : now < x[2]
         /\ \A x \in timers \ timers' : x[2] <= now]_vars
  BY TimerStep DEF Inv, TInv, OnTime
<1> QED
  BY <1>1, Invariance, PTL DEF Spec, SleepersWakeOnTime

-----------------------------------------------------------------------------
(* The scheduler neither loses a task nor schedules one twice.  PInv says of *)
(* each task which seats it has (the hart, the ready queue, a wait queue, a  *)
(* timer): one, and inside sys_sleep the hart and one more.                  *)

\* Where a task may be, without the position in a queue.
Hart == <<"current", 0>>
Ready == <<"ready", 0>>
Queued(k, q, t) == {<<k, i>> : i \in {j \in DOMAIN q : t \in Range(q[j])}}

OnHart(t) == IF current = t THEN {Hart} ELSE {}
InReady(t) == IF t \in Range(ready) THEN {Ready} ELSE {}
InTimers(t) == {<<"timer", x[2]>> : x \in {y \in timers : y[1] = t}}
Waiting(t) == Queued("mutex", mwait, t) \cup Queued("sem", swait, t) \cup Queued("cond", cwait, t)
Seats(t) == OnHart(t) \cup InReady(t) \cup Waiting(t) \cup InTimers(t)

\* A task has one seat, from its creation on.  Inside sys_sleep it has two: it runs, and
\* its timer is set or has woken it already.
Placed(t) ==
  /\ t \notin started => Seats(t) = {} /\ pc[t] = "user"
  /\ t \in started /\ pc[t] # "sleep" => \E s : Seats(t) = {s}
  /\ t \in started /\ pc[t] = "sleep" =>
       \E s : s[1] \in {"ready", "timer"} /\ Seats(t) = {Hart, s}

\* Nobody is twice in a queue.
NoneTwice ==
  /\ \A m \in MutexIds : IsInjective(mwait[m])
  /\ \A s \in SemIds : IsInjective(swait[s])
  /\ \A c \in CondIds : IsInjective(cwait[c])

PInv ==
  /\ \A t \in Tasks : Placed(t)
  /\ IsInjective(ready) /\ NoneTwice
  /\ intr = "user" => pc[current] = "user"

\* From the queues q to the queues p, t joins one of them, or leaves the only one it is in.
JoinsQueue(k, q, p, t) ==
  /\ \E s : Queued(k, p, t) = {s}
  /\ \A u \in Tasks \ {t} : Queued(k, p, u) = Queued(k, q, u)
  /\ \A j \in DOMAIN q : IsInjective(p[j])
LeavesQueue(k, q, p, t) ==
  /\ \E s \in Queued(k, q, t) : Queued(k, q, t) = {s} => Queued(k, p, t) = {}
  /\ \A u \in Tasks \ {t} : Queued(k, p, u) = Queued(k, q, u)
  /\ \A j \in DOMAIN q : IsInjective(p[j])

\* Queues of tasks under ids: one more in the queue of one id.
LEMMA QueuedJoin ==
  ASSUME NEW k, NEW I, NEW q \in [I -> Seq(Tasks)], NEW i \in I, NEW t \in Tasks,
         \A j \in I : IsInjective(q[j]), Queued(k, q, t) = {}
  PROVE  JoinsQueue(k, q, [q EXCEPT ![i] = Append(q[i], t)], t)
<1> DEFINE p == [q EXCEPT ![i] = Append(q[i], t)]
<1>1. t \notin Range(q[i]) /\ \A j \in I : t \notin Range(q[j])
  BY DEF Queued
<1>2. Range(p[i]) = Range(q[i]) \cup {t} /\ IsInjective(p[i])
  BY <1>1, JoinQueue, SMTT(30)
<1>3. DOMAIN p = I /\ DOMAIN q = I /\ \A j \in I \ {i} : p[j] = q[j]
  OBVIOUS
<1>4. \A j \in I : t \in Range(p[j]) <=> j = i
  BY <1>1, <1>2, <1>3
<1>5. \A u \in Tasks \ {t}, j \in I : u \in Range(p[j]) <=> u \in Range(q[j])
  BY <1>2, <1>3
<1>6. \A j \in I : IsInjective(p[j])
  BY <1>2, <1>3
<1> HIDE DEF p
<1>7. Queued(k, p, t) = {<<k, i>>}
  BY <1>3, <1>4 DEF Queued
<1>8. \A u \in Tasks \ {t} : Queued(k, p, u) = Queued(k, q, u)
  BY <1>3, <1>5 DEF Queued
<1>9. JoinsQueue(k, q, p, t)
  BY <1>3, <1>6, <1>7, <1>8 DEF JoinsQueue
<1> QED
  BY <1>9 DEF p

\* The first leaves the queue of one id.
LEMMA QueuedLeave ==
  ASSUME NEW k, NEW I, NEW q \in [I -> Seq(Tasks)], NEW i \in I, q[i] # <<>>,
         \A j \in I : IsInjective(q[j])
  PROVE  Head(q[i]) \in Tasks /\ LeavesQueue(k, q, [q EXCEPT ![i] = Tail(q[i])], Head(q[i]))
<1> DEFINE w == Head(q[i])
           p == [q EXCEPT ![i] = Tail(q[i])]
<1>1. /\ w \in Tasks /\ w \in Range(q[i]) /\ IsInjective(p[i])
      /\ Range(p[i]) = Range(q[i]) \ {w}
  BY LeaveQueue
<1>2. DOMAIN p = I /\ DOMAIN q = I /\ \A j \in I \ {i} : p[j] = q[j]
  OBVIOUS
<1>3. \A u \in Tasks \ {w}, j \in I : u \in Range(p[j]) <=> u \in Range(q[j])
  BY <1>1, <1>2
<1> HIDE DEF w, p
<1>4. <<k, i>> \in Queued(k, q, w)
  BY <1>1, <1>2 DEF Queued
<1>5. ASSUME Queued(k, q, w) = {<<k, i>>} PROVE Queued(k, p, w) = {}
  <2>1. \A j \in I : w \in Range(q[j]) => j = i
    <3> SUFFICES ASSUME NEW j \in I, w \in Range(q[j]) PROVE j = i
      OBVIOUS
    <3>1. <<k, j>> \in Queued(k, q, w)
      BY <1>2 DEF Queued
    <3> QED
      BY <1>5, <3>1, SMTT(30)
  <2>2. \A j \in I : w \notin Range(p[j])
    BY <1>1, <1>2, <2>1
  <2> QED
    BY <1>2, <2>2 DEF Queued
<1>6. \A u \in Tasks \ {w} : Queued(k, p, u) = Queued(k, q, u)
  BY <1>2, <1>3 DEF Queued
<1>7. \A j \in I : IsInjective(p[j])
  BY <1>1, <1>2
<1>8. LeavesQueue(k, q, p, w)
  BY <1>2, <1>4, <1>5, <1>6, <1>7 DEF LeavesQueue
<1> QED
  BY <1>1, <1>8 DEF w, p

\* A task with one seat is in none of the others.
LEMMA Elsewhere ==
  ASSUME NEW t, NEW s, Seats(t) = {s}
  PROVE  /\ s[1] # "current" => current # t /\ OnHart(t) = {}
         /\ s[1] # "ready" => t \notin Range(ready) /\ InReady(t) = {}
         /\ s[1] # "mutex" => Queued("mutex", mwait, t) = {}
         /\ s[1] # "sem" => Queued("sem", swait, t) = {}
         /\ s[1] # "cond" => Queued("cond", cwait, t) = {}
         /\ s[1] \notin {"mutex", "sem", "cond"} => Waiting(t) = {}
         /\ s[1] # "timer" => InTimers(t) = {} /\ \A x \in timers : x[1] # t
<1>1. \A k, q : \A r \in Queued(k, q, t) : r[1] = k
  BY SMTT(30) DEF Queued
<1>2. \A r \in InTimers(t) : r[1] = "timer"
  BY SMTT(30) DEF InTimers
<1>3. s[1] # "current" => current # t /\ OnHart(t) = {}
  <2>1. current = t => Hart \in Seats(t)
    BY DEF Seats, OnHart
  <2>2. Hart[1] = "current"
    BY DEF Hart
  <2> QED
    BY <2>1, <2>2 DEF OnHart
<1>4. s[1] # "ready" => t \notin Range(ready) /\ InReady(t) = {}
  <2>1. t \in Range(ready) => Ready \in Seats(t)
    BY DEF Seats, InReady
  <2>2. Ready[1] = "ready"
    BY DEF Ready
  <2> QED
    BY <2>1, <2>2 DEF InReady
<1>5. \A r \in InTimers(t) : r = s
  BY DEF Seats
<1>6. s[1] # "timer" => InTimers(t) = {}
  BY <1>2, <1>5
<1>7. InTimers(t) = {} => \A x \in timers : x[1] # t
  BY DEF InTimers
<1>8. /\ \A r \in Queued("mutex", mwait, t) : r = s
      /\ \A r \in Queued("sem", swait, t) : r = s
      /\ \A r \in Queued("cond", cwait, t) : r = s
  BY DEF Seats, Waiting
<1>9. /\ s[1] # "mutex" => Queued("mutex", mwait, t) = {}
      /\ s[1] # "sem" => Queued("sem", swait, t) = {}
      /\ s[1] # "cond" => Queued("cond", cwait, t) = {}
  BY <1>1, <1>8
<1>10. s[1] \notin {"mutex", "sem", "cond"} => Waiting(t) = {}
  BY <1>9 DEF Waiting
<1> QED
  BY <1>3, <1>4, <1>6, <1>7, <1>9, <1>10

\* Every seat belongs to a task that was created; it is the only one outside sys_sleep.
LEMMA OnlySeat ==
  ASSUME NEW t \in Tasks, Placed(t), NEW s \in Seats(t),
         pc[t] # "sleep" \/ s[1] \in {"mutex", "sem", "cond"}
  PROVE  t \in started /\ pc[t] # "sleep" /\ Seats(t) = {s}
<1>1. t \in started
  BY DEF Placed
<1>2. pc[t] # "sleep"
  BY <1>1, SMTT(30) DEF Placed, Hart
<1> QED
  BY <1>1, <1>2 DEF Placed

\* What a step may do with one task, as far as its seats are concerned.
Kept(t) == Seats(t)' = Seats(t) /\ pc'[t] = pc[t] /\ (t \in started' <=> t \in started)
Moved(t) == t \in started' /\ pc'[t] # "sleep" /\ \E s : Seats(t)' = {s}

\* A task that keeps its seats, or moves to one other, is placed right again.
LEMMA PlacedStep ==
  ASSUME NEW t, Placed(t), Kept(t) \/ Moved(t)
  PROVE  Placed(t)'
<1>1. CASE Kept(t)
  <2>1. t \notin started' => Seats(t)' = {} /\ pc'[t] = "user"
    BY <1>1 DEF Placed, Kept
  <2>2. t \in started' /\ pc'[t] # "sleep" => \E s : Seats(t)' = {s}
    BY <1>1 DEF Placed, Kept
  <2>3. ASSUME t \in started', pc'[t] = "sleep"
        PROVE  \E s : s[1] \in {"ready", "timer"} /\ Seats(t)' = {Hart, s}
    <3>1. PICK s : s[1] \in {"ready", "timer"} /\ Seats(t) = {Hart, s}
      BY <1>1, <2>3 DEF Placed, Kept
    <3> QED
      BY <1>1, <3>1, SMTT(30) DEF Kept
  <2> QED
    BY <2>1, <2>2, <2>3 DEF Placed, Hart
<1>2. CASE Moved(t)
  BY <1>2 DEF Placed, Moved
<1> QED
  BY <1>1, <1>2

\* One task moves to another seat and the others keep theirs.
LEMMA MovesOne ==
  ASSUME PInv, NEW t \in Tasks, Moved(t) \/ Placed(t)', \A u \in Tasks \ {t} : Kept(u),
         IsInjective(ready'), NoneTwice', intr' = "user" => pc'[current'] = "user"
  PROVE  PInv'
<1>1. \A u \in Tasks : Placed(u)'
  BY PlacedStep DEF PInv
<1> QED
  BY <1>1 DEF PInv

\* The task on the hart, outside sys_sleep, has no other seat.
LEMMA Running ==
  ASSUME PInv, NEW t \in Tasks, current = t, pc[t] # "sleep"
  PROVE  /\ t \in started /\ Seats(t) = {Hart} /\ t \notin Range(ready)
         /\ InReady(t) = {} /\ Waiting(t) = {} /\ InTimers(t) = {}
<1>1. Hart \in Seats(t) /\ Hart[1] = "current"
  BY DEF Seats, OnHart, Hart
<1>2. t \in started /\ Seats(t) = {Hart}
  BY <1>1, OnlySeat DEF PInv
<1> QED
  BY <1>1, <1>2, Elsewhere

\* suspend_current_and_run_next moves the task from the hart into the ready queue.
LEMMA Suspends ==
  ASSUME TypeOK, PInv, NEW t \in Tasks, current = t, pc[t] # "sleep",
         suspend_current_and_run_next(t), UNCHANGED <<mwait, swait, cwait, timers, started>>,
         pc'[t] # "sleep", \A u \in Tasks \ {t} : pc'[u] = pc[u], intr' # "user"
  PROVE  PInv'
<1>1. t \in started /\ t \notin Range(ready) /\ InTimers(t) = {} /\ Waiting(t) = {}
  BY Running
<1>2. current' = NoTask /\ ready' = Append(ready, t) /\ ready \in Seq(Tasks)
  BY DEF suspend_current_and_run_next, TypeOK
<1>3. Range(ready') = Range(ready) \cup {t} /\ IsInjective(ready')
  BY <1>1, <1>2, JoinQueue, SMTT(30) DEF PInv
<1>4. \A u \in Tasks : Waiting(u)' = Waiting(u) /\ InTimers(u)' = InTimers(u)
  BY DEF Waiting, InTimers
<1>5. OnHart(t)' = {} /\ InReady(t)' = {Ready}
  BY <1>2, <1>3, TaskSyncAssumption DEF OnHart, InReady
<1>6. \A u \in Tasks \ {t} : OnHart(u)' = OnHart(u) /\ InReady(u)' = InReady(u)
  BY <1>2, <1>3, TaskSyncAssumption DEF OnHart, InReady
<1>7. Seats(t)' = {Ready} /\ \A u \in Tasks \ {t} : Seats(u)' = Seats(u)
  BY <1>1, <1>4, <1>5, <1>6 DEF Seats
<1>8. NoneTwice'
  BY DEF NoneTwice, PInv
<1>9. Moved(t) /\ \A u \in Tasks \ {t} : Kept(u)
  BY <1>1, <1>7 DEF Moved, Kept
<1> QED
  BY <1>3, <1>8, <1>9, MovesOne

\* The task joins one wait queue, or one that was waiting leaves its queue.
Joins(t) ==
  /\ (\E s : Waiting(t)' = {s}) /\ NoneTwice'
  /\ \A u \in Tasks \ {t} : Waiting(u)' = Waiting(u)
Leaves(w) ==
  /\ Waiting(w) # {} /\ Waiting(w)' = {} /\ NoneTwice'
  /\ \A u \in Tasks \ {w} : Waiting(u)' = Waiting(u)

\* block_current_and_run_next moves the task from the hart into a wait queue.
LEMMA Blocks ==
  ASSUME TypeOK, PInv, NEW t \in Tasks, current = t, pc[t] # "sleep",
         block_current_and_run_next(t), Joins(t), UNCHANGED <<timers, started>>,
         pc'[t] # "sleep", \A u \in Tasks \ {t} : pc'[u] = pc[u], intr' # "user"
  PROVE  PInv'
<1>1. t \in started /\ t \notin Range(ready) /\ InTimers(t) = {} /\ InReady(t) = {}
  BY Running
<1>2. current' = NoTask /\ ready' = ready
  BY DEF block_current_and_run_next
<1>3. \A u \in Tasks : InReady(u)' = InReady(u) /\ InTimers(u)' = InTimers(u)
  BY <1>2 DEF InReady, InTimers
<1>4. OnHart(t)' = {} /\ \A u \in Tasks \ {t} : OnHart(u)' = OnHart(u)
  BY <1>2, TaskSyncAssumption DEF OnHart
<1>5. (\E s : Seats(t)' = {s}) /\ \A u \in Tasks \ {t} : Seats(u)' = Seats(u)
  BY <1>1, <1>3, <1>4 DEF Seats, Joins
<1>6. Moved(t) /\ \A u \in Tasks \ {t} : Kept(u)
  BY <1>1, <1>5 DEF Moved, Kept
<1> QED
  BY <1>2, <1>6, MovesOne DEF Joins, PInv

\* A task in a wait queue has no other seat.
LEMMA WaitsOnly ==
  ASSUME PInv, NEW w \in Tasks, Waiting(w) # {}
  PROVE  /\ w \in started /\ pc[w] # "sleep" /\ w # current /\ w \notin Range(ready)
         /\ OnHart(w) = {} /\ InReady(w) = {} /\ InTimers(w) = {}
<1>1. PICK s : s \in Waiting(w)
  OBVIOUS
<1>2. s \in Seats(w) /\ s[1] \in {"mutex", "sem", "cond"}
  BY <1>1, SMTT(30) DEF Seats, Waiting, Queued
<1>3. w \in started /\ pc[w] # "sleep" /\ Seats(w) = {s}
  BY <1>2, OnlySeat DEF PInv
<1> QED
  BY <1>2, <1>3, Elsewhere

\* wakeup moves a task from its wait queue into the ready queue.
LEMMA Wakes ==
  ASSUME TypeOK, PInv, NEW w \in Tasks, wakeup(w), Leaves(w), UNCHANGED <<timers, started, pc>>,
         intr' # "user"
  PROVE  PInv'
<1>1. /\ w \in started /\ pc[w] # "sleep" /\ w # current /\ w \notin Range(ready)
      /\ OnHart(w) = {} /\ InTimers(w) = {}
  BY WaitsOnly DEF Leaves
<1>2. current' = current /\ ready' = Append(ready, w) /\ ready \in Seq(Tasks)
  BY DEF wakeup, TypeOK
<1>3. Range(ready') = Range(ready) \cup {w} /\ IsInjective(ready')
  BY <1>1, <1>2, JoinQueue, SMTT(30) DEF PInv
<1>4. \A u \in Tasks : OnHart(u)' = OnHart(u) /\ InTimers(u)' = InTimers(u)
  BY <1>2 DEF OnHart, InTimers
<1>5. InReady(w)' = {Ready} /\ \A u \in Tasks \ {w} : InReady(u)' = InReady(u)
  BY <1>3 DEF InReady
<1>6. Seats(w)' = {Ready} /\ \A u \in Tasks \ {w} : Seats(u)' = Seats(u)
  BY <1>1, <1>4, <1>5, SMTT(30) DEF Seats, Leaves
<1>7. Moved(w) /\ \A u \in Tasks \ {w} : Kept(u)
  BY <1>1, <1>6 DEF Moved, Kept
<1> QED
  BY <1>3, <1>7, MovesOne DEF Leaves

\* push_back on the wait queue of a mutex, a semaphore or a condvar.
LEMMA JoinsOne ==
  ASSUME TypeOK, PInv, NEW t \in Tasks, Waiting(t) = {}
  PROVE  /\ \A m \in MutexIds : mwait' = [mwait EXCEPT ![m] = Append(@, t)] =>
              JoinsQueue("mutex", mwait, mwait', t)
         /\ \A s \in SemIds : swait' = [swait EXCEPT ![s] = Append(@, t)] =>
              JoinsQueue("sem", swait, swait', t)
         /\ \A c \in CondIds : cwait' = [cwait EXCEPT ![c] = Append(@, t)] =>
              JoinsQueue("cond", cwait, cwait', t)
<1>1. /\ mwait \in [MutexIds -> Seq(Tasks)] /\ swait \in [SemIds -> Seq(Tasks)]
      /\ cwait \in [CondIds -> Seq(Tasks)]
  BY DEF TypeOK
<1>2. /\ \A m \in MutexIds : IsInjective(mwait[m])
      /\ \A s \in SemIds : IsInjective(swait[s])
      /\ \A c \in CondIds : IsInjective(cwait[c])
  BY DEF PInv, NoneTwice
<1>3. /\ Queued("mutex", mwait, t) = {} /\ Queued("sem", swait, t) = {}
      /\ Queued("cond", cwait, t) = {}
  BY DEF Waiting
<1>4. \A m \in MutexIds : JoinsQueue("mutex", mwait, [mwait EXCEPT ![m] = Append(@, t)], t)
  BY <1>1, <1>2, <1>3, QueuedJoin
<1>5. \A s \in SemIds : JoinsQueue("sem", swait, [swait EXCEPT ![s] = Append(@, t)], t)
  BY <1>1, <1>2, <1>3, QueuedJoin
<1>6. \A c \in CondIds : JoinsQueue("cond", cwait, [cwait EXCEPT ![c] = Append(@, t)], t)
  BY <1>1, <1>2, <1>3, QueuedJoin
<1> QED
  BY <1>4, <1>5, <1>6

\* pop_front on the wait queue of a mutex, a semaphore or a condvar.
LEMMA LeavesOne ==
  ASSUME TypeOK, PInv
  PROVE  /\ \A m \in MutexIds : mwait[m] # <<>> /\ mwait' = [mwait EXCEPT ![m] = Tail(@)] =>
              \E w \in Tasks : w = Head(mwait[m]) /\ LeavesQueue("mutex", mwait, mwait', w)
         /\ \A s \in SemIds : swait[s] # <<>> /\ swait' = [swait EXCEPT ![s] = Tail(@)] =>
              \E w \in Tasks : w = Head(swait[s]) /\ LeavesQueue("sem", swait, swait', w)
         /\ \A c \in CondIds : cwait[c] # <<>> /\ cwait' = [cwait EXCEPT ![c] = Tail(@)] =>
              \E w \in Tasks : w = Head(cwait[c]) /\ LeavesQueue("cond", cwait, cwait', w)
<1>1. /\ mwait \in [MutexIds -> Seq(Tasks)] /\ swait \in [SemIds -> Seq(Tasks)]
      /\ cwait \in [CondIds -> Seq(Tasks)]
  BY DEF TypeOK
<1>2. /\ \A m \in MutexIds : IsInjective(mwait[m])
      /\ \A s \in SemIds : IsInjective(swait[s])
      /\ \A c \in CondIds : IsInjective(cwait[c])
  BY DEF PInv, NoneTwice
<1>3. \A m \in MutexIds : mwait[m] # <<>> => Head(mwait[m]) \in Tasks /\
        LeavesQueue("mutex", mwait, [mwait EXCEPT ![m] = Tail(@)], Head(mwait[m]))
  BY <1>1, <1>2, QueuedLeave
<1>4. \A s \in SemIds : swait[s] # <<>> => Head(swait[s]) \in Tasks /\
        LeavesQueue("sem", swait, [swait EXCEPT ![s] = Tail(@)], Head(swait[s]))
  BY <1>1, <1>2, QueuedLeave
<1>5. \A c \in CondIds : cwait[c] # <<>> => Head(cwait[c]) \in Tasks /\
        LeavesQueue("cond", cwait, [cwait EXCEPT ![c] = Tail(@)], Head(cwait[c]))
  BY <1>1, <1>2, QueuedLeave
<1> QED
  BY <1>3, <1>4, <1>5

\* Who joins one queue of a kind, while the others stay, joins a wait queue.
LEMMA JoinsWait ==
  ASSUME TypeOK, PInv, NEW t \in Tasks, Waiting(t) = {},
         \/ JoinsQueue("mutex", mwait, mwait', t) /\ UNCHANGED <<swait, cwait>>
         \/ JoinsQueue("sem", swait, swait', t) /\ UNCHANGED <<mwait, cwait>>
         \/ JoinsQueue("cond", cwait, cwait', t) /\ UNCHANGED <<mwait, swait>>
  PROVE  Joins(t)
<1>1. DOMAIN mwait = MutexIds /\ DOMAIN swait = SemIds /\ DOMAIN cwait = CondIds
  BY DEF TypeOK
<1>2. NoneTwice'
  BY <1>1 DEF JoinsQueue, PInv, NoneTwice
<1>3. \E s : Waiting(t)' = {s}
  BY DEF JoinsQueue, Waiting
<1>4. \A u \in Tasks \ {t} : Waiting(u)' = Waiting(u)
  BY DEF JoinsQueue, Waiting
<1> QED
  BY <1>2, <1>3, <1>4 DEF Joins

\* A task in a wait queue is in no other.
LEMMA OneQueue ==
  ASSUME PInv, NEW w \in Tasks, NEW s \in Waiting(w)
  PROVE  /\ Waiting(w) = {s}
         /\ s[1] # "mutex" => Queued("mutex", mwait, w) = {}
         /\ s[1] # "sem" => Queued("sem", swait, w) = {}
         /\ s[1] # "cond" => Queued("cond", cwait, w) = {}
<1>1. s \in Seats(w) /\ s[1] \in {"mutex", "sem", "cond"}
  BY SMTT(30) DEF Seats, Waiting, Queued
<1>2. Seats(w) = {s}
  BY <1>1, OnlySeat DEF PInv
<1> QED
  BY <1>2, Elsewhere DEF Seats

\* Who leaves one queue of a kind, while the others stay, waits no longer.
LEMMA LeavesWait ==
  ASSUME TypeOK, PInv, NEW w \in Tasks,
         \/ LeavesQueue("mutex", mwait, mwait', w) /\ UNCHANGED <<swait, cwait>>
         \/ LeavesQueue("sem", swait, swait', w) /\ UNCHANGED <<mwait, cwait>>
         \/ LeavesQueue("cond", cwait, cwait', w) /\ UNCHANGED <<mwait, swait>>
  PROVE  Leaves(w)
<1>1. DOMAIN mwait = MutexIds /\ DOMAIN swait = SemIds /\ DOMAIN cwait = CondIds
  BY DEF TypeOK
<1>2. NoneTwice'
  BY <1>1 DEF LeavesQueue, PInv, NoneTwice
<1>3. \A u \in Tasks \ {w} : Waiting(u)' = Waiting(u)
  BY DEF LeavesQueue, Waiting
<1>4. \A k, q, u : \A r \in Queued(k, q, u) : r[1] = k
  BY SMTT(30) DEF Queued
<1>5. CASE LeavesQueue("mutex", mwait, mwait', w) /\ UNCHANGED <<swait, cwait>>
  <2>1. PICK s \in Queued("mutex", mwait, w) :
          Queued("mutex", mwait, w) = {s} => Queued("mutex", mwait', w) = {}
    BY <1>5 DEF LeavesQueue
  <2>2. s \in Waiting(w) /\ s[1] = "mutex"
    BY <1>4 DEF Waiting
  <2>3. /\ Waiting(w) = {s} /\ Queued("sem", swait, w) = {} /\ Queued("cond", cwait, w) = {}
    BY <2>2, OneQueue
  <2>4. Waiting(w)' = {}
    BY <1>5, <2>1, <2>3 DEF Waiting
  <2> QED
    BY <1>2, <1>3, <2>2, <2>4 DEF Leaves
<1>6. CASE LeavesQueue("sem", swait, swait', w) /\ UNCHANGED <<mwait, cwait>>
  <2>1. PICK s \in Queued("sem", swait, w) :
          Queued("sem", swait, w) = {s} => Queued("sem", swait', w) = {}
    BY <1>6 DEF LeavesQueue
  <2>2. s \in Waiting(w) /\ s[1] = "sem"
    BY <1>4 DEF Waiting
  <2>3. /\ Waiting(w) = {s} /\ Queued("mutex", mwait, w) = {} /\ Queued("cond", cwait, w) = {}
    BY <2>2, OneQueue
  <2>4. Waiting(w)' = {}
    BY <1>6, <2>1, <2>3 DEF Waiting
  <2> QED
    BY <1>2, <1>3, <2>2, <2>4 DEF Leaves
<1>7. CASE LeavesQueue("cond", cwait, cwait', w) /\ UNCHANGED <<mwait, swait>>
  <2>1. PICK s \in Queued("cond", cwait, w) :
          Queued("cond", cwait, w) = {s} => Queued("cond", cwait', w) = {}
    BY <1>7 DEF LeavesQueue
  <2>2. s \in Waiting(w) /\ s[1] = "cond"
    BY <1>4 DEF Waiting
  <2>3. /\ Waiting(w) = {s} /\ Queued("mutex", mwait, w) = {} /\ Queued("sem", swait, w) = {}
    BY <2>2, OneQueue
  <2>4. Waiting(w)' = {}
    BY <1>7, <2>1, <2>3 DEF Waiting
  <2> QED
    BY <1>2, <1>3, <2>2, <2>4 DEF Leaves
<1> QED
  BY <1>5, <1>6, <1>7

\* Nobody moves; the running task may go on in its system call, outside sys_sleep.
LEMMA NobodyMoves ==
  ASSUME PInv, UNCHANGED <<current, ready, mwait, swait, cwait, timers, started>>,
         \A u \in Tasks : pc'[u] = pc[u] \/ (current = u /\ pc[u] # "sleep" /\ pc'[u] # "sleep"),
         intr' = "user" => pc'[current'] = "user"
  PROVE  PInv'
<1>1. \A u \in Tasks : Seats(u)' = Seats(u)
  BY DEF Seats, OnHart, InReady, Waiting, InTimers
<1>2. ASSUME NEW u \in Tasks PROVE Kept(u) \/ Moved(u)
  <2>1. CASE pc'[u] = pc[u]
    BY <1>1, <2>1 DEF Kept
  <2>2. CASE current = u /\ pc[u] # "sleep" /\ pc'[u] # "sleep"
    BY <1>1, <2>2, Running DEF Moved
  <2> QED
    BY <2>1, <2>2
<1>3. \A u \in Tasks : Placed(u)'
  BY <1>2, PlacedStep DEF PInv
<1> QED
  BY <1>3 DEF PInv, NoneTwice

\* run_tasks moves the front of the ready queue to the hart.
LEMMA RunStep ==
  ASSUME TypeOK, PInv, run_tasks
  PROVE  PInv'
<1>1. /\ current = NoTask /\ ready \in Seq(Tasks) /\ ready # <<>> /\ current' = Head(ready)
      /\ ready' = Tail(ready) /\ intr' = "none"
      /\ UNCHANGED <<mwait, swait, cwait, timers, started, pc>>
  BY DEF run_tasks, TypeOK, running, clock, mutexes, sems, condvars
<1>2. PICK w : w = Head(ready)
  OBVIOUS
<1>3. /\ w \in Tasks /\ w \in Range(ready) /\ IsInjective(ready')
      /\ Range(ready') = Range(ready) \ {w}
  BY <1>1, <1>2, LeaveQueue DEF PInv
<1>4. Ready \in Seats(w) /\ Ready[1] = "ready"
  BY <1>3 DEF Seats, InReady, Ready
<1>5. pc[w] # "sleep"
  <2>1. OnHart(w) = {}
    BY <1>1, <1>3, TaskSyncAssumption DEF OnHart
  <2>2. Hart \notin Seats(w)
    BY <2>1 DEF Seats, InReady, Waiting, InTimers, Queued, Hart, Ready
  <2> QED
    BY <1>3, <1>4, <2>2 DEF PInv, Placed
<1>6. w \in started /\ Seats(w) = {Ready}
  BY <1>3, <1>4, <1>5, OnlySeat DEF PInv
<1>7. Waiting(w) = {} /\ InTimers(w) = {}
  BY <1>4, <1>6, Elsewhere
<1>8. \A u \in Tasks : Waiting(u)' = Waiting(u) /\ InTimers(u)' = InTimers(u)
  BY <1>1 DEF Waiting, InTimers
<1>9. OnHart(w)' = {Hart} /\ InReady(w)' = {}
  BY <1>1, <1>2, <1>3 DEF OnHart, InReady
<1>10. \A u \in Tasks \ {w} : OnHart(u)' = OnHart(u) /\ InReady(u)' = InReady(u)
  <2>1. \A u \in Tasks \ {w} : u # current' /\ u # current
    BY <1>1, <1>2, TaskSyncAssumption
  <2> QED
    BY <1>3, <2>1 DEF OnHart, InReady
<1>11. Seats(w)' = {Hart} /\ \A u \in Tasks \ {w} : Seats(u)' = Seats(u)
  <2>1. Seats(w)' = {Hart}
    BY <1>3, <1>7, <1>8, <1>9 DEF Seats
  <2>2. ASSUME NEW u \in Tasks \ {w} PROVE Seats(u)' = Seats(u)
    BY <1>8, <1>10 DEF Seats
  <2> QED
    BY <2>1, <2>2
<1>12. Moved(w) /\ \A u \in Tasks \ {w} : Kept(u)
  BY <1>1, <1>5, <1>6, <1>11 DEF Moved, Kept
<1>13. NoneTwice'
  BY <1>1 DEF PInv, NoneTwice
<1> QED
  BY <1>1, <1>3, <1>12, <1>13, MovesOne

\* sys_thread_create gives the new task its first seat.
LEMMA CreateStep ==
  ASSUME TypeOK, PInv, NEW t \in Tasks, NEW w \in Tasks, sys_thread_create(t, w)
  PROVE  PInv'
<1>1. /\ w \notin started /\ started' = started \cup {w}
      /\ ready \in Seq(Tasks) /\ ready' = Append(ready, w) /\ intr' = "none"
      /\ UNCHANGED <<current, mwait, swait, cwait, timers, pc>>
  BY DEF sys_thread_create, EnterSyscall, InUser, TypeOK, mutexes, sems, condvars
<1>2. Seats(w) = {} /\ pc[w] = "user"
  BY <1>1 DEF PInv, Placed
<1>3. w \notin Range(ready) /\ OnHart(w) = {} /\ Waiting(w) = {} /\ InTimers(w) = {}
  BY <1>2 DEF Seats, InReady
<1>4. Range(ready') = Range(ready) \cup {w} /\ IsInjective(ready')
  BY <1>1, <1>3, JoinQueue, SMTT(30) DEF PInv
<1>5. \A u \in Tasks : /\ OnHart(u)' = OnHart(u) /\ Waiting(u)' = Waiting(u)
                       /\ InTimers(u)' = InTimers(u)
  BY <1>1 DEF OnHart, Waiting, InTimers
<1>6. InReady(w)' = {Ready} /\ \A u \in Tasks \ {w} : InReady(u)' = InReady(u)
  BY <1>4 DEF InReady
<1>7. Seats(w)' = {Ready} /\ \A u \in Tasks \ {w} : Seats(u)' = Seats(u)
  BY <1>3, <1>5, <1>6 DEF Seats
<1>8. Moved(w) /\ \A u \in Tasks \ {w} : Kept(u)
  BY <1>1, <1>2, <1>7 DEF Moved, Kept
<1>9. NoneTwice'
  BY <1>1 DEF PInv, NoneTwice
<1> QED
  BY <1>1, <1>4, <1>8, <1>9, MovesOne

\* sys_sleep gives the running task a second seat, in TIMERS.
LEMMA SleepStep ==
  ASSUME TypeOK, PInv, NEW t \in Tasks, NEW ms \in Durations, sys_sleep(t, ms)
  PROVE  PInv'
<1>1. /\ current = t /\ pc[t] = "user" /\ pc' = [pc EXCEPT ![t] = "sleep"] /\ intr' = "none"
      /\ UNCHANGED <<current, ready, mwait, swait, cwait, started>>
  BY DEF sys_sleep, EnterSyscall, InUser, sched, mutexes, sems, condvars
<1>2. PICK e : timers' = timers \cup {<<t, e>>}
  BY DEF sys_sleep
<1>3. t \in started /\ OnHart(t) = {Hart} /\ InReady(t) = {} /\ Waiting(t) = {} /\ InTimers(t) = {}
  BY <1>1, Running DEF OnHart
<1>4. \A u \in Tasks : /\ OnHart(u)' = OnHart(u) /\ Waiting(u)' = Waiting(u)
                       /\ InReady(u)' = InReady(u)
  BY <1>1 DEF OnHart, Waiting, InReady
<1>5. InTimers(t)' = {<<"timer", e>>}
  <2>1. \A x \in timers : x[1] # t
    BY <1>3 DEF InTimers
  <2>2. {y \in timers' : y[1] = t} = {<<t, e>>}
    BY <1>2, <2>1, SMTT(30)
  <2>3. InTimers(t)' = {<<"timer", x[2]>> : x \in {<<t, e>>}}
    BY <2>2 DEF InTimers
  <2> QED
    BY <2>3
<1>6. \A u \in Tasks \ {t} : InTimers(u)' = InTimers(u)
  BY <1>2, SMTT(30) DEF InTimers
<1>7. Seats(t)' = {Hart, <<"timer", e>>}
  BY <1>3, <1>4, <1>5, SMTT(30) DEF Seats
<1>8. \A u \in Tasks \ {t} : Seats(u)' = Seats(u)
  BY <1>4, <1>6 DEF Seats
<1>9. pc'[t] = "sleep" /\ \A u \in Tasks \ {t} : pc'[u] = pc[u]
  BY <1>1 DEF TypeOK
<1>10. \A u \in Tasks \ {t} : Kept(u)
  BY <1>1, <1>8, <1>9 DEF Kept
<1>11. PICK s : s = <<"timer", e>>
  OBVIOUS
<1>12. Placed(t)'
  <2>1. s[1] \in {"ready", "timer"}
    BY <1>11
  <2>2. Hart' = Hart /\ Seats(t)' = {Hart, s}
    BY <1>7, <1>11 DEF Hart
  <2>3. t \in started' /\ pc'[t] = "sleep"
    BY <1>1, <1>3, <1>9
  <2> QED
    BY <2>1, <2>2, <2>3, SMTT(30) DEF Placed
<1>13. IsInjective(ready') /\ NoneTwice'
  BY <1>1 DEF PInv, NoneTwice
<1> QED
  BY <1>1, <1>10, <1>12, <1>13, MovesOne

\* block_current_and_run_next of sys_sleep leaves it the other one: its timer, or the
\* ready queue if the timer has expired since.
LEMMA SleepBlockStep ==
  ASSUME TypeOK, PInv, NEW t \in Tasks, sleep_block(t)
  PROVE  PInv'
<1>1. /\ current = t /\ pc[t] = "sleep" /\ pc' = [pc EXCEPT ![t] = "user"] /\ intr' = "none"
      /\ current' = NoTask /\ UNCHANGED <<ready, mwait, swait, cwait, timers, started>>
  BY DEF sleep_block, InKernel, block_current_and_run_next, clock, mutexes, sems, condvars
<1>2. t \in started
  BY <1>1 DEF PInv, Placed
<1>3. PICK s : s[1] \in {"ready", "timer"} /\ Seats(t) = {Hart, s}
  BY <1>1, <1>2 DEF PInv, Placed
<1>4. \A u \in Tasks : /\ InTimers(u)' = InTimers(u) /\ Waiting(u)' = Waiting(u)
                       /\ InReady(u)' = InReady(u)
  BY <1>1 DEF InTimers, Waiting, InReady
<1>5. OnHart(t) = {Hart} /\ OnHart(t)' = {} /\ \A u \in Tasks \ {t} : OnHart(u)' = OnHart(u)
  BY <1>1, TaskSyncAssumption DEF OnHart
<1>6. s # Hart /\ Hart \notin InReady(t) \cup Waiting(t) \cup InTimers(t)
  BY <1>3, SMTT(30) DEF InReady, Waiting, InTimers, Queued, Hart, Ready
<1>7. InReady(t) \cup Waiting(t) \cup InTimers(t) = {s}
  BY <1>3, <1>5, <1>6, SMTT(30) DEF Seats
<1>8. Seats(t)' = {s}
  BY <1>4, <1>5, <1>7 DEF Seats
<1>9. \A u \in Tasks \ {t} : Seats(u)' = Seats(u)
  BY <1>4, <1>5 DEF Seats
<1>10. pc'[t] = "user" /\ \A u \in Tasks \ {t} : pc'[u] = pc[u]
  BY <1>1 DEF TypeOK
<1>11. Moved(t) /\ \A u \in Tasks \ {t} : Kept(u)
  BY <1>1, <1>2, <1>8, <1>9, <1>10 DEF Moved, Kept
<1>12. IsInjective(ready') /\ NoneTwice'
  BY <1>1 DEF PInv, NoneTwice
<1> QED
  BY <1>1, <1>11, <1>12, MovesOne

\* check_timer moves a task from TIMERS into the ready queue, also while it still runs.
LEMMA CheckTimerStep ==
  ASSUME TypeOK, PInv, NEW x \in timers, check_timer(x)
  PROVE  PInv'
<1>1. PICK t \in Tasks, e \in Nat : x = <<t, e>>
  BY SMTT(30) DEF TypeOK
<1>2. /\ timers' = timers \ {x} /\ ready \in Seq(Tasks) /\ ready' = Append(ready, t)
      /\ timers \subseteq Tasks \X Nat
      /\ UNCHANGED <<current, mwait, swait, cwait, started, pc, intr>>
  BY <1>1 DEF check_timer, wakeup, TypeOK, running, mutexes, sems, condvars
<1>3. <<"timer", e>> \in InTimers(t)
  BY <1>1, SMTT(30) DEF InTimers
<1>4. <<"timer", e>> \in Seats(t) /\ <<"timer", e>>[1] = "timer"
  BY <1>3 DEF Seats
<1>5. t \in started
  BY <1>4 DEF PInv, Placed
<1>6. /\ Waiting(t) = {} /\ InTimers(t) = {<<"timer", e>>} /\ t \notin Range(ready)
      /\ OnHart(t) = IF pc[t] = "sleep" THEN {Hart} ELSE {}
  <2>1. CASE pc[t] # "sleep"
    <3>1. Seats(t) = {<<"timer", e>>}
      BY <1>4, <2>1, OnlySeat DEF PInv
    <3>2. Waiting(t) = {} /\ t \notin Range(ready) /\ OnHart(t) = {}
      BY <1>4, <3>1, Elsewhere
    <3>3. InTimers(t) = {<<"timer", e>>}
      BY <1>3, <3>1 DEF Seats
    <3> QED
      BY <2>1, <3>2, <3>3
  <2>2. CASE pc[t] = "sleep"
    <3>1. PICK s : s[1] \in {"ready", "timer"} /\ Seats(t) = {Hart, s}
      BY <1>5, <2>2 DEF PInv, Placed
    <3>2. Hart[1] = "current"
      BY DEF Hart
    <3>3. s = <<"timer", e>>
      BY <1>4, <3>1, <3>2
    <3>4. /\ \A r \in Waiting(t) : r[1] \in {"mutex", "sem", "cond"}
          /\ \A r \in InTimers(t) : r[1] = "timer"
      BY SMTT(30) DEF Waiting, Queued, InTimers
    <3>5. Waiting(t) = {} /\ InTimers(t) = {<<"timer", e>>}
      BY <1>3, <1>4, <3>1, <3>2, <3>3, <3>4 DEF Seats
    <3>6. t \notin Range(ready)
      <4> SUFFICES ASSUME t \in Range(ready) PROVE FALSE
        OBVIOUS
      <4>1. Ready \in Seats(t) /\ Ready[1] = "ready"
        BY DEF Seats, InReady, Ready
      <4> QED
        BY <1>4, <3>1, <3>2, <3>3, <4>1
    <3>7. OnHart(t) = {Hart}
      <4>1. Hart \notin InReady(t)
        BY <3>6 DEF InReady
      <4>2. Hart \in OnHart(t)
        BY <1>4, <3>1, <3>2, <3>5, <4>1 DEF Seats
      <4> QED
        BY <4>2 DEF OnHart
    <3> QED
      BY <2>2, <3>5, <3>6, <3>7
  <2> QED
    BY <2>1, <2>2
<1>7. Range(ready') = Range(ready) \cup {t} /\ IsInjective(ready')
  BY <1>2, <1>6, JoinQueue, SMTT(30) DEF PInv
<1>8. \A u \in Tasks : OnHart(u)' = OnHart(u) /\ Waiting(u)' = Waiting(u)
  BY <1>2 DEF OnHart, Waiting
<1>9. InReady(t)' = {Ready} /\ \A u \in Tasks \ {t} : InReady(u)' = InReady(u)
  BY <1>7 DEF InReady
<1>10. InTimers(t)' = {}
  <2>1. ASSUME NEW y \in timers, y[1] = t PROVE y = x
    <3>1. <<"timer", y[2]>> \in InTimers(t)
      BY <2>1 DEF InTimers
    <3>2. y[2] = e
      BY <1>6, <3>1, SMTT(30)
    <3> QED
      BY <1>1, <1>2, <2>1, <3>2, SMTT(30)
  <2> QED
    BY <1>2, <2>1 DEF InTimers
<1>11. \A u \in Tasks \ {t} : InTimers(u)' = InTimers(u)
  BY <1>1, <1>2, SMTT(30) DEF InTimers
<1>12. Seats(t)' = OnHart(t) \cup {Ready}
  BY <1>6, <1>8, <1>9, <1>10, SMTT(30) DEF Seats
<1>13. \A u \in Tasks \ {t} : Seats(u)' = Seats(u)
  BY <1>8, <1>9, <1>11 DEF Seats
<1>14. \A u \in Tasks \ {t} : Kept(u)
  BY <1>2, <1>13 DEF Kept
<1>15. Moved(t) \/ Placed(t)'
  <2>1. CASE pc[t] # "sleep"
    <3>1. Seats(t)' = {Ready}
      BY <1>6, <1>12, <2>1
    <3> QED
      BY <1>2, <1>5, <2>1, <3>1 DEF Moved
  <2>2. CASE pc[t] = "sleep"
    <3>1. Seats(t)' = {Hart, Ready}
      BY <1>6, <1>12, <2>2
    <3>2. Ready[1] \in {"ready", "timer"} /\ Hart' = Hart
      BY DEF Ready, Hart
    <3> QED
      BY <1>2, <1>5, <2>2, <3>1, <3>2, SMTT(30) DEF Placed
  <2> QED
    BY <2>1, <2>2
<1>16. NoneTwice' /\ (intr' = "user" => pc'[current'] = "user")
  BY <1>2 DEF PInv, NoneTwice
<1> QED
  BY <1>7, <1>14, <1>15, <1>16, MovesOne

\* Mutex::lock keeps the running task where it is, or moves it into the ready queue or into
\* the queue of the mutex.
LEMMA LockPlaces ==
  ASSUME TypeOK, PInv, NEW t \in Tasks, NEW m \in MutexIds, lock(t, m), current = t,
         pc[t] # "sleep", intr' # "user", UNCHANGED <<swait, cwait, timers, started>>
  PROVE  PInv'
<1>0. pc \in [Tasks -> {"user", "spin", "relock", "sleep"}] /\ Waiting(t) = {}
  BY Running DEF TypeOK
<1>1. CASE LockFree(t, m)
  <2>1. pc' = [pc EXCEPT ![t] = "user"] /\ UNCHANGED <<current, ready, mwait>>
    BY <1>1 DEF LockFree, sched
  <2>2. \A u \in Tasks : pc'[u] = pc[u] \/ (current = u /\ pc[u] # "sleep" /\ pc'[u] # "sleep")
    BY <1>0, <2>1
  <2> QED
    BY <2>1, <2>2, NobodyMoves
<1>2. CASE LockSpins(t, m)
  <2>1. /\ pc' = [pc EXCEPT ![t] = "spin"] /\ suspend_current_and_run_next(t)
        /\ UNCHANGED mwait
    BY <1>2 DEF LockSpins
  <2>2. pc'[t] # "sleep" /\ \A u \in Tasks \ {t} : pc'[u] = pc[u]
    BY <1>0, <2>1
  <2> QED
    BY <2>1, <2>2, Suspends
<1>3. CASE LockBlocks(t, m)
  <2>1. /\ pc' = [pc EXCEPT ![t] = "user"] /\ block_current_and_run_next(t)
        /\ mwait' = [mwait EXCEPT ![m] = Append(@, t)]
    BY <1>3 DEF LockBlocks
  <2>2. pc'[t] # "sleep" /\ \A u \in Tasks \ {t} : pc'[u] = pc[u]
    BY <1>0, <2>1
  <2>3. Joins(t)
    BY <1>0, <2>1, JoinsOne, JoinsWait
  <2> QED
    BY <2>1, <2>2, <2>3, Blocks
<1> QED
  BY <1>1, <1>2, <1>3 DEF lock

\* wait_with_mutex moves the caller into the queue of the condvar and the next owner of the
\* mutex, if one waits, into the ready queue.
LEMMA CondWaitPlaces ==
  ASSUME TypeOK, PInv, NEW t \in Tasks, NEW c \in CondIds, NEW m \in MutexIds,
         sys_condvar_wait(t, c, m)
  PROVE  PInv'
<1>1. /\ current = t /\ pc[t] = "user" /\ intr' = "none" /\ current' = NoTask
      /\ pc' = [pc EXCEPT ![t] = "relock"] /\ pc \in [Tasks -> {"user", "spin", "relock", "sleep"}]
      /\ cwait' = [cwait EXCEPT ![c] = Append(@, t)] /\ UNCHANGED <<swait, timers, started>>
  BY DEF sys_condvar_wait, EnterSyscall, InUser, TypeOK, sems
<1>2. pc'[t] = "relock" /\ \A u \in Tasks \ {t} : pc'[u] = pc[u]
  BY <1>1
<1>3. /\ t \in started /\ t \notin Range(ready) /\ InReady(t) = {} /\ Waiting(t) = {}
      /\ InTimers(t) = {}
  BY <1>1, <1>2, Running
<1>4. JoinsQueue("cond", cwait, cwait', t)
  BY <1>1, <1>3, JoinsOne
<1>5. CASE ~HandsOver(m)
  <2>1. UNCHANGED mwait /\ block_current_and_run_next(t)
    BY <1>1, <1>5 DEF sys_condvar_wait, unlock, block_current_and_run_next
  <2>2. Joins(t)
    BY <1>1, <1>3, <1>4, <2>1, JoinsWait
  <2> QED
    BY <1>1, <1>2, <2>1, <2>2, Blocks
<1>6. CASE HandsOver(m)
  <2>1. /\ mwait' = [mwait EXCEPT ![m] = Tail(@)] /\ mwait[m] # <<>>
        /\ ready' = Append(ready, Head(mwait[m])) /\ ready \in Seq(Tasks)
    BY <1>6 DEF sys_condvar_wait, unlock, HandsOver, Waiter, TypeOK
  <2>2. PICK w \in Tasks : w = Head(mwait[m]) /\ LeavesQueue("mutex", mwait, mwait', w)
    BY <2>1, LeavesOne
  <2>3. PICK r \in Queued("mutex", mwait, w) :
          Queued("mutex", mwait, w) = {r} => Queued("mutex", mwait', w) = {}
    BY <2>2 DEF LeavesQueue
  <2>4. r \in Waiting(w) /\ r[1] = "mutex"
    BY <2>3, SMTT(30) DEF Waiting, Queued
  <2>5. /\ w \in started /\ pc[w] # "sleep" /\ w # t /\ w \notin Range(ready)
        /\ InTimers(w) = {}
    BY <1>1, <2>4, WaitsOnly
  <2>6. /\ Queued("mutex", mwait, w) = {r}
        /\ Queued("sem", swait, w) = {} /\ Queued("cond", cwait, w) = {}
    BY <2>3, <2>4, OneQueue, SMTT(30) DEF Waiting
  <2>7. Range(ready') = Range(ready) \cup {w} /\ IsInjective(ready')
    <3>1. IsInjective(ready)
      BY DEF PInv
    <3>2. ready' = Append(ready, w)
      BY <2>1, <2>2
    <3> QED
      BY <2>1, <2>5, <3>1, <3>2, JoinQueue, SMTT(20)
  <2>8. \A u \in Tasks : OnHart(u)' = IF u = t THEN {} ELSE OnHart(u)
    BY <1>1, TaskSyncAssumption DEF OnHart
  <2>9. \A u \in Tasks : OnHart(u) = IF u = t THEN {Hart} ELSE {}
    BY <1>1 DEF OnHart
  <2>10. InReady(w)' = {Ready} /\ \A u \in Tasks \ {w} : InReady(u)' = InReady(u)
    BY <2>7 DEF InReady
  <2>11. \A u \in Tasks : InTimers(u)' = InTimers(u)
    BY <1>1 DEF InTimers
  <2>12. Waiting(w)' = {}
    BY <1>1, <1>4, <2>3, <2>5, <2>6 DEF Waiting, JoinsQueue
  <2>13. \E s : Waiting(t)' = {s}
    <3>1. /\ Queued("mutex", mwait', t) = {} /\ Queued("sem", swait', t) = {}
      BY <1>1, <1>3, <2>2, <2>5 DEF Waiting, LeavesQueue
    <3> QED
      BY <1>4, <3>1 DEF Waiting, JoinsQueue
  <2>14. \A u \in Tasks \ {t, w} : Waiting(u)' = Waiting(u)
    BY <1>1, <1>4, <2>2 DEF Waiting, LeavesQueue, JoinsQueue
  <2>15. Moved(w)
    <3>1. Seats(w)' = {Ready}
      BY <2>5, <2>8, <2>9, <2>10, <2>11, <2>12 DEF Seats
    <3> QED
      BY <1>1, <1>2, <2>5, <3>1 DEF Moved
  <2>16. Moved(t)
    <3>1. Seats(t)' = Waiting(t)'
      BY <1>3, <2>5, <2>8, <2>10, <2>11 DEF Seats
    <3> QED
      BY <1>1, <1>2, <1>3, <2>13, <3>1 DEF Moved
  <2>17. ASSUME NEW u \in Tasks \ {t, w} PROVE Kept(u)
    <3>1. Seats(u)' = Seats(u)
      BY <2>8, <2>10, <2>11, <2>14 DEF Seats
    <3> QED
      BY <1>1, <1>2, <3>1 DEF Kept
  <2>18. \A u \in Tasks : Placed(u)'
    BY <2>15, <2>16, <2>17, PlacedStep DEF PInv
  <2>19. NoneTwice'
    <3>1. DOMAIN mwait = MutexIds /\ DOMAIN cwait = CondIds
      BY DEF TypeOK
    <3> QED
      BY <1>1, <1>4, <2>2, <3>1 DEF PInv, NoneTwice, JoinsQueue, LeavesQueue
  <2> QED
    BY <1>1, <2>7, <2>18, <2>19 DEF PInv
<1> QED
  BY <1>5, <1>6

\* Every step of the kernel keeps every task in its one place.
LEMMA PlacesStep ==
  ASSUME TInv, PInv, [Next]_vars
  PROVE  PInv'
<1>0. TypeOK /\ Continuations /\ pc \in [Tasks -> {"user", "spin", "relock", "sleep"}]
  BY DEF TInv, TypeOK
<1>1. ASSUME run_tasks PROVE PInv'
  BY <1>0, <1>1, RunStep
<1>2. ASSUME NEW t \in Tasks, sys_yield(t) PROVE PInv'
  <2>1. /\ current = t /\ pc[t] = "user" /\ intr' = "none" /\ suspend_current_and_run_next(t)
        /\ UNCHANGED <<mwait, swait, cwait, timers, started, pc>>
    BY <1>2 DEF sys_yield, EnterSyscall, InUser, running, mutexes, sems, condvars
  <2> QED
    BY <1>0, <2>1, Suspends
<1>3. ASSUME NEW t \in Tasks, NEW u \in Tasks, sys_thread_create(t, u) PROVE PInv'
  BY <1>0, <1>3, CreateStep
<1>4. ASSUME NEW t \in Tasks,
             \/ \E m \in MutexIds, k \in {"spin", "blocking"} : sys_mutex_create(t, m, k)
             \/ \E s \in SemIds, n \in ResCounts : sys_semaphore_create(t, s, n)
             \/ \E c \in CondIds : sys_condvar_create(t, c)
      PROVE  PInv'
  <2>1. intr' = "none" /\ UNCHANGED <<current, ready, mwait, swait, cwait, timers, started, pc>>
    BY <1>4 DEF sys_mutex_create, sys_semaphore_create, sys_condvar_create, EnterSyscall, InUser,
       sched, running, mutexes, sems, condvars
  <2> QED
    BY <2>1, NobodyMoves
<1>5. ASSUME NEW t \in Tasks, NEW m \in MutexIds, sys_mutex_lock(t, m) PROVE PInv'
  <2>1. /\ current = t /\ pc[t] = "user" /\ intr' = "none" /\ lock(t, m)
        /\ UNCHANGED <<swait, cwait, timers, started>>
    BY <1>5 DEF sys_mutex_lock, EnterSyscall, InUser, sems, condvars
  <2> QED
    BY <1>0, <2>1, LockPlaces
<1>6. ASSUME NEW t \in Tasks, spin_again(t) \/ relock(t) PROVE PInv'
  <2>1. /\ current = t /\ pc[t] \in {"spin", "relock"} /\ intr' = "none" /\ lock(t, want[t])
        /\ UNCHANGED <<swait, cwait, timers, started>>
    BY <1>6 DEF spin_again, relock, InKernel, clock, sems, condvars
  <2>2. want[t] \in MutexIds
    BY <1>0, <2>1 DEF Continuations
  <2> QED
    BY <1>0, <2>1, <2>2, LockPlaces
<1>7. ASSUME NEW t \in Tasks, NEW m \in MutexIds, sys_mutex_unlock(t, m) PROVE PInv'
  <2>1. intr' = "none" /\ UNCHANGED <<swait, cwait, timers, started, pc>>
    BY <1>7 DEF sys_mutex_unlock, EnterSyscall, InUser, running, sems, condvars
  <2>2. CASE HandsOver(m)
    <3>1. /\ mwait' = [mwait EXCEPT ![m] = Tail(@)] /\ mwait[m] # <<>> /\ wakeup(Head(mwait[m]))
      BY <1>7, <2>2 DEF sys_mutex_unlock, unlock, HandsOver, Waiter
    <3>2. PICK w \in Tasks : w = Head(mwait[m]) /\ LeavesQueue("mutex", mwait, mwait', w)
      BY <1>0, <3>1, LeavesOne
    <3>3. wakeup(w) /\ Leaves(w)
      BY <1>0, <2>1, <3>1, <3>2, LeavesWait
    <3> QED
      BY <1>0, <2>1, <3>3, Wakes
  <2>3. CASE ~HandsOver(m)
    <3>1. UNCHANGED <<current, ready, mwait>>
      BY <1>7, <2>3 DEF sys_mutex_unlock, unlock, sched
    <3> QED
      BY <2>1, <3>1, NobodyMoves
  <2> QED
    BY <2>2, <2>3
<1>8. ASSUME NEW t \in Tasks, NEW s \in SemIds, sys_semaphore_up(t, s) PROVE PInv'
  <2>1. intr' = "none" /\ UNCHANGED <<mwait, cwait, timers, started, pc>>
    BY <1>8 DEF sys_semaphore_up, EnterSyscall, InUser, running, mutexes, condvars
  <2>2. CASE UpWakes(s)
    <3>1. /\ swait' = [swait EXCEPT ![s] = Tail(@)] /\ swait[s] # <<>> /\ wakeup(Head(swait[s]))
      BY <1>8, <2>2 DEF sys_semaphore_up, UpWakes
    <3>2. PICK w \in Tasks : w = Head(swait[s]) /\ LeavesQueue("sem", swait, swait', w)
      BY <1>0, <3>1, LeavesOne
    <3>3. wakeup(w) /\ Leaves(w)
      BY <1>0, <2>1, <3>1, <3>2, LeavesWait
    <3> QED
      BY <1>0, <2>1, <3>3, Wakes
  <2>3. CASE ~UpWakes(s)
    <3>1. UNCHANGED <<current, ready, swait>>
      BY <1>8, <2>3 DEF sys_semaphore_up, sched
    <3> QED
      BY <2>1, <3>1, NobodyMoves
  <2> QED
    BY <2>2, <2>3
<1>9. ASSUME NEW t \in Tasks, NEW s \in SemIds, sys_semaphore_down(t, s) PROVE PInv'
  <2>1. /\ current = t /\ pc[t] = "user" /\ intr' = "none"
        /\ UNCHANGED <<mwait, cwait, timers, started, pc>>
    BY <1>9 DEF sys_semaphore_down, EnterSyscall, InUser, running, mutexes, condvars
  <2>2. CASE DownBlocks(s)
    <3>1. swait' = [swait EXCEPT ![s] = Append(@, t)] /\ block_current_and_run_next(t)
      BY <1>9, <2>2 DEF sys_semaphore_down
    <3>2. Waiting(t) = {}
      BY <2>1, Running
    <3>3. JoinsQueue("sem", swait, swait', t)
      BY <1>0, <3>1, <3>2, JoinsOne
    <3>4. Joins(t)
      BY <1>0, <2>1, <3>2, <3>3, JoinsWait
    <3> QED
      BY <1>0, <2>1, <3>1, <3>4, Blocks
  <2>3. CASE ~DownBlocks(s)
    <3>1. UNCHANGED <<current, ready, swait>>
      BY <1>9, <2>3 DEF sys_semaphore_down, sched
    <3> QED
      BY <2>1, <3>1, NobodyMoves
  <2> QED
    BY <2>2, <2>3
<1>10. ASSUME NEW t \in Tasks, NEW c \in CondIds, sys_condvar_signal(t, c) PROVE PInv'
  <2>1. intr' = "none" /\ UNCHANGED <<mwait, swait, timers, started, pc>>
    BY <1>10 DEF sys_condvar_signal, EnterSyscall, InUser, running, mutexes, sems
  <2>2. CASE cwait[c] # <<>>
    <3>1. /\ cwait' = [cwait EXCEPT ![c] = Tail(@)] /\ wakeup(Head(cwait[c]))
      BY <1>10, <2>2 DEF sys_condvar_signal
    <3>2. PICK w \in Tasks : w = Head(cwait[c]) /\ LeavesQueue("cond", cwait, cwait', w)
      BY <1>0, <2>2, <3>1, LeavesOne
    <3>3. wakeup(w) /\ Leaves(w)
      BY <1>0, <2>1, <3>1, <3>2, LeavesWait
    <3> QED
      BY <1>0, <2>1, <3>3, Wakes
  <2>3. CASE cwait[c] = <<>>
    <3>1. UNCHANGED <<current, ready, cwait>>
      BY <1>10, <2>3 DEF sys_condvar_signal, sched
    <3> QED
      BY <2>1, <3>1, NobodyMoves
  <2> QED
    BY <2>2, <2>3
<1>11. ASSUME NEW t \in Tasks, NEW c \in CondIds, NEW m \in MutexIds, sys_condvar_wait(t, c, m)
       PROVE  PInv'
  BY <1>0, <1>11, CondWaitPlaces
<1>12. ASSUME NEW t \in Tasks, NEW ms \in Durations, sys_sleep(t, ms) PROVE PInv'
  BY <1>0, <1>12, SleepStep
<1>13. ASSUME NEW t \in Tasks, sleep_block(t) PROVE PInv'
  BY <1>0, <1>13, SleepBlockStep
<1>14. ASSUME timer_interrupt("user") \/ timer_interrupt("kernel") \/ UNCHANGED vars PROVE PInv'
  <2>1. UNCHANGED <<current, ready, mwait, swait, cwait, timers, started, pc>>
    BY <1>14 DEF timer_interrupt, sched, running, mutexes, sems, condvars, vars
  <2>2. intr' = "user" => pc[current] = "user"
    BY <1>14 DEF timer_interrupt, vars, PInv
  <2> QED
    BY <2>1, <2>2, NobodyMoves
<1>15. ASSUME NEW x \in timers, check_timer(x) PROVE PInv'
  BY <1>0, <1>15, CheckTimerStep
<1>16. ASSUME timer_return PROVE PInv'
  <2>1. intr' = "none" /\ UNCHANGED <<mwait, swait, cwait, timers, started, pc>>
    BY <1>16 DEF timer_return, running, mutexes, sems, condvars
  <2>2. CASE intr = "user"
    <3>1. PICK t \in Tasks : t = current
      BY <1>0, <2>2 DEF Continuations
    <3>2. suspend_current_and_run_next(t) /\ pc[t] = "user"
      BY <1>16, <2>2, <3>1 DEF timer_return, suspend_current_and_run_next, PInv
    <3> QED
      BY <1>0, <2>1, <3>1, <3>2, Suspends
  <2>3. CASE intr # "user"
    <3>1. UNCHANGED <<current, ready>>
      BY <1>16, <2>3 DEF timer_return, sched
    <3> QED
      BY <2>1, <3>1, NobodyMoves
  <2> QED
    BY <2>2, <2>3
<1> QED
  BY <1>1, <1>2, <1>3, <1>4, <1>5, <1>6, <1>7, <1>8, <1>9, <1>10, <1>11, <1>12, <1>13, <1>14,
     <1>15, <1>16, SMTT(30), SMTT(60) DEF Next, Syscall, Resume, Timer

\* Cardinality removes one element after the other, on a set where that comes to an end.
LEMMA CountsDown ==
  ASSUME NEW S,
         \E f : f = [T \in SUBSET S |-> IF T = {} THEN 0 ELSE 1 + f[T \ {CHOOSE x : x \in T}]]
  PROVE  \E f : /\ f = [T \in SUBSET S |-> IF T = {} THEN 0 ELSE 1 + f[T \ {CHOOSE x : x \in T}]]
                /\ Cardinality(S) = f[S]
<1> DEFINE Is(f) == f = [T \in SUBSET S |-> IF T = {} THEN 0 ELSE 1 + f[T \ {CHOOSE x : x \in T}]]
           CS == CHOOSE f : Is(f)
<1>1. Cardinality(S) = CS[S]
  BY DEF Cardinality
<1> HIDE DEF CS
<1>2. Is(CS)
  BY DEF CS
<1> QED
  BY <1>1, <1>2

\* The sizes of sets with up to two elements.
LEMMA SmallSets ==
  ASSUME NEW p, NEW q
  PROVE  Cardinality({}) = 0 /\ Cardinality({p}) = 1 /\ (p # q => Cardinality({p, q}) = 2)
<1>1. Cardinality({}) = 0
  <2> DEFINE f == [T \in SUBSET {} |-> 0]
  <2>1. f = [T \in SUBSET {} |-> IF T = {} THEN 0 ELSE 1 + f[T \ {CHOOSE x : x \in T}]]
    OBVIOUS
  <2> HIDE DEF f
  <2>2. PICK g : /\ g = [T \in SUBSET {} |-> IF T = {} THEN 0 ELSE 1 + g[T \ {CHOOSE x : x \in T}]]
                 /\ Cardinality({}) = g[{}]
    BY <2>1, CountsDown
  <2> QED
    BY <2>2
<1>2. Cardinality({p}) = 1
  <2> DEFINE f == [T \in SUBSET {p} |-> IF T = {} THEN 0 ELSE 1]
  <2>1. \A T \in SUBSET {p} : T # {} => T \ {CHOOSE x : x \in T} = {}
    OBVIOUS
  <2>2. f = [T \in SUBSET {p} |-> IF T = {} THEN 0 ELSE 1 + f[T \ {CHOOSE x : x \in T}]]
    BY <2>1, SMTT(30)
  <2> HIDE DEF f
  <2>3. PICK g : /\ g = [T \in SUBSET {p} |-> IF T = {} THEN 0 ELSE 1 + g[T \ {CHOOSE x : x \in T}]]
                 /\ Cardinality({p}) = g[{p}]
    BY <2>2, CountsDown
  <2>4. g[{}] = 0 /\ g[{p}] = 1 + g[{}]
    BY <2>1, <2>3, SMTT(30)
  <2> QED
    BY <2>3, <2>4, SMTT(30)
<1>3. ASSUME p # q PROVE Cardinality({p, q}) = 2
  <2> DEFINE f == [T \in SUBSET {p, q} |-> IF T = {} THEN 0 ELSE IF T = {p, q} THEN 2 ELSE 1]
             Rest(T) == T \ {CHOOSE x : x \in T}
  <2>1. \A T \in SUBSET {p, q} : T # {} => (CHOOSE x : x \in T) \in T
    OBVIOUS
  <2>2. \A T \in SUBSET {p, q} : T # {} =>
          IF T = {p, q} THEN Rest(T) \in {{p}, {q}} ELSE Rest(T) = {} /\ T \in {{p}, {q}}
    BY <1>3, <2>1
  <2> HIDE DEF Rest
  <2>3. f = [T \in SUBSET {p, q} |-> IF T = {} THEN 0 ELSE 1 + f[Rest(T)]]
    BY <1>3, <2>2, SMTT(60)
  <2> HIDE DEF f
  <2>4. PICK g : /\ g = [T \in SUBSET {p, q} |-> IF T = {} THEN 0 ELSE 1 + g[Rest(T)]]
                 /\ Cardinality({p, q}) = g[{p, q}]
    BY <2>3, CountsDown DEF Rest
  <2>5. \A T \in SUBSET {p, q} : g[T] = IF T = {} THEN 0 ELSE 1 + g[Rest(T)]
    BY <2>4
  <2>6. /\ {} \in SUBSET {p, q} /\ {p} \in SUBSET {p, q} /\ {q} \in SUBSET {p, q}
        /\ {p} # {} /\ {q} # {} /\ {p} # {p, q} /\ {q} # {p, q}
        /\ {p, q} \in SUBSET {p, q} /\ {p, q} # {}
    BY <1>3, SMTT(30)
  <2>7. Rest({p}) = {} /\ Rest({q}) = {} /\ Rest({p, q}) \in {{p}, {q}}
    BY <2>2, <2>6
  <2>8. g[{}] = 0 /\ g[{p}] = 1 + g[{}] /\ g[{q}] = 1 + g[{}] /\ g[{p, q}] = 1 + g[Rest({p, q})]
    BY <2>5, <2>6, <2>7
  <2>9. g[Rest({p, q})] = 1
    <3>1. g[{p}] = 1 /\ g[{q}] = 1
      BY <2>8, SMTT(30)
    <3> QED
      BY <2>7, <3>1
  <2>10. g[{p, q}] = 2
    BY <2>8, <2>9, SMTT(30)
  <2> QED
    BY <2>4, <2>10
<1> QED
  BY <1>1, <1>2, <1>3

\* As many places as seats, for none and for one.
Mirrors(X, P) == (X = {} => P = {}) /\ ((\E s : X = {s}) => \E p : P = {p})

\* The positions of a task in queues nobody is in twice.
LEMMA QueuePlaces ==
  ASSUME NEW k, NEW q, NEW t, \A i \in DOMAIN q : IsInjective(q[i])
  PROVE  Mirrors(Queued(k, q, t),
                 UNION {{<<k, i, j>> : j \in {n \in DOMAIN q[i] : q[i][n] = t}} : i \in DOMAIN q})
<1> DEFINE At(i) == {<<k, i, j>> : j \in {n \in DOMAIN q[i] : q[i][n] = t}}
           P == UNION {At(i) : i \in DOMAIN q}
<1>1. \A i \in DOMAIN q : <<k, i>> \notin Queued(k, q, t) => At(i) = {}
  BY DEF Queued, Range
<1>2. ASSUME Queued(k, q, t) = {} PROVE P = {}
  BY <1>1, <1>2
<1>3. ASSUME NEW s, Queued(k, q, t) = {s} PROVE \E p : P = {p}
  <2>1. PICK i \in DOMAIN q : s = <<k, i>> /\ t \in Range(q[i])
    BY <1>3 DEF Queued
  <2>2. PICK j \in DOMAIN q[i] : q[i][j] = t
    BY <2>1 DEF Range
  <2>3. At(i) = {<<k, i, j>>}
    BY <2>2 DEF IsInjective
  <2>4. \A o \in DOMAIN q \ {i} : At(o) = {}
    <3>1. \A o \in DOMAIN q \ {i} : <<k, o>> # s
      BY <2>1
    <3> QED
      BY <1>1, <1>3, <3>1
  <2> HIDE DEF At
  <2>5. P = {<<k, i, j>>}
    BY <2>3, <2>4, SMTT(30)
  <2> QED
    BY <2>5
<1>4. Mirrors(Queued(k, q, t), P)
  BY <1>2, <1>3 DEF Mirrors
<1> QED
  BY <1>4

\* The places of a task, one kind after the other.
LEMMA PlacesAre ==
  ASSUME TypeOK, PInv, NEW t \in Tasks
  PROVE  \E H, R, M, S, C, T :
           /\ Places(t) = H \cup R \cup M \cup S \cup C \cup T
           /\ Mirrors(OnHart(t), H) /\ Mirrors(InReady(t), R) /\ Mirrors(InTimers(t), T)
           /\ Mirrors(Queued("mutex", mwait, t), M) /\ Mirrors(Queued("sem", swait, t), S)
           /\ Mirrors(Queued("cond", cwait, t), C)
           /\ H \cap R = {} /\ H \cap T = {}
<1> DEFINE H == {<<"current", 0, 0>> : x \in {current} \cap {t}}
           R == {<<"ready", 0, i>> : i \in {j \in DOMAIN ready : ready[j] = t}}
           M == UNION {{<<"mutex", m, i>> : i \in {j \in DOMAIN mwait[m] : mwait[m][j] = t}} : m \in MutexIds}
           S == UNION {{<<"sem", s, i>> : i \in {j \in DOMAIN swait[s] : swait[s][j] = t}} : s \in SemIds}
           C == UNION {{<<"cond", c, i>> : i \in {j \in DOMAIN cwait[c] : cwait[c][j] = t}} : c \in CondIds}
           T == {<<"timer", x[2], 0>> : x \in {y \in timers : y[1] = t}}
<1>0. /\ DOMAIN mwait = MutexIds /\ DOMAIN swait = SemIds /\ DOMAIN cwait = CondIds
      /\ timers \subseteq Tasks \X Nat /\ IsInjective(ready)
      /\ \A m \in MutexIds : IsInjective(mwait[m])
      /\ \A s \in SemIds : IsInjective(swait[s])
      /\ \A c \in CondIds : IsInjective(cwait[c])
  BY DEF TypeOK, PInv, NoneTwice
<1>1. Places(t) = H \cup R \cup M \cup S \cup C \cup T
  BY DEF Places
<1>2. Mirrors(OnHart(t), H)
  <2>1. H = IF current = t THEN {<<"current", 0, 0>>} ELSE {}
    OBVIOUS
  <2> HIDE DEF H
  <2> QED
    BY <2>1 DEF Mirrors, OnHart
<1>3. Mirrors(InReady(t), R)
  <2>1. CASE t \notin Range(ready)
    <3>1. R = {}
      BY <2>1 DEF Range
    <3>2. InReady(t) = {}
      BY <2>1 DEF InReady
    <3> QED
      BY <3>1, <3>2 DEF Mirrors
  <2>2. CASE t \in Range(ready)
    <3>1. PICK j \in DOMAIN ready : ready[j] = t
      BY <2>2 DEF Range
    <3>2. R = {<<"ready", 0, j>>}
      BY <1>0, <3>1 DEF IsInjective
    <3>3. InReady(t) # {}
      BY <2>2 DEF InReady
    <3> HIDE DEF R
    <3> QED
      BY <3>2, <3>3 DEF Mirrors
  <2> QED
    BY <2>1, <2>2
<1>4. Mirrors(Queued("mutex", mwait, t), M)
  BY <1>0, QueuePlaces, SMTT(30)
<1>5. Mirrors(Queued("sem", swait, t), S)
  BY <1>0, QueuePlaces, SMTT(30)
<1>6. Mirrors(Queued("cond", cwait, t), C)
  BY <1>0, QueuePlaces, SMTT(30)
<1>7. Mirrors(InTimers(t), T)
  <2>1. \A x \in timers : x[1] = t => <<"timer", x[2]>> \in InTimers(t)
    BY DEF InTimers
  <2>2. InTimers(t) = {} => T = {}
    BY <2>1
  <2>3. ASSUME NEW s, InTimers(t) = {s} PROVE \E p : T = {p}
    <3>1. PICK x \in timers : x[1] = t
      BY <2>3 DEF InTimers
    <3>2. \A y \in timers : y[1] = t => y[2] = x[2]
      BY <2>1, <2>3, <3>1, SMTT(30)
    <3>3. T = {<<"timer", x[2], 0>>}
      BY <3>1, <3>2
    <3> QED
      BY <3>3
  <2> HIDE DEF T
  <2> QED
    BY <2>2, <2>3 DEF Mirrors
<1>8. H \cap R = {} /\ H \cap T = {}
  BY SMTT(30)
<1> HIDE DEF H, R, M, S, C, T
<1> QED
  BY <1>1, <1>2, <1>3, <1>4, <1>5, <1>6, <1>7, <1>8

\* One seat is one place.
LEMMA PlacesCounted ==
  ASSUME TypeOK, PInv
  PROVE  ScheduledOnce
<1> SUFFICES ASSUME NEW t \in Tasks
             PROVE  Cardinality(Places(t)) =
                      IF t \notin started THEN 0 ELSE IF pc[t] = "sleep" THEN 2 ELSE 1
  BY DEF ScheduledOnce
<1>0. PICK H, R, M, S, C, T :
        /\ Places(t) = H \cup R \cup M \cup S \cup C \cup T
        /\ Mirrors(OnHart(t), H) /\ Mirrors(InReady(t), R) /\ Mirrors(InTimers(t), T)
        /\ Mirrors(Queued("mutex", mwait, t), M) /\ Mirrors(Queued("sem", swait, t), S)
        /\ Mirrors(Queued("cond", cwait, t), C)
        /\ H \cap R = {} /\ H \cap T = {}
  BY PlacesAre
<1>a. /\ OnHart(t) = {} => H = {}
      /\ InReady(t) = {} => R = {}
      /\ Queued("mutex", mwait, t) = {} => M = {}
      /\ Queued("sem", swait, t) = {} => S = {}
      /\ Queued("cond", cwait, t) = {} => C = {}
      /\ InTimers(t) = {} => T = {}
  BY <1>0 DEF Mirrors
<1>b. \A s : /\ OnHart(t) = {s} => \E p : H = {p}
             /\ InReady(t) = {s} => \E p : R = {p}
             /\ Queued("mutex", mwait, t) = {s} => \E p : M = {p}
             /\ Queued("sem", swait, t) = {s} => \E p : S = {p}
             /\ Queued("cond", cwait, t) = {s} => \E p : C = {p}
             /\ InTimers(t) = {s} => \E p : T = {p}
  BY <1>0 DEF Mirrors
<1>c. Seats(t) = OnHart(t) \cup InReady(t) \cup Queued("mutex", mwait, t) \cup Queued("sem", swait, t)
                 \cup Queued("cond", cwait, t) \cup InTimers(t)
  BY DEF Seats, Waiting
<1>1. CASE t \notin started
  <2>1. Seats(t) = {}
    BY <1>1 DEF PInv, Placed
  <2>2. Places(t) = {}
    BY <1>0, <1>a, <1>c, <2>1
  <2> QED
    BY <1>1, <2>2, SmallSets
<1>2. CASE t \in started /\ pc[t] # "sleep"
  <2>1. PICK s : Seats(t) = {s}
    BY <1>2 DEF PInv, Placed
  <2>2. /\ s[1] # "current" => OnHart(t) = {}
        /\ s[1] # "ready" => InReady(t) = {}
        /\ s[1] # "mutex" => Queued("mutex", mwait, t) = {}
        /\ s[1] # "sem" => Queued("sem", swait, t) = {}
        /\ s[1] # "cond" => Queued("cond", cwait, t) = {}
        /\ s[1] # "timer" => InTimers(t) = {}
    BY <2>1, Elsewhere
  <2>3. \E p : Places(t) = {p}
    <3>1. CASE s[1] = "current"
      BY <1>0, <1>a, <1>b, <1>c, <2>1, <2>2, <3>1
    <3>2. CASE s[1] = "ready"
      BY <1>0, <1>a, <1>b, <1>c, <2>1, <2>2, <3>2, SMTT(30)
    <3>3. CASE s[1] = "mutex"
      BY <1>0, <1>a, <1>b, <1>c, <2>1, <2>2, <3>3
    <3>4. CASE s[1] = "sem"
      BY <1>0, <1>a, <1>b, <1>c, <2>1, <2>2, <3>4
    <3>5. CASE s[1] = "cond"
      BY <1>0, <1>a, <1>b, <1>c, <2>1, <2>2, <3>5
    <3>6. CASE s[1] = "timer"
      BY <1>0, <1>a, <1>b, <1>c, <2>1, <2>2, <3>6
    <3> QED
      BY <1>c, <2>1, <2>2, <3>1, <3>2, <3>3, <3>4, <3>5, <3>6
  <2> QED
    BY <1>2, <2>3, SmallSets
<1>3. CASE t \in started /\ pc[t] = "sleep"
  <2>1. PICK s : s[1] \in {"ready", "timer"} /\ Seats(t) = {Hart, s}
    BY <1>3 DEF PInv, Placed
  <2>2. Hart[1] = "current"
    BY DEF Hart
  <2>3. /\ \A r \in OnHart(t) : r = Hart
        /\ \A r \in InReady(t) : r[1] = "ready"
        /\ \A r \in Queued("mutex", mwait, t) : r[1] = "mutex"
        /\ \A r \in Queued("sem", swait, t) : r[1] = "sem"
        /\ \A r \in Queued("cond", cwait, t) : r[1] = "cond"
        /\ \A r \in InTimers(t) : r[1] = "timer"
    BY SMTT(30) DEF OnHart, InReady, Ready, Queued, InTimers
  <2>4. /\ OnHart(t) = {Hart} /\ Queued("mutex", mwait, t) = {} /\ Queued("sem", swait, t) = {}
        /\ Queued("cond", cwait, t) = {}
        /\ \/ InReady(t) = {s} /\ InTimers(t) = {}
           \/ InTimers(t) = {s} /\ InReady(t) = {}
    BY <1>c, <2>1, <2>2, <2>3
  <2>5. PICK p : H = {p}
    BY <1>b, <2>4
  <2>6. PICK r : R \cup T = {r}
    BY <1>a, <1>b, <2>4
  <2>7. Places(t) = {p, r} /\ p # r
    BY <1>0, <1>a, <2>4, <2>5, <2>6
  <2>8. Cardinality({p, r}) = 2
    BY <2>7, SmallSets
  <2> QED
    BY <1>3, <2>7, <2>8
<1> QED
  BY <1>1, <1>2, <1>3

\* The first thread is the only one, and in the ready queue.
LEMMA PlacesInit == Init => PInv
<1> SUFFICES ASSUME Init PROVE PInv
  OBVIOUS
<1>1. PICK main \in Tasks : ready = <<main>> /\ started = {main}
  BY DEF Init
<1>2. /\ DOMAIN ready = {1} /\ Range(ready) = {main} /\ IsInjective(ready)
  BY <1>1, SMTT(30) DEF Range, IsInjective
<1>3. \A k, I, t : Queued(k, [i \in I |-> <<>>], t) = {}
  BY SMTT(30) DEF Queued, Range
<1>4. \A t : Waiting(t) = {}
  BY <1>3 DEF Waiting, Init
<1>5. NoneTwice
  BY SMTT(30) DEF Init, NoneTwice, IsInjective
<1>6. \A t \in Tasks : Seats(t) = IF t = main THEN {Ready} ELSE {}
  BY <1>2, <1>4, TaskSyncAssumption DEF Init, Seats, OnHart, InReady, InTimers
<1>7. \A t \in Tasks : Placed(t)
  BY <1>1, <1>6 DEF Placed, Init
<1> QED
  BY <1>2, <1>5, <1>7 DEF PInv, Init

-----------------------------------------------------------------------------

\* Whatever the number of tasks, queues and timers, no task is lost and none is scheduled
\* twice: it runs, is ready, waits or sleeps, in exactly one place.
THEOREM TasksScheduledOnce == Spec => []ScheduledOnce
<1>1. Init => PInv
  BY PlacesInit
<1>2. Inv /\ PInv /\ [Next]_vars => PInv'
  BY PlacesStep DEF Inv
<1>3. Inv /\ PInv => ScheduledOnce
  BY PlacesCounted DEF Inv, TInv
<1> QED
  BY <1>1, <1>2, <1>3, Invariance, PTL DEF Spec
=============================================================================
