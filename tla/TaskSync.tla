------------------------------ MODULE TaskSync ------------------------------
(***************************************************************************)
(* The scheduler of the kernel (task/manager.rs, task/processor.rs,        *)
(* suspend/block of task/mod.rs), the blocking primitives built on it      *)
(* (sync/mutex.rs, sync/semaphore.rs, sync/condvar.rs behind               *)
(* syscall/sync.rs) and timed sleep (timer.rs).                            *)
(*                                                                         *)
(* One hart.  Kernel code is never preempted by another task: a system     *)
(* call is one step up to the point where it suspends, blocks or returns.  *)
(* User code may be preempted by the timer anywhere.  A timer interrupt    *)
(* taken inside the kernel runs check_timer but does not schedule.         *)
(*                                                                         *)
(* The tasks are the threads of one process.  They follow the protocol the *)
(* primitives expect (unlock and wait only with a mutex they hold, no      *)
(* relock of it); calls on ids that were never created return -1 and       *)
(* change nothing.                                                         *)
(***************************************************************************)
EXTENDS Integers, Sequences, FiniteSets

CONSTANTS
  Tasks, NoTask,
  NMutex, NSem, NCond,   \* how many of each a process may create
  ResCounts,             \* initial counts given to semaphore_create
  ISIZE_MAX,             \* isize::MAX
  MaxCount,              \* model bound on a semaphore's count
  Durations,             \* arguments of sleep
  MaxTime,               \* model bound on the clock
  Observed,              \* tasks whose progress is stated: tasks are interchangeable
  Nesting                \* may a task wait for a mutex or semaphore while it holds a mutex?

MutexIds == 0 .. NMutex - 1
SemIds == 0 .. NSem - 1
CondIds == 0 .. NCond - 1

ASSUME TaskSyncAssumption ==
  /\ NoTask \notin Tasks
  /\ NMutex \in Nat /\ NSem \in Nat /\ NCond \in Nat
  /\ ISIZE_MAX \in Nat /\ ResCounts \subseteq 0 .. 2 * ISIZE_MAX + 1
  /\ MaxCount \in 0 .. ISIZE_MAX /\ MaxTime \in Nat
  /\ Durations \subseteq Nat
  /\ Observed \subseteq Tasks /\ Nesting \in BOOLEAN

VARIABLES
  current,   \* Processor::current, NoTask in the idle loop
  ready,     \* Manager::ready_queue
  started,   \* tasks created so far
  status,    \* TaskControlBlockInner::task_status
  pc,        \* where the task continues: user code or inside a system call
  want,      \* the mutex a task inside Spin::lock or wait_with_mutex locks
  intr,      \* the timer interrupt being handled: none, from user or kernel code
  sie,       \* sstatus.SIE, as left by the last trap taken in kernel code
  now,       \* get_time_ms
  timers,    \* TIMERS: <<task, expire_ms>> pairs
  kind,      \* mutex_list: none, spin or blocking
  locked, mwait,
  held,      \* history: the mutexes each task has locked and not unlocked
  res,       \* semaphore_list: initial count, -1 when not created
  count, swait,
  granted,   \* history: downs that passed minus ups, per semaphore
  conds,     \* condvar_list: the ids created
  cwait

sched == <<current, ready, status>>
running == <<started, pc, want>>
clock == <<intr, sie, now, timers>>
mutexes == <<kind, locked, mwait, held>>
sems == <<res, count, swait, granted>>
condvars == <<conds, cwait>>
vars == <<current, ready, started, status, pc, want, intr, sie, now, timers, kind, locked,
          mwait, held, res, count, swait, granted, conds, cwait>>

Init ==
  /\ current = NoTask
  /\ \E main \in Tasks : ready = <<main>> /\ started = {main}
  /\ status = [t \in Tasks |-> "Ready"]
  /\ pc = [t \in Tasks |-> "user"]
  /\ want = [t \in Tasks |-> 0]
  /\ intr = "none" /\ sie = FALSE /\ now = 0 /\ timers = {}
  /\ kind = [m \in MutexIds |-> "none"]
  /\ locked = [m \in MutexIds |-> FALSE]
  /\ mwait = [m \in MutexIds |-> <<>>]
  /\ held = [t \in Tasks |-> {}]
  /\ res = [s \in SemIds |-> -1]
  /\ count = [s \in SemIds |-> 0]
  /\ swait = [s \in SemIds |-> <<>>]
  /\ granted = [s \in SemIds |-> 0]
  /\ conds = {}
  /\ cwait = [c \in CondIds |-> <<>>]

-----------------------------------------------------------------------------
(* task/manager.rs, task/processor.rs, task/mod.rs *)

\* run_tasks: the idle loop pops the front of the ready queue and switches to it.
run_tasks ==
  /\ current = NoTask /\ ready # <<>> /\ intr = "none"
  /\ current' = Head(ready)
  /\ ready' = Tail(ready)
  /\ status' = [status EXCEPT ![Head(ready)] = "Running"]
  /\ UNCHANGED <<running, clock, mutexes, sems, condvars>>

suspend_current_and_run_next(t) ==
  /\ current' = NoTask
  /\ ready' = Append(ready, t)
  /\ status' = [status EXCEPT ![t] = "Ready"]

\* Mutant: a blocked task stays in the ready queue.
BlockRequeues(t) == suspend_current_and_run_next(t)

block_current_and_run_next(t) ==
  /\ current' = NoTask
  /\ status' = [status EXCEPT ![t] = "Blocked"]
  /\ UNCHANGED ready

\* wakeup, called by the running task.
wakeup(w) ==
  /\ ready' = Append(ready, w)
  /\ status' = [status EXCEPT ![w] = "Ready"]
  /\ UNCHANGED current

InUser(t) == current = t /\ pc[t] = "user" /\ intr = "none"

\* The UserEnvCall arm of user_handler enables interrupts before the call.
EnterSyscall(t) == InUser(t) /\ sie' = TRUE

InKernel(t, where) == current = t /\ pc[t] = where /\ intr = "none"

sys_yield(t) ==
  /\ EnterSyscall(t)
  /\ suspend_current_and_run_next(t)
  /\ UNCHANGED <<running, intr, now, timers, mutexes, sems, condvars>>

\* sys_thread_create, as far as the scheduler sees it.
sys_thread_create(t, u) ==
  /\ EnterSyscall(t) /\ u \notin started
  /\ started' = started \cup {u}
  /\ ready' = Append(ready, u)
  /\ UNCHANGED <<current, status, pc, want, intr, now, timers, mutexes, sems, condvars>>

-----------------------------------------------------------------------------
(* sync/mutex.rs *)

\* The smallest id not in use: position(is_none), else push.
IsNextId(id, used) == id \notin used /\ \A j \in 0 .. id - 1 : j \in used

sys_mutex_create(t, m, k) ==
  /\ EnterSyscall(t)
  /\ IsNextId(m, {i \in MutexIds : kind[i] # "none"})
  /\ kind' = [kind EXCEPT ![m] = k]
  /\ UNCHANGED <<sched, running, intr, now, timers, locked, mwait, held, sems, condvars>>

\* The mutex is free: lock takes it and returns.
LockFree(t, m) ==
  /\ ~locked[m]
  /\ locked' = [locked EXCEPT ![m] = TRUE]
  /\ held' = [held EXCEPT ![t] = @ \cup {m}]
  /\ pc' = [pc EXCEPT ![t] = "user"]
  /\ UNCHANGED <<sched, want, mwait>>

\* Spin::lock yields and tries again when it runs next.
LockSpins(t, m) ==
  /\ locked[m] /\ kind[m] = "spin"
  /\ suspend_current_and_run_next(t)
  /\ pc' = [pc EXCEPT ![t] = "spin"]
  /\ want' = [want EXCEPT ![t] = m]
  /\ UNCHANGED <<locked, mwait, held>>

\* Mutant: the task is queued in front of the others.
LockBlocksInFront(t, m) ==
  /\ locked[m] /\ kind[m] = "blocking"
  /\ mwait' = [mwait EXCEPT ![m] = <<t>> \o @]
  /\ block_current_and_run_next(t)
  /\ pc' = [pc EXCEPT ![t] = "user"]
  /\ UNCHANGED <<want, locked, held>>

\* Blocking::lock queues the task; when it runs next it owns the mutex.
LockBlocks(t, m) ==
  /\ locked[m] /\ kind[m] = "blocking"
  /\ mwait' = [mwait EXCEPT ![m] = Append(@, t)]
  /\ block_current_and_run_next(t)
  /\ pc' = [pc EXCEPT ![t] = "user"]
  /\ UNCHANGED <<want, locked, held>>

\* Spin::lock and Blocking::lock, up to the return or the switch to the idle loop.
lock(t, m) == LockFree(t, m) \/ LockSpins(t, m) \/ LockBlocks(t, m)

sys_mutex_lock(t, m) ==
  /\ EnterSyscall(t) /\ kind[m] # "none"
  /\ m \notin held[t] /\ (Nesting \/ held[t] = {})
  /\ lock(t, m)
  /\ UNCHANGED <<started, intr, now, timers, kind, sems, condvars>>

\* The next turn of the loop in Spin::lock.
spin_again(t) ==
  /\ InKernel(t, "spin")
  /\ lock(t, want[t])
  /\ UNCHANGED <<started, clock, kind, sems, condvars>>

\* Mutant: the front of the wait queue is not popped.
NeverHandsOver(m) == FALSE

\* Blocking::unlock finds a waiter.
HandsOver(m) == kind[m] = "blocking" /\ mwait[m] # <<>>

\* Mutant: the lock is released although a waiter was woken.
AlwaysReleased(m) == FALSE

LockedAfterUnlock(m) == HandsOver(m)

\* The waiter Blocking::unlock pops.
Waiter(m) == Head(mwait[m])

\* Spin::unlock and Blocking::unlock: a waiter gets the mutex, which stays locked.
unlock(t, m) ==
  /\ locked' = [locked EXCEPT ![m] = LockedAfterUnlock(m)]
  /\ IF HandsOver(m)
       THEN /\ mwait' = [mwait EXCEPT ![m] = Tail(@)]
            /\ held' = [u \in Tasks |-> IF u = Waiter(m) THEN held[u] \cup {m}
                                        ELSE IF u = t THEN held[u] \ {m} ELSE held[u]]
       ELSE /\ held' = [held EXCEPT ![t] = @ \ {m}]
            /\ UNCHANGED mwait

sys_mutex_unlock(t, m) ==
  /\ EnterSyscall(t) /\ m \in held[t]
  /\ unlock(t, m)
  /\ IF HandsOver(m) THEN wakeup(Waiter(m)) ELSE UNCHANGED sched
  /\ UNCHANGED <<running, intr, now, timers, kind, sems, condvars>>

-----------------------------------------------------------------------------
(* sync/semaphore.rs *)

\* The cast of a usize to isize.
isize(n) == IF n > ISIZE_MAX THEN n - 2 * (ISIZE_MAX + 1) ELSE n

sys_semaphore_create(t, s, n) ==
  /\ EnterSyscall(t)
  /\ IsNextId(s, {i \in SemIds : res[i] # -1})
  /\ res' = [res EXCEPT ![s] = n]
  /\ count' = [count EXCEPT ![s] = isize(n)]
  /\ UNCHANGED <<sched, running, intr, now, timers, mutexes, swait, granted, condvars>>

\* Mutant: up wakes a waiter only when the new count is negative.
UpWakesTooFew(s) == count[s] + 1 < 0 /\ swait[s] # <<>>

\* Semaphore::up finds a task to wake after incrementing the count.
UpWakes(s) == count[s] + 1 <= 0 /\ swait[s] # <<>>

sys_semaphore_up(t, s) ==
  /\ EnterSyscall(t) /\ res[s] # -1 /\ count[s] < MaxCount
  /\ count' = [count EXCEPT ![s] = @ + 1]
  /\ IF UpWakes(s)
       THEN /\ swait' = [swait EXCEPT ![s] = Tail(@)]
            /\ wakeup(Head(swait[s]))
            /\ UNCHANGED granted
       ELSE /\ granted' = [granted EXCEPT ![s] = @ - 1]
            /\ UNCHANGED <<sched, swait>>
  /\ UNCHANGED <<running, intr, now, timers, mutexes, res, condvars>>

\* Semaphore::down blocks when the decremented count is negative.
DownBlocks(s) == count[s] - 1 < 0

\* No more calls than lead to isize::MIN.
sys_semaphore_down(t, s) ==
  /\ EnterSyscall(t) /\ res[s] # -1 /\ (Nesting \/ held[t] = {})
  /\ count[s] >= -ISIZE_MAX
  /\ count' = [count EXCEPT ![s] = @ - 1]
  /\ IF DownBlocks(s)
       THEN /\ swait' = [swait EXCEPT ![s] = Append(@, t)]
            /\ block_current_and_run_next(t)
            /\ UNCHANGED granted
       ELSE /\ granted' = [granted EXCEPT ![s] = @ + 1]
            /\ UNCHANGED <<sched, swait>>
  /\ UNCHANGED <<running, intr, now, timers, mutexes, res, condvars>>

-----------------------------------------------------------------------------
(* sync/condvar.rs *)

sys_condvar_create(t, c) ==
  /\ EnterSyscall(t)
  /\ IsNextId(c, conds)
  /\ conds' = conds \cup {c}
  /\ UNCHANGED <<sched, running, intr, now, timers, mutexes, sems, cwait>>

sys_condvar_signal(t, c) ==
  /\ EnterSyscall(t) /\ c \in conds
  /\ IF cwait[c] # <<>>
       THEN /\ cwait' = [cwait EXCEPT ![c] = Tail(@)]
            /\ wakeup(Head(cwait[c]))
       ELSE UNCHANGED <<sched, cwait>>
  /\ UNCHANGED <<running, intr, now, timers, mutexes, sems, conds>>

\* Condvar::wait_with_mutex up to its block_current_and_run_next.
sys_condvar_wait(t, c, m) ==
  /\ EnterSyscall(t) /\ c \in conds /\ m \in held[t]
  /\ unlock(t, m)
  /\ cwait' = [cwait EXCEPT ![c] = Append(@, t)]
  /\ pc' = [pc EXCEPT ![t] = "relock"]
  /\ want' = [want EXCEPT ![t] = m]
  /\ current' = NoTask
  /\ IF HandsOver(m)
       THEN /\ ready' = Append(ready, Waiter(m))
            /\ status' = [status EXCEPT ![Waiter(m)] = "Ready", ![t] = "Blocked"]
       ELSE /\ status' = [status EXCEPT ![t] = "Blocked"]
            /\ UNCHANGED ready
  /\ UNCHANGED <<started, intr, now, timers, kind, sems, conds>>

\* wait_with_mutex after the wakeup: mutex.lock().
relock(t) ==
  /\ InKernel(t, "relock")
  /\ lock(t, want[t])
  /\ UNCHANGED <<started, clock, kind, sems, condvars>>

-----------------------------------------------------------------------------
(* timer.rs and the timer arms of trap/mod.rs *)

ExpireMs(ms) == now + ms

\* sys_sleep up to add_timer; an interrupt may come before it blocks.
sys_sleep(t, ms) ==
  /\ EnterSyscall(t) /\ now + ms <= MaxTime
  /\ timers' = timers \cup {<<t, ExpireMs(ms)>>}
  /\ pc' = [pc EXCEPT ![t] = "sleep"]
  /\ UNCHANGED <<sched, started, want, intr, now, mutexes, sems, condvars>>

\* block_current_and_run_next of sys_sleep.
sleep_block(t) ==
  /\ InKernel(t, "sleep")
  /\ block_current_and_run_next(t)
  /\ pc' = [pc EXCEPT ![t] = "user"]
  /\ UNCHANGED <<started, want, clock, mutexes, sems, condvars>>

\* A timer interrupt: from user code, or inside a system call or the idle loop.
timer_interrupt(from) ==
  /\ intr = "none"
  /\ \/ current # NoTask /\ pc[current] = "user"
     \/ from = "kernel" /\ sie
  /\ intr' = from
  /\ now' = IF now < MaxTime THEN now + 1 ELSE now
  /\ UNCHANGED <<sched, running, sie, timers, mutexes, sems, condvars>>

Expired(timer) == timer[2] <= now

usize_cmp(m, n) == IF m < n THEN "Less" ELSE IF m = n THEN "Equal" ELSE "Greater"

\* Mutant: the comparison is not reversed.
CmpByDeadline(timer, other) == usize_cmp(timer[2], other[2])

\* Ord for TimeCondVar compares the deadlines the other way round.
cmp(timer, other) == usize_cmp(other[2], timer[2])

\* BinaryHeap::peek: a greatest element.
Peek(timer) == \A other \in timers : cmp(other, timer) # "Greater"

\* Mutant: the timer is popped and its task not woken.
PopsOnly(timer) ==
  /\ intr # "none"
  /\ timer \in timers /\ Peek(timer) /\ Expired(timer)
  /\ timers' = timers \ {timer}
  /\ UNCHANGED <<sched, running, intr, sie, now, mutexes, sems, condvars>>

\* One turn of the loop in check_timer.
check_timer(timer) ==
  /\ intr # "none"
  /\ timer \in timers /\ Peek(timer) /\ Expired(timer)
  /\ timers' = timers \ {timer}
  /\ wakeup(timer[1])
  /\ UNCHANGED <<running, intr, sie, now, mutexes, sems, condvars>>

\* check_timer finds nothing more to wake; user_handler then suspends the
\* interrupted task, kernel_handler returns to the interrupted kernel code.
timer_return ==
  /\ intr # "none"
  /\ \A timer \in timers : Peek(timer) => ~Expired(timer)
  /\ intr' = "none"
  /\ IF intr = "user"
       THEN suspend_current_and_run_next(current) /\ sie' = FALSE
       ELSE UNCHANGED <<sched, sie>>
  /\ UNCHANGED <<running, now, timers, mutexes, sems, condvars>>

-----------------------------------------------------------------------------

Syscall(t) ==
  \/ sys_yield(t)
  \/ \E u \in Tasks : sys_thread_create(t, u)
  \/ \E m \in MutexIds, k \in {"spin", "blocking"} : sys_mutex_create(t, m, k)
  \/ \E m \in MutexIds : sys_mutex_lock(t, m)
  \/ \E m \in MutexIds : sys_mutex_unlock(t, m)
  \/ \E s \in SemIds, n \in ResCounts : sys_semaphore_create(t, s, n)
  \/ \E s \in SemIds : sys_semaphore_up(t, s)
  \/ \E s \in SemIds : sys_semaphore_down(t, s)
  \/ \E c \in CondIds : sys_condvar_create(t, c)
  \/ \E c \in CondIds : sys_condvar_signal(t, c)
  \/ \E c \in CondIds, m \in MutexIds : sys_condvar_wait(t, c, m)
  \/ \E ms \in Durations : sys_sleep(t, ms)

\* The rest of a system call, once its task runs again.
Resume(t) == spin_again(t) \/ relock(t) \/ sleep_block(t)

Timer ==
  \/ timer_interrupt("user")
  \/ timer_interrupt("kernel")
  \/ \E timer \in timers : check_timer(timer)
  \/ timer_return

Next == run_tasks \/ (\E t \in Tasks : Syscall(t) \/ Resume(t)) \/ Timer

Spec == Init /\ [][Next]_vars

-----------------------------------------------------------------------------
(* Safety *)

\* The types of the queues, the timers and the synchronisation objects.
TypeOK ==
  /\ current \in Tasks \cup {NoTask} /\ ready \in Seq(Tasks)
  /\ started \subseteq Tasks
  /\ status \in [Tasks -> {"Ready", "Running", "Blocked"}]
  /\ pc \in [Tasks -> {"user", "spin", "relock", "sleep"}]
  /\ want \in [Tasks -> Nat]
  /\ intr \in {"none", "user", "kernel"} /\ sie \in BOOLEAN
  /\ now \in Nat /\ timers \subseteq Tasks \X Nat
  /\ kind \in [MutexIds -> {"none", "spin", "blocking"}]
  /\ locked \in [MutexIds -> BOOLEAN] /\ mwait \in [MutexIds -> Seq(Tasks)]
  /\ held \in [Tasks -> SUBSET MutexIds]
  /\ res \in [SemIds -> Int] /\ count \in [SemIds -> Int]
  /\ swait \in [SemIds -> Seq(Tasks)] /\ granted \in [SemIds -> Int]
  /\ conds \subseteq CondIds /\ cwait \in [CondIds -> Seq(Tasks)]

\* At most one task holds a mutex, and a held mutex is marked locked.
MutualExclusion ==
  \A m \in MutexIds : \A t \in Tasks : m \in held[t] =>
    /\ locked[m]
    /\ \A u \in Tasks : m \in held[u] => u = t

\* A locked mutex has an owner, and only a locked mutex has waiters.
WaitersHaveAnOwner ==
  \A m \in MutexIds :
    /\ locked[m] => \E t \in Tasks : m \in held[t]
    /\ mwait[m] # <<>> => locked[m]

\* A mutex never has two owners, through every hand-over from Blocking::unlock to a
\* waiter and every condvar wait, and whoever sleeps in its wait_queue waits for an
\* owner that will unlock it: no mutex is marked locked by nobody.
MutexesSound == MutualExclusion /\ WaitersHaveAnOwner

\* The count of a semaphore and its wait_queue agree: every unit of the count given to
\* create is left, granted or owed to a waiter; nobody waits while there is one left, and
\* what was granted beyond the ups never exceeds it.  So as many tasks wait as the count is
\* below zero.  Only a res_count beyond isize::MAX, which the cast makes negative, leaves
\* the count lower than that: it grants nothing before as many ups.
SemaphoreConserves ==
  \A s \in SemIds : res[s] # -1 =>
    /\ granted[s] + count[s] + Len(swait[s]) = isize(res[s])
    /\ IF count[s] >= 0 THEN swait[s] = <<>> ELSE Len(swait[s]) <= -count[s]
    /\ granted[s] <= IF isize(res[s]) >= 0 THEN isize(res[s]) ELSE 0

\* Everywhere the scheduler, the primitives and the timer hold an Arc of t.
Places(t) ==
  {<<"current", 0, 0>> : x \in {current} \cap {t}}
  \cup {<<"ready", 0, i>> : i \in {j \in DOMAIN ready : ready[j] = t}}
  \cup (UNION {{<<"mutex", m, i>> : i \in {j \in DOMAIN mwait[m] : mwait[m][j] = t}} : m \in MutexIds})
  \cup (UNION {{<<"sem", s, i>> : i \in {j \in DOMAIN swait[s] : swait[s][j] = t}} : s \in SemIds})
  \cup (UNION {{<<"cond", c, i>> : i \in {j \in DOMAIN cwait[c] : cwait[c][j] = t}} : c \in CondIds})
  \cup {<<"timer", x[2], 0>> : x \in {y \in timers : y[1] = t}}

\* No lost and no double wakeup: a task that exists is running, ready, or in one
\* wait queue, exactly once.  Only between add_timer and block of sys_sleep is it
\* in two places: running, and in TIMERS or already woken into the ready queue.
ScheduledOnce ==
  /\ TypeOK
  /\ \A t \in Tasks :
       Cardinality(Places(t)) =
         IF t \notin started THEN 0 ELSE IF pc[t] = "sleep" THEN 2 ELSE 1

-----------------------------------------------------------------------------
(* Action properties *)

\* Nobody overtakes in the queue of a mutex: those who wait keep their order, a new
\* one comes last, and a mutex that passes on at unlock goes to the one that waited longest.
HandoverIsFifo ==
  [][\A m \in MutexIds :
       /\ \/ mwait'[m] = mwait[m]
          \/ mwait[m] # <<>> /\ mwait'[m] = Tail(mwait[m])
          \/ mwait'[m] # <<>> /\ mwait[m] = SubSeq(mwait'[m], 1, Len(mwait'[m]) - 1)
       /\ \A t, u \in Tasks :
            t # u /\ m \in held[t] /\ m \in held'[u] => mwait[m] # <<>> /\ u = Head(mwait[m])]_vars

\* Nobody oversleeps: check_timer looks at the top of the heap only, and yet when the
\* timer interrupt is over no deadline in the heap has passed.  Nor does it end a sleep early.
SleepersWakeOnTime ==
  [][/\ intr # "none" /\ intr' = "none" => \A x \in timers' : now < x[2]
     /\ \A x \in timers \ timers' : x[2] <= now]_vars

-----------------------------------------------------------------------------
(* Liveness: user programs release the mutexes they hold and keep making system
   calls; the timer keeps interrupting user code; kernel code does not stop. *)

Fairness ==
  /\ SF_vars(run_tasks \/ \E t \in Tasks : Resume(t))
  /\ WF_vars(timer_return \/ \E timer \in timers : check_timer(timer))
  /\ WF_vars(timer_interrupt("kernel")) /\ SF_vars(timer_interrupt("user"))
  /\ \A m \in MutexIds : SF_vars(\E t \in Tasks : sys_mutex_unlock(t, m))

LiveSpec == Spec /\ Fairness

Waits(t, m) == \E i \in DOMAIN mwait[m] : mwait[m][i] = t

\* Every task queued in a blocking mutex gets it.
MutexGranted == \A t \in Observed, m \in MutexIds : Waits(t, m) ~> m \in held[t]

\* Every sleep ends.
SleepEnds ==
  \A t \in Observed : (\E x \in timers : x[1] = t) ~> current = t /\ pc[t] = "user"

=============================================================================
