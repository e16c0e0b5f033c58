------------------------------ MODULE Process ------------------------------
(***************************************************************************)
(* The life of processes and threads: task/pcb.rs, task/tcb.rs, exit in    *)
(* task/mod.rs, PID2PCB in task/manager.rs, task/signal.rs, the end of     *)
(* user_handler in trap/mod.rs, and the calls of syscall/process.rs and    *)
(* syscall/thread.rs.                                                      *)
(*                                                                         *)
(* A process is named by its pid, a TCB by the id of its kernel stack;     *)
(* both ids are taken from and returned to an allocator (TaskId), here any *)
(* free one.  A TCB lives as long as an Arc of it: in the tasks of its     *)
(* PCB, in the ready queue, in Processor::current, in TIMERS or in the     *)
(* wait queue of a mutex, semaphore or condvar.  A PCB lives as long as    *)
(* PID2PCB, the children of a PCB that lives or a suspended call has an    *)
(* Arc of it.  A kernel panic or shutdown stops the machine.               *)
(*                                                                         *)
(* The daemon, process 0, runs apps/src/bin/daemon.rs: it forks the shell  *)
(* and then reaps children for ever.  Any other process runs any program.  *)
(***************************************************************************)
EXTENDS Integers, Sequences, FiniteSets, Functions

CONSTANTS
  Pids,           \* pids, 0 (IDLE_PID, the daemon) included
  Stacks,         \* kernel stack ids: bounds the number of TCBs
  MaxThreads,     \* bound on the tids of a process
  Codes,          \* exit codes passed to exit
  Kills,          \* signals passed to kill
  Tids,           \* tids passed to waittid
  Waits,          \* may system calls wait (sleep, pipe, mutex)?
  ProcDirs,       \* the pids n for which programs make or remove /proc/<n>
  MaxChanges      \* bound on how often they do

NoPid == -1
NoTid == -1
NoCode == 1000
NoTask == -1
IDLE_PID == 0
SIGILL == 4
SIGSEGV == 11

ASSUME ProcessAssumption ==
  /\ IDLE_PID \in Pids /\ NoPid \notin Pids
  /\ Stacks # {} /\ NoTask \notin Stacks
  /\ MaxThreads \in Nat \ {0}
  /\ Codes \subseteq Int /\ NoCode \notin Codes
  /\ Kills \subseteq {2, 4, 6, 8, 11}
  /\ Tids \subseteq Nat
  /\ Waits \in BOOLEAN
  /\ ProcDirs \subseteq Pids /\ MaxChanges \in Nat

VARIABLES
  proc,       \* ProcessControlBlock of each pid
  tcb,        \* TaskControlBlock of each kernel stack
  pid2pcb,    \* PID2PCB
  procfs,     \* /proc/<pid>: "none", an "empty" directory, or one with "cmdline"
  ready, current,
  timers,     \* TCBs in TIMERS
  blocked,    \* TCBs in the wait queue of a mutex, semaphore or condvar
  halted,     \* "no", "shutdown" or the place of a kernel panic
  forked,     \* has the daemon forked the shell?
  threads,    \* history: "single" until thread_create is called, "several", "outlived"
              \* once a main thread exited before another thread of its process,
              \* "dropped" once thread_create cut a thread that had not exited from tasks
  changes     \* number of changes programs made to /proc

tables == <<pid2pcb, procfs>>
waits == <<timers, blocked>>
history == <<forked, threads, changes>>
vars == <<proc, tcb, tables, ready, current, waits, halted, forked, threads, changes>>

FreeProc == [st |-> "free", parent |-> NoPid, children |-> <<>>, code |-> NoCode,
             sig |-> {}, tasks |-> <<>>, next |-> 0, recycled |-> <<>>]
FreeTcb == [proc |-> NoPid, tid |-> NoTid, code |-> NoCode, pc |-> "free"]

\* A process with its main thread on stack k.
NewProc(parent, k) ==
  [FreeProc EXCEPT !.st = "live", !.parent = parent, !.tasks = <<k>>, !.next = 1]

\* TaskControlBlock::new: the thread starts at trap::leave.
NewTcb(p, tid) == [proc |-> p, tid |-> tid, code |-> NoCode, pc |-> "leave"]

Init ==
  \E k \in Stacks :
    /\ proc = [p \in Pids |-> IF p = IDLE_PID THEN NewProc(NoPid, k) ELSE FreeProc]
    /\ tcb = [j \in Stacks |-> IF j = k THEN NewTcb(IDLE_PID, 0) ELSE FreeTcb]
    /\ pid2pcb = {IDLE_PID} /\ procfs = [p \in Pids |-> "none"]
    /\ ready = <<k>> /\ current = NoTask
    /\ timers = {} /\ blocked = {} /\ halted = "no"
    /\ forked = FALSE /\ threads = "single" /\ changes = 0

-----------------------------------------------------------------------------

\* Some Arc of the TCB is left.  A blocked task is also kept by its own kernel
\* stack: sys_mutex_lock holds an Arc of the mutex that holds the wait queue.
Referenced(k) ==
  \/ k = current \/ k \in Range(ready) \/ k \in timers \/ k \in blocked
  \/ \E p \in Pids : k \in Range(proc[p].tasks)

\* tcb after a step that made it t: TCBs without an Arc are dropped.
Drop(t) == tcb' = [k \in Stacks |-> IF Referenced(k)' THEN t[k] ELSE FreeTcb]

\* Mutant: the directories of the processes stay under /proc.
KeepsProcDirs(dead) == procfs

\* Drop of a PCB deletes /proc/<pid>.
RemoveProcDirs(dead) == [p \in Pids |-> IF p \in dead THEN "none" ELSE procfs[p]]

\* The PCBs without an Arc, when P are the PCBs, pids is PID2PCB and T the TCBs.  A
\* thread suspended in sys_read or sys_write has an Arc of its PCB on its kernel stack.
Dead(P, pids, T) ==
  LET roots == {IDLE_PID} \cup pids \cup {T[k].proc : k \in {j \in Stacks : T[j].pc = "pipe"}}
      reach[n \in 0 .. Cardinality(Pids)] ==
        IF n = 0 THEN roots
        ELSE reach[n - 1] \cup UNION {Range(P[p].children) : p \in reach[n - 1]}
  IN {p \in Pids : P[p].st # "free"} \ reach[Cardinality(Pids)]

\* The rest of a step that dropped Arcs of PCBs.  A PCB without one is dropped, with its
\* children and tasks; Weak references to it no longer upgrade.
DropPcbs(P, pids, T) ==
  LET dead == Dead(P, pids, T)
  IN /\ proc' = [p \in Pids |->
          IF p \in dead THEN FreeProc
          ELSE [P[p] EXCEPT !.parent = IF @ \in dead THEN NoPid ELSE @]]
     /\ pid2pcb' = pids
     /\ procfs' = RemoveProcDirs(dead)
     /\ Drop([k \in Stacks |-> IF T[k].proc \in dead THEN [T[k] EXCEPT !.proc = NoPid] ELSE T[k]])

Running(k, where) == halted = "no" /\ current = k /\ tcb[k].pc = where

InUser(k) == Running(k, "user")
Me(k) == tcb[k].proc

\* The system call returns; user_handler goes on with the signal check.
Returns(k) == tcb' = [tcb EXCEPT ![k].pc = "trap"]

Panic(where) ==
  halted' = where /\ UNCHANGED <<proc, tcb, tables, ready, current, waits, threads>>

run_tasks ==
  /\ halted = "no" /\ current = NoTask /\ ready # <<>>
  /\ current' = Head(ready) /\ ready' = Tail(ready)
  /\ UNCHANGED <<proc, tcb, tables, waits, halted>>

suspend_current_and_run_next(k) == current' = NoTask /\ ready' = Append(ready, k)

\* The timer preempts user code, or the thread yields; it continues with the
\* end of user_handler.
preempt(k) ==
  /\ InUser(k)
  /\ suspend_current_and_run_next(k)
  /\ Returns(k)
  /\ UNCHANGED <<proc, tables, waits, halted>>

-----------------------------------------------------------------------------
(* exit_current_and_run_next *)

\* The Arc moved out of Processor::current is dropped on line 93, while the
\* thread still runs on the kernel stack; the process must hold another one.
\* Otherwise the stack is unmapped under the thread: it faults, or goes on as
\* long as the TLB still holds the mapping.
LastArc(k) == k \notin Range(proc[Me(k)].tasks)

\* A thread other than the main one: its TaskUserRes is dropped, its TCB waits
\* in tasks for sys_waittid.
exit_thread(k, code) ==
  LET p == Me(k)
      t == [tcb EXCEPT ![k].tid = NoTid, ![k].code = code]
  IN /\ proc' = [proc EXCEPT ![p].recycled = Append(@, tcb[k].tid)]
     /\ current' = NoTask
     /\ halted' \in IF LastArc(k) THEN {"no", "kstack"} ELSE {"no"}
     /\ UNCHANGED <<tables, ready, waits>>
     /\ Drop(t)

remove_from_pid2process(p) == pid2pcb \ {p}

\* Mutant: the children keep pointing to the process that exits.
KeepsParent(p, q) == proc[q].parent

\* The parent of q after p gave its children to the daemon.
AdoptedParent(p, q) == IF q \in Range(proc[p].children) THEN IDLE_PID ELSE proc[q].parent

\* Mutant: a child that has exited is left out.
AdoptsLiving(p) == SelectSeq(proc[p].children, LAMBDA c : proc[c].st = "live")

\* The children that p gives to the daemon.
Adopted(p) == proc[p].children

\* The tids of the TaskUserRes that exit takes out of the tasks of p, in order.
\* The one of the running thread, which has tid 0, is already gone.
recycle_res(p, k) ==
  LET tasks == proc[p].tasks
      HasRes(j) == j # NoTask /\ j # k /\ tcb[j].tid # NoTid
      res[n \in 0 .. Len(tasks)] ==
        IF n = 0 THEN <<0>>
        ELSE IF HasRes(tasks[n]) THEN Append(res[n - 1], tcb[tasks[n]].tid)
        ELSE res[n - 1]
  IN res[Len(tasks)]

\* The main thread: the process becomes a zombie, its children go to the daemon,
\* the TaskUserRes of all its threads are taken and tasks is cut to the main one.  A PCB
\* that is nobody's child is dropped with the kernel stack the thread still runs on.
exit_process(k, code) ==
  LET p == Me(k)
      pids == remove_from_pid2process(p)
      others == {j \in Range(proc[p].tasks) \ {k, NoTask} : tcb[j].tid # NoTid}
      T == [j \in Stacks |->
              IF j = k THEN [tcb[k] EXCEPT !.tid = NoTid, !.code = code]
              ELSE IF j \in others THEN [tcb[j] EXCEPT !.tid = NoTid]
              ELSE tcb[j]]
      P == [q \in Pids |->
              IF q = p
                THEN [proc[p] EXCEPT !.st = "zombie", !.code = code, !.children = <<>>,
                                     !.tasks = SubSeq(@, 1, 1), !.recycled = @ \o recycle_res(p, k)]
              ELSE IF q = IDLE_PID
                THEN [proc[q] EXCEPT !.children = @ \o Adopted(p)]
              ELSE [proc[q] EXCEPT !.parent = AdoptedParent(p, q)]]
  IN /\ current' = NoTask
     /\ halted' \in IF p \in Dead(P, pids, T) THEN {"no", "kstack"} ELSE {"no"}
     /\ threads' = IF threads = "several" /\ others # {} THEN "outlived" ELSE threads
     /\ UNCHANGED <<ready, waits>>
     /\ DropPcbs(P, pids, T)

exit_current_and_run_next(k, code) ==
  \/ tcb[k].tid = NoTid /\ Panic("exit_res")
  \/ tcb[k].tid > 0 /\ exit_thread(k, code) /\ UNCHANGED threads
  \/ tcb[k].tid = 0 /\ Me(k) = IDLE_PID /\ Panic("shutdown")
  \/ tcb[k].tid = 0 /\ Me(k) \notin pid2pcb /\ Panic("pid2pcb")
  \/ tcb[k].tid = 0 /\ Me(k) \in pid2pcb \ {IDLE_PID} /\ exit_process(k, code)

sys_exit(k, code) == InUser(k) /\ exit_current_and_run_next(k, code)

\* The end of user_handler: the signals of the process decide whether the thread
\* exits or goes back to user code through trap::leave.
\* SIGINT, SIGILL, SIGABRT, SIGFPE and SIGSEGV are tested in this order.
check_error(sigs) == CHOOSE s \in sigs : \A r \in sigs : s <= r

\* Mutant: only SIGINT ends a process.
OnlySigint(p) == 2 \in proc[p].sig

Signalled(p) == proc[p].sig # {}

trap_end(k) ==
  /\ Running(k, "trap")
  /\ \/ Me(k) = NoPid /\ Panic("dangling_process")
     \/ /\ Me(k) # NoPid /\ Signalled(Me(k))
        /\ exit_current_and_run_next(k, -check_error(proc[Me(k)].sig))
     \/ /\ Me(k) # NoPid /\ ~Signalled(Me(k))
        /\ tcb' = [tcb EXCEPT ![k].pc = "leave"]
        /\ UNCHANGED <<proc, tables, ready, current, waits, halted, threads>>

leave(k) ==
  /\ Running(k, "leave")
  /\ \/ (tcb[k].tid = NoTid \/ Me(k) = NoPid) /\ Panic("leave")
     \/ /\ tcb[k].tid # NoTid /\ Me(k) # NoPid
        /\ tcb' = [tcb EXCEPT ![k].pc = "user"]
        /\ UNCHANGED <<proc, tables, ready, current, waits, halted>>

\* An exception in user code.
fault(k, s) ==
  /\ InUser(k)
  /\ proc' = [proc EXCEPT ![Me(k)].sig = @ \cup {s}]
  /\ Returns(k)
  /\ UNCHANGED <<tables, ready, current, waits, halted>>

-----------------------------------------------------------------------------
(* syscall/process.rs *)

thread_count(p) == Len(proc[p].tasks)

\* task(0) is there and has its TaskUserRes.
HasMain(p) == proc[p].tasks[1] # NoTask /\ tcb[proc[p].tasks[1]].tid # NoTid

\* ProcessControlBlock::fork.  The new directory must not be there yet.
sys_fork(k) ==
  /\ InUser(k)
  /\ LET p == Me(k) IN
     \/ thread_count(p) # 1 /\ Panic("fork_threads")
     \/ thread_count(p) = 1 /\ ~HasMain(p) /\ Panic("fork_res")
     \/ /\ thread_count(p) = 1 /\ HasMain(p)
        /\ \E c \in Pids, j \in Stacks :
             /\ proc[c].st = "free" /\ tcb[j] = FreeTcb
             /\ \/ procfs[c] # "none" /\ Panic("fork_procfs")
                \/ /\ procfs[c] = "none"
                   /\ proc' = [proc EXCEPT ![p].children = Append(@, c), ![c] = NewProc(p, j)]
                   /\ tcb' = [tcb EXCEPT ![k].pc = "trap", ![j] = NewTcb(c, 0)]
                   /\ pid2pcb' = pid2pcb \cup {c} /\ procfs' = [procfs EXCEPT ![c] = "cmdline"]
                   /\ ready' = Append(ready, j)
                   /\ UNCHANGED <<current, waits, halted>>

\* ProcessControlBlock::exec, as far as processes and threads are concerned.  from_elf
\* panics on a file that is not a program, which any file may be.
sys_exec(k) ==
  /\ InUser(k)
  /\ LET p == Me(k) IN
     \/ thread_count(p) # 1 /\ Panic("exec_threads")
     \/ thread_count(p) = 1 /\ Panic("exec_elf")
     \/ thread_count(p) = 1 /\ ~HasMain(p) /\ Panic("exec_res")
     \/ thread_count(p) = 1 /\ HasMain(p) /\ procfs[p] # "cmdline" /\ Panic("exec_procfs")
     \/ /\ thread_count(p) = 1 /\ HasMain(p) /\ procfs[p] = "cmdline"
        /\ Returns(k)
        /\ UNCHANGED <<proc, tables, ready, current, waits, halted>>

\* Mutant: -1 does not stand for any child.
ReapableByPid(p, pid) ==
  {i \in DOMAIN proc[p].children :
     proc[proc[p].children[i]].st = "zombie" /\ pid = proc[p].children[i]}

\* The positions of the children that waitpid may reap.
Reapable(p, pid) ==
  {i \in DOMAIN proc[p].children :
     /\ proc[proc[p].children[i]].st = "zombie"
     /\ pid = -1 \/ pid = proc[p].children[i]}

Holds(c) == {k \in Stacks : tcb[k].proc = c /\ tcb[k].pc = "pipe"}

\* Arcs of a PCB: in children, in PID2PCB, and on the kernel stacks of the
\* threads suspended in sys_read or sys_write.
strong_count(c) == 1 + Cardinality({c} \cap pid2pcb) + Cardinality(Holds(c))

RemoveAt(s, i) == SubSeq(s, 1, i - 1) \o SubSeq(s, i + 1, Len(s))

\* sys_waitpid finds a zombie and takes it out of the children.
sys_waitpid(k, pid) ==
  /\ InUser(k) /\ Reapable(Me(k), pid) # {}
  /\ LET p == Me(k)
         i == CHOOSE i \in Reapable(p, pid) : \A j \in Reapable(p, pid) : i <= j
         c == proc[p].children[i]
         P == [proc EXCEPT ![p].children = RemoveAt(@, i)]
         T == [tcb EXCEPT ![k].pc = "trap"]
     IN \/ strong_count(c) # 1 /\ Panic("waitpid_count")
        \/ /\ strong_count(c) = 1
           /\ UNCHANGED <<ready, current, waits, halted>>
           /\ DropPcbs(P, pid2pcb, T)

sys_kill(k, p, s) ==
  /\ InUser(k) /\ p \in pid2pcb
  /\ proc' = [proc EXCEPT ![p].sig = @ \cup {s}]
  /\ Returns(k)
  /\ UNCHANGED <<tables, ready, current, waits, halted>>

-----------------------------------------------------------------------------
(* syscall/thread.rs *)

\* RecycleAllocator::alloc on task_res_allocator.
AllocTid(p) ==
  LET r == proc[p].recycled
  IN IF r = <<>> THEN [tid |-> proc[p].next, next |-> proc[p].next + 1, recycled |-> r]
     ELSE [tid |-> r[Len(r)], next |-> proc[p].next, recycled |-> SubSeq(r, 1, Len(r) - 1)]

resize_with(tasks, n) == [i \in 1 .. n |-> IF i <= Len(tasks) THEN tasks[i] ELSE NoTask]

\* Is a thread that has not exited beyond the first n of tasks?
CutsOff(p, n) ==
  \E i \in n + 1 .. Len(proc[p].tasks) :
    proc[p].tasks[i] # NoTask /\ tcb[proc[p].tasks[i]].tid # NoTid

sys_thread_create(k) ==
  /\ InUser(k)
  /\ LET p == Me(k)
         a == AllocTid(p)
     IN \E j \in Stacks :
          /\ tcb[j] = FreeTcb /\ a.tid < MaxThreads
          /\ ready' = Append(ready, j)
          /\ proc' = [proc EXCEPT
               ![p].next = a.next, ![p].recycled = a.recycled,
               ![p].tasks = [resize_with(@, a.tid + 1) EXCEPT ![a.tid + 1] = j]]
          /\ threads' = IF CutsOff(p, a.tid + 1) THEN "dropped"
                        ELSE IF threads = "single" THEN "several" ELSE threads
          /\ UNCHANGED <<tables, current, waits, halted>>
          /\ Drop([tcb EXCEPT ![k].pc = "trap", ![j] = NewTcb(p, a.tid)])

\* sys_waittid: an exited thread is removed from tasks; a tid that is not an
\* index of tasks panics.
sys_waittid(k, tid) ==
  /\ InUser(k) /\ tcb[k].tid # tid
  /\ LET p == Me(k)
         tasks == proc[p].tasks
     IN \/ tid >= Len(tasks) /\ Panic("waittid_index")
        \/ /\ tid < Len(tasks) /\ tasks[tid + 1] # NoTask
           /\ tcb[tasks[tid + 1]].code # NoCode
           /\ proc' = [proc EXCEPT ![p].tasks[tid + 1] = NoTask]
           /\ UNCHANGED <<tables, ready, current, waits, halted>>
           /\ Drop([tcb EXCEPT ![k].pc = "trap"])

-----------------------------------------------------------------------------
(* System calls that wait, and the ones that change nothing here *)

\* Any system call that returns without an effect on processes and threads, the
\* failing ones included.
sys_other(k) ==
  /\ InUser(k) /\ Returns(k)
  /\ UNCHANGED <<proc, tables, ready, current, waits, halted>>

sys_sleep(k) ==
  /\ Waits /\ InUser(k)
  /\ timers' = timers \cup {k} /\ current' = NoTask
  /\ Returns(k)
  /\ UNCHANGED <<proc, tables, ready, blocked, halted>>

check_timer(k) ==
  /\ halted = "no" /\ k \in timers
  /\ timers' = timers \ {k} /\ ready' = Append(ready, k)
  /\ UNCHANGED <<proc, tcb, tables, current, blocked, halted>>

\* sys_mutex_lock, sys_semaphore_down or sys_condvar_wait blocks ...
sys_block(k) ==
  /\ Waits /\ InUser(k)
  /\ blocked' = blocked \cup {k} /\ current' = NoTask
  /\ Returns(k)
  /\ UNCHANGED <<proc, tables, ready, timers, halted>>

\* ... and another thread of the process wakes it.
sys_wake(k, j) ==
  /\ InUser(k) /\ j \in blocked /\ Me(j) = Me(k)
  /\ blocked' = blocked \ {j} /\ ready' = Append(ready, j)
  /\ Returns(k)
  /\ UNCHANGED <<proc, tables, current, timers, halted>>

\* sys_read on a pipe: suspended with an Arc of the PCB on its kernel stack.
sys_read(k) ==
  /\ Waits /\ InUser(k)
  /\ suspend_current_and_run_next(k)
  /\ tcb' = [tcb EXCEPT ![k].pc = "pipe"]
  /\ UNCHANGED <<proc, tables, waits, halted>>

\* The rest of the loop; a call that returns drops its Arc of the PCB.
read_again(k) ==
  /\ Running(k, "pipe") /\ UNCHANGED waits
  /\ \/ suspend_current_and_run_next(k) /\ UNCHANGED <<proc, tcb, tables, halted>>
     \/ /\ UNCHANGED <<current, ready, halted>>
        /\ DropPcbs(proc, pid2pcb, [tcb EXCEPT ![k].pc = "trap"])

\* A program makes or unlinks /proc/<p> or its cmdline.  Putting a file in the place of
\* the directory is left out: it fails the next fork or Drop in the same way.
change_proc(k, p) ==
  /\ InUser(k) /\ changes < MaxChanges /\ changes' = changes + 1
  /\ \E next \in {<<"none", "empty">>, <<"empty", "none">>, <<"empty", "cmdline">>,
                 <<"cmdline", "empty">>} :
       procfs[p] = next[1] /\ procfs' = [procfs EXCEPT ![p] = next[2]]
  /\ Returns(k)
  /\ UNCHANGED <<proc, pid2pcb, ready, current, waits, halted, forked, threads>>

-----------------------------------------------------------------------------

\* What the daemon does: fork() once, then wait() and yield for ever.
Daemon(k) ==
  \/ preempt(k) /\ UNCHANGED forked
  \/ ~forked /\ sys_fork(k) /\ forked' = TRUE
  \/ forked /\ sys_waitpid(k, -1) /\ UNCHANGED forked

\* What any other program may do, besides exit, creating threads and changing /proc.
User(k) ==
  \/ preempt(k)
  \/ \E s \in {SIGILL, SIGSEGV} : fault(k, s)
  \/ sys_other(k)
  \/ sys_fork(k)
  \/ sys_exec(k)
  \/ \E pid \in Pids \cup {-1} : sys_waitpid(k, pid)
  \/ \E p \in Pids, s \in Kills : sys_kill(k, p, s)
  \/ \E tid \in Tids : sys_waittid(k, tid)
  \/ sys_sleep(k)
  \/ sys_block(k)
  \/ sys_read(k)
  \/ \E j \in Stacks : sys_wake(k, j)

\* What the kernel does with a thread that is in a trap or a call.
Kernel(k) ==
  \/ trap_end(k) /\ UNCHANGED <<forked, changes>>
  \/ (leave(k) \/ read_again(k)) /\ UNCHANGED history

Next ==
  \/ run_tasks /\ UNCHANGED history
  \/ \E k \in Stacks :
       \/ Kernel(k)
       \/ check_timer(k) /\ UNCHANGED history
       \/ Me(k) = IDLE_PID /\ Daemon(k) /\ UNCHANGED <<threads, changes>>
       \/ Me(k) # IDLE_PID /\ User(k) /\ UNCHANGED history
       \/ Me(k) # IDLE_PID /\ sys_thread_create(k) /\ UNCHANGED <<forked, changes>>
       \/ \E code \in Codes : Me(k) # IDLE_PID /\ sys_exit(k, code) /\ UNCHANGED <<forked, changes>>
       \/ \E p \in ProcDirs : Me(k) # IDLE_PID /\ change_proc(k, p)

Spec == Init /\ [][Next]_vars

\* The kernel goes on with the running thread or runs the next one; the timer preempts a
\* thread that stays in user code; the daemon is not preempted before each of its waitpid
\* calls for ever.
LiveSpec ==
  /\ Spec
  /\ WF_vars((run_tasks /\ UNCHANGED history) \/ \E k \in Stacks : Kernel(k))
  /\ SF_vars(\E k \in Stacks : preempt(k) /\ UNCHANGED history)
  /\ SF_vars(\E k \in Stacks : Me(k) = IDLE_PID /\ sys_waitpid(k, -1) /\ UNCHANGED history)

-----------------------------------------------------------------------------
(* Properties *)

\* The types of processes, tasks and the tables that refer to them.
TypeOK ==
  /\ \A p \in Pids :
       /\ proc[p].st \in {"free", "live", "zombie"}
       /\ proc[p].parent \in Pids \cup {NoPid}
       /\ Range(proc[p].children) \subseteq Pids
       /\ Range(proc[p].tasks) \subseteq Stacks \cup {NoTask}
       /\ Range(proc[p].recycled) \subseteq 0 .. proc[p].next - 1
  /\ \A k \in Stacks :
       /\ tcb[k].proc \in Pids \cup {NoPid}
       /\ tcb[k].tid \in 0 .. MaxThreads - 1 \cup {NoTid}
       /\ tcb[k].pc \in {"free", "leave", "user", "trap", "pipe"}
  /\ pid2pcb \subseteq Pids /\ procfs \in [Pids -> {"none", "empty", "cmdline"}]
  /\ Range(ready) \subseteq Stacks /\ current \in Stacks \cup {NoTask}
  /\ timers \cup blocked \subseteq Stacks

\* The places where p stands among the children of a process.
Links(p) ==
  UNION {{<<q, i>> : i \in {n \in DOMAIN proc[q].children : proc[q].children[n] = p}} : q \in Pids}

\* The process tree survives any order of fork, exit and waitpid: a process that
\* exists, other than the daemon, is the child of exactly one live process, once,
\* and its parent field names that process; PID2PCB holds exactly the live ones.
\* A thread that thread_create cut from tasks outlives its process and may fork.
\* No two threads of a process share a tid, hence a trap context and a user stack.
ProcessTree ==
  /\ TypeOK
  /\ \A j, k \in Stacks :
       /\ j # k /\ tcb[j].tid # NoTid /\ tcb[k].tid # NoTid
       /\ tcb[j].proc # NoPid /\ tcb[j].proc = tcb[k].proc
       => tcb[j].tid # tcb[k].tid
  /\ pid2pcb = {p \in Pids : proc[p].st = "live"}
  /\ threads # "dropped" =>
       /\ \A p \in Pids \ {IDLE_PID} :
            IF proc[p].st = "free" THEN Links(p) = {}
            ELSE \E place \in Links(p) : Links(p) = {place} /\ place[1] = proc[p].parent
       /\ \A p \in Pids : proc[p].children # <<>> => proc[p].st = "live"

\* The exit code of a zombie is kept for its parent: it stays a zombie with that
\* code until a thread of its parent, which goes on living, reaps it with waitpid; when the
\* parent exits before, the zombie stays for the daemon.  A thread that was cut from
\* tasks may fork in the name of a zombie, whose children go when it is reaped.
ExitStatusKept ==
  [][\A p \in Pids : proc[p].st = "zombie" /\ halted' = "no" /\ threads # "dropped" =>
       \/ proc'[p].st = "zombie" /\ proc'[p].code = proc[p].code
       \/ proc'[p].st = "free" /\ current # NoTask
          /\ Me(current) = proc[p].parent /\ Me(current) \in pid2pcb']_vars

\* Where the kernel stops because of what a program asked for: waittid indexes tasks
\* unchecked, exec does not check the file, and fork and exec count the slots of tasks.
AskedFor == {"waittid_index", "exec_elf"} \cup
            (IF threads = "single" THEN {} ELSE {"fork_threads", "exec_threads"})

\* If the threads of a process exit before its main thread, none is cut from tasks by
\* thread_create, and programs leave /proc alone, no other assert, unwrap or expect of
\* fork, exec, exit, waitpid, trap::leave and Drop fails: the strong count that waitpid
\* asserts is 1, the main thread has its TaskUserRes, no thread comes back to a process that
\* has gone, and the /proc entries of reused pids are fresh.
NoPanic ==
  threads \in {"single", "several"} /\ changes = 0 => halted \in {"no", "shutdown"} \cup AskedFor

\* Stated at task/mod.rs:90: the kernel stack of an exiting thread is not freed
\* while the thread uses it, but by waittid.
KernelStackOutlivesExit == halted # "kstack"

\* A child left to the daemon does not stay a zombie.
OrphansReaped ==
  \A p \in Pids \ {IDLE_PID} :
    (proc[p].st = "zombie" /\ proc[p].parent = IDLE_PID)
      ~> (proc[p].st = "free" \/ halted # "no")

\* A process with a pending signal exits, when its thread is not waiting.
KilledDies ==
  \A p \in Pids : (proc[p].st = "live" /\ proc[p].sig # {}) ~> (proc[p].st # "live" \/ halted # "no")
=============================================================================
