------------------------------ MODULE Drivers ------------------------------
(***************************************************************************)
(* Interrupts, the cells that mask them, and the drivers that sleep:       *)
(* sync/up.rs, drivers/chardev/ns16550a.rs, drivers/input/mod.rs,          *)
(* drivers/block/virtio_blk.rs, irq_handler of boards/qemu.rs, the         *)
(* interrupt arms of trap/mod.rs, and the system calls that reach them:    *)
(* sys_read on stdin, sys_event_get, sys_write on stdout and the calls on  *)
(* files, which hold the cell of the open file (fs/inode.rs), the lock of  *)
(* the file system (easy-fs/src/vfs.rs) and the lock of the block cache    *)
(* (easy-fs/src/block_cache.rs) while they wait for the disk.              *)
(*                                                                         *)
(* There is one hart.  Kernel code gives it up only in schedule; interrupt *)
(* handlers run on top of user code, or of kernel code while SIE is set,   *)
(* and never schedule.  __switch keeps SIE: the next task inherits it.     *)
(* What the devices do (characters arrive, requests complete, a line of    *)
(* the PLIC becomes pending) is external.                                  *)
(***************************************************************************)
EXTENDS Integers, Sequences, FiniteSets, Functions

CONSTANTS
  Users,        \* threads of ordinary programs
  Daemon,       \* the thread of the daemon, which never waits
  Nobody,       \* the idle loop; also the owner of a free lock
  Files,        \* open files (OSInode)
  Tokens,       \* descriptors of the virtqueue
  MaxInput,     \* bound on the inputs of all devices
  MaxAccess     \* bound on the blocks a file operation touches

Tasks == Users \cup {Daemon}
Streams == {"uart", "keyboard", "mouse"}
Blk == "blk"
Devices == Streams \cup {Blk}
NoIrq == "none"
NoCell == "none"
NoToken == 0

ASSUME DriversAssumption ==
  /\ IsFiniteSet(Users) /\ Daemon \notin Users /\ Nobody \notin Tasks
  /\ Files \cap (Tasks \cup Devices \cup {NoCell}) = {}
  /\ Tasks \cap (Devices \cup {NoCell}) = {}
  /\ Tokens # {} /\ NoToken \notin Tokens /\ MaxAccess \in Nat \ {0}
  /\ MaxInput \in Nat

VARIABLES
  hart,       \* the task whose kernel stack or user code the hart is on
  ready,      \* the ready queue
  pc,         \* where each task is
  phases,     \* what is left of its call on files
  left,       \* blocks left to touch in the first of the phases
  src,        \* the device it reads
  tok,        \* the token of its last request
  mask,       \* SIE, and INTR_MASKING_INFO
  cells,      \* the UPIntrFreeCells that are borrowed across a step
  fs,         \* owner of the lock of the file system
  manager,    \* owner of BLOCK_CACHE_MANAGER
  nb,         \* DEV_NON_BLOCKING_ACCESS
  fifo,       \* external: inputs a device holds
  arrived,    \* external: number of inputs so far
  buffer,     \* read_buffer, or events
  got,        \* history: number of inputs that calls returned
  waitq,      \* wait queue of the condvar of each stream
  inflight,   \* external: requests the disk works on
  used,       \* external: the used ring
  condvars,   \* wait queue of each token
  pending,    \* external: sources pending at the PLIC
  irq,        \* the source being handled
  halted,     \* "no", or why the machine stopped
  overlap,    \* history: did a call on files begin while another waited for the disk?
  crowd       \* history: did two tasks wait for the same stream at once?

local == <<phases, left, src, tok>>
locks == <<fs, manager, nb>>
input == <<fifo, arrived, buffer, got, waitq>>
disk == <<inflight, used, condvars>>
past == <<overlap, crowd>>
vars == <<hart, ready, pc, local, mask, cells, locks, input, disk, pending, irq, halted, past>>

-----------------------------------------------------------------------------
(* sync/up.rs *)

\* IntrMaskingInfo::enter
Enter(m) ==
  [sie |-> FALSE, level |-> m.level + 1, before |-> IF m.level = 0 THEN m.sie ELSE m.before]

\* Mutant: every exit restores SIE, the nested ones included.
ExitNested(m) ==
  [m EXCEPT !.level = @ - 1, !.sie = m.before]

\* IntrMaskingInfo::exit
Exit(m) ==
  [m EXCEPT !.level = @ - 1, !.sie = IF m.level = 1 /\ m.before THEN TRUE ELSE @]

\* An exclusive_session that a step begins and ends.
Session(m) == Exit(Enter(m))

Init ==
  /\ hart = Nobody /\ ready \in {s \in [1 .. Cardinality(Tasks) -> Tasks] : Range(s) = Tasks}
  /\ pc = [t \in Tasks |-> "trap"]
  /\ phases = [t \in Tasks |-> <<>>] /\ left = [t \in Tasks |-> 0]
  /\ src = [t \in Tasks |-> "uart"] /\ tok = [t \in Tasks |-> NoToken]
  /\ mask = [sie |-> FALSE, level |-> 0, before |-> FALSE]
  /\ cells = {}
  /\ fs = Nobody /\ manager = Nobody /\ nb = TRUE
  /\ fifo = [s \in Streams |-> <<>>] /\ buffer = [s \in Streams |-> <<>>]
  /\ arrived = [s \in Streams |-> 0] /\ got = [s \in Streams |-> 0]
  /\ waitq = [s \in Streams |-> <<>>]
  /\ inflight = {} /\ used = <<>> /\ condvars = [k \in Tokens |-> <<>>]
  /\ pending = {} /\ irq = NoIrq
  /\ halted = "no" /\ overlap = FALSE /\ crowd = FALSE

\* The hart executes t outside of any interrupt handler.
Running(t, where) == halted = "no" /\ irq = NoIrq /\ hart = t /\ pc[t] = where

Goto(t, where) == pc' = [pc EXCEPT ![t] = where]

\* A panic, or a spin lock whose owner cannot run: kernel code is not preempted.
Halt(why) ==
  /\ halted' = why
  /\ UNCHANGED <<hart, ready, pc, local, mask, cells, locks, input, disk, pending, irq, past>>

\* exclusive_access that lasts beyond the step.
Borrow(c) == c \notin cells /\ cells' = cells \cup {c} /\ mask' = Enter(mask)

\* Drop for UPIntrRefMut, after the nested session of a condvar.
Release(c) == cells' = cells \ {c} /\ mask' = Exit(mask)

-----------------------------------------------------------------------------
(* task/processor.rs and the entry to and exit from the kernel *)

run_tasks ==
  /\ halted = "no" /\ irq = NoIrq /\ hart = Nobody /\ ready # <<>>
  /\ hart' = Head(ready) /\ ready' = Tail(ready)
  /\ mask' = Session(mask)
  /\ UNCHANGED <<pc, local, cells, locks, input, disk, pending, irq, halted, past>>

\* schedule, by a task that is in a wait queue or was woken from it since.
schedule(t, from, to) ==
  /\ Running(t, from)
  /\ hart' = Nobody /\ Goto(t, to)
  /\ mask' = Session(mask)
  /\ UNCHANGED <<ready, local, cells, locks, input, disk, pending, irq, halted, past>>

\* suspend_current_and_run_next: by the timer arm of user_handler, with SIE clear,
\* or by sys_yield, with SIE set.
suspend(t, sie) ==
  /\ Running(t, "user")
  /\ hart' = Nobody /\ ready' = Append(ready, t) /\ Goto(t, "trap")
  /\ mask' = Session([mask EXCEPT !.sie = sie])
  /\ UNCHANGED <<local, cells, locks, input, disk, pending, irq, halted, past>>

preempt(t) == suspend(t, FALSE)
sys_yield(t) == suspend(t, TRUE)

\* The end of user_handler and leave.
leave(t) ==
  /\ Running(t, "trap")
  /\ Goto(t, "user") /\ mask' = [mask EXCEPT !.sie = FALSE]
  /\ UNCHANGED <<hart, ready, local, cells, locks, input, disk, pending, irq, halted, past>>

\* A system call enters the kernel: SIE is set.
syscall(t, to) ==
  /\ Running(t, "user")
  /\ Goto(t, to) /\ mask' = Session([mask EXCEPT !.sie = TRUE])

-----------------------------------------------------------------------------
(* drivers/chardev/ns16550a.rs and drivers/input/mod.rs: the console, the    *)
(* keyboard and the mouse are read alike.                                    *)

\* sys_read on stdin
sys_read(t) ==
  /\ syscall(t, "read") /\ src' = [src EXCEPT ![t] = "uart"]
  /\ UNCHANGED <<hart, ready, phases, left, tok, cells, locks, input, disk, pending, irq, halted, past>>

\* sys_event_get: the keyboard first, then the mouse; an empty device is not read.
sys_event_get(t) ==
  /\ \/ \E s \in {"keyboard", "mouse"} :
          /\ buffer[s] # <<>> /\ (s = "mouse" => buffer["keyboard"] = <<>>)
          /\ syscall(t, "read") /\ src' = [src EXCEPT ![t] = s]
     \/ /\ buffer["keyboard"] = <<>> /\ buffer["mouse"] = <<>>
        /\ syscall(t, "trap") /\ UNCHANGED src
  /\ UNCHANGED <<hart, ready, phases, left, tok, cells, locks, input, disk, pending, irq, halted, past>>

\* sys_key_pressed looks into the buffer of the console.
sys_key_pressed(t) ==
  /\ syscall(t, "trap")
  /\ UNCHANGED <<hart, ready, local, cells, locks, input, disk, pending, irq, halted, past>>

\* CharDevice::read and InputDevice::read_event: the cell is borrowed ...
read(t) ==
  /\ Running(t, "read")
  /\ \/ src[t] \in cells /\ Halt("borrowed")
     \/ /\ Borrow(src[t]) /\ Goto(t, "reading")
        /\ UNCHANGED <<hart, ready, local, locks, input, disk, pending, irq, halted, past>>

\* ... an input is taken from the buffer ...
pop_front(t) ==
  LET s == src[t] IN
  /\ Running(t, "reading") /\ buffer[s] # <<>>
  /\ buffer' = [buffer EXCEPT ![s] = Tail(@)] /\ got' = [got EXCEPT ![s] = @ + 1]
  /\ Release(s) /\ Goto(t, "trap") /\ src' = [src EXCEPT ![t] = "uart"]
  /\ UNCHANGED <<hart, ready, phases, left, tok, locks, fifo, arrived, waitq, disk, pending, irq, halted, past>>

\* Mutant: the cell is released before the task is in the wait queue.
WaitAfterRelease(t) ==
  LET s == src[t] IN
  /\ \/ /\ Running(t, "reading") /\ buffer[s] = <<>>
        /\ Release(s) /\ Goto(t, "queueing") /\ UNCHANGED <<waitq, crowd>>
     \/ /\ Running(t, "queueing")
        /\ waitq' = [waitq EXCEPT ![s] = Append(@, t)]
        /\ crowd' = (crowd \/ waitq[s] # <<>>)
        /\ Goto(t, "read_sched") /\ UNCHANGED <<cells, mask>>
  /\ UNCHANGED <<hart, ready, local, locks, fifo, arrived, buffer, got, disk, pending, irq,
                 halted, overlap>>

\* ... or the task is put in the wait queue (wait_no_sched) before the cell is
\* released; the scheduler is called after that.
wait_no_sched(t) ==
  LET s == src[t] IN
  /\ Running(t, "reading") /\ buffer[s] = <<>>
  /\ waitq' = [waitq EXCEPT ![s] = Append(@, t)]
  /\ crowd' = (crowd \/ waitq[s] # <<>>)
  /\ cells' = cells \ {s} /\ mask' = Exit(Session(mask))
  /\ Goto(t, "read_sched")
  /\ UNCHANGED <<hart, ready, local, locks, fifo, arrived, buffer, got, disk, pending, irq,
                 halted, overlap>>

\* sys_write on stdout: NS16550a::write polls the device with its cell borrowed.
sys_write(t) ==
  /\ syscall(t, "write")
  /\ UNCHANGED <<hart, ready, local, cells, locks, input, disk, pending, irq, halted, past>>

write(t) ==
  /\ Running(t, "write")
  /\ \/ "uart" \in cells /\ Halt("borrowed")
     \/ /\ Borrow("uart") /\ Goto(t, "writing")
        /\ UNCHANGED <<hart, ready, local, locks, input, disk, pending, irq, halted, past>>

written(t) ==
  /\ Running(t, "writing")
  /\ Release("uart") /\ Goto(t, "trap")
  /\ UNCHANGED <<hart, ready, local, locks, input, disk, pending, irq, halted, past>>

-----------------------------------------------------------------------------
(* Calls on files *)

\* A phase of a call: the cell it borrows throughout, whether it takes the lock of
\* the file system, and whether it switches the driver to polling.
\* OSInode::read, write and read_all
Io(c) == [cell |-> c, lock |-> TRUE, poll |-> FALSE]
\* OSInode::file_size and mode
Meta(c) == [cell |-> c, lock |-> FALSE, poll |-> FALSE]
\* inode::find, create, clear, delete
Path == [cell |-> NoCell, lock |-> TRUE, poll |-> FALSE]
\* The work of fork, exec and Drop for ProcessControlBlock on /proc, with the cell
\* of a PCB or TCB (here t) borrowed.
Proc(t) == [cell |-> t, lock |-> TRUE, poll |-> TRUE]

\* The calls of a task: read or write, fstat, open and the like, fork or waitpid, exec,
\* which reads a file it opened for itself.
Calls(t) ==
  IF t = Daemon THEN {<<Proc(t)>>}
  ELSE {<<Io(f)>> : f \in Files} \cup {<<Meta(f)>> : f \in Files}
       \cup {<<Path>>, <<Proc(t)>>, <<Path, Io(t), Proc(t)>>}

sys_file(t) ==
  /\ syscall(t, "phase")
  /\ \E c \in Calls(t) : phases' = [phases EXCEPT ![t] = c]
  /\ UNCHANGED <<hart, ready, left, src, tok, cells, locks, input, disk, pending, irq, halted, past>>

\* Waiting for the disk, or woken and not running yet.
AtDisk(t) == pc[t] \in {"disk_sched", "disk_done"}

\* A phase begins: the cell is borrowed, the driver set to polling, the lock taken.
begin_phase(t) ==
  LET p == Head(phases[t])
      over == overlap \/ \E u \in Tasks \ {t} : AtDisk(u)
  IN /\ Running(t, "phase")
     /\ \/ /\ p.cell \in cells \/ (p.lock /\ fs # Nobody)
           /\ halted' = (IF p.cell \in cells THEN "borrowed" ELSE "spin")
           /\ overlap' = over
           /\ UNCHANGED <<hart, ready, pc, local, mask, cells, locks, input, disk, pending, irq, crowd>>
        \/ /\ p.cell \notin cells /\ (p.lock => fs = Nobody)
           /\ IF p.cell = NoCell THEN UNCHANGED <<cells, mask>> ELSE Borrow(p.cell)
           /\ fs' = (IF p.lock THEN t ELSE fs)
           /\ nb' = (nb /\ ~p.poll)
           /\ \E n \in 1 .. MaxAccess : left' = [left EXCEPT ![t] = n]
           /\ overlap' = over
           /\ Goto(t, "access")
           /\ UNCHANGED <<hart, ready, phases, src, tok, manager, input, disk, pending, irq, halted, crowd>>

\* Mutant: the lock of the file system is kept when the phase ends.
EndPhaseKeepsLock(t) ==
  LET p == Head(phases[t])
  IN /\ Running(t, "access") /\ left[t] = 0
     /\ IF p.cell = NoCell THEN UNCHANGED <<cells, mask>> ELSE Release(p.cell)
     /\ nb' = (nb \/ p.poll)
     /\ phases' = [phases EXCEPT ![t] = Tail(@)]
     /\ Goto(t, IF Len(phases[t]) = 1 THEN "trap" ELSE "phase")
     /\ UNCHANGED <<hart, ready, left, src, tok, fs, manager, input, disk, pending, irq, halted, past>>

\* The phase ends: all it took is released.
end_phase(t) ==
  LET p == Head(phases[t])
  IN /\ Running(t, "access") /\ left[t] = 0
     /\ IF p.cell = NoCell THEN UNCHANGED <<cells, mask>> ELSE Release(p.cell)
     /\ fs' = (IF p.lock THEN Nobody ELSE fs)
     /\ nb' = (nb \/ p.poll)
     /\ phases' = [phases EXCEPT ![t] = Tail(@)]
     /\ Goto(t, IF Len(phases[t]) = 1 THEN "trap" ELSE "phase")
     /\ UNCHANGED <<hart, ready, left, src, tok, manager, input, disk, pending, irq, halted, past>>

\* block_cache::get or sync_all: what is cached takes no time, otherwise the lock of
\* the manager is held while a block is written or read.
access(t) ==
  /\ Running(t, "access") /\ left[t] > 0
  /\ \/ manager # Nobody /\ Halt("spin")
     \/ /\ manager = Nobody
        /\ \/ /\ left' = [left EXCEPT ![t] = @ - 1] /\ UNCHANGED <<pc, manager>>
           \/ /\ manager' = t /\ Goto(t, "request") /\ UNCHANGED left
        /\ UNCHANGED <<hart, ready, phases, src, tok, mask, cells, fs, nb, input, disk, pending, irq,
                       halted, past>>

-----------------------------------------------------------------------------
(* drivers/block/virtio_blk.rs *)

\* read_block or write_block: the cell of the device is borrowed.
read_block(t) ==
  /\ Running(t, "request")
  /\ \/ Blk \in cells /\ Halt("borrowed")
     \/ /\ Borrow(Blk) /\ Goto(t, "submit")
        /\ UNCHANGED <<hart, ready, local, locks, input, disk, pending, irq, halted, past>>

NewToken(t, k) ==
  /\ k \notin inflight /\ k \notin Range(used)
  /\ inflight' = inflight \cup {k} /\ tok' = [tok EXCEPT ![t] = k]

\* Mutant: the task is not in the wait queue of its own token.
SubmitWaitsElsewhere(t) ==
  /\ Running(t, "submit") /\ nb
  /\ \E k \in Tokens :
       /\ NewToken(t, k)
       /\ \E j \in Tokens : condvars' = [condvars EXCEPT ![j] = Append(@, t)]
  /\ cells' = cells \ {Blk} /\ mask' = Exit(Session(mask))
  /\ Goto(t, "disk_sched")
  /\ UNCHANGED <<hart, ready, phases, left, src, locks, input, used, pending, irq, halted, past>>

\* Non-blocking: the request is submitted and the task put in the wait queue of its
\* token before the cell is released.
submit_nb(t) ==
  /\ Running(t, "submit") /\ nb
  /\ \E k \in Tokens : NewToken(t, k) /\ condvars' = [condvars EXCEPT ![k] = Append(@, t)]
  /\ cells' = cells \ {Blk} /\ mask' = Exit(Session(mask))
  /\ Goto(t, "disk_sched")
  /\ UNCHANGED <<hart, ready, phases, left, src, locks, input, used, pending, irq, halted, past>>

\* Polling: the cell stays borrowed until something is in the used ring.
submit(t) ==
  /\ Running(t, "submit") /\ ~nb
  /\ \E k \in Tokens : NewToken(t, k)
  /\ Goto(t, "poll")
  /\ UNCHANGED <<hart, ready, phases, left, src, mask, cells, locks, input, used, condvars, pending,
                 irq, halted, past>>

poll(t) ==
  /\ Running(t, "poll") /\ used # <<>>
  /\ used' = Tail(used)
  /\ Release(Blk) /\ Goto(t, "disk_done")
  /\ UNCHANGED <<hart, ready, local, locks, input, inflight, condvars, pending, irq, halted, past>>

\* The request is done, or the assertion on its response fails; the manager's lock is
\* kept for another block (an eviction before a load, sync_all) or released.
disk_done(t) ==
  /\ Running(t, "disk_done")
  /\ \/ (tok[t] \in inflight \/ tok[t] \in Range(used)) /\ Halt("response")
     \/ /\ tok[t] \notin inflight /\ tok[t] \notin Range(used)
        /\ left' = [left EXCEPT ![t] = @ - 1] /\ tok' = [tok EXCEPT ![t] = NoToken]
        /\ \/ left[t] > 1 /\ Goto(t, "request") /\ UNCHANGED manager
           \/ manager' = Nobody /\ Goto(t, "access")
        /\ UNCHANGED <<hart, ready, phases, src, mask, cells, fs, nb, input, disk, pending, irq,
                       halted, past>>

-----------------------------------------------------------------------------
(* Interrupts *)

\* external: an input reaches a device, the disk completes a request.
arrive(s) ==
  /\ halted = "no" /\ arrived["uart"] + arrived["keyboard"] + arrived["mouse"] < MaxInput
  /\ arrived' = [arrived EXCEPT ![s] = @ + 1]
  /\ fifo' = [fifo EXCEPT ![s] = Append(@, arrived[s] + 1)]
  /\ pending' = pending \cup {s}
  /\ UNCHANGED <<hart, ready, pc, local, mask, cells, locks, buffer, got, waitq, disk, irq, halted, past>>

complete(k) ==
  /\ halted = "no" /\ k \in inflight
  /\ inflight' = inflight \ {k} /\ used' = Append(used, k)
  /\ pending' = pending \cup {Blk}
  /\ UNCHANGED <<hart, ready, pc, local, mask, cells, locks, input, condvars, irq, halted, past>>

InUser == hart # Nobody /\ pc[hart] = "user"

\* irq_handler claims a source, from user code or from kernel code with SIE set, and
\* handle_irq borrows the cell of the device.
claim(d) ==
  /\ halted = "no" /\ irq = NoIrq /\ d \in pending
  /\ mask.sie \/ InUser
  /\ \/ d \in cells /\ Halt("irq_borrowed")
     \/ /\ d \notin cells
        /\ cells' = cells \cup {d} /\ mask' = Enter([mask EXCEPT !.sie = FALSE])
        /\ irq' = d /\ pending' = pending \ {d}
        /\ UNCHANGED <<hart, ready, pc, local, locks, input, disk, halted, past>>

\* The cell is released, the source completed, and sret brings back SIE.
EndIrq(m) == [m EXCEPT !.sie = ~InUser]

\* Mutant: the first of the queue is popped and not made ready.
SignalPopsOnly(q) == UNCHANGED ready

\* Condvar::signal: the first of the queue becomes ready.
Signal(q) == ready' = (IF q = <<>> THEN ready ELSE Append(ready, Head(q)))
Rest(q) == IF q = <<>> THEN q ELSE Tail(q)

\* What the buffer holds once read, or pop_pending_event, finds nothing more.
Drained(s) == buffer[s] \o fifo[s]

\* One waiting task is woken if anything had arrived.
WakeReader(s) ==
  IF fifo[s] = <<>> THEN UNCHANGED <<ready, waitq>>
  ELSE Signal(waitq[s]) /\ waitq' = [waitq EXCEPT ![s] = Rest(@)]

\* handle_irq of the console and the input devices.
handle_irq(s) ==
  /\ halted = "no" /\ irq = s
  /\ buffer' = [buffer EXCEPT ![s] = Drained(s)] /\ fifo' = [fifo EXCEPT ![s] = <<>>]
  /\ WakeReader(s)
  /\ cells' = cells \ {s} /\ irq' = NoIrq
  /\ mask' = EndIrq(Session(Exit(mask)))
  /\ UNCHANGED <<hart, pc, local, locks, arrived, got, disk, pending, halted, past>>

\* Mutant: the used ring is not popped.
HandleIrqBlkKeepsUsed ==
  /\ halted = "no" /\ irq = Blk
  /\ \/ /\ used # <<>>
        /\ LET k == Head(used) IN
             /\ Signal(condvars[k])
             /\ condvars' = [condvars EXCEPT ![k] = Rest(@)]
        /\ mask' = Session(mask)
        /\ UNCHANGED <<cells, irq>>
     \/ /\ used = <<>>
        /\ cells' = cells \ {Blk} /\ irq' = NoIrq
        /\ mask' = EndIrq(Exit(mask))
        /\ UNCHANGED <<ready, condvars>>
  /\ UNCHANGED <<hart, pc, local, locks, input, inflight, used, pending, halted, past>>

\* handle_irq of the disk: the waiting task of each token in the used ring is woken.
handle_irq_blk ==
  /\ halted = "no" /\ irq = Blk
  /\ \/ /\ used # <<>>
        /\ LET k == Head(used) IN
             /\ Signal(condvars[k])
             /\ condvars' = [condvars EXCEPT ![k] = Rest(@)]
        /\ used' = Tail(used)
        /\ mask' = Session(mask)
        /\ UNCHANGED <<cells, irq>>
     \/ /\ used = <<>>
        /\ cells' = cells \ {Blk} /\ irq' = NoIrq
        /\ mask' = EndIrq(Exit(mask))
        /\ UNCHANGED <<ready, used, condvars>>
  /\ UNCHANGED <<hart, pc, local, locks, input, inflight, pending, halted, past>>

-----------------------------------------------------------------------------

\* What a program may ask for; the daemon only forks, waits and yields.
User(t) ==
  \/ preempt(t) \/ sys_yield(t) \/ sys_file(t)
  \/ t # Daemon /\ (sys_read(t) \/ sys_event_get(t) \/ sys_key_pressed(t) \/ sys_write(t))

\* What kernel code does on behalf of t.
Kernel(t) ==
  \/ leave(t)
  \/ read(t) \/ pop_front(t) \/ wait_no_sched(t) \/ schedule(t, "read_sched", "read")
  \/ write(t) \/ written(t)
  \/ begin_phase(t) \/ access(t) \/ end_phase(t)
  \/ read_block(t) \/ submit_nb(t) \/ schedule(t, "disk_sched", "disk_done")
  \/ submit(t) \/ poll(t) \/ disk_done(t)

Handler == handle_irq_blk \/ \E s \in Streams : handle_irq(s)

\* What the hart does next when it is not in user code: one of these at a time.
Hart == run_tasks \/ Handler \/ \E t \in Tasks : Kernel(t)

Next ==
  \/ Hart
  \/ \E t \in Tasks : User(t)
  \/ \E d \in Devices : claim(d)
  \/ \E s \in Streams : arrive(s)
  \/ \E k \in Tokens : complete(k)

Spec == Init /\ [][Next]_vars

\* The hart goes on with the kernel code it is in; the disk completes its requests;
\* a pending interrupt is taken when that is possible again and again; the timer
\* preempts user code.
FairSpec ==
  /\ Spec
  /\ WF_vars(Hart)
  /\ SF_vars(\E t \in Tasks : preempt(t))
  /\ SF_vars(claim("uart")) /\ SF_vars(claim(Blk))
  /\ WF_vars(\E k \in Tokens : complete(k))

-----------------------------------------------------------------------------
(* Properties *)

\* Types of the state of the hart, of the tasks and of the devices.
TypeOK ==
  /\ hart \in Tasks \cup {Nobody} /\ ready \in Seq(Tasks)
  /\ DOMAIN pc = Tasks /\ phases \in [Tasks -> Seq([cell : Files \cup Tasks \cup {NoCell},
                                                    lock : BOOLEAN, poll : BOOLEAN])]
  /\ left \in [Tasks -> 0 .. MaxAccess] /\ src \in [Tasks -> Streams] /\ tok \in [Tasks -> Tokens \cup {NoToken}]
  /\ mask \in [sie : BOOLEAN, level : Nat, before : BOOLEAN]
  /\ cells \subseteq Files \cup Tasks \cup Devices
  /\ {fs, manager} \subseteq Tasks \cup {Nobody} /\ nb \in BOOLEAN
  /\ fifo \in [Streams -> Seq(Nat)] /\ buffer \in [Streams -> Seq(Nat)]
  /\ waitq \in [Streams -> Seq(Tasks)]
  /\ inflight \subseteq Tokens /\ used \in Seq(Tokens) /\ condvars \in [Tokens -> Seq(Tasks)]
  /\ pending \subseteq Devices /\ irq \in Devices \cup {NoIrq}

\* An interrupt handler never finds the cell of its device borrowed, in whatever order
\* tasks suspended inside of a borrow, nested borrows and interrupts follow each other:
\* while such a cell is borrowed SIE is clear and the hart is not in user code.  The
\* nesting level counts the borrows of all tasks, the suspended ones included.
HandlersFindCellsFree ==
  /\ TypeOK
  /\ halted # "irq_borrowed"
  /\ mask.level = Cardinality(cells)
  /\ cells \cap Devices # {} => ~mask.sie /\ (InUser => irq # NoIrq)

\* Nothing stops the machine as long as no call on files begins while another one waits
\* for the disk: no cell is borrowed twice, no lock spins on an owner that cannot run,
\* and the driver finds its own response, polling or not.
OnlyOverlapHalts == halted # "no" => overlap

\* A task asleep in the disk driver is always still to be woken: the request of the
\* queue it is in is at the disk, or in the used ring and an interrupt is on its way.
\* It holds the lock of the block cache, so no other request is about.
DiskSleepersWillWake ==
  /\ \A k \in Tokens : \A t \in Range(condvars[k]) :
       tok[t] = k /\ AtDisk(t) /\ (k \in inflight \/ k \in Range(used))
  /\ \A k \in inflight \cup Range(used) : manager # Nobody /\ tok[manager] = k
  /\ used # <<>> => Blk \in pending \/ irq = Blk

\* Inputs reach the readers in the order of their arrival, none lost or read twice; a task
\* waits for the console only while there is nothing to read, unless two waited at once,
\* and sys_event_get never waits.
InputInOrder ==
  /\ \A s \in Streams :
       buffer[s] \o fifo[s] = [i \in 1 .. arrived[s] - got[s] |-> got[s] + i]
  /\ waitq["uart"] # <<>> /\ ~crowd => buffer["uart"] = <<>>
  /\ waitq["keyboard"] = <<>> /\ waitq["mouse"] = <<>>

\* Every wait for the disk ends and the lock of the block cache is released: interrupts
\* are taken although the caller may sleep with interrupts masked, because the daemon
\* always has user code to run.
DiskWaitsEnd == []<>(manager = Nobody \/ halted # "no")

\* An input of the console is read when somebody wants it.
InputIsRead ==
  \A n \in 0 .. MaxInput - 1 :
    (got["uart"] = n /\ arrived["uart"] > n /\ \E t \in Users : pc[t] \in {"read", "read_sched"} /\ src[t] = "uart")
      ~> (got["uart"] > n \/ crowd \/ halted # "no")
=============================================================================
