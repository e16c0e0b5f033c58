--------------------------- MODULE Drivers_proofs ---------------------------
(***************************************************************************)
(* Interrupt masking, the order of inputs, waits for the disk and what     *)
(* stops the machine, for any number of tasks, files, tokens and inputs.   *)
(* First what single steps do: who has borrowed which cell before and      *)
(* after, how the mask moves with it, and what happens to the inputs.      *)
(* They keep: a cell of a device is borrowed by the handler or by the task *)
(* on the hart and never across schedule, a cell of a file or a process by *)
(* one call on files, and that a reader of an input device finds an event. *)
(* From these steps: the nesting level counts the borrows of all tasks, so *)
(* Inv is kept.                                                            *)
(***************************************************************************)
EXTENDS Drivers, SequenceFacts, FiniteSets, TLAPS

\* The prover of the leaves that name none: arithmetic, tuples and sequences need SMT.
USE ZenonT(30)

Mask == [sie : BOOLEAN, level : Nat, before : BOOLEAN]
Phase == [cell : Files \cup Tasks \cup {NoCell}, lock : BOOLEAN, poll : BOOLEAN]

\* Where a task has borrowed the cell of a device, and which one.
AtDevice == {"reading", "writing", "submit", "poll"}
DeviceOf(t) == IF pc[t] = "reading" THEN src[t] ELSE IF pc[t] = "writing" THEN "uart" ELSE Blk

\* The cells of devices that are borrowed: by the handler, or else by the task on the hart.
Borrowed ==
  IF irq # NoIrq THEN {irq}
  ELSE IF hart # Nobody /\ pc[hart] \in AtDevice THEN {DeviceOf(hart)} ELSE {}

\* Where a task has begun a phase, and where it waits for a block or is about to.
InPhase == {"access", "request", "submit", "poll", "disk_sched", "disk_done"}
AtBlock == InPhase \ {"access"}

PhaseCell(t) == Head(phases[t]).cell

TypeInv ==
  /\ TypeOK
  /\ arrived \in [Streams -> Nat] /\ got \in [Streams -> Nat] /\ crowd \in BOOLEAN

\* A task has the cell of a device only while it is on the hart, outside of a handler.
DeviceInv == \A t \in Tasks : pc[t] \in AtDevice => hart = t /\ irq = NoIrq

\* A task in a phase has its cell, and no other task has the same.
PhaseInv ==
  \A t \in Tasks :
    /\ pc[t] \in InPhase \cup {"phase"} => phases[t] # <<>>
    /\ pc[t] \in InPhase /\ PhaseCell(t) # NoCell =>
         /\ PhaseCell(t) \in cells
         /\ \A u \in Tasks : pc[u] \in InPhase /\ PhaseCell(u) = PhaseCell(t) => u = t
    /\ pc[t] \in AtBlock => left[t] > 0

\* The nesting level counts the borrows, and interrupts are masked while a handler could
\* find the cell of its device borrowed.
MaskInv ==
  /\ IsFiniteSet(cells) /\ mask.level = Cardinality(cells)
  /\ cells \cap Devices = Borrowed
  /\ Borrowed # {} => ~mask.sie
  /\ halted # "irq_borrowed"

\* The inputs in the buffer and the device are those that arrived and were not returned.
Queued(s) == Numbered(buffer[s] \o fifo[s], arrived[s], got[s])

\* An input device is read only with an event in its buffer, by the task on the hart.
ReaderInv ==
  \A t \in Tasks : src[t] # "uart" =>
    pc[t] \in {"read", "reading"} /\ hart = t /\ buffer[src[t]] # <<>>

\* A task waits beside a full buffer only after two waited at once.
WaitInv ==
  /\ waitq["keyboard"] = <<>> /\ waitq["mouse"] = <<>>
  /\ ~crowd => Len(waitq["uart"]) <= 1
  /\ waitq["uart"] # <<>> /\ ~crowd => buffer["uart"] = <<>>

InputInv == (\A s \in Streams : Queued(s)) /\ ReaderInv /\ WaitInv

-----------------------------------------------------------------------------
(* Masking *)

\* What enter, exit and a session do to the mask.
LEMMA MaskOps ==
  ASSUME NEW m \in Mask
  PROVE  /\ Enter(m) \in Mask /\ Enter(m).level = m.level + 1 /\ ~Enter(m).sie
         /\ m.level > 0 => Exit(m) \in Mask /\ Exit(m).level = m.level - 1
         /\ Session(m) \in Mask /\ Session(m).level = m.level /\ (Session(m).sie => m.sie)
         /\ \A b \in BOOLEAN :
              /\ [m EXCEPT !.sie = b] \in Mask /\ [m EXCEPT !.sie = b].level = m.level
              /\ [m EXCEPT !.sie = b].sie = b
<1>1. m.sie \in BOOLEAN /\ m.level \in Nat /\ m.before \in BOOLEAN
  BY DEF Mask
<1>2. Enter(m) \in Mask /\ Enter(m).level = m.level + 1 /\ ~Enter(m).sie
  <2> DEFINE b == IF m.level = 0 THEN m.sie ELSE m.before
  <2>1. b \in BOOLEAN
    BY <1>1
  <2>2. Enter(m) = [sie |-> FALSE, level |-> m.level + 1, before |-> b]
    BY DEF Enter
  <2> HIDE DEF b
  <2> QED
    BY <1>1, <2>1, <2>2, SMTT(30) DEF Mask
<1>3. ASSUME NEW n \in Mask, n.level > 0
      PROVE  Exit(n) \in Mask /\ Exit(n).level = n.level - 1
  <2> DEFINE b == IF n.level = 1 /\ n.before THEN TRUE ELSE n.sie
  <2>0. n.sie \in BOOLEAN /\ n.level \in Nat
    BY DEF Mask
  <2>1. n.level - 1 \in Nat
    BY <1>3, <2>0, SMTT(30)
  <2>2. b \in BOOLEAN
    BY <2>0
  <2>3. Exit(n) = [n EXCEPT !.level = n.level - 1, !.sie = b]
    BY DEF Exit
  <2> HIDE DEF b
  <2> QED
    BY <2>1, <2>2, <2>3 DEF Mask
<1>4. Session(m) \in Mask /\ Session(m).level = m.level
  <2>1. Enter(m).level > 0 /\ Enter(m).level - 1 = m.level
    BY <1>1, <1>2, SMTT(30)
  <2> QED
    BY <1>2, <1>3, <2>1 DEF Session
<1>5. Session(m).sie => m.sie
  <2>1. CASE m.level = 0
    BY <1>1, <2>1 DEF Session, Exit, Enter, Mask
  <2>2. CASE m.level # 0
    BY <1>1, <2>2, SMTT(30) DEF Session, Exit, Enter, Mask
  <2> QED
    BY <2>1, <2>2
<1>6. \A b \in BOOLEAN :
        /\ [m EXCEPT !.sie = b] \in Mask /\ [m EXCEPT !.sie = b].level = m.level
        /\ [m EXCEPT !.sie = b].sie = b
  BY DEF Mask
<1> QED
  BY <1>2, <1>3, <1>4, <1>5, <1>6

\* What a step may do to the cells and the mask: nothing, ...
Keeps ==
  /\ cells' = cells /\ mask' \in Mask /\ mask'.level = mask.level
  /\ Borrowed' = Borrowed /\ (Borrowed # {} => ~mask'.sie)

\* ... borrow a cell, which leaves interrupts masked, ...
BorrowsOne(c) ==
  /\ c \notin cells /\ cells' = cells \cup {c}
  /\ mask' \in Mask /\ mask'.level = mask.level + 1
  /\ Borrowed' = Borrowed \cup ({c} \cap Devices) /\ ~mask'.sie

\* ... or release one, after which no cell of a device is borrowed.
ReleasesOne(c) ==
  /\ c \in cells /\ cells' = cells \ {c}
  /\ mask' \in Mask /\ mask'.level = mask.level - 1
  /\ Borrowed \subseteq {c} /\ Borrowed' = {}

\* Every step does one of these.
MaskMove ==
  /\ mask' \in Mask /\ halted' # "irq_borrowed"
  /\ Keeps \/ (\E c : BorrowsOne(c)) \/ (\E c : ReleasesOne(c))

\* A borrowed cell is counted.
LevelOK == cells # {} => mask.level > 0

-----------------------------------------------------------------------------
(* Types *)

\* Queues of any kind.
LEMMA Queues ==
  ASSUME NEW S
  PROVE  /\ \A q \in Seq(S), x \in S : Append(q, x) \in Seq(S)
         /\ \A q \in Seq(S) : q # <<>> => Head(q) \in S /\ Tail(q) \in Seq(S)
         /\ \A p, q \in Seq(S) : p \o q \in Seq(S)
BY SMTT(30)

\* What follows the first of several.
LEMMA Others ==
  ASSUME NEW S, NEW q \in Seq(S), q # <<>>, Len(q) # 1
  PROVE  Tail(q) # <<>>
<1>1. Len(q) \in Nat /\ Len(q) # 0 /\ Len(Tail(q)) = Len(q) - 1 /\ Tail(q) \in Seq(S)
  BY LenProperties, EmptySeq, HeadTailProperties
<1>2. Len(Tail(q)) # 0
  BY <1>1, SMTT(30)
<1> QED
  BY <1>1, <1>2, EmptySeq

\* The phases of a call.
LEMMA CallsType ==
  ASSUME NEW t \in Tasks, NEW c \in Calls(t)
  PROVE  c \in Seq(Phase) /\ c # <<>>
<1>1. /\ \A f \in Files \cup Tasks : Io(f) \in Phase /\ Meta(f) \in Phase
      /\ Path \in Phase /\ Proc(t) \in Phase
  BY DEF Io, Meta, Path, Proc, Phase
<1> DEFINE Good(q) == q \in Seq(Phase) /\ q # <<>>
<1>2. \A x, y, z \in Phase : Good(<<x>>) /\ Good(<<x, y, z>>)
  BY SMTT(30)
<1> HIDE DEF Good
<1>3. /\ \A f \in Files : Good(<<Io(f)>>) /\ Good(<<Meta(f)>>)
      /\ Good(<<Path>>) /\ Good(<<Proc(t)>>) /\ Good(<<Path, Io(t), Proc(t)>>)
  BY <1>1, <1>2
<1>4. Good(c)
  <2>1. CASE t = Daemon
    BY <1>3, <2>1 DEF Calls
  <2>2. CASE t # Daemon
    BY <1>3, <2>2 DEF Calls
  <2> QED
    BY <2>1, <2>2
<1> QED
  BY <1>4 DEF Good

\* TypeInv by parts: the hart, the tasks, the cells and locks, the inputs, the disk.
HartOK == hart \in Tasks \cup {Nobody} /\ ready \in Seq(Tasks) /\ DOMAIN pc = Tasks
LocalOK ==
  /\ phases \in [Tasks -> Seq(Phase)] /\ left \in [Tasks -> 0 .. MaxAccess]
  /\ src \in [Tasks -> Streams] /\ tok \in [Tasks -> Tokens \cup {NoToken}]
CellsOK ==
  /\ cells \subseteq Files \cup Tasks \cup Devices
  /\ fs \in Tasks \cup {Nobody} /\ manager \in Tasks \cup {Nobody} /\ nb \in BOOLEAN
InputOK ==
  /\ fifo \in [Streams -> Seq(Nat)] /\ buffer \in [Streams -> Seq(Nat)]
  /\ waitq \in [Streams -> Seq(Tasks)]
  /\ arrived \in [Streams -> Nat] /\ got \in [Streams -> Nat] /\ crowd \in BOOLEAN
DiskOK == inflight \subseteq Tokens /\ used \in Seq(Tokens) /\ condvars \in [Tokens -> Seq(Tasks)]
IrqOK == pending \subseteq Devices /\ irq \in Devices \cup {NoIrq}

\* The parts make up TypeInv.
LEMMA TypeParts ==
  TypeInv <=> HartOK /\ LocalOK /\ CellsOK /\ InputOK /\ DiskOK /\ IrqOK /\ mask \in Mask
BY DEF TypeInv, TypeOK, HartOK, LocalOK, CellsOK, InputOK, DiskOK, IrqOK, Mask, Phase

\* Condvar::signal makes a task ready and shortens the queue.
LEMMA SignalType ==
  ASSUME NEW q \in Seq(Tasks), ready \in Seq(Tasks)
  PROVE  (Signal(q) => ready' \in Seq(Tasks)) /\ Rest(q) \in Seq(Tasks)
BY Queues DEF Signal, Rest

\* Every step keeps the types of the hart and the ready queue.
LEMMA HartType ==
  ASSUME TypeInv, [Next]_vars
  PROVE  HartOK'
<1> USE DEF HartOK
<1>0. HartOK /\ waitq \in [Streams -> Seq(Tasks)] /\ condvars \in [Tokens -> Seq(Tasks)]
      /\ used \in Seq(Tokens)
  BY TypeParts DEF InputOK, DiskOK
<1>1. ASSUME run_tasks PROVE HartOK'
  BY <1>0, <1>1, Queues DEF run_tasks
<1>2. ASSUME NEW t \in Tasks, NEW b, suspend(t, b) PROVE HartOK'
  BY <1>0, <1>2, Queues DEF suspend, Goto
<1>3. ASSUME NEW t \in Tasks, NEW x, NEW y, schedule(t, x, y) PROVE HartOK'
  BY <1>0, <1>3 DEF schedule, Goto
<1>4. ASSUME NEW s \in Streams, handle_irq(s) PROVE HartOK'
  BY <1>0, <1>4, SignalType DEF handle_irq, WakeReader
<1>5. ASSUME handle_irq_blk PROVE HartOK'
  <2>1. CASE used = <<>>
    BY <1>0, <1>5, <2>1 DEF handle_irq_blk
  <2>2. CASE used # <<>>
    <3>1. Head(used) \in Tokens
      BY <1>0, <2>2, Queues
    <3> QED
      BY <1>0, <1>5, <2>2, <3>1, SignalType DEF handle_irq_blk
  <2> QED
    BY <2>1, <2>2
<1>6. ASSUME UNCHANGED <<hart, ready>>, UNCHANGED pc \/ \E t, x : Goto(t, x)
      PROVE  HartOK'
  BY <1>0, <1>6 DEF Goto
<1>7. ASSUME NEW t \in Tasks,
             \/ leave(t) \/ read(t) \/ pop_front(t) \/ wait_no_sched(t) \/ write(t) \/ written(t)
             \/ begin_phase(t) \/ access(t) \/ end_phase(t)
             \/ read_block(t) \/ submit_nb(t) \/ submit(t) \/ poll(t) \/ disk_done(t)
             \/ sys_file(t) \/ sys_read(t) \/ sys_event_get(t) \/ sys_key_pressed(t) \/ sys_write(t)
      PROVE  HartOK'
  <2>1. UNCHANGED <<hart, ready>>
    BY <1>7 DEF leave, read, pop_front, wait_no_sched, write, written, begin_phase, access,
       end_phase, read_block, submit_nb, submit, poll, disk_done, sys_file, sys_read,
       sys_event_get, sys_key_pressed, sys_write, Halt
  <2>2. UNCHANGED pc \/ \E x : Goto(t, x)
    BY <1>7 DEF leave, read, pop_front, wait_no_sched, write, written, begin_phase, access,
       end_phase, read_block, submit_nb, submit, poll, disk_done, sys_file, sys_read,
       sys_event_get, sys_key_pressed, sys_write, syscall, Halt
  <2> QED
    BY <1>6, <2>1, <2>2
<1>8. ASSUME \/ \E d \in Devices : claim(d)
             \/ \E s \in Streams : arrive(s)
             \/ \E k \in Tokens : complete(k)
             \/ UNCHANGED vars
      PROVE  HartOK'
  <2>1. UNCHANGED <<hart, ready, pc>>
    BY <1>8 DEF claim, arrive, complete, vars, Halt
  <2> QED
    BY <1>6, <2>1
<1> QED
  BY <1>1, <1>2, <1>3, <1>4, <1>5, <1>7, <1>8
  DEF Next, Hart, Kernel, User, Handler, preempt, sys_yield

\* Every step keeps the types of what belongs to a task.
LEMMA LocalType ==
  ASSUME TypeInv, PhaseInv, [Next]_vars
  PROVE  LocalOK'
<1> USE DEF LocalOK
<1>0. LocalOK /\ HartOK
  BY TypeParts
<1>1. ASSUME NEW t \in Tasks, sys_read(t) \/ sys_event_get(t) \/ pop_front(t) PROVE LocalOK'
  <2>1. UNCHANGED <<phases, left, tok>>
    BY <1>1 DEF sys_read, sys_event_get, pop_front
  <2>2. src' \in [Tasks -> Streams]
    BY <1>0, <1>1 DEF sys_read, sys_event_get, pop_front, Streams
  <2> QED
    BY <1>0, <2>1, <2>2
<1>2. ASSUME NEW t \in Tasks, sys_file(t) PROVE LocalOK'
  BY <1>0, <1>2, CallsType DEF sys_file
<1>3. ASSUME NEW t \in Tasks, begin_phase(t) PROVE LocalOK'
  <2>1. UNCHANGED <<phases, src, tok>>
    BY <1>3 DEF begin_phase, local
  <2>2. UNCHANGED left \/ \E n \in 1 .. MaxAccess : left' = [left EXCEPT ![t] = n]
    BY <1>3 DEF begin_phase, local
  <2>3. left' \in [Tasks -> 0 .. MaxAccess]
    <3>1. CASE UNCHANGED left
      BY <1>0, <3>1
    <3>2. ASSUME NEW n \in 1 .. MaxAccess, left' = [left EXCEPT ![t] = n]
          PROVE  left' \in [Tasks -> 0 .. MaxAccess]
      <4>1. n \in 0 .. MaxAccess
        BY DriversAssumption, SMTT(30)
      <4> QED
        BY <1>0, <3>2, <4>1
    <3> QED
      BY <2>2, <3>1, <3>2
  <2> QED
    BY <1>0, <2>1, <2>3
<1>4. ASSUME NEW t \in Tasks, end_phase(t) PROVE LocalOK'
  <2>1. UNCHANGED <<left, src, tok>> /\ phases' = [phases EXCEPT ![t] = Tail(@)]
    BY <1>4 DEF end_phase
  <2>2. phases[t] \in Seq(Phase) /\ phases[t] # <<>>
    BY <1>0, <1>4 DEF end_phase, Running, PhaseInv, InPhase
  <2>3. Tail(phases[t]) \in Seq(Phase)
    BY <2>2, Queues
  <2> QED
    BY <1>0, <2>1, <2>3
<1>5. ASSUME NEW t \in Tasks, access(t) \/ disk_done(t) PROVE LocalOK'
  <2>1. UNCHANGED <<phases, src>> /\ (UNCHANGED tok \/ tok' = [tok EXCEPT ![t] = NoToken])
    BY <1>5 DEF access, disk_done, Halt, local
  <2>2. \/ UNCHANGED left
        \/ left[t] > 0 /\ left' = [left EXCEPT ![t] = @ - 1]
    <3>1. CASE access(t)
      BY <3>1 DEF access, Halt, local
    <3>2. CASE disk_done(t)
      <4>1. left[t] > 0
        BY <3>2 DEF disk_done, Running, PhaseInv, AtBlock, InPhase
      <4>2. UNCHANGED left \/ left' = [left EXCEPT ![t] = @ - 1]
        BY <3>2 DEF disk_done, Halt, local
      <4> QED
        BY <4>1, <4>2
    <3> QED
      BY <1>5, <3>1, <3>2
  <2>3. left' \in [Tasks -> 0 .. MaxAccess]
    <3>1. CASE UNCHANGED left
      BY <1>0, <3>1
    <3>2. CASE left[t] > 0 /\ left' = [left EXCEPT ![t] = @ - 1]
      <4>1. left[t] \in 0 .. MaxAccess
        BY <1>0
      <4>2. left[t] - 1 \in 0 .. MaxAccess
        BY <3>2, <4>1, DriversAssumption, SMTT(30)
      <4> QED
        BY <1>0, <3>2, <4>2
    <3> QED
      BY <2>2, <3>1, <3>2
  <2>4. tok' \in [Tasks -> Tokens \cup {NoToken}]
    BY <1>0, <2>1
  <2> QED
    BY <1>0, <2>1, <2>3, <2>4
<1>6. ASSUME NEW t \in Tasks, submit_nb(t) \/ submit(t) PROVE LocalOK'
  BY <1>0, <1>6 DEF submit_nb, submit, NewToken
<1>7. ASSUME UNCHANGED local PROVE LocalOK'
  BY <1>0, <1>7 DEF local
<1>8. ASSUME NEW t \in Tasks,
             \/ leave(t) \/ read(t) \/ wait_no_sched(t) \/ write(t) \/ written(t)
             \/ schedule(t, "read_sched", "read") \/ schedule(t, "disk_sched", "disk_done")
             \/ read_block(t) \/ poll(t) \/ sys_key_pressed(t) \/ sys_write(t)
             \/ preempt(t) \/ sys_yield(t)
      PROVE  UNCHANGED local
  BY <1>8 DEF leave, read, wait_no_sched, write, written, schedule, read_block, poll,
     sys_key_pressed, sys_write, preempt, sys_yield, suspend, Halt
<1>9. ASSUME \/ run_tasks \/ Handler \/ UNCHANGED vars
             \/ \E d \in Devices : claim(d)
             \/ \E s \in Streams : arrive(s)
             \/ \E k \in Tokens : complete(k)
      PROVE  UNCHANGED local
  BY <1>9 DEF run_tasks, Handler, handle_irq, handle_irq_blk, claim, arrive, complete, vars, Halt
<1> QED
  BY <1>1, <1>2, <1>3, <1>4, <1>5, <1>6, <1>7, <1>8, <1>9 DEF Next, Hart, Kernel, User

\* Every step keeps the types of cells and locks.
LEMMA CellsType ==
  ASSUME TypeInv, PhaseInv, [Next]_vars
  PROVE  CellsOK'
<1> USE DEF CellsOK
<1>0. CellsOK /\ LocalOK
  BY TypeParts
<1>1. ASSUME NEW t \in Tasks, read(t) \/ write(t) \/ read_block(t) PROVE CellsOK'
  <2>1. UNCHANGED locks
    BY <1>1 DEF read, write, read_block, Halt
  <2>2. UNCHANGED cells \/ \E c \in Devices : cells' = cells \cup {c}
    BY <1>0, <1>1 DEF read, write, read_block, Halt, Borrow, Devices, Streams, LocalOK
  <2> QED
    BY <1>0, <2>1, <2>2 DEF locks
<1>2. ASSUME NEW t \in Tasks, begin_phase(t) PROVE CellsOK'
  <2>1. Head(phases[t]) \in Phase
    <3>1. phases[t] \in Seq(Phase) /\ phases[t] # <<>>
      BY <1>0, <1>2 DEF begin_phase, Running, PhaseInv, LocalOK
    <3> QED
      BY <3>1, Queues
  <2>2. /\ Head(phases[t]).cell \in Files \cup Tasks \cup {NoCell}
        /\ Head(phases[t]).poll \in BOOLEAN
    BY <2>1 DEF Phase
  <2>3. UNCHANGED manager /\ (fs' = fs \/ fs' = t)
    BY <1>2 DEF begin_phase, locks
  <2>4. nb' \in BOOLEAN
    BY <1>0, <1>2 DEF begin_phase, locks
  <2>5. cells' \subseteq Files \cup Tasks \cup Devices
    BY <1>0, <1>2, <2>2 DEF begin_phase, Borrow
  <2> QED
    BY <1>0, <2>3, <2>4, <2>5
<1>3. ASSUME NEW t \in Tasks, end_phase(t) PROVE CellsOK'
  <2>1. cells' \subseteq cells /\ UNCHANGED manager /\ (fs' = fs \/ fs' = Nobody)
    BY <1>3 DEF end_phase, Release
  <2>2. nb' \in BOOLEAN
    BY <1>0, <1>3 DEF end_phase
  <2> QED
    BY <1>0, <2>1, <2>2
<1>4. ASSUME NEW t \in Tasks, access(t) \/ disk_done(t) PROVE CellsOK'
  <2>1. UNCHANGED <<cells, fs, nb>> /\ manager' \in {manager, t, Nobody}
    BY <1>4 DEF access, disk_done, Halt, locks
  <2> QED
    BY <1>0, <2>1
<1>5. ASSUME cells' \subseteq cells, UNCHANGED locks PROVE CellsOK'
  BY <1>0, <1>5 DEF locks
<1>6. ASSUME NEW t \in Tasks,
             \/ leave(t) \/ pop_front(t) \/ wait_no_sched(t) \/ written(t)
             \/ schedule(t, "read_sched", "read") \/ schedule(t, "disk_sched", "disk_done")
             \/ submit_nb(t) \/ submit(t) \/ poll(t)
             \/ sys_file(t) \/ sys_read(t) \/ sys_event_get(t) \/ sys_key_pressed(t) \/ sys_write(t)
             \/ preempt(t) \/ sys_yield(t)
      PROVE  cells' \subseteq cells /\ UNCHANGED locks
  BY <1>6 DEF leave, pop_front, wait_no_sched, written, schedule, submit_nb, submit, poll,
     sys_file, sys_read, sys_event_get, sys_key_pressed, sys_write, preempt, sys_yield,
     suspend, Release
<1>7. ASSUME NEW d \in Devices, claim(d) PROVE CellsOK'
  BY <1>0, <1>7 DEF claim, Halt, locks
<1>8. ASSUME \/ run_tasks \/ Handler \/ UNCHANGED vars
             \/ \E s \in Streams : arrive(s)
             \/ \E k \in Tokens : complete(k)
      PROVE  cells' \subseteq cells /\ UNCHANGED locks
  BY <1>8 DEF run_tasks, Handler, handle_irq, handle_irq_blk, arrive, complete, vars
<1> QED
  BY <1>1, <1>2, <1>3, <1>4, <1>5, <1>6, <1>7, <1>8 DEF Next, Hart, Kernel, User

\* The tasks' steps that touch neither inputs nor the disk's queues.
Elsewhere(t) ==
  \/ leave(t) \/ read(t) \/ write(t) \/ written(t)
  \/ schedule(t, "read_sched", "read") \/ schedule(t, "disk_sched", "disk_done")
  \/ begin_phase(t) \/ access(t) \/ end_phase(t) \/ read_block(t) \/ disk_done(t)
  \/ sys_file(t) \/ sys_read(t) \/ sys_event_get(t) \/ sys_key_pressed(t) \/ sys_write(t)
  \/ preempt(t) \/ sys_yield(t)

\* They leave inputs, the disk and interrupts alone.
LEMMA ElsewhereKeeps ==
  ASSUME (\E t \in Tasks : Elsewhere(t)) \/ run_tasks
  PROVE  UNCHANGED <<input, disk, pending, irq, crowd>>
BY DEF Elsewhere, run_tasks, leave, read, write, written, schedule, begin_phase, access,
   end_phase, read_block, disk_done, sys_file, sys_read, sys_event_get, sys_key_pressed,
   sys_write, preempt, sys_yield, suspend, past, Halt

\* The steps of the system, those which touch no queue taken together.
LEMMA Steps ==
  ASSUME [Next]_vars
  PROVE  \/ (\E t \in Tasks : Elsewhere(t)) \/ run_tasks
         \/ \E t \in Tasks : pop_front(t) \/ wait_no_sched(t)
         \/ \E t \in Tasks : submit_nb(t) \/ submit(t) \/ poll(t)
         \/ \E s \in Streams : arrive(s) \/ handle_irq(s)
         \/ \E k \in Tokens : complete(k)
         \/ \E d \in Devices : claim(d)
         \/ handle_irq_blk
         \/ UNCHANGED vars
BY DEF Next, Hart, Kernel, User, Handler, Elsewhere

\* Every step keeps the types of the inputs and their wait queues.
LEMMA InputType ==
  ASSUME TypeInv, [Next]_vars
  PROVE  InputOK'
<1> USE DEF InputOK
<1>0. InputOK /\ LocalOK /\ HartOK
  BY TypeParts
<1>1. ASSUME NEW t \in Tasks, pop_front(t) PROVE InputOK'
  <2>1. PICK s \in Streams : s = src[t]
    BY <1>0 DEF LocalOK
  <2>2. /\ buffer[s] # <<>> /\ buffer' = [buffer EXCEPT ![s] = Tail(@)]
        /\ got' = [got EXCEPT ![s] = @ + 1] /\ UNCHANGED <<fifo, arrived, waitq, crowd>>
    BY <1>1, <2>1 DEF pop_front, past
  <2>3. Tail(buffer[s]) \in Seq(Nat)
    BY <1>0, <2>2, Queues
  <2>4. got' \in [Streams -> Nat]
    BY <1>0, <2>2, SMTT(30)
  <2> QED
    BY <1>0, <2>2, <2>3, <2>4
<1>2. ASSUME NEW t \in Tasks, wait_no_sched(t) PROVE InputOK'
  <2>1. PICK s \in Streams : s = src[t]
    BY <1>0 DEF LocalOK
  <2>2. /\ waitq' = [waitq EXCEPT ![s] = Append(@, t)]
        /\ UNCHANGED <<fifo, arrived, buffer, got>>
    BY <1>2, <2>1 DEF wait_no_sched
  <2>3. waitq' \in [Streams -> Seq(Tasks)]
    BY <1>0, <2>2, Queues
  <2>4. crowd' \in BOOLEAN
    BY <1>2 DEF wait_no_sched
  <2> QED
    BY <1>0, <2>2, <2>3, <2>4
<1>3. ASSUME NEW s \in Streams, arrive(s) PROVE InputOK'
  <2>1. /\ arrived' = [arrived EXCEPT ![s] = @ + 1]
        /\ fifo' = [fifo EXCEPT ![s] = Append(@, arrived[s] + 1)]
        /\ UNCHANGED <<buffer, got, waitq, crowd>>
    BY <1>3 DEF arrive, past
  <2>2. Append(fifo[s], arrived[s] + 1) \in Seq(Nat)
    BY <1>0, SMTT(30)
  <2> QED
    BY <1>0, <2>1, <2>2, SMTT(30)
<1>4. ASSUME NEW s \in Streams, handle_irq(s) PROVE InputOK'
  <2>1. /\ buffer' = [buffer EXCEPT ![s] = buffer[s] \o fifo[s]]
        /\ fifo' = [fifo EXCEPT ![s] = <<>>]
        /\ UNCHANGED <<arrived, got, crowd>>
    BY <1>4 DEF handle_irq, Drained, past
  <2>2. buffer[s] \o fifo[s] \in Seq(Nat) /\ <<>> \in Seq(Nat)
    BY <1>0, Queues, SMTT(30)
  <2>3. waitq' \in [Streams -> Seq(Tasks)]
    <3>1. Rest(waitq[s]) \in Seq(Tasks)
      BY <1>0, SignalType DEF HartOK
    <3> QED
      BY <1>0, <1>4, <3>1 DEF handle_irq, WakeReader
  <2> QED
    BY <1>0, <2>1, <2>2, <2>3
<1>5. ASSUME UNCHANGED <<input, crowd>> PROVE InputOK'
  BY <1>0, <1>5 DEF input
<1>6. ASSUME \/ \E t \in Tasks : submit_nb(t) \/ submit(t) \/ poll(t)
             \/ \E k \in Tokens : complete(k)
             \/ \E d \in Devices : claim(d)
             \/ handle_irq_blk
             \/ UNCHANGED vars
      PROVE  UNCHANGED <<input, crowd>>
  BY <1>6 DEF submit_nb, submit, poll, complete, claim, handle_irq_blk, vars, past, Halt
<1> QED
  BY <1>1, <1>2, <1>3, <1>4, <1>5, <1>6, Steps, ElsewhereKeeps

\* Every step keeps the types of requests and their wait queues.
LEMMA DiskType ==
  ASSUME TypeInv, [Next]_vars
  PROVE  DiskOK'
<1> USE DEF DiskOK
<1>0. DiskOK /\ HartOK
  BY TypeParts
<1>1. ASSUME NEW t \in Tasks, submit_nb(t) PROVE DiskOK'
  <2>1. PICK k \in Tokens : NewToken(t, k) /\ condvars' = [condvars EXCEPT ![k] = Append(@, t)]
    BY <1>1 DEF submit_nb
  <2>2. Append(condvars[k], t) \in Seq(Tasks)
    BY <1>0, Queues
  <2>3. condvars' \in [Tokens -> Seq(Tasks)]
    BY <1>0, <2>1, <2>2
  <2> QED
    BY <1>0, <1>1, <2>1, <2>3 DEF submit_nb, NewToken
<1>2. ASSUME NEW t \in Tasks, submit(t) PROVE DiskOK'
  BY <1>0, <1>2 DEF submit, NewToken
<1>3. ASSUME NEW t \in Tasks, poll(t) PROVE DiskOK'
  BY <1>0, <1>3, Queues DEF poll
<1>4. ASSUME NEW k \in Tokens, complete(k) PROVE DiskOK'
  BY <1>0, <1>4, Queues DEF complete
<1>5. ASSUME handle_irq_blk PROVE DiskOK'
  <2>1. CASE used = <<>>
    BY <1>0, <1>5, <2>1 DEF handle_irq_blk
  <2>2. CASE used # <<>>
    <3>1. Head(used) \in Tokens /\ Tail(used) \in Seq(Tokens)
      BY <1>0, <2>2, Queues
    <3>2. /\ condvars' = [condvars EXCEPT ![Head(used)] = Rest(@)] /\ used' = Tail(used)
          /\ UNCHANGED inflight
      BY <1>5, <2>2 DEF handle_irq_blk
    <3>3. Rest(condvars[Head(used)]) \in Seq(Tasks)
      BY <1>0, <3>1, SignalType DEF HartOK
    <3> QED
      BY <1>0, <3>1, <3>2, <3>3
  <2> QED
    BY <2>1, <2>2
<1>6. ASSUME UNCHANGED disk PROVE DiskOK'
  BY <1>0, <1>6 DEF disk
<1>7. ASSUME \/ \E t \in Tasks : pop_front(t) \/ wait_no_sched(t)
             \/ \E s \in Streams : arrive(s) \/ handle_irq(s)
             \/ \E d \in Devices : claim(d)
             \/ UNCHANGED vars
      PROVE  UNCHANGED disk
  BY <1>7 DEF pop_front, wait_no_sched, arrive, handle_irq, claim, vars, Halt
<1> QED
  BY <1>1, <1>2, <1>3, <1>4, <1>5, <1>6, <1>7, Steps, ElsewhereKeeps

\* Every step keeps the types of pending and handled interrupts.
LEMMA IrqType ==
  ASSUME TypeInv, [Next]_vars
  PROVE  IrqOK'
<1> USE DEF IrqOK
<1>0. IrqOK
  BY TypeParts
<1>1. ASSUME NEW s \in Streams, arrive(s) \/ handle_irq(s) PROVE IrqOK'
  BY <1>0, <1>1 DEF arrive, handle_irq, Devices
<1>2. ASSUME (\E k \in Tokens : complete(k)) \/ handle_irq_blk PROVE IrqOK'
  BY <1>0, <1>2 DEF complete, handle_irq_blk, Devices
<1>3. ASSUME NEW d \in Devices, claim(d) PROVE IrqOK'
  BY <1>0, <1>3 DEF claim, Halt
<1>4. ASSUME UNCHANGED <<pending, irq>> PROVE IrqOK'
  BY <1>0, <1>4
<1>5. ASSUME \/ \E t \in Tasks : pop_front(t) \/ wait_no_sched(t)
             \/ \E t \in Tasks : submit_nb(t) \/ submit(t) \/ poll(t)
             \/ UNCHANGED vars
      PROVE  UNCHANGED <<pending, irq>>
  BY <1>5 DEF pop_front, wait_no_sched, submit_nb, submit, poll, vars
<1> QED
  BY <1>1, <1>2, <1>3, <1>4, <1>5, Steps, ElsewhereKeeps

\* Every step keeps the types, given that of the mask.
LEMMA TypeStep ==
  ASSUME TypeInv, PhaseInv, [Next]_vars, mask' \in Mask
  PROVE  TypeInv'
<1>1. HartOK' /\ LocalOK' /\ CellsOK' /\ InputOK' /\ DiskOK' /\ IrqOK'
  BY HartType, LocalType, CellsType, InputType, DiskType, IrqType
<1> QED
  BY <1>1 DEF TypeInv, TypeOK, HartOK, LocalOK, CellsOK, InputOK, DiskOK, IrqOK, Mask, Phase

-----------------------------------------------------------------------------
(* Who has the cell of a device *)

\* A step of a task is taken on the hart outside of a handler; one that leaves the hart
\* leaves the task without the cell of a device.
TaskMove(t) ==
  /\ hart = t /\ irq = NoIrq /\ irq' = NoIrq
  /\ \/ UNCHANGED <<hart, pc>>
     \/ \E x : Goto(t, x) /\ (x \in AtDevice => hart' = t)

\* Every step of a task is such a move.
LEMMA TaskMoves ==
  ASSUME NEW t \in Tasks, Kernel(t) \/ User(t)
  PROVE  TaskMove(t)
<1> USE DEF TaskMove, Running, AtDevice
<1>1. ASSUME \/ schedule(t, "read_sched", "read") \/ schedule(t, "disk_sched", "disk_done")
             \/ preempt(t) \/ sys_yield(t)
      PROVE  TaskMove(t)
  BY <1>1, SMTT(20) DEF schedule, preempt, sys_yield, suspend
<1>2. ASSUME read(t) \/ write(t) \/ read_block(t) \/ access(t) \/ disk_done(t) \/ begin_phase(t)
      PROVE  TaskMove(t)
  BY <1>2 DEF read, write, read_block, access, disk_done, begin_phase, Halt
<1>3. ASSUME leave(t) \/ pop_front(t) \/ wait_no_sched(t) \/ written(t) \/ end_phase(t)
      PROVE  TaskMove(t)
  BY <1>3 DEF leave, pop_front, wait_no_sched, written, end_phase
<1>4. ASSUME submit_nb(t) \/ submit(t) \/ poll(t) PROVE TaskMove(t)
  BY <1>4 DEF submit_nb, submit, poll
<1>5. ASSUME sys_file(t) \/ sys_read(t) \/ sys_event_get(t) \/ sys_key_pressed(t) \/ sys_write(t)
      PROVE  TaskMove(t)
  BY <1>5 DEF sys_file, sys_read, sys_event_get, sys_key_pressed, sys_write, syscall
<1> QED
  BY <1>1, <1>2, <1>3, <1>4, <1>5 DEF Kernel, User

\* With interrupts enabled, or in user code outside of a handler, nobody has the cell of
\* a device.
LEMMA NobodyAtDevice ==
  ASSUME TypeInv, DeviceInv, MaskInv, irq = NoIrq, mask.sie \/ InUser
  PROVE  Borrowed = {} /\ \A t \in Tasks : pc[t] \notin AtDevice
<1>1. Borrowed = {}
  BY DEF MaskInv, Borrowed, InUser, AtDevice
<1>2. ASSUME NEW t \in Tasks, pc[t] \in AtDevice PROVE FALSE
  <2>1. hart = t /\ t # Nobody
    BY <1>2, DriversAssumption DEF DeviceInv
  <2> QED
    BY <1>1, <1>2, <2>1 DEF Borrowed
<1> QED
  BY <1>1, <1>2

\* Every step keeps the cells of devices with the hart.
LEMMA DeviceStep ==
  ASSUME TypeInv, DeviceInv, MaskInv, [Next]_vars
  PROVE  DeviceInv'
<1>0. DOMAIN pc = Tasks
  BY DEF TypeInv, TypeOK
<1>1. ASSUME NEW t \in Tasks, Kernel(t) \/ User(t) PROVE DeviceInv'
  <2>1. TaskMove(t)
    BY <1>1, TaskMoves
  <2>2. CASE UNCHANGED <<hart, pc>>
    BY <2>1, <2>2 DEF TaskMove, DeviceInv
  <2>3. ASSUME NEW x, Goto(t, x), x \in AtDevice => hart' = t PROVE DeviceInv'
    <3>1. \A u \in Tasks \ {t} : pc'[u] = pc[u] /\ pc[u] \notin AtDevice
      BY <1>0, <2>1, <2>3 DEF TaskMove, DeviceInv, Goto
    <3>2. pc'[t] = x
      BY <1>0, <2>3 DEF Goto
    <3> QED
      BY <2>1, <2>3, <3>1, <3>2 DEF TaskMove, DeviceInv
  <2> QED
    BY <2>1, <2>2, <2>3 DEF TaskMove
<1>2. ASSUME run_tasks PROVE DeviceInv'
  BY <1>2, DriversAssumption DEF run_tasks, DeviceInv
<1>3. ASSUME NEW d \in Devices, claim(d) PROVE DeviceInv'
  <2>1. \A t \in Tasks : pc[t] \notin AtDevice
    BY <1>3, NobodyAtDevice DEF claim
  <2> QED
    BY <1>3, <2>1 DEF claim, Halt, DeviceInv
<1>4. ASSUME Handler PROVE DeviceInv'
  <2>1. irq # NoIrq /\ UNCHANGED <<hart, pc>>
    BY <1>4 DEF Handler, handle_irq, handle_irq_blk, Streams, NoIrq, Blk
  <2> QED
    BY <2>1 DEF DeviceInv
<1>5. ASSUME (\E s \in Streams : arrive(s)) \/ (\E k \in Tokens : complete(k)) \/ UNCHANGED vars
      PROVE  DeviceInv'
  BY <1>5 DEF arrive, complete, vars, DeviceInv
<1> QED
  BY <1>1, <1>2, <1>3, <1>4, <1>5 DEF Next, Hart

-----------------------------------------------------------------------------
(* Who has the cell of a file or a process *)

\* The cells of files and of processes are not those of devices.
LEMMA CellsDiffer ==
  /\ \A c \in Files \cup Tasks : c \notin Devices /\ c # NoCell
  /\ \A t \in Tasks : t # Nobody
BY DriversAssumption

\* The cell of the phase a task is in, or about to begin.
LEMMA PhaseCellType ==
  ASSUME TypeInv, PhaseInv, NEW t \in Tasks, pc[t] \in InPhase \cup {"phase"}
  PROVE  /\ phases[t] \in Seq(Phase) /\ phases[t] # <<>> /\ Head(phases[t]) \in Phase
         /\ PhaseCell(t) \in Files \cup Tasks \cup {NoCell}
<1>1. phases[t] \in Seq(Phase) /\ phases[t] # <<>>
  BY DEF TypeInv, TypeOK, PhaseInv, Phase
<1>2. Head(phases[t]) \in Phase
  BY <1>1, Queues
<1> QED
  BY <1>1, <1>2 DEF PhaseCell, Phase

\* A move of a task that neither begins nor ends a phase.
LEMMA PhaseKept ==
  ASSUME TypeInv, PhaseInv, NEW t \in Tasks, NEW x, Goto(t, x), UNCHANGED phases,
         \A u \in Tasks \ {t} : left'[u] = left[u],
         \A c \in Files \cup Tasks : c \in cells => c \in cells',
         x \in InPhase => pc[t] \in InPhase,
         x \in AtBlock => left'[t] > 0,
         x # "phase"
  PROVE  PhaseInv'
<1>1. pc'[t] = x /\ \A u \in Tasks \ {t} : pc'[u] = pc[u]
  BY DEF TypeInv, TypeOK, Goto
<1>2. \A u \in Tasks : PhaseCell(u)' = PhaseCell(u)
  BY DEF PhaseCell
<1>3. \A u \in Tasks : pc'[u] \in InPhase => pc[u] \in InPhase
  BY <1>1
<1>4. \A u \in Tasks : pc'[u] \in InPhase \cup {"phase"} => phases'[u] # <<>>
  BY <1>1 DEF PhaseInv
<1>5. ASSUME NEW u \in Tasks, pc'[u] \in InPhase, PhaseCell(u) # NoCell
      PROVE  /\ PhaseCell(u) \in cells'
             /\ \A w \in Tasks : pc'[w] \in InPhase /\ PhaseCell(w) = PhaseCell(u) => w = u
  <2>1. PhaseCell(u) \in Files \cup Tasks
    BY <1>3, <1>5, PhaseCellType
  <2> QED
    BY <1>3, <1>5, <2>1 DEF PhaseInv
<1>6. \A u \in Tasks : pc'[u] \in AtBlock => left'[u] > 0
  BY <1>1 DEF PhaseInv
<1> QED
  BY <1>2, <1>4, <1>5, <1>6, SMTT(30) DEF PhaseInv

\* Steps of others than tasks.
LEMMA PhaseSame ==
  ASSUME TypeInv, PhaseInv, UNCHANGED <<pc, phases>>,
         \A u \in Tasks : pc[u] \in AtBlock => left'[u] = left[u],
         \A c \in Files \cup Tasks : c \in cells => c \in cells'
  PROVE  PhaseInv'
<1>2. \A u \in Tasks : PhaseCell(u)' = PhaseCell(u)
  BY DEF PhaseCell
<1>5. ASSUME NEW u \in Tasks, pc[u] \in InPhase, PhaseCell(u) # NoCell
      PROVE  /\ PhaseCell(u) \in cells'
             /\ \A w \in Tasks : pc[w] \in InPhase /\ PhaseCell(w) = PhaseCell(u) => w = u
  <2>1. PhaseCell(u) \in Files \cup Tasks
    BY <1>5, PhaseCellType
  <2> QED
    BY <1>5, <2>1 DEF PhaseInv
<1> QED
  BY <1>2, <1>5, SMTT(30) DEF PhaseInv

\* Every step keeps who has which cell.
LEMMA PhaseStep ==
  ASSUME TypeInv, PhaseInv, [Next]_vars
  PROVE  PhaseInv'
<1> USE DEF Running, InPhase, AtBlock
<1>0. /\ DOMAIN pc = Tasks /\ left \in [Tasks -> 0 .. MaxAccess]
      /\ phases \in [Tasks -> Seq(Phase)] /\ src \in [Tasks -> Streams]
  BY DEF TypeInv, TypeOK, Phase
<1>d. \A c \in Files \cup Tasks, s \in Devices : c \in cells => c \in cells \ {s}
  BY CellsDiffer
<1>1. ASSUME NEW t \in Tasks,
             \/ leave(t) \/ schedule(t, "read_sched", "read") \/ preempt(t) \/ sys_yield(t)
             \/ sys_read(t) \/ sys_event_get(t) \/ sys_key_pressed(t) \/ sys_write(t)
      PROVE  PhaseInv'
  <2>1. UNCHANGED <<phases, left, cells>>
    BY <1>1 DEF leave, schedule, preempt, sys_yield, suspend, sys_read, sys_event_get,
       sys_key_pressed, sys_write, local
  <2>2. Goto(t, "user") \/ Goto(t, "read") \/ Goto(t, "trap") \/ Goto(t, "write")
    BY <1>1 DEF leave, schedule, preempt, sys_yield, suspend, sys_read, sys_event_get,
       sys_key_pressed, sys_write, syscall
  <2> QED
    BY <2>1, <2>2, PhaseKept
<1>2. ASSUME NEW t \in Tasks, read(t) \/ write(t) PROVE PhaseInv'
  <2>0. UNCHANGED <<phases, left>> /\ (UNCHANGED cells \/ \E c : cells' = cells \cup {c})
    BY <1>2 DEF read, write, Borrow, Halt, local
  <2>1. UNCHANGED <<phases, left>> /\ cells \subseteq cells'
    BY <2>0
  <2>2. UNCHANGED pc \/ Goto(t, "reading") \/ Goto(t, "writing")
    BY <1>2 DEF read, write, Halt
  <2>3. CASE UNCHANGED pc
    BY <2>1, <2>3, PhaseSame
  <2>4. CASE Goto(t, "reading")
    BY <2>1, <2>4, PhaseKept
  <2>5. CASE Goto(t, "writing")
    BY <2>1, <2>5, PhaseKept
  <2> QED
    BY <2>2, <2>3, <2>4, <2>5
<1>3. ASSUME NEW t \in Tasks, pop_front(t) \/ wait_no_sched(t) \/ written(t) PROVE PhaseInv'
  <2>1. UNCHANGED <<phases, left>>
    BY <1>3 DEF pop_front, wait_no_sched, written, local
  <2>2. \E s \in Devices : cells' = cells \ {s}
    BY <1>0, <1>3 DEF pop_front, wait_no_sched, written, Release, Devices, Streams
  <2>3. Goto(t, "trap") \/ Goto(t, "read_sched")
    BY <1>3 DEF pop_front, wait_no_sched, written
  <2> QED
    BY <1>d, <2>1, <2>2, <2>3, PhaseKept
<1>4. ASSUME NEW t \in Tasks, sys_file(t) PROVE PhaseInv'
  <2>1. PICK c \in Calls(t) : phases' = [phases EXCEPT ![t] = c]
    BY <1>4 DEF sys_file
  <2>2. c # <<>> /\ phases'[t] = c /\ \A u \in Tasks \ {t} : phases'[u] = phases[u]
    BY <1>0, <2>1, CallsType
  <2>3. /\ pc'[t] = "phase" /\ \A u \in Tasks \ {t} : pc'[u] = pc[u]
        /\ UNCHANGED <<left, cells>>
    BY <1>0, <1>4 DEF sys_file, syscall, Goto
  <2>4. \A u \in Tasks : pc'[u] \in InPhase => u # t /\ PhaseCell(u)' = PhaseCell(u)
    BY <2>2, <2>3 DEF PhaseCell
  <2> QED
    BY <2>2, <2>3, <2>4, SMTT(30) DEF PhaseInv
<1>5. ASSUME NEW t \in Tasks, begin_phase(t) PROVE PhaseInv'
  <2>1. CASE UNCHANGED <<pc, phases, left, cells>>
    BY <2>1, PhaseSame
  <2>2. ASSUME NEW n \in 1 .. MaxAccess, left' = [left EXCEPT ![t] = n], UNCHANGED phases,
               Goto(t, "access"), PhaseCell(t) \notin cells,
               \/ PhaseCell(t) = NoCell /\ cells' = cells
               \/ cells' = cells \cup {PhaseCell(t)}
        PROVE  PhaseInv'
    <3>1. pc'[t] = "access" /\ \A u \in Tasks \ {t} : pc'[u] = pc[u]
      BY <1>0, <2>2 DEF Goto
    <3>2. \A u \in Tasks : PhaseCell(u)' = PhaseCell(u)
      BY <2>2 DEF PhaseCell
    <3>3. phases[t] # <<>>
      BY <1>5 DEF begin_phase, PhaseInv
    <3>4. \A u \in Tasks \ {t} : left'[u] = left[u]
      BY <1>0, <2>2
    <3>5. \A u \in Tasks \ {t} : pc[u] \in InPhase /\ PhaseCell(u) # NoCell =>
            PhaseCell(u) \in cells /\ PhaseCell(u) # PhaseCell(t)
      BY <2>2 DEF PhaseInv
    <3>6. \A u \in Tasks : pc'[u] \in InPhase /\ PhaseCell(u) # NoCell => PhaseCell(u) \in cells'
      BY <2>2, <3>1, <3>5
    <3>7. \A u, w \in Tasks :
            /\ pc'[u] \in InPhase /\ PhaseCell(u) # NoCell
            /\ pc'[w] \in InPhase /\ PhaseCell(w) = PhaseCell(u)
            => w = u
      BY <3>1, <3>5 DEF PhaseInv
    <3>8. \A u \in Tasks : pc'[u] \in InPhase \cup {"phase"} => phases'[u] # <<>>
      BY <2>2, <3>1, <3>3 DEF PhaseInv
    <3>9. \A u \in Tasks : pc'[u] \in AtBlock => left'[u] > 0
      BY <3>1, <3>4 DEF PhaseInv
    <3> QED
      BY <3>2, <3>6, <3>7, <3>8, <3>9, SMTT(30) DEF PhaseInv
  <2> QED
    BY <1>5, <2>1, <2>2 DEF begin_phase, PhaseCell, Borrow, local
<1>6. ASSUME NEW t \in Tasks, end_phase(t) PROVE PhaseInv'
  <2>1. /\ pc[t] = "access" /\ UNCHANGED left /\ phases' = [phases EXCEPT ![t] = Tail(@)]
        /\ cells' = cells \/ cells' = cells \ {PhaseCell(t)}
    BY <1>6 DEF end_phase, PhaseCell, Release
  <2>2. /\ PhaseCell(t) = NoCell => cells' = cells
        /\ Goto(t, IF Len(phases[t]) = 1 THEN "trap" ELSE "phase")
    BY <1>6 DEF end_phase, PhaseCell
  <2>3. phases[t] \in Seq(Phase) /\ phases[t] # <<>>
    BY <2>1, PhaseCellType
  <2>4. /\ pc'[t] \in {"trap", "phase"} /\ (pc'[t] = "phase" => phases'[t] # <<>>)
        /\ \A u \in Tasks \ {t} : pc'[u] = pc[u] /\ phases'[u] = phases[u]
    <3>1. pc'[t] = IF Len(phases[t]) = 1 THEN "trap" ELSE "phase"
      BY <1>0, <2>2 DEF Goto
    <3>2. Len(phases[t]) # 1 => Tail(phases[t]) # <<>>
      BY <2>3, Others
    <3>3. phases'[t] = Tail(phases[t])
      BY <1>0, <2>1
    <3>4. \A u \in Tasks \ {t} : pc'[u] = pc[u] /\ phases'[u] = phases[u]
      BY <1>0, <2>1, <2>2 DEF Goto
    <3> QED
      BY <3>1, <3>2, <3>3, <3>4
  <2>5. \A u \in Tasks : pc'[u] \in InPhase =>
          u # t /\ pc[u] \in InPhase /\ PhaseCell(u)' = PhaseCell(u)
    BY <2>4 DEF PhaseCell
  <2>6. \A u \in Tasks \ {t} : pc[u] \in InPhase /\ PhaseCell(u) # NoCell =>
          PhaseCell(u) \in cells'
    <3> SUFFICES ASSUME NEW u \in Tasks \ {t}, pc[u] \in InPhase, PhaseCell(u) # NoCell
                 PROVE  PhaseCell(u) \in cells'
      OBVIOUS
    <3>1. PhaseCell(u) \in cells /\ PhaseCell(u) # PhaseCell(t)
      BY <2>1 DEF PhaseInv
    <3> QED
      BY <2>1, <3>1
  <2> QED
    BY <2>1, <2>4, <2>5, <2>6, SMTT(20) DEF PhaseInv
<1>7. ASSUME NEW t \in Tasks, access(t) \/ disk_done(t) PROVE PhaseInv'
  <2>1. UNCHANGED <<phases, cells>> /\ pc[t] \in InPhase
    BY <1>7 DEF access, disk_done, Halt, local
  <2>2. CASE UNCHANGED <<pc, left>>
    BY <2>1, <2>2, PhaseSame
  <2>3. CASE access(t) /\ UNCHANGED pc /\ left' = [left EXCEPT ![t] = @ - 1]
    <3>1. pc[t] = "access" /\ \A u \in Tasks \ {t} : left'[u] = left[u]
      BY <1>0, <2>3 DEF access
    <3> QED
      BY <2>1, <2>3, <3>1, PhaseSame
  <2>4. CASE access(t) /\ Goto(t, "request") /\ UNCHANGED left
    BY <2>1, <2>4, PhaseKept DEF access
  <2>5. CASE disk_done(t) /\ left' = [left EXCEPT ![t] = @ - 1]
    <3>1. \A u \in Tasks \ {t} : left'[u] = left[u]
      BY <1>0, <2>5
    <3>2. left'[t] = left[t] - 1 /\ left[t] \in Nat
      BY <1>0, <2>5, DriversAssumption, SMTT(20)
    <3>3. CASE Goto(t, "access")
      BY <2>1, <3>1, <3>3, PhaseKept
    <3>4. CASE left[t] > 1 /\ Goto(t, "request")
      <4>1. left'[t] > 0
        BY <3>2, <3>4, SMTT(20)
      <4> QED
        BY <2>1, <3>1, <3>4, <4>1, PhaseKept
    <3> QED
      BY <2>2, <2>5, <3>3, <3>4 DEF disk_done, Halt, local
  <2> QED
    BY <1>7, <2>2, <2>3, <2>4, <2>5 DEF access, disk_done, Halt, local
<1>8. ASSUME NEW t \in Tasks,
             \/ read_block(t) \/ submit_nb(t) \/ submit(t) \/ poll(t)
             \/ schedule(t, "disk_sched", "disk_done")
      PROVE  PhaseInv'
  <2>1. UNCHANGED <<phases, left>> /\ pc[t] \in AtBlock
    BY <1>8 DEF read_block, submit_nb, submit, poll, schedule, Halt, local
  <2>2. cells \subseteq cells' \/ cells' = cells \ {Blk}
    BY <1>8 DEF read_block, submit_nb, submit, poll, schedule, Borrow, Release, Halt
  <2>3. \A c \in Files \cup Tasks : c \in cells => c \in cells'
    BY <1>d, <2>2 DEF Devices
  <2>4. UNCHANGED pc \/ \E x \in AtBlock : Goto(t, x)
    BY <1>8 DEF read_block, submit_nb, submit, poll, schedule, Halt
  <2>5. left[t] > 0 /\ "phase" \notin AtBlock /\ AtBlock \subseteq InPhase
    BY <2>1 DEF PhaseInv
  <2> HIDE DEF AtBlock, InPhase
  <2> QED
    BY <2>1, <2>3, <2>4, <2>5, PhaseKept, PhaseSame
<1>9. ASSUME \/ run_tasks \/ Handler \/ UNCHANGED vars
             \/ \E d \in Devices : claim(d)
             \/ \E s \in Streams : arrive(s)
             \/ \E k \in Tokens : complete(k)
      PROVE  PhaseInv'
  <2>1. UNCHANGED <<pc, phases, left>>
    BY <1>9 DEF run_tasks, Handler, handle_irq, handle_irq_blk, claim, arrive, complete, vars,
       Halt, local
  <2>2. cells \subseteq cells' \/ \E d \in Devices : cells' = cells \ {d}
    BY <1>9 DEF run_tasks, Handler, handle_irq, handle_irq_blk, claim, arrive, complete, vars,
       Halt, Devices
  <2> QED
    BY <1>d, <2>1, <2>2, PhaseSame
<1> QED
  BY <1>1, <1>2, <1>3, <1>4, <1>5, <1>6, <1>7, <1>8, <1>9 DEF Next, Hart, Kernel, User

-----------------------------------------------------------------------------
(* The nesting level *)

\* What the steps do to the mask: the level stays, or moves by one with a cell.
LEMMA MaskMoves ==
  ASSUME TypeInv, LevelOK
  PROVE  /\ mask \in Mask
         /\ Session(mask) \in Mask /\ Session(mask).level = mask.level
         /\ \A b \in BOOLEAN :
              /\ [mask EXCEPT !.sie = b] \in Mask /\ [mask EXCEPT !.sie = b].level = mask.level
              /\ Session([mask EXCEPT !.sie = b]) \in Mask
              /\ Session([mask EXCEPT !.sie = b]).level = mask.level
         /\ Session(mask).sie => mask.sie
         /\ Enter(mask) \in Mask /\ Enter(mask).level = mask.level + 1 /\ ~Enter(mask).sie
         /\ LET n == Enter([mask EXCEPT !.sie = FALSE])
            IN  n \in Mask /\ n.level = mask.level + 1 /\ ~n.sie
         /\ cells # {} =>
              \A n \in {Exit(mask), Exit(Session(mask)), EndIrq(Exit(mask)),
                        EndIrq(Session(Exit(mask)))} :
                n \in Mask /\ n.level = mask.level - 1
<1>1. mask \in Mask
  BY TypeParts
<1>2. \A b \in BOOLEAN : [mask EXCEPT !.sie = b] \in Mask /\ [mask EXCEPT !.sie = b].level = mask.level
  BY <1>1, MaskOps, SMTT(30)
<1>3. Session(mask) \in Mask /\ Session(mask).level = mask.level /\ (Session(mask).sie => mask.sie)
  BY <1>1, MaskOps
<1>4. \A b \in BOOLEAN :
        /\ Session([mask EXCEPT !.sie = b]) \in Mask
        /\ Session([mask EXCEPT !.sie = b]).level = mask.level
  <2> TAKE b \in BOOLEAN
  <2>1. PICK m \in Mask : m = [mask EXCEPT !.sie = b] /\ m.level = mask.level
    BY <1>2
  <2>2. Session(m) \in Mask /\ Session(m).level = m.level
    BY MaskOps
  <2> QED
    BY <2>1, <2>2
<1>5. Enter(mask) \in Mask /\ Enter(mask).level = mask.level + 1 /\ ~Enter(mask).sie
  BY <1>1, MaskOps
<1>6. LET n == Enter([mask EXCEPT !.sie = FALSE])
      IN  n \in Mask /\ n.level = mask.level + 1 /\ ~n.sie
  <2>1. PICK m \in Mask : m = [mask EXCEPT !.sie = FALSE] /\ m.level = mask.level
    BY <1>2
  <2>2. Enter(m) \in Mask /\ Enter(m).level = m.level + 1 /\ ~Enter(m).sie
    BY MaskOps
  <2> QED
    BY <2>1, <2>2
<1>7. ASSUME cells # {}
      PROVE  \A n \in {Exit(mask), Exit(Session(mask)), EndIrq(Exit(mask)),
                       EndIrq(Session(Exit(mask)))} :
               n \in Mask /\ n.level = mask.level - 1
  <2>1. mask.level > 0
    BY <1>7 DEF LevelOK
  <2>2. Exit(mask) \in Mask /\ Exit(mask).level = mask.level - 1
    BY <1>1, <2>1, MaskOps
  <2>3. Exit(Session(mask)) \in Mask /\ Exit(Session(mask)).level = mask.level - 1
    BY <1>3, <2>1, MaskOps, SMTT(30)
  <2>4. Session(Exit(mask)) \in Mask /\ Session(Exit(mask)).level = mask.level - 1
    BY <2>2, MaskOps
  <2>5. \A m \in Mask : EndIrq(m) \in Mask /\ EndIrq(m).level = m.level
    <3>1. (~InUser) \in BOOLEAN
      OBVIOUS
    <3> QED
      BY <3>1, MaskOps DEF EndIrq
  <2> QED
    BY <2>2, <2>3, <2>4, <2>5
<1> QED
  BY <1>1, <1>2, <1>3, <1>4, <1>5, <1>6, <1>7

\* Who has the cell of a device, before and after a step.
LEMMA BorrowedIs ==
  ASSUME NEW t \in Tasks
  PROVE  /\ irq = NoIrq /\ hart = t =>
              /\ pc[t] = "reading" => Borrowed = {src[t]}
              /\ pc[t] = "writing" => Borrowed = {"uart"}
              /\ pc[t] \in {"submit", "poll"} => Borrowed = {Blk}
              /\ pc[t] \notin AtDevice => Borrowed = {}
         /\ irq' = NoIrq /\ hart' = t =>
              /\ pc'[t] = "reading" => Borrowed' = {src'[t]}
              /\ pc'[t] = "writing" => Borrowed' = {"uart"}
              /\ pc'[t] \in {"submit", "poll"} => Borrowed' = {Blk}
              /\ pc'[t] \notin AtDevice => Borrowed' = {}
<1>1. t # Nobody
  BY CellsDiffer
<1> QED
  BY <1>1 DEF Borrowed, DeviceOf, AtDevice

\* A task that has no cell of a device before nor after a step that keeps the level.
LEMMA KeepsOutside ==
  ASSUME NEW t \in Tasks, irq = NoIrq, irq' = NoIrq, hart = t, pc[t] \notin AtDevice,
         hart' = Nobody \/ (hart' = t /\ pc'[t] \notin AtDevice),
         cells' = cells, mask' \in Mask, mask'.level = mask.level
  PROVE  Keeps
<1>1. Borrowed = {}
  BY BorrowedIs
<1>2. Borrowed' = {}
  <2>1. CASE hart' = Nobody
    BY <2>1 DEF Borrowed
  <2>2. CASE hart' = t /\ pc'[t] \notin AtDevice
    BY <2>2, BorrowedIs
  <2> QED
    BY <2>1, <2>2
<1> QED
  BY <1>1, <1>2 DEF Keeps

\* Steps that leave the hart, the cells and the mask as they are.
LEMMA KeepsAll ==
  ASSUME MaskInv, mask \in Mask, UNCHANGED <<hart, pc, src, mask, cells, irq>>
  PROVE  Keeps
<1>1. Borrowed' = Borrowed
  BY DEF Borrowed, DeviceOf
<1> QED
  BY <1>1 DEF Keeps, MaskInv

\* Every step moves the level with the number of borrows.
LEMMA MaskStep ==
  ASSUME TypeInv, DeviceInv, PhaseInv, MaskInv, LevelOK, [Next]_vars
  PROVE  MaskMove
<1> USE DEF Running, AtDevice
<1>0. DOMAIN pc = Tasks /\ src \in [Tasks -> Streams] /\ mask \in Mask /\ TypeOK
  BY TypeParts DEF TypeInv, TypeOK
<1>e. ASSUME halted' # "irq_borrowed",
             Keeps \/ (\E c : BorrowsOne(c)) \/ (\E c : ReleasesOne(c))
      PROVE  MaskMove
  BY <1>e DEF MaskMove, Keeps, BorrowsOne, ReleasesOne
<1>h. ASSUME NEW w, Halt(w), w # "irq_borrowed" PROVE MaskMove
  BY <1>0, <1>e, <1>h, KeepsAll DEF Halt, local
<1>1. ASSUME NEW t \in Tasks,
             \/ schedule(t, "read_sched", "read") \/ schedule(t, "disk_sched", "disk_done")
             \/ preempt(t) \/ sys_yield(t)
      PROVE  MaskMove
  <2>1. /\ halted' = "no" /\ irq = NoIrq /\ irq' = NoIrq /\ hart = t /\ pc[t] \notin AtDevice
        /\ hart' = Nobody /\ cells' = cells
    BY <1>1 DEF schedule, preempt, sys_yield, suspend
  <2>2. \/ mask' = Session(mask)
        \/ \E b \in BOOLEAN : mask' = Session([mask EXCEPT !.sie = b])
    BY <1>1 DEF schedule, preempt, sys_yield, suspend
  <2>3. mask' \in Mask /\ mask'.level = mask.level
    BY <2>2, MaskMoves
  <2> QED
    BY <1>e, <2>1, <2>3, KeepsOutside
<1>2. ASSUME NEW t \in Tasks,
             \/ leave(t) \/ sys_file(t) \/ sys_read(t) \/ sys_event_get(t)
             \/ sys_key_pressed(t) \/ sys_write(t)
      PROVE  MaskMove
  <2>1. /\ halted' = "no" /\ irq = NoIrq /\ irq' = NoIrq /\ hart = t /\ pc[t] \notin AtDevice
        /\ hart' = t /\ cells' = cells
    BY <1>2 DEF leave, sys_file, sys_read, sys_event_get, sys_key_pressed, sys_write, syscall
  <2>2. \E b \in BOOLEAN :
          mask' = [mask EXCEPT !.sie = b] \/ mask' = Session([mask EXCEPT !.sie = b])
    BY <1>2 DEF leave, sys_file, sys_read, sys_event_get, sys_key_pressed, sys_write, syscall
  <2>3. mask' \in Mask /\ mask'.level = mask.level
    BY <2>2, MaskMoves
  <2>4. \E x \in {"user", "phase", "read", "trap", "write"} : Goto(t, x)
    BY <1>2 DEF leave, sys_file, sys_read, sys_event_get, sys_key_pressed, sys_write, syscall
  <2>5. pc'[t] \notin AtDevice
    BY <1>0, <2>4 DEF Goto
  <2> QED
    BY <1>e, <2>1, <2>3, <2>5, KeepsOutside
<1>3. ASSUME NEW t \in Tasks, access(t) \/ disk_done(t) PROVE MaskMove
  <2>1. CASE \E w : Halt(w) /\ w # "irq_borrowed"
    BY <1>h, <2>1
  <2>2. ASSUME ~\E w : Halt(w) /\ w # "irq_borrowed" PROVE MaskMove
    <3>1. /\ halted' = "no" /\ irq = NoIrq /\ irq' = NoIrq /\ hart = t /\ pc[t] \notin AtDevice
          /\ hart' = t /\ cells' = cells /\ mask' = mask
      BY <1>3, <2>2, SMTT(20) DEF access, disk_done
    <3>2. UNCHANGED pc \/ Goto(t, "request") \/ Goto(t, "access")
      BY <1>3, <2>2, SMTT(30) DEF access, disk_done
    <3>3. pc'[t] \notin AtDevice
      BY <1>0, <3>1, <3>2 DEF Goto
    <3> QED
      BY <1>0, <1>e, <3>1, <3>3, KeepsOutside
  <2> QED
    BY <2>1, <2>2
<1>4. ASSUME NEW t \in Tasks, read(t) \/ write(t) \/ read_block(t)
      PROVE  MaskMove
  <2>1. CASE Halt("borrowed")
    BY <1>h, <2>1
  <2>2. ASSUME ~Halt("borrowed") PROVE MaskMove
    <3>1. /\ halted' = "no" /\ irq = NoIrq /\ irq' = NoIrq /\ hart = t /\ pc[t] \notin AtDevice
          /\ hart' = t /\ src' = src
      BY <1>4, <2>2 DEF read, write, read_block, local
    <3>2. \/ Borrow(src[t]) /\ Goto(t, "reading")
          \/ Borrow("uart") /\ Goto(t, "writing")
          \/ Borrow(Blk) /\ Goto(t, "submit")
      BY <1>4, <2>2 DEF read, write, read_block
    <3>3. PICK c \in Devices : Borrow(c) /\ Borrowed' = {c}
      <4>1. src[t] \in Devices /\ "uart" \in Devices /\ Blk \in Devices
        BY <1>0 DEF Devices, Streams
      <4>2. CASE Borrow(src[t]) /\ Goto(t, "reading")
        <5>1. pc'[t] = "reading"
          BY <1>0, <4>2 DEF Goto
        <5> QED
          BY <3>1, <4>1, <4>2, <5>1, BorrowedIs
      <4>3. CASE Borrow("uart") /\ Goto(t, "writing")
        <5>1. pc'[t] = "writing"
          BY <1>0, <4>3 DEF Goto
        <5> QED
          BY <3>1, <4>1, <4>3, <5>1, BorrowedIs
      <4>4. CASE Borrow(Blk) /\ Goto(t, "submit")
        <5>1. pc'[t] = "submit"
          BY <1>0, <4>4 DEF Goto
        <5> QED
          BY <3>1, <4>1, <4>4, <5>1, BorrowedIs
      <4> QED
        BY <3>2, <4>2, <4>3, <4>4
    <3>4. Borrowed = {}
      BY <3>1, BorrowedIs
    <3>5. mask' \in Mask /\ mask'.level = mask.level + 1 /\ ~mask'.sie
      BY <3>3, MaskMoves DEF Borrow
    <3>6. BorrowsOne(c)
      BY <3>3, <3>4, <3>5 DEF BorrowsOne, Borrow
    <3> QED
      BY <1>e, <3>1, <3>6
  <2> QED
    BY <2>1, <2>2
<1>5. ASSUME NEW t \in Tasks,
             pop_front(t) \/ wait_no_sched(t) \/ written(t) \/ submit_nb(t) \/ poll(t)
      PROVE  MaskMove
  <2>1. /\ halted' = "no" /\ irq = NoIrq /\ irq' = NoIrq /\ hart = t /\ pc[t] \in AtDevice
        /\ hart' = t /\ (mask' = Exit(mask) \/ mask' = Exit(Session(mask)))
    BY <1>5 DEF pop_front, wait_no_sched, written, submit_nb, poll, Release
  <2>2. \/ pc[t] = "reading" /\ cells' = cells \ {src[t]}
        \/ pc[t] = "writing" /\ cells' = cells \ {"uart"}
        \/ pc[t] \in {"submit", "poll"} /\ cells' = cells \ {Blk}
    BY <1>5 DEF pop_front, wait_no_sched, written, submit_nb, poll, Release
  <2>3. PICK c : Borrowed = {c} /\ cells' = cells \ {c}
    BY <2>1, <2>2, BorrowedIs
  <2>4. c \in cells
    BY <2>3 DEF MaskInv
  <2>5. \E x \in {"trap", "read_sched", "disk_sched", "disk_done"} : Goto(t, x)
    BY <1>5 DEF pop_front, wait_no_sched, written, submit_nb, poll
  <2>6. pc'[t] \notin AtDevice
    BY <1>0, <2>5 DEF Goto
  <2>7. Borrowed' = {}
    BY <2>1, <2>6, BorrowedIs
  <2>8. mask' \in Mask /\ mask'.level = mask.level - 1
    BY <2>1, <2>4, MaskMoves
  <2>9. ReleasesOne(c)
    BY <2>3, <2>4, <2>7, <2>8 DEF ReleasesOne
  <2> QED
    BY <1>e, <2>1, <2>9
<1>6. ASSUME NEW t \in Tasks, submit(t) PROVE MaskMove
  <2>1. /\ halted' = "no" /\ irq = NoIrq /\ irq' = NoIrq /\ hart = t /\ pc[t] = "submit"
        /\ hart' = t /\ cells' = cells /\ mask' = mask /\ Goto(t, "poll")
    BY <1>6 DEF submit
  <2>2. pc'[t] = "poll"
    BY <1>0, <2>1 DEF Goto
  <2>3. Borrowed = {Blk} /\ Borrowed' = {Blk}
    BY <2>1, <2>2, BorrowedIs
  <2>4. Keeps
    BY <1>0, <2>1, <2>3 DEF Keeps, MaskInv
  <2> QED
    BY <1>e, <2>1, <2>4
<1>7. ASSUME NEW t \in Tasks, begin_phase(t) PROVE MaskMove
  <2>1. CASE halted' # "no"
    <3>1. UNCHANGED <<hart, pc, src, mask, cells, irq>> /\ halted' # "irq_borrowed"
      BY <1>7, <2>1 DEF begin_phase, local
    <3> QED
      BY <1>0, <1>e, <3>1, KeepsAll
  <2>2. ASSUME halted' = "no" PROVE MaskMove
    <3>1. /\ irq = NoIrq /\ irq' = NoIrq /\ hart = t /\ pc[t] = "phase" /\ hart' = t
          /\ Goto(t, "access")
          /\ \/ PhaseCell(t) = NoCell /\ UNCHANGED <<cells, mask>>
             \/ PhaseCell(t) # NoCell /\ Borrow(PhaseCell(t))
      <4>1. halted' # (IF Head(phases[t]).cell \in cells THEN "borrowed" ELSE "spin")
        BY <2>2
      <4> QED
        BY <1>7, <4>1 DEF begin_phase, PhaseCell
    <3>2. pc'[t] = "access"
      BY <1>0, <3>1 DEF Goto
    <3>3. CASE UNCHANGED <<cells, mask>>
      BY <1>0, <1>e, <2>2, <3>1, <3>2, <3>3, KeepsOutside
    <3>4. CASE PhaseCell(t) # NoCell /\ Borrow(PhaseCell(t))
      <4>1. PICK c : c = PhaseCell(t)
        OBVIOUS
      <4>2. c \notin Devices
        BY <3>1, <3>4, <4>1, PhaseCellType, CellsDiffer
      <4>3. Borrowed = {} /\ Borrowed' = {}
        BY <3>1, <3>2, BorrowedIs
      <4>4. mask' \in Mask /\ mask'.level = mask.level + 1 /\ ~mask'.sie
        BY <3>4, MaskMoves DEF Borrow
      <4>5. BorrowsOne(c)
        BY <3>4, <4>1, <4>2, <4>3, <4>4 DEF BorrowsOne, Borrow
      <4> QED
        BY <1>e, <2>2, <4>5
    <3> QED
      BY <3>1, <3>3, <3>4
  <2> QED
    BY <2>1, <2>2
<1>8. ASSUME NEW t \in Tasks, end_phase(t) PROVE MaskMove
  <2>1. /\ halted' = "no" /\ irq = NoIrq /\ irq' = NoIrq /\ hart = t /\ pc[t] = "access"
        /\ hart' = t
        /\ \/ PhaseCell(t) = NoCell /\ UNCHANGED <<cells, mask>>
           \/ PhaseCell(t) # NoCell /\ Release(PhaseCell(t))
    BY <1>8 DEF end_phase, PhaseCell
  <2>2. \E x \in {"trap", "phase"} : Goto(t, x)
    BY <1>8 DEF end_phase
  <2>3. pc'[t] \notin AtDevice
    BY <1>0, <2>2 DEF Goto
  <2>4. CASE UNCHANGED <<cells, mask>>
    BY <1>0, <1>e, <2>1, <2>3, <2>4, KeepsOutside
  <2>5. CASE PhaseCell(t) # NoCell /\ Release(PhaseCell(t))
    <3>1. PICK c : c = PhaseCell(t)
      OBVIOUS
    <3>2. c \in cells
      BY <2>1, <2>5, <3>1 DEF PhaseInv, InPhase
    <3>3. Borrowed = {} /\ Borrowed' = {}
      BY <2>1, <2>3, BorrowedIs
    <3>4. mask' \in Mask /\ mask'.level = mask.level - 1
      BY <2>5, <3>2, MaskMoves DEF Release
    <3>5. ReleasesOne(c)
      BY <2>5, <3>1, <3>2, <3>3, <3>4 DEF ReleasesOne, Release
    <3> QED
      BY <1>e, <2>1, <3>5
  <2> QED
    BY <2>1, <2>4, <2>5
<1>9. ASSUME run_tasks PROVE MaskMove
  <2>0. ready \in Seq(Tasks) /\ ready # <<>> /\ hart' = Head(ready)
    BY <1>9 DEF run_tasks, TypeInv, TypeOK
  <2>1. PICK t : t \in Tasks /\ hart' = t
    BY <2>0, Queues
  <2>2. /\ halted' = "no" /\ irq = NoIrq /\ irq' = NoIrq /\ hart = Nobody /\ cells' = cells
        /\ mask' = Session(mask) /\ pc' = pc
    BY <1>9 DEF run_tasks
  <2>3. pc[t] \notin AtDevice
    BY <2>1, <2>2, CellsDiffer DEF DeviceInv
  <2>4. Borrowed = {} /\ Borrowed' = {}
    BY <2>1, <2>2, <2>3, BorrowedIs DEF Borrowed
  <2>5. Keeps
    BY <2>2, <2>4, MaskMoves DEF Keeps
  <2> QED
    BY <1>e, <2>2, <2>5
<1>10. ASSUME NEW d \in Devices, claim(d) PROVE MaskMove
  <2>1. Borrowed = {} /\ irq = NoIrq
    BY <1>10, NobodyAtDevice DEF claim
  <2>2. d \notin cells
    BY <2>1 DEF MaskInv
  <2>3. /\ cells' = cells \cup {d} /\ mask' = Enter([mask EXCEPT !.sie = FALSE])
        /\ irq' = d /\ halted' = "no"
    BY <1>10, <2>2 DEF claim
  <2>4. Borrowed' = {d}
    BY <2>3 DEF Borrowed, Devices, Streams, Blk, NoIrq
  <2>5. mask' \in Mask /\ mask'.level = mask.level + 1 /\ ~mask'.sie
    BY <2>3, MaskMoves
  <2>6. BorrowsOne(d)
    BY <2>1, <2>2, <2>3, <2>4, <2>5 DEF BorrowsOne
  <2> QED
    BY <1>e, <2>3, <2>6
<1>11. ASSUME NEW d \in Devices, irq = d, halted' = "no", cells' = cells \ {d}, irq' = NoIrq,
              UNCHANGED <<hart, pc>>,
              mask' = EndIrq(Session(Exit(mask))) \/ mask' = EndIrq(Exit(mask))
       PROVE  MaskMove
  <2>1. Borrowed = {d} /\ d # NoIrq
    BY <1>11 DEF Borrowed, Devices, Streams, Blk, NoIrq
  <2>2. d \in cells
    BY <2>1 DEF MaskInv
  <2>3. Borrowed' = {}
    <3>1. \A t \in Tasks : pc[t] \notin AtDevice
      BY <1>11, <2>1 DEF DeviceInv
    <3>2. hart \in Tasks \cup {Nobody}
      BY DEF TypeInv, TypeOK
    <3> QED
      BY <1>11, <3>1, <3>2 DEF Borrowed
  <2>4. mask' \in Mask /\ mask'.level = mask.level - 1
    BY <1>11, <2>2, MaskMoves
  <2>5. ReleasesOne(d)
    BY <1>11, <2>1, <2>2, <2>3, <2>4 DEF ReleasesOne
  <2> QED
    BY <1>e, <1>11, <2>5
<1>12. ASSUME NEW s \in Streams, handle_irq(s) PROVE MaskMove
  <2>1. s \in Devices
    BY DEF Devices
  <2> QED
    BY <1>11, <1>12, <2>1 DEF handle_irq
<1>13. ASSUME handle_irq_blk PROVE MaskMove
  <2>1. CASE used = <<>>
    <3>1. Blk \in Devices
      BY DEF Devices
    <3> QED
      BY <1>11, <1>13, <2>1, <3>1 DEF handle_irq_blk
  <2>2. CASE used # <<>>
    <3>1. /\ UNCHANGED <<cells, irq, hart, pc, halted>> /\ mask' = Session(mask) /\ irq = Blk
          /\ halted = "no"
      BY <1>13, <2>2 DEF handle_irq_blk
    <3>2. Borrowed = {Blk} /\ Borrowed' = {Blk}
      BY <3>1 DEF Borrowed, Blk, NoIrq
    <3>3. ~mask.sie
      BY <3>2 DEF MaskInv
    <3>4. Keeps
      BY <3>1, <3>2, <3>3, MaskMoves DEF Keeps
    <3> QED
      BY <1>e, <3>1, <3>4
  <2> QED
    BY <2>1, <2>2
<1>14. ASSUME (\E s \in Streams : arrive(s)) \/ (\E k \in Tokens : complete(k)) \/ UNCHANGED vars
       PROVE  MaskMove
  <2>1. UNCHANGED <<hart, pc, src, mask, cells, irq, halted>>
    BY <1>14 DEF arrive, complete, vars, local
  <2>2. halted' # "irq_borrowed"
    BY <2>1 DEF MaskInv
  <2> QED
    BY <1>0, <1>e, <2>1, <2>2, KeepsAll
<1> QED
  BY <1>1, <1>2, <1>3, <1>4, <1>5, <1>6, <1>7, <1>8, <1>9, <1>10, <1>12, <1>13, <1>14
  DEF Next, Hart, Kernel, User, Handler

-----------------------------------------------------------------------------
(* Inputs *)

\* Every step keeps the inputs in order.
LEMMA QueuedStep ==
  ASSUME TypeInv, InputInv, [Next]_vars
  PROVE  \A s \in Streams : Queued(s)'
<1>0. /\ fifo \in [Streams -> Seq(Nat)] /\ buffer \in [Streams -> Seq(Nat)]
      /\ arrived \in [Streams -> Nat] /\ got \in [Streams -> Nat] /\ src \in [Tasks -> Streams]
  BY DEF TypeInv, TypeOK
<1>1. \A s \in Streams : Numbered(buffer[s] \o fifo[s], arrived[s], got[s])
  BY DEF InputInv, Queued
<1>2. ASSUME \A s \in Streams : Numbered(buffer'[s] \o fifo'[s], arrived'[s], got'[s])
      PROVE  \A s \in Streams : Queued(s)'
  BY <1>2 DEF Queued
<1>3. ASSUME NEW s \in Streams,
             Numbered(buffer'[s] \o fifo'[s], arrived'[s], got'[s]),
             \A r \in Streams \ {s} : /\ buffer'[r] = buffer[r] /\ fifo'[r] = fifo[r]
                                      /\ arrived'[r] = arrived[r] /\ got'[r] = got[r]
      PROVE  \A r \in Streams : Queued(r)'
  <2>1. \A r \in Streams : Numbered(buffer'[r] \o fifo'[r], arrived'[r], got'[r])
    BY <1>1, <1>3
  <2> QED
    BY <1>2, <2>1
<1>4. ASSUME NEW t \in Tasks, pop_front(t) PROVE \A s \in Streams : Queued(s)'
  <2>1. PICK s \in Streams : s = src[t]
    BY <1>0
  <2>2. /\ buffer[s] # <<>> /\ buffer' = [buffer EXCEPT ![s] = Tail(@)]
        /\ got' = [got EXCEPT ![s] = @ + 1] /\ UNCHANGED <<fifo, arrived>>
    BY <1>4, <2>1 DEF pop_front
  <2>3. Numbered(Tail(buffer[s]) \o fifo[s], arrived[s], got[s] + 1)
    BY <1>0, <1>1, <2>2, NumberedTaken
  <2>4. buffer'[s] = Tail(buffer[s]) /\ got'[s] = got[s] + 1
    BY <1>0, <2>2
  <2>5. \A r \in Streams \ {s} : /\ buffer'[r] = buffer[r] /\ fifo'[r] = fifo[r]
                                 /\ arrived'[r] = arrived[r] /\ got'[r] = got[r]
    BY <1>0, <2>2
  <2> QED
    BY <1>3, <2>2, <2>3, <2>4, <2>5
<1>5. ASSUME NEW s \in Streams, arrive(s) PROVE \A r \in Streams : Queued(r)'
  <2>1. /\ arrived' = [arrived EXCEPT ![s] = @ + 1]
        /\ fifo' = [fifo EXCEPT ![s] = Append(@, arrived[s] + 1)]
        /\ UNCHANGED <<buffer, got>>
    BY <1>5 DEF arrive
  <2>2. Numbered(buffer[s] \o Append(fifo[s], arrived[s] + 1), arrived[s] + 1, got[s])
    BY <1>0, <1>1, NumberedArrives
  <2>3. fifo'[s] = Append(fifo[s], arrived[s] + 1) /\ arrived'[s] = arrived[s] + 1
    BY <1>0, <2>1
  <2>4. \A r \in Streams \ {s} : /\ buffer'[r] = buffer[r] /\ fifo'[r] = fifo[r]
                                 /\ arrived'[r] = arrived[r] /\ got'[r] = got[r]
    BY <1>0, <2>1
  <2> QED
    BY <1>3, <2>1, <2>2, <2>3, <2>4
<1>6. ASSUME NEW s \in Streams, handle_irq(s) PROVE \A r \in Streams : Queued(r)'
  <2>1. /\ buffer' = [buffer EXCEPT ![s] = buffer[s] \o fifo[s]]
        /\ fifo' = [fifo EXCEPT ![s] = <<>>]
        /\ UNCHANGED <<arrived, got>>
    BY <1>6 DEF handle_irq, Drained
  <2>2. Numbered((buffer[s] \o fifo[s]) \o <<>>, arrived[s], got[s])
    BY <1>0, <1>1, NumberedMoved
  <2>3. buffer'[s] = buffer[s] \o fifo[s] /\ fifo'[s] = <<>>
    BY <1>0, <2>1
  <2>4. \A r \in Streams \ {s} : /\ buffer'[r] = buffer[r] /\ fifo'[r] = fifo[r]
                                 /\ arrived'[r] = arrived[r] /\ got'[r] = got[r]
    BY <1>0, <2>1
  <2> QED
    BY <1>3, <2>1, <2>2, <2>3, <2>4
<1>7. ASSUME UNCHANGED <<fifo, arrived, buffer, got>> PROVE \A s \in Streams : Queued(s)'
  BY <1>1, <1>2, <1>7
<1>8. ASSUME \/ \E t \in Tasks : wait_no_sched(t) \/ submit_nb(t) \/ submit(t) \/ poll(t)
             \/ \E k \in Tokens : complete(k)
             \/ \E d \in Devices : claim(d)
             \/ handle_irq_blk
             \/ UNCHANGED vars
      PROVE  UNCHANGED <<fifo, arrived, buffer, got>>
  BY <1>8 DEF wait_no_sched, submit_nb, submit, poll, complete, claim, handle_irq_blk, vars,
     input, Halt
<1> QED
  BY <1>4, <1>5, <1>6, <1>7, <1>8, Steps, ElsewhereKeeps DEF input

\* Every step keeps the readers of input devices on the hart, with an event to read.
LEMMA ReaderStep ==
  ASSUME TypeInv, InputInv, [Next]_vars
  PROVE  ReaderInv'
<1> USE DEF Running
<1>0. /\ DOMAIN pc = Tasks /\ src \in [Tasks -> Streams]
      /\ fifo \in [Streams -> Seq(Nat)] /\ buffer \in [Streams -> Seq(Nat)]
  BY DEF TypeInv, TypeOK
<1>r. ReaderInv
  BY DEF InputInv
<1>1. ASSUME \A t \in Tasks : src'[t] = "uart" PROVE ReaderInv'
  BY <1>1 DEF ReaderInv
<1>2. ASSUME NEW t \in Tasks, hart = t, pc[t] \notin {"read", "reading"}
      PROVE  \A u \in Tasks : src[u] = "uart"
  BY <1>r, <1>2 DEF ReaderInv
<1>3. ASSUME NEW t \in Tasks,
             \/ leave(t) \/ write(t) \/ written(t)
             \/ schedule(t, "read_sched", "read") \/ schedule(t, "disk_sched", "disk_done")
             \/ begin_phase(t) \/ access(t) \/ end_phase(t)
             \/ read_block(t) \/ submit_nb(t) \/ submit(t) \/ poll(t) \/ disk_done(t)
             \/ sys_file(t) \/ sys_key_pressed(t) \/ sys_write(t) \/ preempt(t) \/ sys_yield(t)
      PROVE  ReaderInv'
  <2>1. hart = t /\ pc[t] \notin {"read", "reading"}
    BY <1>3 DEF leave, write, written, schedule, begin_phase, access, end_phase, read_block,
       submit_nb, submit, poll, disk_done, sys_file, sys_key_pressed, sys_write, syscall,
       preempt, sys_yield, suspend
  <2>2. UNCHANGED src
    BY <1>3 DEF leave, write, written, schedule, begin_phase, access, end_phase, read_block,
       submit_nb, submit, poll, disk_done, sys_file, sys_key_pressed, sys_write,
       preempt, sys_yield, suspend, Halt, local
  <2> QED
    BY <1>1, <1>2, <2>1, <2>2
<1>4. ASSUME NEW t \in Tasks, sys_read(t) \/ pop_front(t) PROVE ReaderInv'
  <2>1. hart = t /\ src' = [src EXCEPT ![t] = "uart"]
    BY <1>4 DEF sys_read, syscall, pop_front
  <2>2. \A u \in Tasks \ {t} : src[u] = "uart"
    BY <1>r, <2>1 DEF ReaderInv
  <2> QED
    BY <1>0, <1>1, <2>1, <2>2
<1>5. ASSUME NEW t \in Tasks, sys_event_get(t) PROVE ReaderInv'
  <2>1. hart = t /\ hart' = t /\ pc[t] = "user" /\ UNCHANGED buffer
    BY <1>5 DEF sys_event_get, syscall, input
  <2>2. \A u \in Tasks : src[u] = "uart"
    BY <1>2, <2>1
  <2>3. CASE UNCHANGED src
    BY <1>1, <2>2, <2>3
  <2>4. ASSUME NEW s \in {"keyboard", "mouse"}, buffer[s] # <<>>, Goto(t, "read"),
               src' = [src EXCEPT ![t] = s]
        PROVE  ReaderInv'
    <3>1. pc'[t] = "read" /\ src'[t] = s /\ \A u \in Tasks \ {t} : src'[u] = "uart"
      BY <1>0, <2>2, <2>4 DEF Goto
    <3> QED
      BY <2>1, <2>4, <3>1 DEF ReaderInv
  <2> QED
    BY <1>5, <2>3, <2>4 DEF sys_event_get, syscall
<1>6. ASSUME NEW t \in Tasks, read(t) PROVE ReaderInv'
  <2>1. hart = t /\ UNCHANGED <<hart, src, buffer>> /\ pc[t] = "read"
    BY <1>6 DEF read, Halt, local, input
  <2>2. UNCHANGED pc \/ Goto(t, "reading")
    BY <1>6 DEF read, Halt
  <2>3. pc'[t] \in {"read", "reading"} /\ \A u \in Tasks \ {t} : src[u] = "uart"
    BY <1>0, <1>r, <2>1, <2>2 DEF Goto, ReaderInv
  <2> QED
    BY <1>r, <2>1, <2>3 DEF ReaderInv
<1>7. ASSUME NEW t \in Tasks, wait_no_sched(t) PROVE ReaderInv'
  <2>1. hart = t /\ UNCHANGED src /\ buffer[src[t]] = <<>>
    BY <1>7 DEF wait_no_sched, local
  <2> QED
    BY <1>1, <1>r, <2>1 DEF ReaderInv
<1>8. ASSUME run_tasks PROVE ReaderInv'
  BY <1>1, <1>8, <1>r, CellsDiffer DEF run_tasks, local, ReaderInv
<1>9. ASSUME NEW s \in Streams, handle_irq(s) PROVE ReaderInv'
  <2>1. UNCHANGED <<hart, pc, src>> /\ buffer' = [buffer EXCEPT ![s] = buffer[s] \o fifo[s]]
    BY <1>9 DEF handle_irq, Drained, local
  <2>2. \A b, f \in Seq(Nat) : b # <<>> => b \o f # <<>>
    <3> TAKE b, f \in Seq(Nat)
    <3>1. Len(b \o f) = Len(b) + Len(f) /\ Len(b) \in Nat /\ Len(f) \in Nat
      BY ConcatProperties, LenProperties
    <3>2. b # <<>> => Len(b) # 0
      BY EmptySeq
    <3>3. b # <<>> => Len(b \o f) # 0
      BY <3>1, <3>2, SMTT(30)
    <3> QED
      BY <3>3, EmptySeq
  <2>3. \A r \in Streams : buffer[r] # <<>> => buffer'[r] # <<>>
    BY <1>0, <2>1, <2>2
  <2> QED
    BY <1>0, <1>r, <2>1, <2>3 DEF ReaderInv
<1>10. ASSUME \/ (\E d \in Devices : claim(d)) \/ (\E k \in Tokens : complete(k))
              \/ (\E s \in Streams : arrive(s)) \/ handle_irq_blk \/ UNCHANGED vars
       PROVE  ReaderInv'
  <2>1. UNCHANGED <<hart, pc, src, buffer>>
    BY <1>10 DEF claim, complete, arrive, handle_irq_blk, vars, local, input, Halt
  <2> QED
    BY <1>r, <2>1 DEF ReaderInv
<1> QED
  BY <1>3, <1>4, <1>5, <1>6, <1>7, <1>8, <1>9, <1>10 DEF Next, Hart, Kernel, User, Handler

\* Every step keeps waiting tasks beside an empty buffer, unless two waited at once.
LEMMA WaitStep ==
  ASSUME TypeInv, InputInv, [Next]_vars
  PROVE  WaitInv'
<1>0. /\ src \in [Tasks -> Streams] /\ waitq \in [Streams -> Seq(Tasks)] /\ crowd \in BOOLEAN
      /\ fifo \in [Streams -> Seq(Nat)] /\ buffer \in [Streams -> Seq(Nat)]
      /\ "uart" \in Streams /\ "keyboard" \in Streams /\ "mouse" \in Streams
  BY DEF TypeInv, TypeOK, Streams
<1>w. WaitInv /\ ReaderInv
  BY DEF InputInv
<1>1. ASSUME NEW t \in Tasks, pop_front(t) PROVE WaitInv'
  <2>1. UNCHANGED <<waitq, crowd>> /\ buffer[src[t]] # <<>>
        /\ buffer' = [buffer EXCEPT ![src[t]] = Tail(@)]
    BY <1>1 DEF pop_front, past
  <2>2. waitq["uart"] # <<>> /\ ~crowd => buffer'["uart"] = <<>>
    BY <1>0, <1>w, <2>1 DEF WaitInv
  <2> QED
    BY <1>w, <2>1, <2>2 DEF WaitInv
<1>2. ASSUME NEW t \in Tasks, wait_no_sched(t) PROVE WaitInv'
  <2>1. src[t] = "uart"
    BY <1>2, <1>w DEF wait_no_sched, ReaderInv
  <2>2. /\ waitq' = [waitq EXCEPT !["uart"] = Append(@, t)] /\ UNCHANGED buffer
        /\ buffer["uart"] = <<>> /\ (~crowd' => waitq["uart"] = <<>>)
    BY <1>2, <2>1 DEF wait_no_sched
  <2>3. waitq'["keyboard"] = <<>> /\ waitq'["mouse"] = <<>>
    BY <1>0, <1>w, <2>2 DEF WaitInv
  <2>4. ~crowd' => Len(waitq'["uart"]) <= 1
    <3>1. Len(Append(waitq["uart"], t)) = Len(waitq["uart"]) + 1
      BY <1>0, AppendProperties, SMTT(30)
    <3>2. waitq["uart"] = <<>> => Len(waitq["uart"]) = 0
      BY EmptySeq
    <3>3. waitq'["uart"] = Append(waitq["uart"], t)
      BY <1>0, <2>2
    <3> QED
      BY <2>2, <3>1, <3>2, <3>3, SMTT(30)
  <2> QED
    BY <2>2, <2>3, <2>4 DEF WaitInv
<1>3. ASSUME NEW s \in Streams, handle_irq(s) PROVE WaitInv'
  <2>1. buffer' = [buffer EXCEPT ![s] = buffer[s] \o fifo[s]] /\ UNCHANGED crowd
    BY <1>3 DEF handle_irq, Drained, past
  <2>2. \/ fifo[s] = <<>> /\ waitq' = waitq
        \/ fifo[s] # <<>> /\ waitq' = [waitq EXCEPT ![s] = Rest(@)]
    BY <1>3 DEF handle_irq, WakeReader
  <2>3. \A q \in Seq(Tasks) :
          /\ Len(q) <= 1 => Rest(q) = <<>>
          /\ q = <<>> => Rest(q) = <<>>
    <3> TAKE q \in Seq(Tasks)
    <3>1. CASE q = <<>>
      BY <3>1 DEF Rest
    <3>2. CASE q # <<>> /\ Len(q) <= 1
      <4>1. Len(q) \in Nat \ {0} /\ Tail(q) \in Seq(Tasks) /\ Len(Tail(q)) = Len(q) - 1
        BY <3>2, EmptySeq, HeadTailProperties
      <4>2. Len(Tail(q)) = 0
        BY <3>2, <4>1, SMTT(30)
      <4>3. Tail(q) = <<>>
        BY <4>1, <4>2, EmptySeq
      <4> QED
        BY <3>2, <4>3 DEF Rest
    <3> QED
      BY <3>1, <3>2
  <2>4. waitq'["keyboard"] = <<>> /\ waitq'["mouse"] = <<>>
    BY <1>0, <1>w, <2>2, <2>3, SMTT(60) DEF WaitInv
  <2>5. CASE crowd
    BY <2>1, <2>4, <2>5 DEF WaitInv
  <2>6. CASE ~crowd /\ s # "uart"
    <3>1. waitq'["uart"] = waitq["uart"] /\ buffer'["uart"] = buffer["uart"]
      BY <1>0, <2>1, <2>2, <2>6
    <3> QED
      BY <1>w, <2>1, <2>4, <2>6, <3>1 DEF WaitInv
  <2>7. CASE ~crowd /\ s = "uart"
    <3>1. CASE fifo[s] = <<>>
      <4>1. buffer'["uart"] = buffer["uart"]
        BY <1>0, <2>1, <2>7, <3>1, ConcatEmptySeq
      <4> QED
        BY <1>w, <2>1, <2>2, <2>4, <3>1, <4>1 DEF WaitInv
    <3>2. CASE fifo[s] # <<>>
      <4>1. waitq'["uart"] = Rest(waitq["uart"])
        BY <1>0, <2>2, <2>7, <3>2
      <4>2. waitq'["uart"] = <<>>
        BY <1>0, <1>w, <2>3, <2>7, <4>1 DEF WaitInv
      <4>3. Len(waitq'["uart"]) <= 1
        BY <4>2, EmptySeq, SMTT(30)
      <4> QED
        BY <2>4, <4>2, <4>3 DEF WaitInv
    <3> QED
      BY <3>1, <3>2
  <2> QED
    BY <1>0, <2>5, <2>6, <2>7
<1>4. ASSUME UNCHANGED <<waitq, buffer, crowd>> PROVE WaitInv'
  BY <1>4, <1>w DEF WaitInv
<1>5. ASSUME \/ \E t \in Tasks : submit_nb(t) \/ submit(t) \/ poll(t)
             \/ \E k \in Tokens : complete(k)
             \/ \E d \in Devices : claim(d)
             \/ \E s \in Streams : arrive(s)
             \/ handle_irq_blk
             \/ UNCHANGED vars
      PROVE  UNCHANGED <<waitq, buffer, crowd>>
  BY <1>5 DEF submit_nb, submit, poll, complete, claim, arrive, handle_irq_blk, vars, input,
     past, Halt
<1> QED
  BY <1>1, <1>2, <1>3, <1>4, <1>5, Steps, ElsewhereKeeps DEF input

-----------------------------------------------------------------------------
(* The disk *)

\* Where a request may be outstanding, and the tokens that are.
AtRequest == {"poll", "disk_sched", "disk_done"}
Outstanding == inflight \cup Range(used)

\* The lock of the block cache is held from the need of a block to its arrival.
ManagerInv == \A t \in Tasks : pc[t] \in AtBlock <=> manager = t

\* At most one request is outstanding, that of the task with the lock, and an interrupt is
\* on its way when it is done.
RequestInv ==
  /\ \A k \in Outstanding : manager \in Tasks /\ tok[manager] = k /\ pc[manager] \in AtRequest
  /\ used = <<>> \/ (inflight = {} /\ \E k \in Tokens : used = <<k>>)
  /\ used # <<>> => Blk \in pending \/ irq = Blk

\* A task sleeps in the queue of its token exactly while its request is outstanding.
SleeperInv ==
  /\ \A k \in Tokens :
       \/ condvars[k] = <<>>
       \/ \E t \in Tasks : condvars[k] = <<t>> /\ tok[t] = k /\ AtDisk(t) /\ k \in Outstanding
  /\ \A t \in Tasks : AtDisk(t) /\ tok[t] \in Outstanding => condvars[tok[t]] = <<t>>

DiskInv == ManagerInv /\ RequestInv /\ SleeperInv

\* A queue of one.
LEMMA Single ==
  ASSUME NEW x
  PROVE  /\ <<x>> # <<>> /\ Head(<<x>>) = x /\ Tail(<<x>>) = <<>> /\ Append(<<>>, x) = <<x>>
         /\ Range(<<x>>) = {x} /\ Range(<<>>) = {} /\ Rest(<<x>>) = <<>> /\ Rest(<<>>) = <<>>
         /\ \A y : <<x>> = <<y>> => x = y
<1>1. /\ <<x>> # <<>> /\ Head(<<x>>) = x /\ Tail(<<x>>) = <<>> /\ Append(<<>>, x) = <<x>>
      /\ \A y : <<x>> = <<y>> => x = y
  BY SMTT(30)
<1>2. Range(<<x>>) = {x} /\ Range(<<>>) = {}
  BY SMTT(30) DEF Range
<1> QED
  BY <1>1, <1>2 DEF Rest

\* What a task does to its place and to the lock of the block cache.
ManagerMove(t) ==
  \/ UNCHANGED <<pc, manager>>
  \/ UNCHANGED manager /\ \E x : Goto(t, x) /\ (x \in AtBlock <=> pc[t] \in AtBlock)
  \/ manager = Nobody /\ manager' = t /\ Goto(t, "request")
  \/ pc[t] \in AtBlock /\ manager' = Nobody /\ Goto(t, "access")

\* Every step of a task is such a move.
LEMMA ManagerMoves ==
  ASSUME NEW t \in Tasks, Kernel(t) \/ User(t)
  PROVE  ManagerMove(t)
<1> USE DEF ManagerMove, Running, AtBlock, InPhase
<1>1. ASSUME \/ schedule(t, "read_sched", "read") \/ schedule(t, "disk_sched", "disk_done")
             \/ preempt(t) \/ sys_yield(t) \/ leave(t)
      PROVE  ManagerMove(t)
  BY <1>1, SMTT(60) DEF schedule, preempt, sys_yield, suspend, leave, locks
<1>2. ASSUME read(t) \/ write(t) \/ read_block(t) \/ begin_phase(t)
      PROVE  ManagerMove(t)
  BY <1>2, SMTT(30) DEF read, write, read_block, begin_phase, Halt, locks
<1>3. ASSUME access(t) \/ disk_done(t) PROVE ManagerMove(t)
  BY <1>3, SMTT(60) DEF access, disk_done, Halt, locks
<1>4. ASSUME pop_front(t) \/ wait_no_sched(t) \/ written(t) \/ end_phase(t)
      PROVE  ManagerMove(t)
  BY <1>4, SMTT(30) DEF pop_front, wait_no_sched, written, end_phase, locks
<1>5. ASSUME submit_nb(t) \/ submit(t) \/ poll(t) PROVE ManagerMove(t)
  BY <1>5, SMTT(30) DEF submit_nb, submit, poll, locks
<1>6. ASSUME sys_file(t) \/ sys_read(t) \/ sys_event_get(t) \/ sys_key_pressed(t) \/ sys_write(t)
      PROVE  ManagerMove(t)
  BY <1>6, SMTT(30) DEF sys_file, sys_read, sys_event_get, sys_key_pressed, sys_write, syscall, locks
<1> QED
  BY <1>1, <1>2, <1>3, <1>4, <1>5, <1>6 DEF Kernel, User

\* Every step keeps the lock of the block cache with the task that waits for a block.
LEMMA ManagerStep ==
  ASSUME TypeInv, ManagerInv, [Next]_vars
  PROVE  ManagerInv'
<1>0. DOMAIN pc = Tasks
  BY DEF TypeInv, TypeOK
<1>1. ASSUME NEW t \in Tasks, Kernel(t) \/ User(t) PROVE ManagerInv'
  <2>1. ManagerMove(t)
    BY <1>1, ManagerMoves
  <2>2. CASE UNCHANGED <<pc, manager>>
    BY <2>2 DEF ManagerInv
  <2>3. ASSUME UNCHANGED manager, NEW x, Goto(t, x), x \in AtBlock <=> pc[t] \in AtBlock
        PROVE  ManagerInv'
    BY <1>0, <2>3 DEF ManagerInv, Goto
  <2>4. CASE manager = Nobody /\ manager' = t /\ Goto(t, "request")
    BY <1>0, <2>4, CellsDiffer DEF ManagerInv, Goto, AtBlock, InPhase
  <2>5. CASE pc[t] \in AtBlock /\ manager' = Nobody /\ Goto(t, "access")
    BY <1>0, <2>5, CellsDiffer DEF ManagerInv, Goto, AtBlock, InPhase
  <2> QED
    BY <2>1, <2>2, <2>3, <2>4, <2>5 DEF ManagerMove
<1>2. ASSUME \/ run_tasks \/ Handler \/ UNCHANGED vars
             \/ \E d \in Devices : claim(d)
             \/ \E s \in Streams : arrive(s)
             \/ \E k \in Tokens : complete(k)
      PROVE  ManagerInv'
  <2>1. UNCHANGED <<pc, manager>>
    BY <1>2 DEF run_tasks, Handler, handle_irq, handle_irq_blk, claim, arrive, complete, vars,
       Halt, locks
  <2> QED
    BY <2>1 DEF ManagerInv
<1> QED
  BY <1>1, <1>2 DEF Next, Hart

\* Nothing is outstanding while the task with the lock has not asked for its block.
LEMMA NothingOutstanding ==
  ASSUME DiskInv,
         \/ manager = Nobody
         \/ \E t \in Tasks : manager = t /\ (pc[t] \notin AtRequest \/ tok[t] \notin Outstanding)
  PROVE  /\ inflight = {} /\ used = <<>> /\ Outstanding = {}
         /\ \A k \in Tokens : condvars[k] = <<>>
<1>1. Outstanding = {}
  BY CellsDiffer DEF DiskInv, RequestInv
<1>2. inflight = {}
  BY <1>1 DEF Outstanding
<1>3. used = <<>>
  <2>1. \A k \in Tokens : used = <<k>> => k \in Outstanding
    BY Single DEF Outstanding
  <2> QED
    BY <1>1, <2>1 DEF DiskInv, RequestInv
<1>4. \A k \in Tokens : condvars[k] = <<>>
  BY <1>1 DEF DiskInv, SleeperInv
<1> QED
  BY <1>1, <1>2, <1>3, <1>4

\* As long as nothing is outstanding, what the tasks do does not matter.
LEMMA DiskIdle ==
  ASSUME inflight' = {}, used' = <<>>, \A k \in Tokens : condvars'[k] = <<>>
  PROVE  RequestInv' /\ SleeperInv'
<1>1. Outstanding' = {}
  BY Single DEF Outstanding
<1> QED
  BY <1>1 DEF RequestInv, SleeperInv

\* A task which has no request outstanding moves.
LEMMA DiskOthers ==
  ASSUME TypeInv, DiskInv, NEW t \in Tasks, NEW x, Goto(t, x), pc[t] \notin AtRequest,
         x \notin {"disk_sched", "disk_done"},
         UNCHANGED <<manager, tok, disk>>, used # <<>> => Blk \in pending' \/ irq' = Blk
  PROVE  RequestInv' /\ SleeperInv'
<1>1. Outstanding' = Outstanding
  BY DEF Outstanding, disk
<1>2. \A u \in Tasks \ {t} : pc'[u] = pc[u]
  BY DEF TypeInv, TypeOK, Goto
<1>3. pc'[t] = x
  BY DEF TypeInv, TypeOK, Goto
<1>4. RequestInv'
  BY <1>1, <1>2 DEF DiskInv, RequestInv, disk
<1>5. \A u \in Tasks : AtDisk(u)' <=> AtDisk(u)
  BY <1>2, <1>3 DEF AtDisk, AtRequest
<1>6. SleeperInv'
  BY <1>1, <1>5 DEF DiskInv, SleeperInv, disk
<1> QED
  BY <1>4, <1>6

\* Steps which leave the tasks and the requests alone.
LEMMA DiskSame ==
  ASSUME DiskInv, UNCHANGED <<pc, manager, tok, disk>>,
         used # <<>> => Blk \in pending' \/ irq' = Blk
  PROVE  RequestInv' /\ SleeperInv'
<1>1. Outstanding' = Outstanding
  BY DEF Outstanding, disk
<1>2. RequestInv'
  BY <1>1 DEF DiskInv, RequestInv, disk
<1>3. SleeperInv'
  BY <1>1 DEF DiskInv, SleeperInv, AtDisk, disk
<1> QED
  BY <1>2, <1>3

\* Every step keeps the requests of the disk with the tasks that sleep for them.
LEMMA DiskStep ==
  ASSUME TypeInv, DiskInv, [Next]_vars
  PROVE  RequestInv' /\ SleeperInv'
<1> USE DEF Running
<1>0. /\ DOMAIN pc = Tasks /\ tok \in [Tasks -> Tokens \cup {NoToken}]
      /\ condvars \in [Tokens -> Seq(Tasks)]
  BY DEF TypeInv, TypeOK
<1>p. used # <<>> => Blk \in pending \/ irq = Blk
  BY DEF DiskInv, RequestInv
<1>1. ASSUME NEW t \in Tasks,
             \/ leave(t) \/ read(t) \/ write(t) \/ written(t) \/ schedule(t, "read_sched", "read")
             \/ begin_phase(t) \/ end_phase(t) \/ read_block(t)
             \/ sys_file(t) \/ sys_read(t) \/ sys_event_get(t) \/ sys_key_pressed(t)
             \/ sys_write(t) \/ preempt(t) \/ sys_yield(t)
             \/ pop_front(t) \/ wait_no_sched(t)
      PROVE  RequestInv' /\ SleeperInv'
  <2>1. UNCHANGED <<manager, tok, disk, pending, irq>> /\ pc[t] \notin AtRequest
    BY <1>1 DEF leave, read, write, written, schedule, begin_phase, end_phase, read_block, sys_file,
       sys_read, sys_event_get, sys_key_pressed, sys_write, syscall, preempt, sys_yield, suspend,
       pop_front, wait_no_sched, AtRequest, Halt, local, locks
  <2>2. \/ UNCHANGED pc
        \/ \E x \in {"user", "reading", "writing", "trap", "read", "access", "phase", "submit",
                    "write", "read_sched"} : Goto(t, x)
    <3>1. CASE leave(t) \/ read(t) \/ write(t) \/ written(t) \/ schedule(t, "read_sched", "read")
      BY <3>1 DEF leave, read, write, written, schedule, Halt
    <3>2. CASE begin_phase(t) \/ end_phase(t) \/ read_block(t)
      BY <3>2 DEF begin_phase, end_phase, read_block, Halt
    <3>3. CASE sys_file(t) \/ sys_read(t) \/ sys_event_get(t) \/ sys_key_pressed(t) \/ sys_write(t)
      BY <3>3 DEF sys_file, sys_read, sys_event_get, sys_key_pressed, sys_write, syscall
    <3>4. CASE preempt(t) \/ sys_yield(t) \/ pop_front(t) \/ wait_no_sched(t)
      BY <3>4 DEF preempt, sys_yield, suspend, pop_front, wait_no_sched
    <3> QED
      BY <1>1, <3>1, <3>2, <3>3, <3>4
  <2> QED
    BY <1>p, <2>1, <2>2, DiskOthers, DiskSame
<1>2. ASSUME NEW t \in Tasks, access(t) PROVE RequestInv' /\ SleeperInv'
  <2>1. UNCHANGED <<tok, disk, pending, irq>> /\ pc[t] \notin AtRequest
    BY <1>2 DEF access, Halt, local, AtRequest
  <2>2. \/ UNCHANGED <<pc, manager>>
        \/ manager = Nobody
    BY <1>2 DEF access, Halt, locks
  <2>3. CASE manager = Nobody
    BY <2>1, <2>3, NothingOutstanding, DiskIdle DEF disk
  <2> QED
    BY <1>p, <2>1, <2>2, <2>3, DiskSame
<1>3. ASSUME NEW t \in Tasks, disk_done(t) PROVE RequestInv' /\ SleeperInv'
  <2>1. UNCHANGED <<disk, pending, irq>> /\ pc[t] = "disk_done"
    BY <1>3 DEF disk_done, Halt
  <2>2. UNCHANGED <<pc, manager, tok>> \/ tok[t] \notin Outstanding
    BY <1>3 DEF disk_done, Halt, locks, local, Outstanding
  <2>3. CASE tok[t] \notin Outstanding
    <3>1. manager = t
      BY <2>1 DEF DiskInv, ManagerInv, AtBlock, InPhase
    <3> QED
      BY <2>1, <2>3, <3>1, NothingOutstanding, DiskIdle DEF disk
  <2> QED
    BY <1>p, <2>1, <2>2, <2>3, DiskSame
<1>4. ASSUME NEW t \in Tasks, schedule(t, "disk_sched", "disk_done")
      PROVE  RequestInv' /\ SleeperInv'
  <2>1. /\ UNCHANGED <<manager, tok, disk, pending, irq>> /\ pc[t] = "disk_sched"
        /\ Goto(t, "disk_done")
    BY <1>4 DEF schedule, locks, local
  <2>2. Outstanding' = Outstanding
    BY <2>1 DEF Outstanding, disk
  <2>3. \A u \in Tasks : /\ pc[u] \in AtRequest => pc'[u] \in AtRequest
                         /\ AtDisk(u)' <=> AtDisk(u)
    BY <1>0, <2>1 DEF Goto, AtRequest, AtDisk
  <2>4. RequestInv'
    BY <2>1, <2>2, <2>3 DEF DiskInv, RequestInv, disk
  <2>5. SleeperInv'
    BY <2>1, <2>2, <2>3 DEF DiskInv, SleeperInv, disk
  <2> QED
    BY <2>4, <2>5
<1>5. ASSUME NEW t \in Tasks, submit_nb(t) \/ submit(t) PROVE RequestInv' /\ SleeperInv'
  <2>1. pc[t] = "submit" /\ UNCHANGED <<manager, used>>
    BY <1>5 DEF submit_nb, submit, locks
  <2>2. manager = t
    BY <2>1 DEF DiskInv, ManagerInv, AtBlock, InPhase
  <2>3. /\ inflight = {} /\ used = <<>> /\ Outstanding = {}
        /\ \A j \in Tokens : condvars[j] = <<>>
    BY <2>1, <2>2, NothingOutstanding DEF AtRequest
  <2>4. PICK k \in Tokens : /\ inflight' = inflight \cup {k} /\ tok' = [tok EXCEPT ![t] = k]
                            /\ \/ Goto(t, "poll") /\ UNCHANGED condvars
                               \/ /\ Goto(t, "disk_sched")
                                  /\ condvars' = [condvars EXCEPT ![k] = Append(@, t)]
    BY <1>5 DEF submit_nb, submit, NewToken
  <2>5. Outstanding' = {k} /\ used' = <<>> /\ inflight' = {k}
    BY <2>1, <2>3, <2>4, Single DEF Outstanding
  <2>6. /\ tok'[t] = k /\ pc'[t] \in AtRequest
        /\ \A u \in Tasks \ {t} : pc'[u] = pc[u]
    BY <1>0, <2>4 DEF Goto, AtRequest
  <2>7. RequestInv'
    BY <2>1, <2>2, <2>5, <2>6 DEF RequestInv
  <2>8. \A u \in Tasks \ {t} : ~AtDisk(u)'
    BY <2>2, <2>6 DEF DiskInv, ManagerInv, AtBlock, InPhase, AtDisk
  <2>9. CASE Goto(t, "poll") /\ UNCHANGED condvars
    <3>1. ~AtDisk(t)'
      BY <1>0, <2>9 DEF Goto, AtDisk
    <3> QED
      BY <2>3, <2>7, <2>8, <2>9, <3>1 DEF SleeperInv
  <2>10. CASE Goto(t, "disk_sched") /\ condvars' = [condvars EXCEPT ![k] = Append(@, t)]
    <3>1. AtDisk(t)'
      BY <1>0, <2>10 DEF Goto, AtDisk
    <3>2. condvars'[k] = <<t>> /\ \A j \in Tokens \ {k} : condvars'[j] = <<>>
      BY <1>0, <2>3, <2>10, Single
    <3> QED
      BY <2>5, <2>6, <2>7, <2>8, <3>1, <3>2 DEF SleeperInv
  <2> QED
    BY <2>4, <2>9, <2>10
<1>6. ASSUME NEW t \in Tasks, poll(t) PROVE RequestInv' /\ SleeperInv'
  <2>1. pc[t] = "poll" /\ used # <<>> /\ used' = Tail(used) /\ UNCHANGED <<inflight, condvars>>
    BY <1>6 DEF poll
  <2>2. manager = t
    BY <2>1 DEF DiskInv, ManagerInv, AtBlock, InPhase
  <2>3. inflight' = {} /\ used' = <<>>
    BY <2>1, Single DEF DiskInv, RequestInv
  <2>4. \A u \in Tasks : ~AtDisk(u)
    BY <2>1, <2>2 DEF DiskInv, ManagerInv, AtBlock, InPhase, AtDisk
  <2>5. \A k \in Tokens : condvars'[k] = <<>>
    BY <2>1, <2>4 DEF DiskInv, SleeperInv
  <2> QED
    BY <2>3, <2>5, DiskIdle
<1>7. ASSUME NEW k \in Tokens, complete(k) PROVE RequestInv' /\ SleeperInv'
  <2>1. /\ k \in inflight /\ inflight' = inflight \ {k} /\ used' = Append(used, k)
        /\ Blk \in pending' /\ UNCHANGED <<pc, manager, tok, condvars>>
    BY <1>7 DEF complete, local, locks
  <2>2. used = <<>>
    BY <2>1 DEF DiskInv, RequestInv
  <2>3. \A j \in inflight : j = k
    BY <2>1, SMTT(30) DEF DiskInv, RequestInv, Outstanding
  <2>4. inflight' = {} /\ used' = <<k>>
    BY <2>1, <2>2, <2>3, Single
  <2>5. Outstanding = {k} /\ Outstanding' = {k}
    BY <2>1, <2>2, <2>3, <2>4, Single DEF Outstanding
  <2>6. RequestInv'
    BY <2>1, <2>4, <2>5 DEF DiskInv, RequestInv
  <2>7. SleeperInv'
    BY <2>1, <2>5 DEF DiskInv, SleeperInv, AtDisk
  <2> QED
    BY <2>6, <2>7
<1>8. ASSUME handle_irq_blk PROVE RequestInv' /\ SleeperInv'
  <2>1. CASE used = <<>>
    <3>1. UNCHANGED <<pc, manager, tok, disk>>
      BY <1>8, <2>1 DEF handle_irq_blk, local, locks, disk
    <3> QED
      BY <2>1, <3>1, DiskSame
  <2>2. CASE used # <<>>
    <3>1. PICK k \in Tokens : inflight = {} /\ used = <<k>>
      BY <2>2 DEF DiskInv, RequestInv
    <3>2. /\ UNCHANGED inflight /\ used' = Tail(used)
          /\ condvars' = [condvars EXCEPT ![Head(used)] = Rest(@)]
      BY <1>8, <2>2 DEF handle_irq_blk
    <3>3. used' = <<>> /\ Head(used) = k /\ Outstanding = {k}
      BY <3>1, <3>2, Single DEF Outstanding
    <3>4. condvars'[k] = <<>>
      <4>1. condvars'[k] = Rest(condvars[k])
        BY <1>0, <3>2, <3>3
      <4>2. condvars[k] = <<>> \/ \E t \in Tasks : condvars[k] = <<t>>
        BY DEF DiskInv, SleeperInv
      <4> QED
        BY <4>1, <4>2, Single
    <3>5. \A j \in Tokens \ {k} : condvars'[j] = <<>>
      BY <1>0, <3>2, <3>3 DEF DiskInv, SleeperInv
    <3> QED
      BY <3>1, <3>2, <3>3, <3>4, <3>5, DiskIdle
  <2> QED
    BY <2>1, <2>2
<1>9. ASSUME \/ run_tasks \/ UNCHANGED vars
             \/ \E d \in Devices : claim(d)
             \/ \E s \in Streams : arrive(s) \/ handle_irq(s)
      PROVE  RequestInv' /\ SleeperInv'
  <2>1. UNCHANGED <<pc, manager, tok, disk>>
    BY <1>9 DEF run_tasks, handle_irq, claim, arrive, vars, Halt, local, locks
  <2>2. used # <<>> => Blk \in pending' \/ irq' = Blk
    BY <1>9, <1>p, SMTT(20) DEF run_tasks, handle_irq, claim, arrive, vars, Halt, Streams, Blk, NoIrq
  <2> QED
    BY <2>1, <2>2, DiskSame
<1> QED
  BY <1>1, <1>2, <1>3, <1>4, <1>5, <1>6, <1>7, <1>8, <1>9 DEF Next, Hart, Kernel, User, Handler

-----------------------------------------------------------------------------
(* Who is in which queue *)

\* A task off the hart was suspended at one of three places.  A task is in one queue at
\* most, and while it is still on the hart only between wait_no_sched and schedule.
QueueInv ==
  /\ \A t \in Tasks : t # hart => pc[t] \in {"trap", "read", "disk_done"}
  /\ IsInjective(ready) /\ IsInjective(waitq["uart"])
  /\ \A t \in Range(ready) : t = hart => pc[t] \in {"read_sched", "disk_sched"}
  /\ \A t \in Range(waitq["uart"]) :
       /\ t \notin Range(ready) /\ pc[t] \in {"read_sched", "read"}
       /\ t = hart => pc[t] = "read_sched"
  /\ \A k \in Tokens, t \in Tasks : condvars[k] = <<t>> =>
       t \notin Range(ready) /\ (t = hart => pc[t] = "disk_sched")

\* A task on the hart that is not about to call schedule is in no queue, and moves.
LEMMA QueueKept ==
  ASSUME TypeInv, QueueInv, NEW t \in Tasks, hart = t, UNCHANGED <<hart, ready, condvars>>,
         waitq'["uart"] = waitq["uart"],
         pc[t] \notin {"read_sched", "disk_sched"}, UNCHANGED pc \/ \E x : Goto(t, x)
  PROVE  QueueInv'
<1>1. \A u \in Tasks \ {t} : pc'[u] = pc[u]
  BY DEF TypeInv, TypeOK, Goto
<1>2. ready \in Seq(Tasks) /\ waitq["uart"] \in Seq(Tasks)
  BY DEF TypeInv, TypeOK, Streams
<1>3. Range(ready) \subseteq Tasks /\ Range(waitq["uart"]) \subseteq Tasks
  BY <1>2, LenProperties, SMTT(30) DEF Range
<1>4. /\ t \notin Range(ready) /\ t \notin Range(waitq["uart"])
      /\ \A k \in Tokens : condvars[k] # <<t>>
  BY DEF QueueInv
<1> QED
  BY <1>1, <1>3, <1>4 DEF QueueInv

\* Steps that leave the queues and the tasks alone.
LEMMA QueueSame ==
  ASSUME QueueInv, UNCHANGED <<hart, ready, pc, condvars>>, waitq'["uart"] = waitq["uart"]
  PROVE  QueueInv'
BY DEF QueueInv

\* Every step keeps every task in at most one queue.
LEMMA QueueStep ==
  ASSUME TypeInv, DiskInv, WaitInv, ReaderInv, QueueInv, [Next]_vars
  PROVE  QueueInv'
<1> USE DEF Running
<1>0. /\ DOMAIN pc = Tasks /\ ready \in Seq(Tasks) /\ src \in [Tasks -> Streams]
      /\ waitq \in [Streams -> Seq(Tasks)] /\ condvars \in [Tokens -> Seq(Tasks)]
      /\ waitq["uart"] \in Seq(Tasks)
  BY DEF TypeInv, TypeOK, Streams
<1>r. Range(ready) \subseteq Tasks /\ Range(waitq["uart"]) \subseteq Tasks
  BY <1>0, LenProperties, SMTT(20) DEF Range
<1>d. \A k \in Tokens, t \in Tasks : condvars[k] = <<t>> => tok[t] = k /\ AtDisk(t)
  BY Single, SMTT(30) DEF DiskInv, SleeperInv
<1>1. ASSUME NEW t \in Tasks,
             \/ leave(t) \/ read(t) \/ write(t) \/ written(t) \/ pop_front(t)
             \/ begin_phase(t) \/ access(t) \/ end_phase(t) \/ read_block(t) \/ submit(t)
             \/ poll(t) \/ disk_done(t)
             \/ sys_file(t) \/ sys_read(t) \/ sys_event_get(t) \/ sys_key_pressed(t) \/ sys_write(t)
      PROVE  QueueInv'
  <2>1. /\ hart = t /\ UNCHANGED <<hart, ready, condvars, waitq>>
        /\ pc[t] \notin {"read_sched", "disk_sched"}
    BY <1>1 DEF leave, read, write, written, pop_front, begin_phase, access, end_phase, read_block,
       submit, poll, disk_done, sys_file, sys_read, sys_event_get, sys_key_pressed, sys_write,
       syscall, Halt, disk, input
  <2>2. UNCHANGED pc \/ \E x : Goto(t, x)
    BY <1>1 DEF leave, read, write, written, pop_front, begin_phase, access, end_phase, read_block,
       submit, poll, disk_done, sys_file, sys_read, sys_event_get, sys_key_pressed, sys_write,
       syscall, Halt
  <2> QED
    BY <2>1, <2>2, QueueKept
<1>2. ASSUME NEW t \in Tasks, wait_no_sched(t) PROVE QueueInv'
  <2>1. src[t] = "uart"
    BY <1>2 DEF wait_no_sched, ReaderInv
  <2>2. /\ hart = t /\ UNCHANGED <<hart, ready, condvars>> /\ pc[t] = "reading"
        /\ waitq' = [waitq EXCEPT !["uart"] = Append(@, t)] /\ Goto(t, "read_sched")
    BY <1>2, <2>1 DEF wait_no_sched, disk
  <2>3. waitq'["uart"] = Append(waitq["uart"], t)
    BY <1>0, <2>2 DEF Streams
  <2>4. /\ t \notin Range(ready) /\ t \notin Range(waitq["uart"])
        /\ \A k \in Tokens : condvars[k] # <<t>>
    BY <2>2 DEF QueueInv
  <2>5. /\ IsInjective(waitq'["uart"]) /\ Range(waitq'["uart"]) = Range(waitq["uart"]) \cup {t}
    BY <1>0, <2>3, <2>4, JoinQueue, SMTT(30) DEF QueueInv
  <2>6. pc'[t] = "read_sched" /\ \A u \in Tasks \ {t} : pc'[u] = pc[u]
    BY <1>0, <2>2 DEF Goto
  <2> QED
    BY <1>r, <2>2, <2>4, <2>5, <2>6 DEF QueueInv
<1>3. ASSUME NEW t \in Tasks, submit_nb(t) PROVE QueueInv'
  <2>1. PICK k \in Tokens : condvars' = [condvars EXCEPT ![k] = Append(@, t)]
    BY <1>3 DEF submit_nb
  <2>2. /\ hart = t /\ UNCHANGED <<hart, ready, waitq>> /\ pc[t] = "submit"
        /\ Goto(t, "disk_sched")
    BY <1>3 DEF submit_nb, input
  <2>3. manager = t
    BY <2>2 DEF DiskInv, ManagerInv, AtBlock, InPhase
  <2>4. \A j \in Tokens : condvars[j] = <<>>
    BY <2>2, <2>3, NothingOutstanding DEF AtRequest
  <2>5. condvars'[k] = <<t>> /\ \A j \in Tokens \ {k} : condvars'[j] = <<>>
    BY <1>0, <2>1, <2>4, Single
  <2>6. t \notin Range(ready) /\ t \notin Range(waitq["uart"])
    BY <2>2 DEF QueueInv
  <2>7. pc'[t] = "disk_sched" /\ \A u \in Tasks \ {t} : pc'[u] = pc[u]
    BY <1>0, <2>2 DEF Goto
  <2>8. \A j \in Tokens, u \in Tasks : condvars'[j] = <<u>> => u = t
    BY <2>5, Single
  <2> QED
    BY <1>r, <2>2, <2>6, <2>7, <2>8 DEF QueueInv
<1>4. ASSUME NEW t \in Tasks, schedule(t, "read_sched", "read") PROVE QueueInv'
  <2>1. /\ hart = t /\ hart' = Nobody /\ UNCHANGED <<ready, waitq, condvars>>
        /\ pc[t] = "read_sched" /\ Goto(t, "read")
    BY <1>4 DEF schedule, input, disk
  <2>2. pc'[t] = "read" /\ \A u \in Tasks \ {t} : pc'[u] = pc[u]
    BY <1>0, <2>1 DEF Goto
  <2> QED
    BY <1>r, <2>1, <2>2, CellsDiffer DEF QueueInv
<1>5. ASSUME NEW t \in Tasks, schedule(t, "disk_sched", "disk_done") PROVE QueueInv'
  <2>1. /\ hart = t /\ hart' = Nobody /\ UNCHANGED <<ready, waitq, condvars>>
        /\ pc[t] = "disk_sched" /\ Goto(t, "disk_done")
    BY <1>5 DEF schedule, input, disk
  <2>2. pc'[t] = "disk_done" /\ \A u \in Tasks \ {t} : pc'[u] = pc[u]
    BY <1>0, <2>1 DEF Goto
  <2> QED
    BY <1>r, <2>1, <2>2, CellsDiffer DEF QueueInv
<1>6. ASSUME NEW t \in Tasks, preempt(t) \/ sys_yield(t) PROVE QueueInv'
  <2>1. /\ hart = t /\ hart' = Nobody /\ UNCHANGED <<waitq, condvars>>
        /\ ready' = Append(ready, t) /\ pc[t] = "user" /\ Goto(t, "trap")
    BY <1>6 DEF preempt, sys_yield, suspend, input, disk
  <2>2. pc'[t] = "trap" /\ \A u \in Tasks \ {t} : pc'[u] = pc[u]
    BY <1>0, <2>1 DEF Goto
  <2>3. /\ t \notin Range(ready) /\ t \notin Range(waitq["uart"])
        /\ \A k \in Tokens : condvars[k] # <<t>>
    BY <2>1 DEF QueueInv
  <2>4. IsInjective(ready') /\ Range(ready') = Range(ready) \cup {t}
    BY <1>0, <2>1, <2>3, JoinQueue, SMTT(20) DEF QueueInv
  <2> QED
    BY <1>r, <2>1, <2>2, <2>3, <2>4, CellsDiffer DEF QueueInv
<1>7. ASSUME run_tasks PROVE QueueInv'
  <2>1. /\ hart = Nobody /\ ready # <<>> /\ hart' = Head(ready) /\ ready' = Tail(ready)
        /\ UNCHANGED <<pc, waitq, condvars>>
    BY <1>7 DEF run_tasks, input, disk
  <2>2. /\ hart' \in Range(ready) /\ Range(ready') \subseteq Range(ready)
        /\ IsInjective(ready') /\ hart' \notin Range(ready')
    BY <1>0, <2>1, LeaveQueue, SMTT(20) DEF QueueInv
  <2> QED
    BY <1>r, <2>1, <2>2, CellsDiffer DEF QueueInv
<1>8. ASSUME NEW s \in Streams, handle_irq(s) PROVE QueueInv'
  <2>1. UNCHANGED <<hart, pc, condvars>> /\ WakeReader(s)
    BY <1>8 DEF handle_irq, disk
  <2>2. CASE UNCHANGED ready /\ waitq'["uart"] = waitq["uart"]
    BY <2>1, <2>2, QueueSame
  <2>3. CASE s = "uart" /\ waitq["uart"] # <<>> /\ fifo[s] # <<>>
    <3>1. PICK t \in Tasks : t = Head(waitq["uart"])
      BY <1>0, <2>3, LeaveQueue
    <3>2. ready' = Append(ready, t) /\ waitq'["uart"] = Tail(waitq["uart"])
      BY <1>0, <2>1, <2>3, <3>1 DEF WakeReader, Signal, Rest
    <3>3. /\ t \in Range(waitq["uart"]) /\ Range(waitq'["uart"]) \subseteq Range(waitq["uart"])
          /\ IsInjective(waitq'["uart"]) /\ t \notin Range(waitq'["uart"])
      BY <1>0, <2>3, <3>1, <3>2, LeaveQueue, SMTT(20) DEF QueueInv
    <3>4. /\ t \notin Range(ready) /\ pc[t] \in {"read_sched", "read"}
          /\ t = hart => pc[t] = "read_sched"
      BY <3>3 DEF QueueInv
    <3>5. IsInjective(ready') /\ Range(ready') = Range(ready) \cup {t}
      BY <1>0, <3>2, <3>4, JoinQueue, SMTT(30) DEF QueueInv
    <3>6. \A k \in Tokens : condvars[k] # <<t>>
      BY <1>d, <3>4 DEF AtDisk
    <3> QED
      BY <1>r, <2>1, <3>3, <3>4, <3>5, <3>6 DEF QueueInv
  <2> QED
    BY <1>0, <2>1, <2>2, <2>3 DEF WakeReader, Signal, Rest, WaitInv, Streams
<1>9. ASSUME handle_irq_blk PROVE QueueInv'
  <2>1. UNCHANGED <<hart, pc, waitq>>
    BY <1>9 DEF handle_irq_blk, input
  <2>2. CASE used = <<>>
    <3>1. UNCHANGED <<ready, condvars>>
      BY <1>9, <2>2 DEF handle_irq_blk
    <3> QED
      BY <2>1, <3>1, QueueSame
  <2>3. CASE used # <<>>
    <3>1. PICK k \in Tokens : used = <<k>>
      BY <2>3 DEF DiskInv, RequestInv
    <3>2. Signal(condvars[k]) /\ condvars' = [condvars EXCEPT ![k] = Rest(@)]
      BY <1>9, <2>3, <3>1, Single DEF handle_irq_blk
    <3>3. condvars'[k] = Rest(condvars[k]) /\ \A j \in Tokens \ {k} : condvars'[j] = condvars[j]
      BY <1>0, <3>2
    <3>4. CASE condvars[k] = <<>>
      <4>1. ready' = ready /\ \A j \in Tokens : condvars'[j] = condvars[j]
        BY <3>2, <3>3, <3>4 DEF Signal, Rest
      <4> QED
        BY <2>1, <4>1, SMTT(30) DEF QueueInv
    <3>5. ASSUME NEW t \in Tasks, condvars[k] = <<t>> PROVE QueueInv'
      <4>1. ready' = Append(ready, t) /\ condvars'[k] = <<>>
        BY <3>2, <3>3, <3>5, Single DEF Signal
      <4>2. t \notin Range(ready) /\ (t = hart => pc[t] = "disk_sched") /\ AtDisk(t) /\ tok[t] = k
        BY <1>d, <3>5 DEF QueueInv
      <4>3. IsInjective(ready') /\ Range(ready') = Range(ready) \cup {t}
        BY <1>0, <4>1, <4>2, JoinQueue, SMTT(30) DEF QueueInv
      <4>4. t \notin Range(waitq["uart"])
        BY <4>2 DEF AtDisk, QueueInv
      <4>5. \A j \in Tokens, u \in Tasks : condvars'[j] = <<u>> => condvars[j] = <<u>> /\ u # t
        BY <1>d, <3>3, <4>1, <4>2, Single
      <4> QED
        BY <1>r, <2>1, <4>2, <4>3, <4>4, <4>5 DEF QueueInv
    <3> QED
      BY <3>4, <3>5 DEF DiskInv, SleeperInv
  <2> QED
    BY <2>2, <2>3
<1>10. ASSUME \/ (\E d \in Devices : claim(d)) \/ (\E k \in Tokens : complete(k))
              \/ (\E s \in Streams : arrive(s)) \/ UNCHANGED vars
       PROVE  QueueInv'
  <2>1. UNCHANGED <<hart, ready, pc, condvars, waitq>>
    BY <1>10 DEF claim, complete, arrive, vars, disk, input, Halt
  <2> QED
    BY <2>1, QueueSame
<1> QED
  BY <1>1, <1>2, <1>3, <1>4, <1>5, <1>6, <1>7, <1>8, <1>9, <1>10
  DEF Next, Hart, Kernel, User, Handler

-----------------------------------------------------------------------------
(* What stops the machine *)

\* The lock of the file system and the cells of files and processes belong to calls on
\* files; two such calls at once are an overlap, and nothing else stops the machine.
OverlapInv ==
  /\ \A t \in Tasks : fs = t => pc[t] \in InPhase /\ Head(phases[t]).lock
  /\ \A c \in cells \ Devices : \E t \in Tasks : pc[t] \in InPhase /\ PhaseCell(t) = c
  /\ \A t, u \in Tasks : pc[t] \in InPhase /\ pc[u] \in InPhase /\ t # u => overlap
  /\ halted # "no" => overlap

\* Steps that neither begin nor end a phase.
LEMMA OverlapKept ==
  ASSUME OverlapInv, UNCHANGED fs, \A u \in Tasks : pc'[u] \in InPhase <=> pc[u] \in InPhase,
         \A u \in Tasks : pc[u] \in InPhase => phases'[u] = phases[u],
         \A c : c \in cells' \ Devices => c \in cells,
         overlap' = overlap, halted' # "no" => overlap
  PROVE  OverlapInv'
<1>1. \A u \in Tasks : pc[u] \in InPhase => PhaseCell(u)' = PhaseCell(u)
  BY DEF PhaseCell
<1> QED
  BY <1>1 DEF OverlapInv

\* A task on the hart finds the cell of its device free.
LEMMA NothingBorrowed ==
  ASSUME MaskInv, NEW t \in Tasks, irq = NoIrq, hart = t, pc[t] \notin AtDevice,
         NEW d \in Devices
  PROVE  d \notin cells
<1>1. Borrowed = {}
  BY BorrowedIs
<1> QED
  BY <1>1 DEF MaskInv

\* While a call on files begins, others that are in a phase wait for the disk.
LEMMA OthersAtDisk ==
  ASSUME QueueInv, NEW t \in Tasks, hart = t, NEW u \in Tasks \ {t}, pc[u] \in InPhase
  PROVE  AtDisk(u)
BY DEF QueueInv, InPhase, AtDisk

\* The driver finds its response: a task that runs again after a wait for the disk was
\* woken from the queue of its token.
LEMMA ResponseThere ==
  ASSUME TypeInv, DiskInv, QueueInv, NEW t \in Tasks, hart = t, pc[t] = "disk_done"
  PROVE  tok[t] \notin Outstanding
<1> SUFFICES ASSUME tok[t] \in Outstanding PROVE FALSE
  OBVIOUS
<1>1. tok[t] \in Tokens
  <2>1. inflight \subseteq Tokens /\ used \in Seq(Tokens)
    BY DEF TypeInv, TypeOK
  <2>2. Range(used) \subseteq Tokens
    BY <2>1, LenProperties, SMTT(30) DEF Range
  <2> QED
    BY <2>1, <2>2 DEF Outstanding
<1>2. condvars[tok[t]] = <<t>>
  BY DEF DiskInv, SleeperInv, AtDisk
<1> QED
  BY <1>1, <1>2 DEF QueueInv

\* Every step stops the machine only after an overlap.
LEMMA OverlapStep ==
  ASSUME TypeInv, DeviceInv, PhaseInv, MaskInv, DiskInv, QueueInv, OverlapInv, [Next]_vars
  PROVE  OverlapInv'
<1> USE DEF Running
<1>0. /\ DOMAIN pc = Tasks /\ src \in [Tasks -> Streams] /\ cells \subseteq Files \cup Tasks \cup Devices
      /\ phases \in [Tasks -> Seq(Phase)] /\ fs \in Tasks \cup {Nobody}
      /\ manager \in Tasks \cup {Nobody}
  BY DEF TypeInv, TypeOK, Phase
<1>c. NoCell \notin cells
  <2>1. NoCell \notin Devices
    BY DEF NoCell, Devices, Streams, Blk
  <2> QED
    BY <1>0, <2>1, CellsDiffer
<1>1. ASSUME NEW t \in Tasks,
             \/ leave(t) \/ schedule(t, "read_sched", "read") \/ preempt(t) \/ sys_yield(t)
             \/ sys_file(t) \/ sys_read(t) \/ sys_event_get(t) \/ sys_key_pressed(t) \/ sys_write(t)
      PROVE  OverlapInv'
  <2>1. /\ UNCHANGED <<fs, cells, overlap, halted>> /\ pc[t] \notin InPhase
        /\ \A u \in Tasks \ {t} : phases'[u] = phases[u]
    BY <1>0, <1>1 DEF leave, schedule, preempt, sys_yield, suspend, sys_file, sys_read, sys_event_get,
       sys_key_pressed, sys_write, syscall, local, locks, past, InPhase
  <2>2. \E x \in {"user", "read", "trap", "phase", "write"} : Goto(t, x)
    BY <1>1 DEF leave, schedule, preempt, sys_yield, suspend, sys_file, sys_read, sys_event_get,
       sys_key_pressed, sys_write, syscall
  <2>3. \A u \in Tasks : pc'[u] \in InPhase <=> pc[u] \in InPhase
    BY <1>0, <2>1, <2>2 DEF Goto, InPhase
  <2> QED
    BY <2>1, <2>3, OverlapKept DEF OverlapInv
<1>2. ASSUME NEW t \in Tasks, read(t) \/ write(t) \/ read_block(t) PROVE OverlapInv'
  <2>1. hart = t /\ irq = NoIrq /\ pc[t] \notin AtDevice /\ UNCHANGED <<fs, phases, overlap>>
    BY <1>2 DEF read, write, read_block, AtDevice, local, locks, past, Halt
  <2>2. \A d \in Devices : d \notin cells
    BY <2>1, NothingBorrowed
  <2>3. src[t] \in Devices /\ "uart" \in Devices /\ Blk \in Devices
    BY <1>0 DEF Devices, Streams
  <2>4. /\ UNCHANGED halted
        /\ \/ Borrow(src[t]) /\ pc[t] = "read" /\ Goto(t, "reading")
           \/ Borrow("uart") /\ pc[t] = "write" /\ Goto(t, "writing")
           \/ Borrow(Blk) /\ pc[t] = "request" /\ Goto(t, "submit")
    BY <1>2, <2>2, <2>3 DEF read, write, read_block
  <2>6. \A c : c \in cells' \ Devices => c \in cells
    BY <2>3, <2>4 DEF Borrow
  <2>5. \A u \in Tasks : pc'[u] \in InPhase <=> pc[u] \in InPhase
    BY <1>0, <2>4 DEF Goto, InPhase
  <2> QED
    BY <2>1, <2>4, <2>5, <2>6, OverlapKept DEF OverlapInv
<1>3. ASSUME NEW t \in Tasks, pop_front(t) \/ wait_no_sched(t) \/ written(t) PROVE OverlapInv'
  <2>1. /\ UNCHANGED <<fs, phases, overlap, halted>> /\ cells' \subseteq cells
        /\ pc[t] \notin InPhase /\ (Goto(t, "trap") \/ Goto(t, "read_sched"))
    BY <1>3 DEF pop_front, wait_no_sched, written, Release, InPhase, local, locks, past
  <2>2. \A u \in Tasks : pc'[u] \in InPhase <=> pc[u] \in InPhase
    BY <1>0, <2>1 DEF Goto, InPhase
  <2> QED
    BY <2>1, <2>2, OverlapKept DEF OverlapInv
<1>4. ASSUME NEW t \in Tasks,
             submit_nb(t) \/ submit(t) \/ poll(t) \/ schedule(t, "disk_sched", "disk_done")
      PROVE  OverlapInv'
  <2>1. /\ UNCHANGED <<fs, phases, overlap, halted>> /\ cells' \subseteq cells /\ pc[t] \in InPhase
        /\ Goto(t, "disk_sched") \/ Goto(t, "poll") \/ Goto(t, "disk_done")
    BY <1>4 DEF submit_nb, submit, poll, schedule, Release, InPhase, local, locks, past
  <2>2. \A u \in Tasks : pc'[u] \in InPhase <=> pc[u] \in InPhase
    BY <1>0, <2>1 DEF Goto, InPhase
  <2> QED
    BY <2>1, <2>2, OverlapKept DEF OverlapInv
<1>5. ASSUME NEW t \in Tasks, disk_done(t) PROVE OverlapInv'
  <2>1. tok[t] \notin Outstanding
    BY <1>5, ResponseThere DEF disk_done
  <2>2. /\ UNCHANGED <<fs, phases, cells, overlap, halted>> /\ pc[t] = "disk_done"
        /\ Goto(t, "request") \/ Goto(t, "access")
    BY <1>5, <2>1 DEF disk_done, Outstanding, past
  <2>3. \A u \in Tasks : pc'[u] \in InPhase <=> pc[u] \in InPhase
    BY <1>0, <2>2 DEF Goto, InPhase
  <2> QED
    BY <2>2, <2>3, OverlapKept DEF OverlapInv
<1>6. ASSUME NEW t \in Tasks, access(t) PROVE OverlapInv'
  <2>1. /\ UNCHANGED <<fs, phases, cells, overlap>> /\ pc[t] = "access"
        /\ UNCHANGED pc \/ Goto(t, "request")
        /\ UNCHANGED halted \/ manager # Nobody
    BY <1>6 DEF access, Halt, locks, local, past
  <2>2. \A u \in Tasks : pc'[u] \in InPhase <=> pc[u] \in InPhase
    BY <1>0, <2>1 DEF Goto, InPhase
  <2>3. manager # Nobody => overlap
    <3> SUFFICES ASSUME manager # Nobody PROVE overlap
      OBVIOUS
    <3>1. PICK u \in Tasks : u = manager
      BY <1>0
    <3>2. pc[u] \in AtBlock
      BY <3>1 DEF DiskInv, ManagerInv
    <3> QED
      BY <2>1, <3>2 DEF OverlapInv, AtBlock, InPhase
  <2> QED
    BY <2>1, <2>2, <2>3, OverlapKept DEF OverlapInv
<1>7. ASSUME NEW t \in Tasks, begin_phase(t) PROVE OverlapInv'
  <2>1. /\ hart = t /\ pc[t] = "phase" /\ UNCHANGED phases
        /\ overlap' = (overlap \/ \E u \in Tasks \ {t} : AtDisk(u))
    BY <1>7 DEF begin_phase, local
  <2>2. overlap => overlap'
    BY <2>1
  <2>3. \A u \in Tasks \ {t} : pc[u] \in InPhase => overlap'
    BY <2>1, OthersAtDisk
  <2>4. pc[t] \notin InPhase /\ \A u \in Tasks : PhaseCell(u)' = PhaseCell(u)
    BY <2>1 DEF InPhase, PhaseCell
  <2>5. CASE /\ PhaseCell(t) \in cells \/ fs # Nobody
             /\ UNCHANGED <<pc, cells, fs>>
    <3>1. \E u \in Tasks : pc[u] \in InPhase
      <4>1. CASE PhaseCell(t) \in cells
        <5>1. PhaseCell(t) \in cells \ Devices
          <6>1. PhaseCell(t) \in Files \cup Tasks \cup {NoCell}
            BY <2>1, PhaseCellType
          <6>2. PhaseCell(t) # NoCell
            BY <1>c, <4>1
          <6> QED
            BY <4>1, <6>1, <6>2, CellsDiffer
        <5> QED
          BY <5>1 DEF OverlapInv
      <4>2. CASE fs # Nobody
        BY <1>0, <4>2 DEF OverlapInv
      <4> QED
        BY <2>5, <4>1, <4>2
    <3>2. overlap'
      BY <2>3, <2>4, <3>1
    <3> QED
      BY <2>1, <2>4, <2>5, <3>2 DEF OverlapInv
  <2>6. CASE /\ UNCHANGED halted /\ Goto(t, "access")
             /\ cells' = cells \/ cells' = cells \cup {PhaseCell(t)}
             /\ fs' = (IF Head(phases[t]).lock THEN t ELSE fs)
             /\ Head(phases[t]).lock => fs = Nobody
    <3>1. pc'[t] = "access" /\ \A u \in Tasks \ {t} : pc'[u] = pc[u]
      BY <1>0, <2>6 DEF Goto
    <3>2. \A u \in Tasks : fs' = u => pc'[u] \in InPhase /\ Head(phases'[u]).lock
      BY <2>1, <2>4, <2>6, <3>1 DEF OverlapInv, InPhase
    <3>3. \A c \in cells' \ Devices : \E u \in Tasks : pc'[u] \in InPhase /\ PhaseCell(u) = c
      BY <2>4, <2>6, <3>1 DEF OverlapInv, InPhase
    <3>4. \A u, w \in Tasks : pc'[u] \in InPhase /\ pc'[w] \in InPhase /\ u # w => overlap'
      BY <2>3, <3>1
    <3>5. halted' # "no" => overlap'
      BY <2>2, <2>6 DEF OverlapInv
    <3> QED
      BY <2>4, <3>2, <3>3, <3>4, <3>5 DEF OverlapInv
  <2> QED
    BY <1>7, <2>5, <2>6 DEF begin_phase, PhaseCell, Borrow, locks
<1>8. ASSUME NEW t \in Tasks, end_phase(t) PROVE OverlapInv'
  <2>1. /\ pc[t] = "access" /\ UNCHANGED <<overlap, halted>>
        /\ phases' = [phases EXCEPT ![t] = Tail(@)]
        /\ fs' = (IF Head(phases[t]).lock THEN Nobody ELSE fs)
        /\ (PhaseCell(t) = NoCell /\ cells' = cells) \/ cells' = cells \ {PhaseCell(t)}
        /\ Goto(t, "trap") \/ Goto(t, "phase")
    BY <1>8 DEF end_phase, PhaseCell, Release, past
  <2>2. /\ pc'[t] \notin InPhase
        /\ \A u \in Tasks \ {t} : pc'[u] = pc[u] /\ phases'[u] = phases[u]
    BY <1>0, <2>1 DEF Goto, InPhase
  <2>3. \A u \in Tasks : fs' = u => pc'[u] \in InPhase /\ Head(phases'[u]).lock
    <3>1. fs' # t
      BY <2>1, CellsDiffer DEF OverlapInv
    <3> QED
      BY <2>1, <2>2, <3>1, CellsDiffer DEF OverlapInv
  <2>4. \A c \in cells' \ Devices : \E u \in Tasks : pc'[u] \in InPhase /\ PhaseCell(u)' = c
    <3> SUFFICES ASSUME NEW c \in cells' \ Devices
                 PROVE  \E u \in Tasks : pc'[u] \in InPhase /\ PhaseCell(u)' = c
      OBVIOUS
    <3>1. PICK u \in Tasks : pc[u] \in InPhase /\ PhaseCell(u) = c
      BY <2>1 DEF OverlapInv
    <3>2. c # NoCell
      BY <1>c, <2>1, SMTT(30)
    <3>3. u # t
      BY <2>1, <3>1, <3>2
    <3> QED
      BY <2>2, <3>1, <3>3 DEF PhaseCell
  <2>5. \A u, v \in Tasks : pc'[u] \in InPhase /\ pc'[v] \in InPhase /\ u # v => overlap'
    <3> SUFFICES ASSUME NEW u \in Tasks, NEW v \in Tasks, u # v,
                        pc'[u] \in InPhase, pc'[v] \in InPhase
                 PROVE  overlap
      BY <2>1
    <3>1. pc[u] \in InPhase /\ pc[v] \in InPhase
      BY <2>2
    <3> QED
      BY <3>1 DEF OverlapInv
  <2>6. halted' # "no" => overlap'
    BY <2>1 DEF OverlapInv
  <2> QED
    BY <2>3, <2>4, <2>5, <2>6 DEF OverlapInv
<1>9. ASSUME \/ run_tasks \/ Handler \/ UNCHANGED vars
             \/ \E d \in Devices : claim(d)
             \/ \E s \in Streams : arrive(s)
             \/ \E k \in Tokens : complete(k)
      PROVE  OverlapInv'
  <2>1. UNCHANGED <<pc, fs, phases, overlap>>
    BY <1>9 DEF run_tasks, Handler, handle_irq, handle_irq_blk, claim, arrive, complete, vars, Halt,
       local, locks, past
  <2>2. \A c : c \in cells' \ Devices => c \in cells
    BY <1>9 DEF run_tasks, Handler, handle_irq, handle_irq_blk, claim, arrive, complete, vars, Halt
  <2>3. UNCHANGED halted
    <3>1. ASSUME NEW d \in Devices, claim(d) PROVE UNCHANGED halted
      <4>1. Borrowed = {}
        BY <3>1, NobodyAtDevice DEF claim
      <4>2. d \notin cells
        BY <4>1 DEF MaskInv
      <4> QED
        BY <3>1, <4>2 DEF claim
    <3>2. CASE ~\E d \in Devices : claim(d)
      BY <1>9, <3>2 DEF run_tasks, Handler, handle_irq, handle_irq_blk, arrive, complete, vars
    <3> QED
      BY <3>1, <3>2
  <2>4. \A u \in Tasks : (pc'[u] \in InPhase <=> pc[u] \in InPhase) /\ phases'[u] = phases[u]
    BY <2>1
  <2>5. halted' # "no" => overlap'
    BY <2>1, <2>3 DEF OverlapInv
  <2> QED
    BY <2>1, <2>2, <2>4, <2>5, OverlapKept
<1> QED
  BY <1>1, <1>2, <1>3, <1>4, <1>5, <1>6, <1>7, <1>8, <1>9 DEF Next, Hart, Kernel, User

-----------------------------------------------------------------------------
(* The invariant and what follows from it *)

Inv ==
  /\ TypeInv /\ DeviceInv /\ PhaseInv /\ MaskInv /\ InputInv
  /\ DiskInv /\ QueueInv /\ OverlapInv

INSTANCE FiniteSetTheorems

\* In each case the level still counts the borrows, and masks what has to be masked.
LEMMA MaskKept ==
  ASSUME MaskInv, MaskMove
  PROVE  MaskInv'
<1>1. CASE Keeps
  BY <1>1 DEF Keeps, MaskMove, MaskInv
<1>2. ASSUME NEW c, BorrowsOne(c) PROVE MaskInv'
  <2>1. IsFiniteSet(cells') /\ Cardinality(cells') = Cardinality(cells) + 1
    BY <1>2, FS_AddElement DEF BorrowsOne, MaskInv
  <2>2. cells' \cap Devices = Borrowed'
    BY <1>2 DEF BorrowsOne, MaskInv
  <2> QED
    BY <1>2, <2>1, <2>2 DEF BorrowsOne, MaskMove, MaskInv
<1>3. ASSUME NEW c, ReleasesOne(c) PROVE MaskInv'
  <2>1. IsFiniteSet(cells') /\ Cardinality(cells') = Cardinality(cells) - 1
    BY <1>3, FS_RemoveElement DEF ReleasesOne, MaskInv
  <2>2. cells' \cap Devices = {}
    BY <1>3 DEF ReleasesOne, MaskInv
  <2> QED
    BY <1>3, <2>1, <2>2 DEF ReleasesOne, MaskMove, MaskInv
<1> QED
  BY <1>1, <1>2, <1>3 DEF MaskMove

\* A borrowed cell is counted.
LEMMA LevelPositive ==
  ASSUME MaskInv
  PROVE  LevelOK
<1>1. Cardinality(cells) \in Nat /\ (cells # {} => Cardinality(cells) # 0)
  BY FS_CardinalityType, FS_EmptySet DEF MaskInv
<1> QED
  BY <1>1, SMTT(30) DEF MaskInv, LevelOK

\* The system starts with every task ready and nothing borrowed.
LEMMA InitInv == Init => Inv
<1> SUFFICES ASSUME Init PROVE Inv
  OBVIOUS
<1>1. ready \in Seq(Tasks)
  <2>1. IsFiniteSet(Tasks)
    BY DriversAssumption, FS_AddElement DEF Tasks
  <2>2. Cardinality(Tasks) \in Nat
    BY <2>1, FS_CardinalityType
  <2>3. ready \in [1 .. Cardinality(Tasks) -> Tasks]
    BY DEF Init
  <2> QED
    BY <2>2, <2>3, SMTT(30)
<1>2. TypeInv
  <2>1. HartOK /\ IrqOK
    BY <1>1 DEF Init, HartOK, IrqOK
  <2>2. LocalOK
    <3>1. 0 \in 0 .. MaxAccess /\ <<>> \in Seq(Phase) /\ "uart" \in Streams
      BY DriversAssumption, SMTT(30) DEF Streams
    <3> QED
      BY <3>1 DEF Init, LocalOK
  <2>3. CellsOK /\ mask \in Mask
    BY DEF Init, CellsOK, Mask
  <2>4. InputOK
    <3>1. /\ fifo = [s \in Streams |-> <<>>] /\ buffer = [s \in Streams |-> <<>>]
          /\ waitq = [s \in Streams |-> <<>>] /\ crowd = FALSE
          /\ arrived = [s \in Streams |-> 0] /\ got = [s \in Streams |-> 0]
      BY DEF Init
    <3>2. <<>> \in Seq(Nat) /\ <<>> \in Seq(Tasks)
      BY EmptySeq
    <3>3. fifo \in [Streams -> Seq(Nat)] /\ buffer \in [Streams -> Seq(Nat)]
      BY <3>1, <3>2
    <3>4. waitq \in [Streams -> Seq(Tasks)]
      BY <3>1, <3>2
    <3>5. arrived \in [Streams -> Nat] /\ got \in [Streams -> Nat] /\ crowd \in BOOLEAN
      BY <3>1
    <3> QED
      BY <3>3, <3>4, <3>5 DEF InputOK
  <2>5. DiskOK
    BY SMTT(20) DEF Init, DiskOK
  <2> QED
    BY <2>1, <2>2, <2>3, <2>4, <2>5, TypeParts
<1>3. DeviceInv /\ PhaseInv
  BY DEF Init, DeviceInv, PhaseInv, AtDevice, InPhase, AtBlock
<1>4. MaskInv
  <2>1. Borrowed = {}
    BY DEF Init, Borrowed
  <2> QED
    BY <2>1, FS_EmptySet DEF Init, MaskInv
<1>5. InputInv
  <2>1. \A s \in Streams : Queued(s)
    <3> TAKE s \in Streams
    <3>1. buffer[s] = <<>> /\ fifo[s] = <<>> /\ arrived[s] = 0 /\ got[s] = 0
      BY DEF Init
    <3>2. <<>> \o <<>> = <<>> /\ Len(<<>>) = 0
      BY EmptySeq, ConcatEmptySeq
    <3> QED
      BY <3>1, <3>2, SMTT(30) DEF Queued, Numbered
  <2>2. ReaderInv
    BY DEF Init, ReaderInv
  <2>3. WaitInv
    <3>1. waitq["uart"] = <<>> /\ waitq["keyboard"] = <<>> /\ waitq["mouse"] = <<>>
      BY DEF Init, Streams
    <3>2. Len(waitq["uart"]) <= 1
      BY <3>1, EmptySeq, SMTT(30)
    <3> QED
      BY <3>1, <3>2 DEF WaitInv
  <2> QED
    BY <2>1, <2>2, <2>3 DEF InputInv
<1>6. DiskInv
  <2>1. ManagerInv
    BY CellsDiffer DEF Init, ManagerInv, AtBlock, InPhase
  <2>2. Outstanding = {}
    BY Single DEF Init, Outstanding
  <2>3. RequestInv /\ SleeperInv
    BY <2>2 DEF Init, RequestInv, SleeperInv
  <2> QED
    BY <2>1, <2>3 DEF DiskInv
<1>7. QueueInv
  <2>1. IsInjective(ready)
    <3>1. IsFiniteSet(Tasks)
      BY DriversAssumption, FS_AddElement DEF Tasks
    <3>2. Cardinality(Tasks) \in Nat
      BY <3>1, FS_CardinalityType
    <3>3. PICK n \in Nat : n = Cardinality(Tasks)
      BY <3>2
    <3>4. IsFiniteSet(1 .. n) /\ Cardinality(1 .. n) = Cardinality(Tasks)
      BY <3>3, FS_Interval, SMTT(20)
    <3>5. ready \in [1 .. n -> Tasks] /\ Range(ready) = Tasks
      BY <3>3 DEF Init
    <3>6. ready \in Surjection(1 .. n, Tasks)
      BY <3>5 DEF Range, Surjection
    <3>7. ready \in Injection(1 .. n, Tasks)
      BY <3>4, <3>6, FS_SurjSameCardinalityImpliesInj
    <3> QED
      BY <3>5, <3>7 DEF Injection, IsInjective
  <2>2. waitq["uart"] = <<>> /\ Range(<<>>) = {} /\ IsInjective(<<>>)
    <3>1. waitq["uart"] = <<>>
      BY DEF Init, Streams
    <3>2. Range(<<>>) = {}
      BY Single
    <3>3. DOMAIN <<>> = {}
      BY SMTT(20)
    <3> QED
      BY <3>1, <3>2, <3>3 DEF IsInjective
  <2>3. \A k \in Tokens, t \in Tasks : condvars[k] # <<t>>
    BY Single DEF Init
  <2>4. /\ \A t \in Tasks : pc[t] = "trap" /\ t # hart
        /\ Range(ready) = Tasks
    BY CellsDiffer DEF Init
  <2> QED
    BY <2>1, <2>2, <2>3, <2>4 DEF QueueInv
<1>8. OverlapInv
  BY CellsDiffer DEF Init, OverlapInv, InPhase
<1> QED
  BY <1>2, <1>3, <1>4, <1>5, <1>6, <1>7, <1>8 DEF Inv

\* Every step of tasks, handlers and devices keeps the invariant.
LEMMA NextInv ==
  ASSUME Inv, [Next]_vars
  PROVE  Inv'
<1>1. MaskMove
  BY LevelPositive, MaskStep DEF Inv
<1>m. mask' \in Mask /\ MaskInv'
  BY <1>1, MaskKept DEF Inv, MaskMove
<1>2. TypeInv' /\ DeviceInv' /\ PhaseInv'
  BY <1>m, TypeStep, DeviceStep, PhaseStep DEF Inv
<1>3. InputInv'
  BY QueuedStep, ReaderStep, WaitStep DEF Inv, InputInv
<1>4. DiskInv'
  BY ManagerStep, DiskStep DEF Inv, DiskInv
<1>5. QueueInv'
  BY QueueStep DEF Inv, InputInv
<1>6. OverlapInv'
  BY OverlapStep DEF Inv
<1> QED
  BY <1>m, <1>2, <1>3, <1>4, <1>5, <1>6 DEF Inv

\* The invariant holds throughout.
LEMMA InvAlways == Spec => []Inv
BY InitInv, NextInv, PTL DEF Spec

\* An interrupt handler always finds the cell of its device free, whatever the tasks, the
\* files and the requests: masking by a level that all tasks share is enough, because a
\* cell of a device is never kept across schedule (sync/up.rs, virtio_blk.rs, ns16550a.rs).
THEOREM HandlersNeverCollide == Spec => []HandlersFindCellsFree
<1>1. Inv => HandlersFindCellsFree
  <2> SUFFICES ASSUME Inv PROVE HandlersFindCellsFree
    OBVIOUS
  <2>1. TypeOK /\ halted # "irq_borrowed" /\ mask.level = Cardinality(cells)
    BY DEF Inv, TypeInv, MaskInv
  <2>2. ASSUME cells \cap Devices # {} PROVE ~mask.sie /\ (InUser => irq # NoIrq)
    <3>1. Borrowed # {} /\ ~mask.sie
      BY <2>2 DEF Inv, MaskInv
    <3> QED
      BY <3>1 DEF Borrowed, InUser, AtDevice
  <2> QED
    BY <2>1, <2>2 DEF HandlersFindCellsFree
<1> QED
  BY <1>1, InvAlways, PTL

\* Inputs reach the readers once and in order, a task waits for the console beside an empty
\* buffer unless two waited at once, and sys_event_get never waits, for any number of tasks
\* and inputs (handle_irq and read of ns16550a.rs and input/mod.rs).
THEOREM InputsStayInOrder == Spec => []InputInOrder
<1>1. Inv => InputInOrder
  <2> SUFFICES ASSUME Inv PROVE InputInOrder
    OBVIOUS
  <2>1. ASSUME NEW s \in Streams
        PROVE  buffer[s] \o fifo[s] = [i \in 1 .. arrived[s] - got[s] |-> got[s] + i]
    <3>1. buffer[s] \in Seq(Nat) /\ fifo[s] \in Seq(Nat)
      BY DEF Inv, TypeInv, TypeOK
    <3>2. PICK q \in Seq(Nat) : q = buffer[s] \o fifo[s]
      BY <3>1, ConcatProperties
    <3>3. Len(q) = arrived[s] - got[s] /\ \A i \in 1 .. arrived[s] - got[s] : q[i] = got[s] + i
      BY <3>2 DEF Inv, InputInv, Queued, Numbered
    <3>4. q \in [1 .. Len(q) -> Nat]
      BY LenProperties
    <3>5. q = [i \in 1 .. arrived[s] - got[s] |-> got[s] + i]
      BY <3>3, <3>4
    <3> QED
      BY <3>2, <3>5
  <2> QED
    BY <2>1 DEF Inv, InputInv, WaitInv, InputInOrder
<1> QED
  BY <1>1, InvAlways, PTL

\* A task asleep in the disk driver is always still to be woken, for any number of tasks,
\* tokens and requests: its request is the only one outstanding, and in the used ring only
\* with an interrupt on its way (read_block and handle_irq of virtio_blk.rs, whose callers
\* hold BLOCK_CACHE_MANAGER).
THEOREM DiskSleepersAreWoken == Spec => []DiskSleepersWillWake
<1>1. Inv => DiskSleepersWillWake
  <2> SUFFICES ASSUME Inv PROVE DiskSleepersWillWake
    OBVIOUS
  <2>1. ASSUME NEW k \in Tokens, NEW t \in Range(condvars[k])
        PROVE  tok[t] = k /\ AtDisk(t) /\ (k \in inflight \/ k \in Range(used))
    <3>1. condvars[k] # <<>>
      BY Single
    <3>2. PICK u \in Tasks : condvars[k] = <<u>> /\ tok[u] = k /\ AtDisk(u) /\ k \in Outstanding
      BY <3>1 DEF Inv, DiskInv, SleeperInv
    <3>3. t = u
      BY <3>2, Single, SMTT(20)
    <3> QED
      BY <3>2, <3>3 DEF Outstanding
  <2>2. \A k \in inflight \cup Range(used) : manager # Nobody /\ tok[manager] = k
    BY CellsDiffer DEF Inv, DiskInv, RequestInv, Outstanding
  <2>3. used # <<>> => Blk \in pending \/ irq = Blk
    BY DEF Inv, DiskInv, RequestInv
  <2> QED
    BY <2>1, <2>2, <2>3 DEF DiskSleepersWillWake
<1> QED
  BY <1>1, InvAlways, PTL

\* Nothing stops the machine as long as no call on files begins while another one waits for
\* the disk, for any number of tasks, files and tokens: a cell borrowed twice or a lock
\* that spins needs two calls in a phase, and with one hart the earlier one waits for the
\* disk (sync/up.rs, inode.rs, vfs.rs, block_cache.rs, virtio_blk.rs).
THEOREM OverlapAloneHalts == Spec => []OnlyOverlapHalts
<1>1. Inv => OnlyOverlapHalts
  BY DEF Inv, OverlapInv, OnlyOverlapHalts
<1> QED
  BY <1>1, InvAlways, PTL

=============================================================================
