-------------------------------- MODULE Pipe --------------------------------
(***************************************************************************)
(* A pipe (fs/pipe.rs) used by the threads of several processes through    *)
(* sys_read, sys_write and close_end (syscall/fs.rs), on one hart.         *)
(*                                                                         *)
(* Threads take turns in the order of the ready queue: Head(runq) is the   *)
(* one that runs.  Inside read and write it gives up the hart only where   *)
(* the code calls suspend_current_and_run_next; in user code the timer may *)
(* preempt it.  The pipe was made before the processes were forked, so all *)
(* start with both ends; a file descriptor table is abstracted to the set  *)
(* of ends it still holds.                                                 *)
(***************************************************************************)
EXTENDS Integers, Sequences, FiniteSets

CONSTANTS
  Threads, Processes,
  Owner,              \* the process of a thread
  Byte, Eof,
  RING_BUFFER_SIZE,
  MaxLen              \* model bound on the length of a user buffer

ASSUME PipeAssumption ==
  /\ RING_BUFFER_SIZE \in Nat \ {0}
  /\ MaxLen \in Nat
  /\ IsFiniteSet(Threads) /\ Threads # {}
  /\ Owner \in [Threads -> Processes]
  /\ Byte # {} /\ Eof \notin Byte

VARIABLES
  arr, head, tail, status,   \* PipeRingBuffer
  ends,                      \* per process: the ends in its fd_table
  runq,                      \* the running thread, then Manager::ready_queue
  op,                        \* user, read or write
  todo,                      \* bytes of the user buffer still to transfer
  left,                      \* iterations left of the inner for loop
  out                        \* history: what the last read step delivered

ring == <<arr, head, tail, status>>
pipe_vars == <<arr, head, tail, status, ends, runq, op, todo, left, out>>

Index == 0 .. RING_BUFFER_SIZE - 1

-----------------------------------------------------------------------------
(* PipeRingBuffer *)

available_to_read ==
  IF status = "Empty" THEN 0
  ELSE IF tail > head THEN tail - head
  ELSE tail + RING_BUFFER_SIZE - head

available_to_write ==
  IF status = "Full" THEN 0 ELSE RING_BUFFER_SIZE - available_to_read

Inc(i) == (i + 1) % RING_BUFFER_SIZE

\* Mutant: the status is not updated when the buffer fills up.
WriteNeverFull(b) ==
  /\ arr' = [arr EXCEPT ![tail] = b]
  /\ tail' = Inc(tail)
  /\ status' = "Normal"
  /\ UNCHANGED head

write_byte(b) ==
  /\ arr' = [arr EXCEPT ![tail] = b]
  /\ tail' = Inc(tail)
  /\ status' = IF tail' = head THEN "Full" ELSE "Normal"
  /\ UNCHANGED head

read_byte ==
  /\ head' = Inc(head)
  /\ status' = IF head' = tail THEN "Empty" ELSE "Normal"
  /\ UNCHANGED <<arr, tail>>

\* The Weak of set_write_end does not upgrade: no descriptor holds the write end,
\* and no sys_write in progress holds its clone of the Arc.
all_write_ends_closed ==
  /\ \A p \in Processes : "write" \notin ends[p]
  /\ \A t \in Threads : op[t] # "write"

-----------------------------------------------------------------------------

Orders ==
  {q \in [1 .. Cardinality(Threads) -> Threads] : \A i, j \in DOMAIN q : i # j => q[i] # q[j]}

PipeInit ==
  /\ arr = [i \in Index |-> CHOOSE b \in Byte : TRUE]
  /\ head = 0 /\ tail = 0 /\ status = "Empty"
  /\ ends = [p \in Processes |-> {"read", "write"}]
  /\ runq \in Orders
  /\ op = [t \in Threads |-> "user"]
  /\ todo = [t \in Threads |-> 0]
  /\ left = [t \in Threads |-> 0]
  /\ out = Eof

-----------------------------------------------------------------------------
(* Scheduling *)

Running(t, where) == t = Head(runq) /\ op[t] = where

suspend_current_and_run_next == runq' = Append(Tail(runq), Head(runq))

\* The timer preempts user code, or the thread yields.
preempt(t) ==
  /\ Running(t, "user")
  /\ suspend_current_and_run_next
  /\ UNCHANGED <<ring, ends, op, todo, left, out>>

-----------------------------------------------------------------------------
(* System calls *)

close_end(t, e) ==
  /\ Running(t, "user") /\ e \in ends[Owner[t]]
  /\ ends' = [ends EXCEPT ![Owner[t]] = @ \ {e}]
  /\ UNCHANGED <<ring, runq, op, todo, left, out>>

\* sys_read and sys_write find an open descriptor of that end and enter the
\* loop of Pipe::read or Pipe::write.
sys_enter(t, e, n) ==
  /\ Running(t, "user") /\ e \in ends[Owner[t]]
  /\ op' = [op EXCEPT ![t] = e]
  /\ todo' = [todo EXCEPT ![t] = n]
  /\ UNCHANGED <<ring, ends, runq, left, out>>

Return(t) ==
  /\ op' = [op EXCEPT ![t] = "user"]
  /\ todo' = [todo EXCEPT ![t] = 0]
  /\ left' = [left EXCEPT ![t] = 0]

\* The inner loop finds the user buffer used up: after the last byte, or at once
\* when the buffer is empty.
Transferred(t) ==
  IF todo[t] <= 1 THEN Return(t)
  ELSE /\ todo' = [todo EXCEPT ![t] = @ - 1]
       /\ left' = [left EXCEPT ![t] = @ - 1]
       /\ UNCHANGED op

\* Mutant: a reader waits for data that cannot come.
NeverEof == FALSE

\* Mutant: an empty pipe is the end of the file.
EmptyIsEof == available_to_read = 0

ReadsEof == available_to_read = 0 /\ all_write_ends_closed

\* The head of the loop in Pipe::read: end of file, ...
read_eof(t) ==
  /\ Running(t, "read") /\ left[t] = 0 /\ ReadsEof
  /\ Return(t) /\ out' = Eof
  /\ UNCHANGED <<ring, ends, runq>>

\* ... nothing to read yet, or the start of the inner loop.
read_turn(t) ==
  /\ Running(t, "read") /\ left[t] = 0 /\ ~ReadsEof
  /\ IF available_to_read = 0
       THEN suspend_current_and_run_next /\ UNCHANGED left
       ELSE left' = [left EXCEPT ![t] = available_to_read] /\ UNCHANGED runq
  /\ UNCHANGED <<ring, ends, op, todo, out>>

\* Mutant: a writer that finds no room does not give up the hart.
WriteTurnSpins(t) ==
  /\ Running(t, "write") /\ left[t] = 0
  /\ left' = [left EXCEPT ![t] = available_to_write]
  /\ UNCHANGED <<ring, ends, runq, op, todo, out>>

\* The head of the loop in Pipe::write.
write_turn(t) ==
  /\ Running(t, "write") /\ left[t] = 0
  /\ IF available_to_write = 0
       THEN suspend_current_and_run_next /\ UNCHANGED left
       ELSE left' = [left EXCEPT ![t] = available_to_write] /\ UNCHANGED runq
  /\ UNCHANGED <<ring, ends, op, todo, out>>

\* One iteration of the inner loops.
read_step(t) ==
  /\ Running(t, "read") /\ left[t] > 0
  /\ Transferred(t)
  /\ IF todo[t] = 0 THEN UNCHANGED <<ring, out>> ELSE read_byte /\ out' = arr[head]
  /\ UNCHANGED <<ends, runq>>

write_step(t) ==
  /\ Running(t, "write") /\ left[t] > 0
  /\ Transferred(t)
  /\ IF todo[t] = 0 THEN UNCHANGED ring ELSE \E b \in Byte : write_byte(b)
  /\ UNCHANGED <<ends, runq, out>>

Kernel(t) ==
  read_eof(t) \/ read_turn(t) \/ read_step(t) \/ write_turn(t) \/ write_step(t)

User(t) ==
  \/ preempt(t)
  \/ \E e \in {"read", "write"} : close_end(t, e)
  \/ \E e \in {"read", "write"}, n \in 0 .. MaxLen : sys_enter(t, e, n)

PipeNext == \E t \in Threads : Kernel(t) \/ User(t)

PipeSpec == PipeInit /\ [][PipeNext]_pipe_vars

\* Kernel code runs on, and the timer keeps interrupting user code.
Fairness == \A t \in Threads : WF_pipe_vars(Kernel(t)) /\ SF_pipe_vars(preempt(t))

PipeLiveSpec == PipeSpec /\ Fairness

-----------------------------------------------------------------------------
(* Properties *)

\* The types of the ring, the descriptors and the calls under way.
PipeTypeOK ==
  /\ arr \in [Index -> Byte] /\ head \in Index /\ tail \in Index
  /\ status \in {"Empty", "Normal", "Full"}
  /\ ends \in [Processes -> SUBSET {"read", "write"}]
  /\ runq \in Seq(Threads) /\ runq # <<>>
  /\ op \in [Threads -> {"user", "read", "write"}]
  /\ todo \in [Threads -> 0 .. MaxLen]
  /\ left \in [Threads -> 0 .. RING_BUFFER_SIZE]
  /\ out \in Byte \cup {Eof}

\* The status tells a full buffer from an empty one when head meets tail, and a
\* thread inside the inner loop never has more iterations left than bytes, or
\* free places, so read_byte and write_byte never run past the contents.
RingConsistent ==
  /\ head = tail <=> status # "Normal"
  /\ \A t \in Threads : left[t] > 0 =>
       /\ t = Head(runq)
       /\ op[t] = "read" => left[t] = available_to_read
       /\ op[t] = "write" => left[t] = available_to_write
       /\ op[t] # "user"

\* The inductive invariant of the ring: its types, and RingConsistent.
PipeInv == PipeTypeOK /\ RingConsistent

\* The bytes in the buffer, oldest first.
Position(i) ==
  IF head + i - 1 < RING_BUFFER_SIZE THEN head + i - 1 ELSE head + i - 1 - RING_BUFFER_SIZE
Contents == [i \in 1 .. available_to_read |-> arr[Position(i)]]

Queue == INSTANCE ByteQueue WITH
  Capacity <- RING_BUFFER_SIZE, queue <- Contents, closed <- all_write_ends_closed

\* A pipe is a bounded FIFO queue: no byte is lost, duplicated or reordered as
\* head and tail wrap around, none is written after the last write end is gone,
\* and the end of file is reported only when the queue is empty and closed.
IsByteQueue == Queue!Spec

\* Every read in progress ends once all write ends are closed.
EofReachesReaders ==
  \A t \in Threads : op[t] = "read" /\ all_write_ends_closed ~> op[t] = "user"

\* A reader and a writer never wait for each other.
NoMutualWait ==
  \A r, w \in Threads :
    op[r] = "read" /\ op[w] = "write" ~> op[r] # "read" \/ op[w] # "write"
=============================================================================
