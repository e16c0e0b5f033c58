----------------------------- MODULE ByteQueue -----------------------------
(***************************************************************************)
(* What a pipe promises its users: a bounded first-in first-out queue of   *)
(* bytes, with an end of file that is reported only once every write end   *)
(* is closed and every byte has been delivered.                            *)
(***************************************************************************)
EXTENDS Integers, Sequences

CONSTANTS Byte, Capacity, Eof

VARIABLES
  queue,    \* the bytes written and not yet read
  closed,   \* no write end is left
  out       \* what the last read step delivered: a byte or Eof

Init == queue = <<>> /\ closed = FALSE /\ out = Eof

Put ==
  /\ ~closed /\ Len(queue) < Capacity
  /\ \E b \in Byte : queue' = Append(queue, b)
  /\ UNCHANGED out

Get ==
  /\ queue # <<>>
  /\ out' = Head(queue) /\ queue' = Tail(queue)
  /\ UNCHANGED closed

EndOfFile ==
  /\ closed /\ queue = <<>>
  /\ out' = Eof
  /\ UNCHANGED <<queue, closed>>

Close ==
  /\ ~closed /\ closed' = TRUE
  /\ UNCHANGED <<queue, out>>

\* The last byte of a write may also be what drops the last write end.
PutAndClose == Put /\ closed' = TRUE

Next == (Put /\ UNCHANGED closed) \/ PutAndClose \/ Get \/ EndOfFile \/ Close

Spec == Init /\ [][Next]_<<queue, closed, out>>
=============================================================================
