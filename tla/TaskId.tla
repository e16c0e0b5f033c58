------------------------------- MODULE TaskId -------------------------------
(***************************************************************************)
(* kernel/src/task/id.rs: the RecycleAllocator behind pids, tids and       *)
(* kernel stacks, the RAII handles that own its ids (PidHandle,            *)
(* KernelStack, TaskUserRes), and the addresses computed from an id.       *)
(*                                                                         *)
(* `live` is the set of ids whose handle exists: alloc creates the handle, *)
(* dropping the handle is the only caller of dealloc.                      *)
(***************************************************************************)
EXTENDS Integers, Sequences

CONSTANTS
  MaxId,              \* model bound on the number of distinct ids
  PAGE_SIZE,
  KERNEL_STACK_SIZE,
  USER_STACK_SIZE,
  TRAMPOLINE          \* start of the highest page of the address space

ASSUME SizesAssumption ==
  /\ MaxId \in Nat
  /\ PAGE_SIZE \in Nat \ {0}
  /\ KERNEL_STACK_SIZE \in Nat \ {0}
  /\ USER_STACK_SIZE \in Nat \ {0}
  /\ TRAMPOLINE \in Nat

VARIABLES current, recycled, live

id_vars == <<current, recycled, live>>

Recycled == {recycled[i] : i \in DOMAIN recycled}

-----------------------------------------------------------------------------
(* RecycleAllocator *)

IdInit ==
  /\ current = 0
  /\ recycled = <<>>
  /\ live = {}

\* The id RecycleAllocator::alloc returns: the last one recycled, else a new one.
NextId == IF recycled # <<>> THEN recycled[Len(recycled)] ELSE current

Alloc ==
  /\ IF recycled # <<>>
       THEN recycled' = SubSeq(recycled, 1, Len(recycled) - 1) /\ UNCHANGED current
       ELSE current < MaxId /\ current' = current + 1 /\ UNCHANGED recycled
  /\ live' = live \cup {NextId}

\* Drop of the handle that owns id.
Dealloc(id) ==
  /\ id \in live
  /\ recycled' = Append(recycled, id)
  /\ live' = live \ {id}
  /\ UNCHANGED current

IdNext == Alloc \/ \E id \in live : Dealloc(id)

IdSpec == IdInit /\ [][IdNext]_id_vars

-----------------------------------------------------------------------------
(* Addresses computed from ids *)

\* Mutant: the guard page is left out of the stride.
KernelStackTopUnguarded(id) == TRAMPOLINE - id * KERNEL_STACK_SIZE

kernel_stack_top(id) == TRAMPOLINE - id * (KERNEL_STACK_SIZE + PAGE_SIZE)

kernel_stack_bottom(id) == kernel_stack_top(id) - KERNEL_STACK_SIZE

\* TRAP_CONTEXT_BASE is the page below the trampoline.
trap_cx_bottom_from_tid(tid) == (TRAMPOLINE - PAGE_SIZE) - tid * PAGE_SIZE

\* The offset from the process's ustack_base.
ustack_bottom_from_tid(tid) == tid * (PAGE_SIZE + USER_STACK_SIZE)

-----------------------------------------------------------------------------
(* Properties *)

\* The types of RecycleAllocator: handed-out ids lie below `current`.
IdTypeOK ==
  /\ current \in Nat
  /\ recycled \in Seq(Nat)
  /\ live \subseteq Nat

\* The two assert!s of RecycleAllocator::dealloc hold for every handle that
\* may still be dropped: its id was handed out and is not already recycled.
DeallocAssertsHold ==
  \A id \in live : id < current /\ id \notin Recycled

\* alloc never hands out an id that a handle still owns: no two processes with
\* one pid, no two threads with one tid or one kernel stack.
AllocIsFresh == NextId \notin live

\* No id is lost and none is recycled twice: every id below `current` is owned by
\* a handle or waits once in `recycled`, so `current` grows only when every
\* earlier id is in use.
NoIdLost ==
  /\ live \cup Recycled = 0 .. current - 1
  /\ \A i, j \in DOMAIN recycled : i # j => recycled[i] # recycled[j]

\* The inductive invariant behind the theorems: the asserts of dealloc hold for every
\* handle, and live and recycled ids together are those below `current`, each once.
AllocatorInv == IdTypeOK /\ DeallocAssertsHold /\ NoIdLost

\* Ids are handed out once and given back once, in any order of allocations and drops,
\* so stacks and trap contexts that exist at the same time never overlap; kernel stacks
\* and user stacks are separated by an unmapped guard page (kernel_stack_position,
\* ustack_bottom_from_tid, trap_cx_bottom_from_tid).
StacksDisjoint ==
  /\ AllocatorInv
  /\ \A i, j \in live : i < j =>
       /\ kernel_stack_top(j) + PAGE_SIZE <= kernel_stack_bottom(i)
       /\ ustack_bottom_from_tid(i) + USER_STACK_SIZE + PAGE_SIZE
            <= ustack_bottom_from_tid(j)
       /\ trap_cx_bottom_from_tid(j) + PAGE_SIZE <= trap_cx_bottom_from_tid(i)
=============================================================================
