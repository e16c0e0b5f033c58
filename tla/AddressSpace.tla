---------------------------- MODULE AddressSpace ----------------------------
(***************************************************************************)
(* Physical frames and user address spaces: mm/frame_allocator.rs,         *)
(* mm/page_table.rs, mm/memory_set.rs, mm/address.rs and mm/mod.rs, and    *)
(* the places where processes, threads and the framebuffer use them        *)
(* (task/pcb.rs, task/id.rs, exit in task/mod.rs, syscall/gui.rs).         *)
(*                                                                         *)
(* A MemorySet is a page table (the frames of its root and directories,    *)
(* the leaf entries `pte`, and data_frames, the FrameTrackers of mapped    *)
(* pages) and a list of areas, ranges of virtual pages.  The three levels  *)
(* of a page table are abstracted to a root and one directory per DirSize  *)
(* pages.  Addresses count bytes in a space of VaSize bytes whose last     *)
(* page is the trampoline.  The content of a page is one value, and        *)
(* registers saved in a trap context are left out.  A kernel stack is one  *)
(* frame of the kernel's own MemorySet; a TCB is named by it.  Every       *)
(* operation runs in the kernel, one at a time; alloc().unwrap() without a *)
(* free frame, or a failed assert, stops it.                               *)
(***************************************************************************)
EXTENDS Integers, Sequences, FiniteSets, SequencesExt

CONSTANTS
  Procs,            \* processes
  DAEMON,           \* the first one, which does nothing but fork and wait
  NFrames,          \* frames between ekernel and MEMORY_END
  PAGE_SIZE,        \* bytes of a page
  VaSize,           \* bytes of an address space
  InitProc,         \* the program of DAEMON
  Programs,         \* ELF files: the virtual_addr, mem_size and file_size of each LOAD
                    \* header, in the order of the file
  USER_STACK_SIZE,
  FB_VADDR, FbBytes,  \* where the framebuffer is mapped, and its size
  NThreads,         \* bound on the tids of a process
  DirSize,          \* pages below one directory
  Values,           \* contents of a page, 0 for a cleared one
  MaxStores,        \* bound on the stores of user programs
  MaxOps            \* bound on the address spaces and threads made

Frames == 1 .. NFrames
Data == Values \ {0}    \* of RAM at boot and of a page of a file: what a cleared page is told from
NoFrame == 0            \* what the trampoline maps to: a page of the kernel
Unmapped == -1          \* translate returns None
Tids == 0 .. NThreads - 1
NoTid == -1             \* the TaskUserRes has been taken
NoProc == 0             \* the Weak reference to the PCB no longer upgrades

-----------------------------------------------------------------------------
(* Addresses and page numbers: mm/address.rs. *)

page_offset(va) == va % PAGE_SIZE
as_vpn_by_floor(va) == va \div PAGE_SIZE
as_vpn_by_ceil(va) == IF va = 0 THEN 0 ELSE (va - 1 + PAGE_SIZE) \div PAGE_SIZE

\* From<VirtPageNum> for VirtAddr
VirtAddr(vpn) == vpn * PAGE_SIZE

\* MapArea::new
MapArea(start_va, end_va, map_type) ==
  [start |-> as_vpn_by_floor(start_va), end |-> as_vpn_by_ceil(end_va), type |-> map_type]

\* The area of a LOAD header.
ElfArea(ph) == MapArea(ph.va, ph.va + ph.mem, "Framed")

\* The layout of from_elf and TaskUserRes: program, guard page after its last area, stacks
\* with a guard page each; the framebuffer; trap contexts below the trampoline.
user_stack_base(prog) == VirtAddr(ElfArea(Last(prog)).end) + PAGE_SIZE
ustack_bottom_from_tid(base, tid) == base + tid * (PAGE_SIZE + USER_STACK_SIZE)
UserStack(base, tid) ==
  MapArea(ustack_bottom_from_tid(base, tid), ustack_bottom_from_tid(base, tid) + USER_STACK_SIZE, "Framed")
FbArea == MapArea(FB_VADDR, FB_VADDR + FbBytes, "Linear")
TRAMPOLINE == VaSize - PAGE_SIZE
TRAP_CONTEXT_BASE == TRAMPOLINE - PAGE_SIZE
trap_cx_bottom_from_tid(tid) == TRAP_CONTEXT_BASE - tid * PAGE_SIZE
TrapContext(tid) ==
  MapArea(trap_cx_bottom_from_tid(tid), trap_cx_bottom_from_tid(tid) + PAGE_SIZE, "Framed")

\* The areas of the program follow each other and share no page.
Ordered(prog) == \A i \in 1 .. Len(prog) - 1 : ElfArea(prog[i]).end <= ElfArea(prog[i + 1]).start

ASSUME AddressSpaceAssumption ==
  /\ NFrames \in Nat /\ MaxOps \in Nat /\ NThreads \in Nat \ {0}
  /\ PAGE_SIZE \in Nat \ {0} /\ DirSize \in Nat \ {0}
  /\ 0 \in Values /\ DAEMON \in Procs /\ NoProc \notin Procs /\ FbBytes \in Nat \ {0}
  /\ \A bytes \in {USER_STACK_SIZE, FB_VADDR, VaSize} :
       bytes \in Nat /\ page_offset(bytes) = 0
  /\ InitProc \in Programs /\ Ordered(InitProc)
  /\ \A prog \in Programs :
       /\ prog # <<>> /\ \A i \in DOMAIN prog : prog[i].file <= prog[i].mem
       /\ ustack_bottom_from_tid(user_stack_base(prog), NThreads - 1) + USER_STACK_SIZE <= FB_VADDR
  /\ FB_VADDR + FbBytes <= trap_cx_bottom_from_tid(NThreads - 1)

VARIABLES
  current, recycled,   \* StackFrameAllocator
  dma,                 \* QUEUE_FRAMES: the frames of the framebuffer
  space,               \* the MemorySet of each process
  content,             \* what each frame holds
  tcb,                 \* the TCBs, by their kernel stacks: process, tid and ustack_base of the
                       \* TaskUserRes, has it exited?  Until then the scheduler, a wait
                       \* queue or TIMERS holds an Arc of it
  tasks,               \* per process: tasks, NoFrame for None
  ids,                 \* per process: task_res_allocator
  parent,              \* per process: parent
  ops,                 \* address spaces and threads made so far
  stores,              \* stores of user programs so far
  halted               \* "no", or why the kernel panicked

vars == <<current, recycled, dma, space, content, tcb, tasks, ids, parent, ops, stores, halted>>

\* prog is history: the program from_elf loaded.
NoSpace == [st |-> "none", dirs |-> {}, metadata |-> <<>>, areas |-> <<>>,
            data |-> <<>>, pte |-> <<>>, prog |-> <<>>]
NoIds == [current |-> 0, recycled |-> <<>>]

Init ==
  /\ current = 1 /\ recycled = <<>> /\ dma = <<>>
  /\ space = [p \in Procs |-> NoSpace]
  /\ content \in {[f \in Frames |-> c] : c \in Data}
  /\ tcb = <<>>
  /\ tasks = [p \in Procs |-> <<>>]
  /\ ids = [p \in Procs |-> NoIds]
  /\ parent = [p \in Procs |-> NoProc]
  /\ ops = 0 /\ stores = 0 /\ halted = "no"

-----------------------------------------------------------------------------
(* An operation computes on a copy m of this state: the allocator, the     *)
(* contents, the MemorySet, the threads in hand, and why it panicked.      *)

Machine(p) ==
  [cur |-> current, rec |-> recycled, dma |-> dma, content |-> content,
   sp |-> space[p], tcb |-> tcb, tasks |-> tasks[p], ids |-> ids[p], panic |-> "no"]

Panics(m, why) == [m EXCEPT !.panic = IF @ = "no" THEN why ELSE @]

Extend(f, x, y) == [z \in DOMAIN f \cup {x} |-> IF z = x THEN y ELSE f[z]]
Without(f, x) == [z \in DOMAIN f \ {x} |-> f[z]]

\* current == end, and nothing recycled: alloc returns None.
HasFrame(m) == m.rec # <<>> \/ m.cur <= NFrames

\* The frame StackFrameAllocator::alloc returns.
NextFrame(m) == IF m.rec # <<>> THEN Last(m.rec) ELSE m.cur

\* Mutant: the frame keeps what its last owner wrote.
NotCleared(m) == m.content

\* FrameTracker::new fills the frame with zeros.
Cleared(m) == [m.content EXCEPT ![NextFrame(m)] = 0]

\* frame_allocator::alloc
alloc(m) ==
  IF m.rec # <<>> THEN [m EXCEPT !.rec = Front(@), !.content = Cleared(m)]
  ELSE [m EXCEPT !.cur = @ + 1, !.content = Cleared(m)]

\* StackFrameAllocator::dealloc, called by the Drop of a FrameTracker.
dealloc(m, f) ==
  IF f >= m.cur \/ \E i \in DOMAIN m.rec : m.rec[i] = f THEN Panics(m, "assert")
  ELSE [m EXCEPT !.rec = Append(@, f)]

\* PageTable::new
new_bare(m) ==
  IF ~HasFrame(m) THEN Panics(m, "memory")
  ELSE [alloc(m) EXCEPT !.sp = [NoSpace EXCEPT !.st = "live", !.metadata = <<NextFrame(m)>>]]

\* find_pte_then_alloc, for the directory of vpn.
find_pte_then_alloc(m, vpn) ==
  IF vpn \div DirSize \in m.sp.dirs THEN m
  ELSE IF ~HasFrame(m) THEN Panics(m, "memory")
  ELSE [alloc(m) EXCEPT !.sp.dirs = @ \cup {vpn \div DirSize},
                        !.sp.metadata = Append(@, NextFrame(m))]

\* PageTable::map
map(m, vpn, f) ==
  LET a == find_pte_then_alloc(m, vpn)
  IN IF a.panic # "no" \/ vpn \in DOMAIN m.sp.pte THEN Panics(a, "assert")
     ELSE [a EXCEPT !.sp.pte = Extend(@, vpn, f)]

\* MapArea::map_one of a framed area.  A FrameTracker that insert replaces is dropped.
map_framed(m, vpn) ==
  LET a == [alloc(m) EXCEPT !.sp.data = Extend(@, vpn, NextFrame(m))]
  IN IF m.panic # "no" \/ ~HasFrame(m) THEN Panics(m, "memory")
     ELSE map(IF vpn \in DOMAIN m.sp.data THEN dealloc(a, m.sp.data[vpn]) ELSE a,
              vpn, NextFrame(m))

\* MapArea::map_one of the framebuffer, with the pn_offset of sys_framebuffer.
map_linear(m, vpn) ==
  IF m.panic # "no" THEN m ELSE map(m, vpn, vpn + (m.dma[1] - FbArea.start))

\* MapArea::unmap_one
unmap_one(m, vpn) ==
  LET a == IF vpn \in DOMAIN m.sp.data
             THEN [dealloc(m, m.sp.data[vpn]) EXCEPT !.sp.data = Without(@, vpn)] ELSE m
  IN IF vpn \notin DOMAIN m.sp.pte THEN Panics(a, "assert")
     ELSE [a EXCEPT !.sp.pte = Without(@, vpn)]

\* MapArea::map: the pages of the range in turn.
map_area(m, area) ==
  LET after[n \in area.start .. area.end] ==
        IF n = area.start THEN m
        ELSE IF area.type = "Framed" THEN map_framed(after[n - 1], n - 1)
        ELSE map_linear(after[n - 1], n - 1)
  IN after[area.end]

\* MapArea::unmap
unmap_area(m, area) ==
  LET after[n \in area.start .. area.end] ==
        IF n = area.start THEN m ELSE unmap_one(after[n - 1], n - 1)
  IN after[area.end]

\* MemorySet::push, insert_framed_area
push(m, area) == [map_area(m, area) EXCEPT !.sp.areas = Append(@, area)]

\* Mutant: the area is forgotten, its pages stay mapped.
RemoveKeepsPages(m, start) ==
  [m EXCEPT !.sp.areas = SelectSeq(@, LAMBDA area : area.start # start)]

remove_area_with_start_vpn(m, start) ==
  LET at == {i \in DOMAIN m.sp.areas : m.sp.areas[i].start = start}
      i == CHOOSE i \in at : \A j \in at : i <= j
  IN IF at = {} THEN m
     ELSE [unmap_area(m, m.sp.areas[i]) EXCEPT !.sp.areas = RemoveAt(@, i)]

\* map_trampoline
map_trampoline(m) == IF m.panic # "no" THEN m ELSE map(m, as_vpn_by_floor(TRAMPOLINE), NoFrame)

alloc_user_res(m, base, tid) == push(push(m, UserStack(base, tid)), TrapContext(tid))

dealloc_user_res(m, base, tid) ==
  remove_area_with_start_vpn(remove_area_with_start_vpn(m, UserStack(base, tid).start),
                             TrapContext(tid).start)

\* The pages that copy_data fills from the file.
FilePages(ph) == {vpn \in as_vpn_by_floor(ph.va) .. ElfArea(ph).end - 1 :
                    VirtAddr(vpn - as_vpn_by_floor(ph.va)) < ph.file}

\* MapArea::copy_data, v in every page.
copy_data(m, ph, v) ==
  [f \in Frames |-> IF \E vpn \in FilePages(ph) : m.sp.pte[vpn] = f THEN v ELSE m.content[f]]

\* MemorySet::from_elf: the LOAD headers in the order of the file.
from_elf(m, prog, v) ==
  LET after[n \in 0 .. Len(prog)] ==
        IF n = 0 THEN map_trampoline(new_bare(m))
        ELSE LET a == push(after[n - 1], ElfArea(prog[n]))
             IN IF a.panic # "no" THEN a ELSE [a EXCEPT !.content = copy_data(a, prog[n], v)]
  IN [after[Len(prog)] EXCEPT !.sp.prog = prog]

\* Mutant: the pages are mapped but not copied.
CopiesNothing(m, sp) == m.content

\* The copy loop of MemorySet::clone, sp the MemorySet cloned.
Copied(m, sp) ==
  [f \in Frames |->
     IF \E vpn \in DOMAIN m.sp.data : m.sp.data[vpn] = f
       THEN m.content[sp.pte[CHOOSE vpn \in DOMAIN m.sp.data : m.sp.data[vpn] = f]]
     ELSE m.content[f]]

\* MemorySet::clone
clone(m, sp) ==
  LET after[n \in 0 .. Len(sp.areas)] ==
        IF n = 0 THEN map_trampoline(new_bare(m)) ELSE push(after[n - 1], sp.areas[n])
      a == after[Len(sp.areas)]
  IN IF a.panic # "no" THEN a ELSE [a EXCEPT !.content = Copied(a, sp), !.sp.prog = sp.prog]

\* Pages in ascending order.
InOrder(S) == SelectSeq([i \in 1 .. VaSize |-> i - 1], LAMBDA n : n \in S)

\* The frames a MemorySet owns, in the order its fields are dropped.
Owned(sp) ==
  LET vpns == InOrder(DOMAIN sp.data)
  IN [i \in DOMAIN vpns |-> sp.data[vpns[i]]] \o sp.metadata

\* FrameTrackers dropped one after the other.
DropFrames(m, frames) ==
  LET after[n \in 0 .. Len(frames)] == IF n = 0 THEN m ELSE dealloc(after[n - 1], frames[n])
  IN after[Len(frames)]

\* The tid RecycleAllocator::alloc returns.
NextTid(m) == IF m.ids.recycled = <<>> THEN m.ids.current ELSE Last(m.ids.recycled)

alloc_tid(m) ==
  [m EXCEPT !.ids = IF @.recycled = <<>> THEN [@ EXCEPT !.current = @ + 1]
                    ELSE [@ EXCEPT !.recycled = Front(@)]]

\* TaskControlBlock::new with the tid in hand: kstack_alloc.
NewTcb(m, p, tid, base) ==
  IF m.panic # "no" \/ ~HasFrame(m) THEN Panics(m, "memory")
  ELSE [alloc(m) EXCEPT
          !.tcb = Extend(@, NextFrame(m), [proc |-> p, tid |-> tid, base |-> base, exited |-> FALSE])]

\* Mutant: the kernel stack stays mapped.
DropTcbKeepsStack(m, k) ==
  IF m.panic # "no" \/ k = NoFrame \/ ~m.tcb[k].exited THEN m ELSE [m EXCEPT !.tcb = Without(@, k)]

\* An Arc of the TCB k in tasks is dropped.  With the last one goes the kernel stack.
DropTcb(m, k) ==
  IF m.panic # "no" \/ k = NoFrame \/ ~m.tcb[k].exited THEN m
  ELSE [dealloc(m, k) EXCEPT !.tcb = Without(@, k)]

DropTcbs(m, ks) ==
  LET after[n \in 0 .. Len(ks)] == IF n = 0 THEN m ELSE DropTcb(after[n - 1], ks[n])
  IN after[Len(ks)]

\* Drop of the TaskUserRes of k, if it has one.
DropRes(m, k) ==
  IF k = NoFrame \/ m.tcb[k].tid = NoTid THEN m
  ELSE dealloc_user_res([m EXCEPT !.ids.recycled = Append(@, m.tcb[k].tid), !.tcb[k].tid = NoTid],
                        m.tcb[k].base, m.tcb[k].tid)

DropAllRes(m) ==
  LET after[n \in 0 .. Len(m.tasks)] == IF n = 0 THEN m ELSE DropRes(after[n - 1], m.tasks[n])
  IN after[Len(m.tasks)]

\* sys_thread_create puts k into tasks: resize_with may cut off others, and the slot may
\* still have a TCB.
AddTask(m, tid, k) ==
  LET slot == [i \in 1 .. tid + 1 |-> IF i <= Len(m.tasks) THEN m.tasks[i] ELSE NoFrame]
      gone == Append(SubSeq(m.tasks, tid + 2, Len(m.tasks)), slot[tid + 1])
  IN IF m.panic # "no" THEN m
     ELSE DropTcbs([m EXCEPT !.tasks = Append(SubSeq(slot, 1, tid), k)], gone)

-----------------------------------------------------------------------------

\* The operation on p ends with m.
Ends(p, m) ==
  IF m.panic # "no"
    THEN /\ halted' = m.panic
         /\ UNCHANGED <<current, recycled, dma, space, content, tcb, tasks, ids>>
  ELSE /\ current' = m.cur /\ recycled' = m.rec /\ dma' = m.dma /\ content' = m.content
       /\ space' = [space EXCEPT ![p] = m.sp]
       /\ tcb' = m.tcb
       /\ tasks' = [tasks EXCEPT ![p] = m.tasks]
       /\ ids' = [ids EXCEPT ![p] = m.ids]
       /\ UNCHANGED halted

\* A thread that has not exited.  It runs with its TaskUserRes and its process.
Alive(k) == halted = "no" /\ k \in DOMAIN tcb /\ ~tcb[k].exited
Runs(k) == Alive(k) /\ tcb[k].tid # NoTid /\ tcb[k].proc # NoProc
Me(k) == tcb[k].proc
User(k) == Runs(k) /\ Me(k) # DAEMON
Counted == ops < MaxOps /\ ops' = ops + 1

\* VirtIOHal::dma_alloc, of the framebuffer: the frames must be consecutive.
dma_alloc(m, pages) ==
  LET after[n \in 0 .. pages] ==
        IF n = 0 THEN m
        ELSE LET a == after[n - 1]
                 base == IF a.dma = <<>> THEN NextFrame(a) ELSE a.dma[1]
             IN IF a.panic # "no" \/ ~HasFrame(a) THEN Panics(a, "memory")
                ELSE IF NextFrame(a) # base + n - 1 THEN Panics(a, "assert")
                ELSE [alloc(a) EXCEPT !.dma = Append(@, NextFrame(a))]
  IN after[pages]

\* The panics of from_elf and of the stack below it are told apart when they are due to
\* the program.
Blame(m, prog) == IF m.panic = "assert" /\ ~Ordered(prog) THEN [m EXCEPT !.panic = "elf"] ELSE m

\* drivers::init, then ProcessControlBlock::new for the first process.
boot(v) ==
  /\ halted = "no" /\ space[DAEMON].st = "none"
  /\ Counted
  /\ LET m == from_elf(dma_alloc(Machine(DAEMON), as_vpn_by_ceil(FbBytes)), InitProc, v)
         base == user_stack_base(InitProc)
         a == NewTcb(alloc_user_res(alloc_tid(m), base, 0), DAEMON, 0, base)
     IN Ends(DAEMON, [a EXCEPT !.tasks = <<NextFrame(alloc_user_res(m, base, 0))>>])
  /\ UNCHANGED <<parent, stores>>

\* exec, after from_elf: the MemorySet it replaces is dropped, and the arguments are
\* written to the new stack.
Replaced(m, sp, main, v) ==
  LET base == user_stack_base(m.sp.prog)
      a == alloc_user_res(DropFrames(m, Owned(sp)), base, 0)
  IN IF a.panic # "no" THEN a
     ELSE [a EXCEPT !.content[a.sp.pte[UserStack(base, 0).start]] = v, !.tcb[main].base = base]

\* The checks of exec and fork: thread_count is the length of tasks, in which the slots of
\* threads that have gone stay; the main thread must have its TaskUserRes.
thread_count(p) == Len(tasks[p])
MainHasRes(p) == tasks[p][1] # NoFrame /\ tcb[tasks[p][1]].tid # NoTid

\* ProcessControlBlock::exec
exec(k, prog, v) ==
  /\ User(k) /\ Counted
  /\ LET p == Me(k)
         m == from_elf(Machine(p), prog, v)
     IN Ends(p, IF thread_count(p) # 1 THEN Panics(Machine(p), "threads")
                ELSE IF m.panic # "no" THEN Blame(m, prog)
                ELSE IF ~MainHasRes(p) THEN Panics(m, "orphan")
                ELSE Blame(Replaced(m, space[p], tasks[p][1], v), prog))
  /\ UNCHANGED <<parent, stores>>

\* ProcessControlBlock::fork: the areas of the main thread are cloned with the rest.
fork(k, c) ==
  /\ Runs(k) /\ space[c].st = "none" /\ Counted
  /\ LET p == Me(k)
         m == clone(Machine(c), space[p])
         a == NewTcb(alloc_tid(m), c, 0, tcb[tasks[p][1]].base)
     IN Ends(c, IF thread_count(p) # 1 THEN Panics(Machine(c), "threads")
                ELSE IF m.panic # "no" THEN m
                ELSE IF ~MainHasRes(p) THEN Panics(m, "orphan")
                ELSE [a EXCEPT !.tasks = <<NextFrame(m)>>])
  /\ parent' = [parent EXCEPT ![c] = Me(k)]
  /\ UNCHANGED stores

\* sys_thread_create.  A thread that was cut from tasks keeps its TaskUserRes and runs on
\* when its main thread has exited; that it makes more threads then is left out.
thread_create(k) ==
  /\ User(k) /\ space[Me(k)].st = "live" /\ Counted
  /\ LET p == Me(k)
         tid == NextTid(Machine(p))
         m == alloc_user_res(alloc_tid(Machine(p)), tcb[k].base, tid)
     IN tid < NThreads /\ Ends(p, AddTask(NewTcb(m, p, tid, tcb[k].base), tid, NextFrame(m)))
  /\ UNCHANGED <<parent, stores>>

\* Drop of the TaskUserRes of a thread that exits, and of the Arc it ran with.  The TCB
\* stays for sys_waittid, unless it was cut from tasks.
Exits(k) ==
  LET m == [DropRes(Machine(Me(k)), k) EXCEPT !.tcb[k].exited = TRUE]
  IN IF \E i \in DOMAIN m.tasks : m.tasks[i] = k THEN m ELSE DropTcb(m, k)

thread_exit(k) ==
  /\ User(k) /\ tcb[k].tid # 0
  /\ Ends(Me(k), Exits(k)) /\ UNCHANGED <<parent, ops, stores>>

\* sys_waittid, called by a thread of the process, takes a TCB that has exited out of tasks.
waittid(k, tid) ==
  /\ User(k) /\ tcb[k].tid # tid /\ tid < Len(tasks[Me(k)])
  /\ LET p == Me(k)
         j == tasks[p][tid + 1]
     IN /\ j # NoFrame /\ tcb[j].exited
        /\ Ends(p, DropTcb([Machine(p) EXCEPT !.tasks[tid + 1] = NoFrame], j))
  /\ UNCHANGED <<parent, ops, stores>>

\* recycle_data_pages: only the list of areas is cleared.
recycle_data_pages(m) == [m EXCEPT !.sp.areas = <<>>, !.sp.st = "zombie"]

\* The main thread exits: its TaskUserRes is dropped, then those of the others in tasks,
\* and tasks is cut to the main thread.
process_exit(k) ==
  /\ User(k) /\ tcb[k].tid = 0
  /\ LET p == Me(k)
         m == recycle_data_pages(DropAllRes(Exits(k)))
     IN /\ Ends(p, DropTcbs([m EXCEPT !.tasks = SubSeq(@, 1, 1)], Tail(m.tasks)))
        /\ parent' = [c \in Procs |-> IF parent[c] = p THEN DAEMON ELSE parent[c]]
  /\ UNCHANGED <<ops, stores>>

\* sys_waitpid: the PCB is dropped, and with it the MemorySet and tasks.
reap(p) ==
  /\ halted = "no" /\ space[p].st = "zombie"
  /\ LET m == DropTcbs(DropFrames(Machine(p), Owned(space[p])), tasks[p])
         left == [k \in DOMAIN m.tcb |->
                    IF m.tcb[k].proc = p THEN [m.tcb[k] EXCEPT !.proc = NoProc] ELSE m.tcb[k]]
     IN Ends(p, [m EXCEPT !.sp = NoSpace, !.tasks = <<>>, !.ids = NoIds, !.tcb = left])
  /\ parent' = [parent EXCEPT ![p] = NoProc]
  /\ UNCHANGED <<ops, stores>>

\* A thread without TaskUserRes or process comes back from the ready queue, a wait queue or
\* TIMERS, and panics.  In a wait queue nobody else knows of it stays for ever.
orphan_runs(k) ==
  /\ Alive(k) /\ ~Runs(k)
  /\ halted' = "orphan"
  /\ UNCHANGED <<current, recycled, dma, space, content, tcb, tasks, ids, parent, ops, stores>>

\* sys_framebuffer.  The assert of PageTable::map fails if the process, or the one it
\* was forked from, has called it before.
sys_framebuffer(k) ==
  /\ User(k)
  /\ LET m == Machine(Me(k))
     IN Ends(Me(k), IF FbArea.start \in DOMAIN m.sp.pte THEN Panics(m, "remapped") ELSE push(m, FbArea))
  /\ UNCHANGED <<parent, ops, stores>>

\* A user program stores to the first page of its program, to a stack or to the framebuffer.
store(k, v) ==
  /\ User(k) /\ stores < MaxStores /\ stores' = stores + 1
  /\ LET s == space[Me(k)]
     IN \E vpn \in {ElfArea(s.prog[1]).start, UserStack(tcb[k].base, tcb[k].tid).start, FbArea.start} :
          /\ vpn \in DOMAIN s.pte /\ content[s.pte[vpn]] # v
          /\ content' = [content EXCEPT ![s.pte[vpn]] = v]
  /\ UNCHANGED <<current, recycled, dma, space, tcb, tasks, ids, parent, ops, halted>>

-----------------------------------------------------------------------------
(* User pointers: mm/mod.rs. *)

translate(s, vpn) == IF vpn \in DOMAIN s.pte THEN s.pte[vpn] ELSE Unmapped

\* PageTable::translate_va, as a frame and the offset in it.
translate_va(s, va) == <<translate(s, as_vpn_by_floor(va)), page_offset(va)>>

\* Mutant: the end of the slice is the offset of the end address, 0 at the end of a page.
SliceEndsAtOffset(end_va) == page_offset(end_va)

\* Where the slice of a page stops.
SliceEnd(end_va) == IF page_offset(end_va) = 0 THEN PAGE_SIZE ELSE page_offset(end_va)

\* translated_byte_buffer: the slices of pages that hold the bytes start .. end - 1.
translated_byte_buffer(s, start, end) ==
  LET Slices[va \in 0 .. end] ==
        LET vpn == as_vpn_by_floor(va)
            end_va == IF VirtAddr(vpn + 1) < end THEN VirtAddr(vpn + 1) ELSE end
        IN IF va >= end THEN <<>>
           ELSE <<[frame |-> translate(s, vpn), from |-> page_offset(va), to |-> SliceEnd(end_va)]>>
                \o Slices[end_va]
  IN Slices[start]

Next ==
  \/ \E v \in Data : boot(v)
  \/ \E k \in DOMAIN tcb :
       \/ \E prog \in Programs, v \in Data : exec(k, prog, v)
       \/ \E v \in Values : store(k, v)
       \/ \E c \in Procs : fork(k, c)
       \/ thread_create(k) \/ thread_exit(k) \/ process_exit(k)
       \/ \E tid \in Tids : waittid(k, tid)
       \/ sys_framebuffer(k) \/ orphan_runs(k)
  \/ \E p \in Procs : reap(p)

Spec == Init /\ [][Next]_vars

-----------------------------------------------------------------------------
(* Properties *)

Spaces == {p \in Procs : space[p].st # "none"}
Leaves(p) == DOMAIN space[p].pte \ {as_vpn_by_floor(TRAMPOLINE)}
UserPages(p) == {vpn \in Leaves(p) : vpn < FbArea.start}
View(p) == [vpn \in UserPages(p) |-> content[space[p].pte[vpn]]]
Free == {recycled[i] : i \in DOMAIN recycled}
Dma == {dma[i] : i \in DOMAIN dma}
OwnedBy(p) == Range(space[p].data) \cup Range(space[p].metadata)
Threads(p) == {k \in DOMAIN tcb : tcb[k].proc = p /\ tcb[k].tid # NoTid}
Pages(area) == area.start .. area.end - 1

\* The types of the allocator, the frames, the TCBs and the processes.
TypeOK ==
  /\ current \in 1 .. NFrames + 1 /\ Free \subseteq Frames /\ Dma \subseteq Frames
  /\ content \in [Frames -> Values]
  /\ halted \in {"no", "memory", "assert", "elf", "threads", "orphan", "remapped"}
  /\ DOMAIN tcb \subseteq Frames
  /\ \A k \in DOMAIN tcb : tcb[k].proc \in Procs \cup {NoProc} /\ tcb[k].tid \in Tids \cup {NoTid}
  /\ \A p \in Procs : /\ space[p].st \in {"none", "live", "zombie"}
                      /\ \A i \in DOMAIN tasks[p] : tasks[p][i] \in DOMAIN tcb \cup {NoFrame}

\* Every frame handed out is owned by one FrameTracker, of one MemorySet, of one kernel
\* stack or of the framebuffer, or is in `recycled`, once, through fork, exec, exit and
\* reaping, and no process that maps the framebuffer frees a frame of it.  The TCB of a thread
\* that has exited is in the tasks of its process, which keeps its kernel stack for waittid
\* or waitpid: what is left of a process that was reaped is the kernel stacks of
\* threads that were still ready or waiting when its main thread exited.
FramesOwnedOnce ==
  /\ TypeOK
  /\ 1 .. current - 1 = Free \cup Dma \cup DOMAIN tcb \cup UNION {OwnedBy(p) : p \in Procs}
  /\ current - 1 = Len(recycled) + Cardinality(Dma) + Cardinality(DOMAIN tcb) +
       MapThenSumSet(LAMBDA p : Cardinality(DOMAIN space[p].data) + Len(space[p].metadata), Procs)
  /\ \A k \in DOMAIN tcb : tcb[k].exited =>
       tcb[k].proc # NoProc /\ \E i \in DOMAIN tasks[tcb[k].proc] : tasks[tcb[k].proc][i] = k

\* A page table of a live process maps exactly the pages of its areas: those of the
\* program, of the stacks and trap contexts of its threads, each to the frame data_frames
\* keeps for it, and perhaps the framebuffer.  So the asserts of PageTable::map and
\* unmap, of dealloc and of dma_alloc never fail, whatever the order in which threads are
\* made and exit and whichever tid they take over, for programs whose LOAD headers are in
\* ascending order and share no page.
TablesMatchAreas ==
  /\ halted # "assert"
  /\ \A p \in Procs : space[p].st = "live" =>
       LET s == space[p]
           leaves == Leaves(p)
           fb == Pages(FbArea) \cap leaves
       IN /\ leaves = UNION {Pages(s.areas[i]) : i \in DOMAIN s.areas}
          /\ fb \in {{}, Pages(FbArea)} /\ \A vpn \in fb : s.pte[vpn] \in Dma
          /\ leaves \ fb = DOMAIN s.data
          /\ \A vpn \in DOMAIN s.data : s.pte[vpn] = s.data[vpn]
          /\ DOMAIN s.data = UNION {Pages(ElfArea(s.prog[i])) : i \in DOMAIN s.prog} \cup
               UNION {Pages(UserStack(tcb[k].base, tcb[k].tid)) \cup Pages(TrapContext(tcb[k].tid))
                      : k \in Threads(p)}

\* The bytes a user program may hand to the kernel: those of its program, its stacks
\* and the framebuffer, as [start, end).
Regions(p) ==
  {<<ph.va, ph.va + ph.mem>> : ph \in {space[p].prog[i] : i \in DOMAIN space[p].prog}} \cup
  {<<bottom, bottom + USER_STACK_SIZE>> :
     bottom \in {ustack_bottom_from_tid(tcb[k].base, tcb[k].tid) : k \in Threads(p)}} \cup
  {<<FB_VADDR, FB_VADDR + FbBytes>> : vpn \in {FbArea.start} \cap DOMAIN space[p].pte}

\* The slices translated_byte_buffer returns for a user buffer are, in order, the bytes
\* translate_va finds one by one: no byte is left out or repeated where the buffer
\* begins, ends or crosses into another frame, and no unwrap of translate fails.
BuffersExact ==
  \A p \in Procs : space[p].st = "live" => \A region \in Regions(p) :
    \A start \in region[1] .. region[2], end \in region[1] .. region[2] :
      LET slices == translated_byte_buffer(space[p], start, end)
          Bytes(slice) == [i \in 1 .. slice.to - slice.from |-> <<slice.frame, slice.from + i - 1>>]
          bytes == FlattenSeq([i \in DOMAIN slices |-> Bytes(slices[i])])
      IN start <= end =>
           /\ bytes = [i \in 1 .. end - start |-> translate_va(space[p], start + i - 1)]
           /\ \A i \in DOMAIN bytes : bytes[i][1] \in Frames

\* A page that appears in a page table already in use, and a page of a program past the
\* end of its file, is empty: nothing of an earlier owner of the frame shows there.
NewPagesAreBlank ==
  [][\A p \in Spaces' : \A vpn \in UserPages(p)' :
       LET inUse == p \in Spaces /\ space'[p].metadata = space[p].metadata
           forked == p \notin Spaces /\ Spaces # {}
           loaded == \/ \E i \in DOMAIN space'[p].prog : vpn \in FilePages(space'[p].prog[i])
                     \/ vpn = UserStack(user_stack_base(space'[p].prog), 0).start
       IN forked \/ (IF inUse THEN vpn \in UserPages(p) ELSE loaded) \/ View(p)'[vpn] = 0]_vars

\* Memory is private: no step changes what two processes see, and the child of fork
\* sees what its parent sees, and goes on seeing.
MemoryIsPrivate ==
  [][/\ \A p, q \in Spaces \cap Spaces' : View(p)' # View(p) /\ View(q)' # View(q) => p = q
     /\ \A c \in Spaces' \ Spaces : c # DAEMON =>
          \E p \in Spaces : p = parent'[c] /\ View(c)' = View(p) /\ View(p)' = View(p)]_vars
=============================================================================
