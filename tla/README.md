# LemonCore in TLA+

This directory holds TLA+ models of the LemonCore kernel (`kernel/`) and of its file
system library (`easy-fs/`), the configurations that model-check them with TLC, and
theorems about them that TLAPS checks. `PROJECT.json` lists every part of the system,
every run with its properties, the source lines behind every definition and the hazards
of the code.

## The system

LemonCore runs on one RISC-V hart. A system call or a trap runs in the kernel until it
returns, suspends, blocks or exits; no other task runs in between. Interrupts are taken
in user code at any time, and in kernel code only where `sstatus.SIE` is set; the handlers
in kernel mode (timer, console, input, disk) wake tasks but never switch. So the
interleavings to check are: user code of several threads preempted anywhere, system calls
cut at the points where they give up the hart, and the handlers in between.

| part | state | operations | what is hard |
|---|---|---|---|
| ids and stacks, `task/id.rs` | `current`, `recycled`, live handles | alloc, dealloc on drop | reuse in the order of drops; neighbouring stacks |
| scheduler, `task/{mod,manager,processor}.rs` | ready queue, current task, status | run_tasks, suspend, block, wakeup, exit | lost and double wakeups; idle loop with interrupts masked |
| primitives, `sync/*.rs` | `locked`, counts, wait queues | lock, unlock, up, down, signal, wait | hand-over without unlocking; negative counts; relocking after wait |
| timers, `timer.rs` | heap of deadlines | sleep, check_timer | interrupt between `add_timer` and the switch |
| processes and threads, `task/pcb.rs`, `syscall/{process,thread}.rs` | process tree, thread tables, strong counts | fork, exec, exit, waitpid, kill, thread_create, waittid | orphans; who holds the last `Arc`; threads left behind by an exit |
| memory, `mm/*.rs` | frames, page tables, areas | alloc, map, unmap, fork's copy, exec, reap | frames lost or owned twice; exhaustion half way; stale bytes; tids and kernel stacks of threads that outlive others |
| pipes, `fs/pipe.rs` | ring buffer, write ends | read, write, close | full or empty; end of file; both sides waiting |
| descriptors, `syscall/fs.rs`, `fs/inode.rs` | fd tables, shared offsets | open, close, dup, dup2, pipe, read, write | holes in the table; offsets shared after fork |
| directories, `fs/mod.rs`, `easy-fs/src/vfs.rs` | entries, inode bitmap, cwd | open, mkdir, unlink, chdir | swap-with-last delete; `..` by text and by entry |
| inode trees, `easy-fs/src/layout.rs` | pointers on three indirect levels, bitmap | increase, clear, decrease, read, write | boundaries between levels |
| block cache, `easy-fs/src/block_cache.rs` | cached blocks, dirty marks, device | get, read, modify, drop, sync_all | eviction of a used block; power failure |
| interrupts and drivers, `sync/up.rs`, `trap/`, `drivers/` | interrupt mask with its nesting level, device queues, condition variables, locks of the file system | read, write, handle_irq, access to a block | handler meeting a borrowed cell; cells and locks kept while the disk works; lost wakeups |

The parts meet as follows. Processes own threads, an address space and a descriptor
table; exit and waitpid release all three. Threads run through the scheduler and wait in
the primitives, in pipes, in timers and in the drivers. Descriptors lead to pipes and to
inodes; inodes are trees of blocks that are reached through the block cache, and the cache
through the block driver.

## Modules

Each component has a module with its variables, `Init`, one action per operation, `Next`
and `Spec`; an `MC` module gives TLC the sets that a configuration file cannot write.

| module | models | state and actions |
|---|---|---|
| `TaskId` | `RecycleAllocator` and the layout computed from ids | `live` is the set of handles not yet dropped |
| `TaskSync` | scheduler, mutexes, semaphores, condition variables, sleep, timer interrupts | one step per system call up to where it gives up the hart; `pc` says where a suspended call continues; `intr` and `sie` are the interrupt under way and the enable bit |
| `ByteQueue`, `Pipe` | a bounded byte queue with end of file, and `fs/pipe.rs` that implements it | one step per byte, since the loops hold the hart; `runq` is the order of turns |
| `Process` | processes, threads, signals, exit, reaping | a TCB is named by its kernel stack and lives while an `Arc` of it is left; `halted` names the assertion or unwrap that stopped the kernel |
| `AddressSpace` | frames, page tables, areas, kernel stacks, the framebuffer, user buffers | a call is one step on a record of the whole machine, built from `alloc`, `map`, `push`, `from_elf`, `clone`; addresses count bytes; a TCB is named by the frame of its kernel stack; a program is the list of its LOAD headers |
| `FdTable` | descriptor tables, open files and the inodes they name | `file` is the list of open files, `entry` the inode of each path, `data` says for every byte which open file wrote it |
| `Directory` | paths, directory entries, inode bitmap | a path is the sequence of its parts; `ents` is the content of each directory |
| `DiskInode` | block trees, data bitmap, splitting of ranges | `blk` holds the pointers of indirect blocks, `used` the bits that are set, `data` the blocks that are not blank, `lost` the blocks of inodes deleted without clear |
| `BlockStore`, `BlockCache` | blocks that a power failure may set back, and `block_cache.rs` that implements them | `held` is the stack of blocks each user is inside the closure of; a failure may come between any two steps |
| `Drivers` | `UPIntrFreeCell`, the interrupt handlers, console, input and block drivers, the locks a call on files holds | `pc` is where each task is, `mask` the enable bit with the nesting level, `cells` what is borrowed, `irq` the handler under way; a call on files is a list of `phases`, each with the cell and the lock it holds |
| `Handles_proofs` (of `TaskId`, `FdTable` and `Pipe`), `TaskSync_proofs`, `BlockCache_proofs`, `Drivers_proofs` | theorems | |
| `SequenceFacts` | lemmas about sequences that several proofs use | |

Abstractions that matter when reading the models:

- *Bytes and names* are members of small sets. A block's contents are one value, a program
  is any sequence of calls, and a path is never a string.
- *Panics.* A failed assertion, index or unwrap sets `halted` and stops the model. A
  property that says it does not happen is about the conditions of the code, which the
  actions have in their own order.
- `TaskSync` takes it that a program unlocks only mutexes it holds: `Blocking::unlock`
  asserts `locked` and does not check the owner. `Nesting` bounds whether a thread may lock
  a second mutex while it holds one.
- A semaphore's initial count is a `usize` cast to `isize`; `ISIZE_MAX` is the width, and a count
  beyond it starts negative, so that the first `down` blocks.
- `Process` keeps of the address space nothing, of `/proc` whether the directory of a pid and its
  `cmdline` exist, and of waiting calls that they wait in a timer, in a wait queue, or in a pipe with
  an `Arc` of the process on the kernel stack. Programs may make and unlink these entries
  (`change_proc`, `MaxChanges` times); putting a file in the place of the directory is left out. `exec`
  may be given a file that is no ELF, which stops the kernel.
- `AddressSpace` has one level of directories above the leaves, and a kernel stack is one
  frame of a kernel page table whose directories exist already. A TCB that has not exited is
  also held by the scheduler, a wait queue or the timers, so `truncate(1)` and the end of the PCB
  free the kernel stacks of exited threads only. A thread that is left without its user resources
  or its process either comes back and panics (`orphan_runs`) or keeps its kernel stack for ever:
  `FramesOwnedOnce` lists these stacks as owned and does not promise that they are freed. What a
  thread cut from `tasks` does after its main thread has exited is followed but for creating more threads.
  Stacks and trap contexts are one page each, RAM and files hold data other than 0.
- `from_elf` maps the LOAD headers in the order of the file and puts the stacks behind the last. Headers
  that share a page or are not in ascending order may fail the assertion of `PageTable::map`; that stops the
  model as `elf`, and `TablesMatchAreas` is about the other programs.
- `Drivers` has no contents of blocks or files: what matters of a call on files is which cell
  and which lock it holds while it needs a block. A second such call that begins while the first
  waits for the disk may borrow a borrowed cell or spin on a lock whose owner cannot run; the
  variable `overlap` remembers it, and `OnlyOverlapHalts` says that nothing else stops the machine.
- `Directory` is used by one process. Opening a directory with `TRUNC` clears it, `.` and
  `..` included, and mkdir of `/` makes an entry with an empty name; both damage the tree. They are
  in the model; the variable `misused` remembers them, the properties are stated without
  them, and what comes after is not followed.
- `Process` remembers in `threads` whether thread_create was called and whether it cut a thread
  that had not exited from the table (`resize_with` also shrinks). Such a thread outlives its process
  and may even fork in its name, so the links of `ProcessTree`, and
  `ExitStatusKept`, are stated up to that point, and `NoPanic` for processes whose other threads exit before the
  main one and programs that leave `/proc` alone. The panics a program asks for (waittid beyond the
  table, exec of a file that is no ELF, fork or exec after thread_create) are named in `AskedFor`.

## Runs

Passing runs, with distinct states:

| run | states | properties | what it shows |
|---|---|---|---|
| `MCTaskId` | 415 | `StacksDisjoint` | ids are fresh, none is lost, `dealloc`'s assertions hold; stacks keep a guard page between them |
| `MCTaskSync` | 388,110 | `MutexesSound`, `SemaphoreConserves`, `ScheduledOnce`, `HandoverIsFifo`, `SleepersWakeOnTime`, `MutexGranted`, `SleepEnds` | mutual exclusion, an owner for all waiters, balanced semaphores, every task in exactly one place; first-in first-out hand-over, no sleep ends early and none is overslept when `check_timer` has looked at the top of the heap; a queued thread gets its mutex and every sleep ends |
| `MCPipe` | 45,784 | `PipeInv`, `IsByteQueue`, `EofReachesReaders`, `NoMutualWait` | the ring is consistent, the pipe implements `ByteQueue`, end of file reaches readers, a reader and a writer never wait for each other for good |
| `MCProcess` | 223,096 | `ProcessTree`, `NoPanic`, `ExitStatusKept` | one process tree, unique thread ids, no panic but those a program asks for, exit codes kept until the living parent's waitpid |
| `MCProcessLive` | 27,927 | `OrphansReaped`, `KilledDies` | orphans are reaped, signalled processes exit |
| `MCBlockCache` | 73,866 | `OneCopy`, `NeverRunsOut`, `IsBlockStore` | one copy of each block, never out of entries, implements `BlockStore` |
| `MCDiskInode` | 30,457 | `TreesPartitionUsed`, `BytesInPlace`, `BlocksStay` | blocks in use are exactly those of the trees and of inodes deleted without clear, clear returns them, freed blocks are blank, `read_at` and `write_at` copy every byte between its place in the file and its place in the buffer, blocks never move |
| `MCDirectory` | 36,530 | `TreeSound`, `PathsAgree`, `EntriesStay` | the entries form a tree over the allocated inodes, textual and walked paths agree, names keep their inodes |
| `MCAddressSpace` | 332,212 | `FramesOwnedOnce`, `TablesMatchAreas`, `BuffersExact`, `NewPagesAreBlank`, `MemoryIsPrivate` | every frame is owned once, kernel stacks of exited threads included, page tables match areas, mapping assertions hold, user buffers are cut into the right slices, new pages are blank, memory is private |
| `MCFdTable` | 226,275 | `WrittenBehindOffset`, `BytesOfOwnPath`, `OpenFdsStay` | calls change only the descriptors they are told to, shared offsets keep writers apart, a reused inode mixes files only through an open file that outlived its path |
| `MCDrivers` | 209,286 | `HandlersFindCellsFree`, `OnlyOverlapHalts`, `DiskSleepersWillWake`, `InputInOrder`, `DiskWaitsEnd`, `InputIsRead` | no handler meets a borrowed cell, only overlapping calls on files stop the machine, no wakeup from the disk or the console is lost, inputs arrive in order |

The type invariant of a module is the first conjunct of its main invariant (`StacksDisjoint`, `PipeInv`,
`ProcessTree`, `OneCopy`, `TreesPartitionUsed`, `TreeSound`, `FramesOwnedOnce`, `WrittenBehindOffset`,
`HandlersFindCellsFree`); that of `TaskSync` is proved.

Bounds and why they reach the interesting cases:

- three tasks are what a hand-over with a third contender needs; a mutex, spin or blocking, a
  semaphore and a condition variable meet in every order. `MaxTime` is 2, with sleeps of one
  and two ticks, so timers expire before, during and after the switch of their sleepers and in another order
  than they were added. `ISIZE_MAX` is 3, with initial counts 0 and 7 (that is -1). The liveness properties are
  checked for one of the symmetric tasks (`Observed`). That the safety properties hold with more objects and longer sleeps is proved;
- a ring of two bytes with transfers of up to three wraps around, fills up and needs several
  turns per call; two threads of two processes are both readers, both writers or one of each,
  and close their ends in every order. The safety part is proved for any number of threads;
- four processes allow grandchildren whose parent and grandparent exit in either order; four
  kernel stacks with up to three threads in a process are enough to reuse a small tid below a
  larger one. `MCProcess` has faults and no kill (a fault sets the same signal set);
  `MCProcessLive` has kill, with three processes of one thread and one change under `/proc`;
- a cache of three with four blocks and three users evicts, reloads and is full;
- `DIRECT_COUNT` and `INDIRECT_COUNT` of 2 with 2-byte blocks make 18-byte files reach the third
  indirect level, and the sizes lie on, before and after the boundaries of the levels. `MaxShrink`
  keeps `decrease_size` to files of direct blocks, see below;
- four inodes and names `a`, `b` allow nested directories, deletion from the middle of a directory and
  a cwd that is removed;
- 25 frames of two bytes suffice for the daemon and two more processes but not for all of their threads
  and the framebuffer, so both recycling and exhaustion happen within `MaxOps` = 5 calls that make address
  spaces or threads: enough for two threads, of which one exits and a third takes over its tid and
  cuts off the other. Of four programs one has a segment of two pages, one two segments with a hole, one
  descending segments, one two that share a page; all ranges of bytes put buffers on, before and
  after page boundaries. One store (`MaxStores`) tells private memory from shared;
- two processes with tables of four descriptors, two paths and two inodes, and five calls: enough to
  unlink an open file and have its inode taken again;
- two users and the daemon over one open file and two descriptors of the virtqueue: one call on files waits for
  the disk while another begins, and a reader of the console waits meanwhile.

Deadlock is checked except where the system may stop: `Process` (shutdown when the daemon
exits, panics), `Drivers` and `Directory` (panics), `AddressSpace`, `FdTable` and `DiskInode` (their
call bounds).

One run ends in a violation. `MCProcessKstack`: a thread that is no longer in the table of its
process (thread_create with a recycled tid has cut it off or overwritten its slot), or whose process
is nobody's child any more, holds the last `Arc` of its control block when it exits; `drop(task)` frees the kernel stack it is running on, which the comment at
`kernel/src/task/mod.rs:90` says is left to waittid.

Every property of a passing run has a mutant in `PROJECT.json`: a definition with a plausible slip
(defined just before the original) under which TLC finds the property violated.

## Fairness

`MCTaskSync`, `MCPipe`, `MCProcessLive` and `MCDrivers` use fairness.

- The kernel goes on: the idle loop, the end of a trap, a resumed call, a handler and `check_timer` are
  (weakly or strongly) fair because nothing but the hart itself delays them. In `TaskSync`
  `run_tasks` and resumed calls need strong fairness, as interrupts disable them for a moment over
  and over.
- The timer interrupts user code again and again (`set_next_trigger` is called in each
  handler), so `preempt` and the timer interrupt in user code are strongly fair; the one in kernel
  code, which stays pending, weakly.
- Devices answer: the disk completes a request (weak), and a pending interrupt of the console or
  of the disk is taken when it can be taken again and again (strong; the PLIC keeps it pending).
- Programs release what they hold: `sys_mutex_unlock` is strongly fair, without which no lock can
  promise anything.
- The daemon does not get preempted before each of its waitpid calls for ever.
- Spin mutexes get no promise: a spinning thread may lose the race each time.
  `KilledDies` is checked without sleeping and blocking calls, since a signal does not wake anybody.
  `InputIsRead` promises nothing after two readers waited at once (`crowd`): one signal wakes one of them.

## Proofs

All constants are arbitrary within the named assumptions of the modules (`SizesAssumption`,
`TaskSyncAssumption`, `PipeAssumption`, `FdTableAssumption`, `BlockCacheAssumption`,
`DriversAssumption`), which TLC evaluates on the instances above.

- `Handles_proofs`, ids. `AllocatorInv`: live and recycled ids are disjoint and make up
  `0 .. current - 1`. That `dealloc`'s assertions hold is not inductive alone: that a popped id is
  not live needs the partition. From it follow `DeallocAssertsNeverFail`, `AllocNeverReuses` and,
  with a lemma about multiples of the stack size, `StacksNeverOverlap`.
- `TaskSync_proofs`. `Inv` is the conjunction of three layers, each preserved given the ones
  before. `TInv` adds to the types where suspended calls continue (a task that
  spins or relocks wants an existing mutex). `MInv` adds to `MutualExclusion` and
  `WaitersHaveAnOwner` that only blocking mutexes have queues, without which a spin unlock
  could leave waiters behind. `SInv` adds to `SemaphoreConserves` what a semaphore that is
  not created yet looks like. `HandoverIsFifo` follows from a
  description of what each step may do to the queues. `SleepersWakeOnTime` needs that the top of the heap
  by `cmp` has the smallest deadline (`PeekIsEarliest`): if it has not expired, nothing has
  (`NothingOverdue`); that a smallest deadline exists is well-foundedness of `<`.
- `TaskSync_proofs`, seats. `ScheduledOnce` counts positions, which no step argument likes. `PInv` says instead which
  *seats* a task has: the hart, the ready queue, the queue of one mutex, semaphore or condvar, a timer.
  A created task has one seat; inside `sys_sleep`, between `add_timer` and the switch, it has the hart and one
  more, which is its timer, or the ready queue if the interrupt came first. Nobody is twice in
  a queue. A step moves one task from one seat to another (`MovesOne`), `wait_with_mutex` two. From the
  seats the positions are counted (`PlacesCounted`), with the sizes of sets of up to two elements from
  the definition of `Cardinality`.
- `Handles_proofs`, pipes. `WriteByte` and `ReadByte` show what the two ring operations do to the
  contents as a sequence; `RingInvariant` is `PipeInv`, which is inductive, and
  `PipeImplementsQueue` is the step simulation: a byte written is `Put`, a byte read `Get`, a read
  that returns at end of file `EndOfFile`, closing the last write end `Close`, everything else a stutter.
- `Handles_proofs`, descriptors. `Inv` adds to the properties that a byte lies in the inode of the open file that
  wrote it, and that an open file whose path was not unlinked since still has the inode its
  path leads to. From it `SharedWritesFollow` and `BytesStayWithPaths`; `DescriptorsStay` is an action
  property over lemmas about reading and writing slots of a table (`PutGet`).
- `BlockCache_proofs`. `CacheInv` adds to `OneCopy` that a clean entry equals the block of the device,
  that what `sync_all` has passed is clean and in nobody's hands, and that device and cache hold values
  a power failure may leave. `CopiesAreUnique` follows, and `CacheIsBlockStore`: eviction, loading
  and write-back are stutters of `BlockStore`. `CacheNeverRunsOut` counts: the users together hold at
  most `Cardinality(Users) * MaxNesting` entries, one fewer while a user may still nest, and a full queue
  is at least that long.
- `Drivers_proofs`. Lemmas say what single steps do to cells, mask and inputs; `Inv` is kept with
  them. `DeviceInv`: the cell of a device is borrowed by the
  handler or by the task on the hart, never across `schedule`. `PhaseInv`: the cell of a file or a
  process belongs to one call. `MaskInv`: the nesting level is the number of borrowed cells, of all
  tasks together, and interrupts are masked while the cell of a device is among them. This gives
  `HandlersNeverCollide`; a nesting level that all tasks share is enough only because of `DeviceInv`.
  `InputInv` numbers the inputs and gives `InputsStayInOrder`. `DiskInv`: at most one request is
  outstanding, that of the task with the lock of the block cache, which sleeps in the queue of its token
  exactly that long; `DiskSleepersAreWoken` follows. `QueueInv`: a task is in one queue at most.
  `OverlapInv`: cells of files, and the lock of the file system, belong to calls that are in a phase, and two
  of these are an overlap; `OverlapAloneHalts` follows.

Only model-checked:

- liveness (`MutexGranted`, `SleepEnds`, `EofReachesReaders`, `NoMutualWait`, `OrphansReaped`, `KilledDies`,
  `DiskWaitsEnd`, `InputIsRead`), which needs fairness and `ENABLED`, outside the prover's reach;
- `DiskInode`, `Directory` and `AddressSpace`: what growing a tree level by level, walking a path, or mapping
  an area page by page computes is defined by recursion, and needs induction over data, which the installed
  provers do not have;
- `Process` (`ProcessTree`, `NoPanic`, `ExitStatusKept`): nothing stands in the way of a proof but its size.

## Where code and documentation disagree

Met while modelling; the models do what the code does.

- `task/mod.rs:136`: threads that are ready or asleep when the main thread exits are not removed from
  the scheduler; they panic when they run again without their user resources.
- `task/mod.rs:139`: a thread blocked in `lock()` or `down()` and its primitive keep each other alive
  (`syscall/sync.rs:90`, `:212`) after the process control block is gone, and its kernel stack leaks.
- `syscall/process.rs:162`: waitpid's assertion on the strong count fails for a child with a thread
  suspended in a pipe.
- `syscall/thread.rs:105`: waittid with a tid beyond the table panics; documented to return -1.
- `syscall/thread.rs:48`: creating a thread with a recycled tid drops the threads with larger ones
  and their exit codes.
- `task/pcb.rs:101`: fork and exec count the slots of exited threads, so they panic in a process that is
  single-threaded again.
- `sync/semaphore.rs:21`: an initial count beyond `isize::MAX` becomes negative.
- `syscall/process.rs:95`: exec of a file that is no ELF panics in `from_elf`, and programs that change
  `/proc/<pid>` make a later fork or exec panic (`task/pcb.rs:144`, `:235`).
- `mm/memory_set.rs:386`: LOAD headers that share a page or are out of order fail the assertion at
  `mm/page_table.rs:130`.
- `easy-fs/src/layout.rs:345`: `decrease_size` beyond the direct blocks returns blocks that are still referenced.
- `syscall/fs.rs:210`: a directory opened with `TRUNC` and given two entries passes for empty.
- `syscall/fs.rs:150`: mkdir of `/` succeeds and makes an entry with an empty name.
- `syscall/fs.rs:236`: opening a path that leads through a file panics; documented to return -1.
- `mm/memory_set.rs:254`: exit leaves the frames of the program to waitpid, contrary to `task/mod.rs:155`.
- `syscall/fs.rs:84`: dup2 from a closed descriptor below the length of the table succeeds.
- `fs/mod.rs:101`: `RDONLY` is 0, so a write-only file is readable.

## Not modelled

Register contexts, the switch and the trampoline (assembly); the kernel heap (an external
allocator); device registers and the virtio crate, of which only requests, completions and
pending interrupts are left; drawing; boot, console output and logging; the bitmap words and
the inode area of the disk; the user library and the applications other than the daemon's
loop. Calls that only copy state out (getcwd, fstat, get_time, getpid) have no effect to model.
The crash consistency of a whole file system operation, over several blocks of `BlockStore`,
is not promised by the code and not modelled.
