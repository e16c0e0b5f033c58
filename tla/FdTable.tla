------------------------------ MODULE FdTable ------------------------------
(***************************************************************************)
(* File descriptors: fd_table of the processes, the open files it points   *)
(* to (OSInode with its offset, pipe ends, Stdin and Stdout), and the      *)
(* calls that change them: open, close, dup, dup2, pipe, read, write,      *)
(* unlink, fork and exit.                                                  *)
(*                                                                         *)
(* An Arc<dyn File> is the index of an open file in `file`; a regular one  *)
(* has the number of its inode, which unlink frees and a later open may    *)
(* get.  A byte of a regular file is the open file it was written through, *)
(* 0 for a byte never written.  Stdin and Stdout have no state: one open   *)
(* file each.                                                              *)
(* The bytes of pipes and of the console are left out (module Pipe has the *)
(* former).  A call is one step.                                           *)
(***************************************************************************)
EXTENDS Integers, Sequences

CONSTANTS
  Procs,       \* processes
  First,       \* the one that runs at first
  Paths,       \* paths of regular files
  Flags,       \* the sets of bits of OpenFlags that programs pass
  MaxFds,      \* bound on the length of an fd_table
  MaxInodes,   \* number of inodes for regular files
  MaxFiles,    \* bound on open files, the two of the console included
  MaxSize,     \* bound on the size of a file
  MaxCalls     \* bound on the calls that succeed

\* OpenFlags: RDONLY is 0, no bit at all.
RDONLY == {}
WRONLY == {"WRONLY"}
RDWR == {"RDWR"}
CREATE == {"CREATE"}
TRUNC == {"TRUNC"}

ASSUME FdTableAssumption ==
  /\ First \in Procs
  /\ Flags \subseteq SUBSET (WRONLY \cup RDWR \cup CREATE \cup TRUNC)
  /\ MaxInodes \in Nat /\ MaxFds \in Nat /\ MaxFds > 2 /\ MaxFiles \in Nat /\ MaxSize \in Nat /\ MaxCalls \in Nat

VARIABLES
  running,     \* processes that are not zombies, and were forked
  fd_table,    \* per process, file indices or None; fd 0 is at position 1
  file,        \* the open files
  entry,       \* the inode each path leads to, None where there is none
  bitmap,      \* inodes in use
  data,        \* the bytes of each inode
  call         \* the last call that succeeded: its name, who made it, the open
               \* fds it was told to change, and the number of calls so far

disk == <<entry, bitmap, data>>
vars == <<running, fd_table, file, disk, call>>

None == 0
Inodes == 1 .. MaxInodes
Fds == 0 .. MaxFds - 1

\* An open file; history: the path it was opened by, and whether that was unlinked since.
File(inode, path, reads, writes) ==
  [inode |-> inode, path |-> path, readable |-> reads, writable |-> writes, offset |-> 0,
   gone |-> FALSE]
Stdin == File(None, "console", TRUE, FALSE)
Stdout == File(None, "console", FALSE, TRUE)
PipeEnd(reads) == File(None, "pipe", reads, ~reads)

Init ==
  /\ running = {First}
  /\ fd_table = [p \in Procs |-> IF p = First THEN <<1, 2, 2>> ELSE <<>>]
  /\ file = <<Stdin, Stdout>>
  /\ entry = [f \in Paths |-> None] /\ bitmap = {} /\ data = [i \in Inodes |-> <<>>]
  /\ call = [name |-> "none", by |-> First, fds |-> {}, n |-> 0]

-----------------------------------------------------------------------------

\* What fd stands for in a table: Option<Arc<dyn File>>, None past its end.
get(table, fd) == IF fd < Len(table) THEN table[fd + 1] ELSE None

\* Mutant: the last slot is taken when the table has no hole.
AllocLast(table, fd) ==
  (get(table, fd) = None \/ fd = Len(table) - 1) /\ fd < Len(table)
  /\ \A o \in 0 .. fd - 1 : get(table, o) # None

\* alloc_fd: the first hole, or a new slot at the end.
alloc_fd(table, fd) ==
  get(table, fd) = None /\ \A o \in 0 .. fd - 1 : get(table, o) # None

\* fd_table[fd] = f, the table resized with None where it is too short.
put(table, fd, f) ==
  [i \in 1 .. IF fd < Len(table) THEN Len(table) ELSE fd + 1 |->
     IF i = fd + 1 THEN f ELSE get(table, i - 1)]

\* A call of p that succeeds, and one that returns -1.
Calls(p, name, fds) ==
  /\ p \in running /\ call.n < MaxCalls
  /\ call' = [name |-> name, by |-> p, fds |-> fds, n |-> call.n + 1]
Fails(p) == p \in running /\ UNCHANGED vars

Sets(p, table) == Len(table) <= MaxFds /\ fd_table' = [fd_table EXCEPT ![p] = table]
Opens(new) == Len(file) + Len(new) <= MaxFiles /\ file' = file \o new

contains(flags, bits) == bits \subseteq flags

\* open_file: the OSInode it makes.
OSInode(inode, path, flags) ==
  File(inode, path, contains(flags, RDONLY) \/ contains(flags, RDWR),
                    contains(flags, WRONLY) \/ contains(flags, RDWR))

\* Mutant: the search does not skip the bits that are set.
AllocFirst(inode) == \A j \in Inodes : inode <= j

\* alloc_inode: the first bit that is not set.
alloc_inode(inode) == inode \notin bitmap /\ \A j \in Inodes \ bitmap : inode <= j

\* open_file makes a file with CREATE ...
Creates(path, inode) ==
  /\ alloc_inode(inode)
  /\ bitmap' = bitmap \cup {inode} /\ entry' = [entry EXCEPT ![path] = inode]
  /\ data' = [data EXCEPT ![inode] = <<>>]

\* ... or finds one, which it clears with CREATE or TRUNC.
Finds(path, flags, inode) ==
  /\ inode = entry[path]
  /\ data' = [data EXCEPT ![inode] =
       IF contains(flags, CREATE) \/ contains(flags, TRUNC) THEN <<>> ELSE @]
  /\ UNCHANGED <<entry, bitmap>>

sys_open(p, path, flags) ==
  \/ /\ entry[path] = None /\ ~contains(flags, CREATE)
     /\ Fails(p)
  \/ \E inode \in Inodes :
       /\ \/ entry[path] = None /\ contains(flags, CREATE) /\ Creates(path, inode)
          \/ entry[path] # None /\ Finds(path, flags, inode)
       /\ Calls(p, "open", {})
       /\ Opens(<<OSInode(inode, path, flags)>>)
       /\ \E fd \in Fds : alloc_fd(fd_table[p], fd) /\ Sets(p, put(fd_table[p], fd, Len(file) + 1))
       /\ UNCHANGED running

\* sys_unlink of a regular file clears it, removes the entry and frees the inode,
\* whoever has it open.
sys_unlink(p, path) ==
  \/ entry[path] = None /\ Fails(p)
  \/ /\ entry[path] # None
     /\ Calls(p, "unlink", {})
     /\ data' = [data EXCEPT ![entry[path]] = <<>>]
     /\ bitmap' = bitmap \ {entry[path]} /\ entry' = [entry EXCEPT ![path] = None]
     /\ file' = [i \in DOMAIN file |->
          IF file[i].inode = entry[path] THEN [file[i] EXCEPT !.gone = TRUE] ELSE file[i]]
     /\ UNCHANGED <<running, fd_table>>

sys_close(p, fd) ==
  \/ get(fd_table[p], fd) = None /\ Fails(p)
  \/ /\ get(fd_table[p], fd) # None
     /\ Calls(p, "close", {fd}) /\ Sets(p, put(fd_table[p], fd, None))
     /\ UNCHANGED <<running, file, disk>>

sys_dup(p, fd) ==
  \/ get(fd_table[p], fd) = None /\ Fails(p)
  \/ /\ get(fd_table[p], fd) # None
     /\ Calls(p, "dup", {})
     /\ \E new_fd \in Fds :
          alloc_fd(fd_table[p], new_fd) /\ Sets(p, put(fd_table[p], new_fd, get(fd_table[p], fd)))
     /\ UNCHANGED <<running, file, disk>>

\* An old_fd inside the table that is closed closes new_fd.
sys_dup2(p, old_fd, new_fd) ==
  \/ old_fd >= Len(fd_table[p]) /\ Fails(p)
  \/ /\ old_fd < Len(fd_table[p])
     /\ Calls(p, "dup2", {new_fd})
     /\ Sets(p, put(fd_table[p], new_fd, get(fd_table[p], old_fd)))
     /\ UNCHANGED <<running, file, disk>>

sys_pipe(p) ==
  /\ Calls(p, "pipe", {})
  /\ Opens(<<PipeEnd(TRUE), PipeEnd(FALSE)>>)
  /\ \E read_fd, write_fd \in Fds :
       LET with_read == put(fd_table[p], read_fd, Len(file) + 1)
       IN /\ alloc_fd(fd_table[p], read_fd) /\ alloc_fd(with_read, write_fd)
          /\ Sets(p, put(with_read, write_fd, Len(file) + 2))
  /\ UNCHANGED <<running, disk>>

\* sys_read and OSInode::read of at most n bytes.
sys_read(p, fd, n) ==
  LET f == get(fd_table[p], fd)
      size == Len(data[file[f].inode]) - file[f].offset
      read_size == IF size <= 0 THEN 0 ELSE IF size < n THEN size ELSE n
  IN \/ f = None /\ Fails(p)
     \/ f # None /\ ~file[f].readable /\ Fails(p)
     \/ /\ f # None /\ file[f].readable /\ file[f].inode # None
        /\ Calls(p, "read", {})
        /\ file' = [file EXCEPT ![f].offset = @ + read_size]
        /\ UNCHANGED <<running, fd_table, disk>>

\* Mutant: the offset stays where it was.
OffsetStays(offset, write_size) == offset

OffsetAfter(offset, write_size) == offset + write_size

\* increase_size and write_at: n bytes by open file f, blank bytes up to the offset.
Written(bytes, offset, n, f) ==
  [i \in 1 .. IF Len(bytes) < offset + n THEN offset + n ELSE Len(bytes) |->
     IF i \in offset + 1 .. offset + n THEN f ELSE IF i <= Len(bytes) THEN bytes[i] ELSE 0]

\* sys_write and OSInode::write of n bytes.
sys_write(p, fd, n) ==
  LET f == get(fd_table[p], fd)
      offset == file[f].offset
  IN \/ f = None /\ Fails(p)
     \/ f # None /\ ~file[f].writable /\ Fails(p)
     \/ /\ f # None /\ file[f].writable /\ file[f].inode # None
        /\ offset + n <= MaxSize
        /\ Calls(p, "write", {})
        /\ data' = [data EXCEPT ![file[f].inode] = Written(@, offset, n, f)]
        /\ file' = [file EXCEPT ![f].offset = OffsetAfter(@, n)]
        /\ UNCHANGED <<running, fd_table, entry, bitmap>>

\* fork clones the table: both processes have the same open files.
sys_fork(p, c) ==
  /\ c \notin running /\ fd_table[c] = <<>> /\ c # First
  /\ Calls(p, "fork", {})
  /\ running' = running \cup {c}
  /\ fd_table' = [fd_table EXCEPT ![c] = fd_table[p]]
  /\ UNCHANGED <<file, disk>>

\* exit: fd_table.clear()
sys_exit(p) ==
  /\ Calls(p, "exit", 0 .. Len(fd_table[p]) - 1)
  /\ running' = running \ {p}
  /\ fd_table' = [fd_table EXCEPT ![p] = <<>>]
  /\ UNCHANGED <<file, disk>>

Next ==
  \E p \in running :
    \/ \E path \in Paths, flags \in Flags : sys_open(p, path, flags)
    \/ \E path \in Paths : sys_unlink(p, path)
    \/ \E fd \in Fds : sys_close(p, fd) \/ sys_dup(p, fd)
    \/ \E old_fd, new_fd \in Fds : sys_dup2(p, old_fd, new_fd)
    \/ sys_pipe(p)
    \/ \E fd \in Fds, n \in 1 .. 2 : sys_read(p, fd, n) \/ sys_write(p, fd, n)
    \/ \E c \in Procs : sys_fork(p, c)
    \/ sys_exit(p)

Spec == Init /\ [][Next]_vars

-----------------------------------------------------------------------------
(* Properties *)

\* The types of tables, open files and file contents; a table points to open files
\* and a zombie has none.
TypeOK ==
  /\ First \in Procs /\ running \subseteq Procs
  /\ \A p \in Procs :
       /\ fd_table[p] \in Seq(0 .. Len(file)) /\ Len(fd_table[p]) <= MaxFds
       /\ p \notin running => fd_table[p] = <<>>
  /\ \A i \in DOMAIN file : file[i].offset \in 0 .. MaxSize
  /\ entry \in [Paths -> Inodes \cup {None}] /\ bitmap \subseteq Inodes
  /\ \A i \in Inodes : data[i] \in Seq(0 .. Len(file))

\* A call changes descriptors of its own process only, and an open one only if it was
\* told to: what open, dup and pipe return was closed before, also the second
\* descriptor of pipe, and after dup2 and close made holes in the table.
OpenFdsStay ==
  [][\A p \in running \cap running' : \A fd \in Fds :
       get(fd_table[p], fd) # get(fd_table'[p], fd) =>
         p = call'.by /\ (get(fd_table[p], fd) = None \/ fd \in call'.fds)]_vars

\* What was written through an open file, by however many processes and descriptors
\* share it after fork, dup and dup2, is behind its offset, so that they do not
\* overwrite each other, also when another open file truncates the path.
WrittenBehindOffset ==
  /\ TypeOK
  /\ \A i \in Inodes : \A b \in DOMAIN data[i] : data[i][b] > 0 => b <= file[data[i][b]].offset

\* Every inode in use has one path, and what is read under a path was written by
\* somebody who opened that path: inodes that unlink freed and open took again mix two
\* files only through an open file that outlived the unlink of its own.
BytesOfOwnPath ==
  /\ \A f, g \in Paths : entry[f] # None /\ entry[f] = entry[g] => f = g
  /\ bitmap = {entry[f] : f \in Paths} \ {None}
  /\ \A f \in Paths : entry[f] # None =>
       \A b \in DOMAIN data[entry[f]] :
         LET writer == data[entry[f]][b]
         IN writer > 0 => file[writer].path = f \/ file[writer].gone
=============================================================================
