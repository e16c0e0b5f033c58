--------------------------- MODULE Handles_proofs ---------------------------
(***************************************************************************)
(* What the kernel hands out to processes.  First the descriptor tables    *)
(* and the open files, for any number of processes, paths, inodes,         *)
(* descriptors and calls: the inductive invariant Inv adds to the          *)
(* properties that a byte lies in the inode of the open file that wrote    *)
(* it, and that an open file whose path was not unlinked since still has   *)
(* the inode its path leads to.  Then the recycled ids of TaskId, and the  *)
(* pipes.                                                                  *)
(***************************************************************************)
EXTENDS FdTable, TaskId, Pipe, SequenceFacts, TLAPS

\* The prover of the leaves that name none: arithmetic, tuples and sequences need SMT.
USE ZenonT(30)

USE DEF None

FileType ==
  [inode : Inodes \cup {None}, path : Paths \cup {"console", "pipe"}, readable : BOOLEAN,
   writable : BOOLEAN, offset : 0 .. MaxSize, gone : BOOLEAN]

\* The tables point to open files; a process that does not run has none.
TablesOK ==
  /\ running \subseteq Procs /\ fd_table \in [Procs -> Seq(Nat)]
  /\ \A p \in Procs :
       /\ Len(fd_table[p]) <= MaxFds /\ (p \notin running => fd_table[p] = <<>>)
       /\ \A i \in DOMAIN fd_table[p] : fd_table[p][i] <= Len(file)

FilesOK ==
  /\ file \in Seq(FileType)
  /\ entry \in [Paths -> Inodes \cup {None}] /\ bitmap \subseteq Inodes
  /\ data \in [Inodes -> Seq(Nat)]
  /\ \A i \in Inodes : Len(data[i]) <= MaxSize

\* A byte was written through an open file of this inode, and lies behind its offset.
BytesOK ==
  \A i \in Inodes : \A b \in DOMAIN data[i] : data[i][b] > 0 =>
    /\ data[i][b] <= Len(file)
    /\ file[data[i][b]].inode = i /\ b <= file[data[i][b]].offset

\* Paths have inodes of their own, and exactly the ones in use.
EntriesOK ==
  /\ \A f, g \in Paths : entry[f] # None /\ entry[f] = entry[g] => f = g
  /\ bitmap = {entry[f] : f \in Paths} \ {None}

\* An open file whose path was not unlinked has the inode of its path.
NamedOK ==
  \A k \in DOMAIN file : file[k].inode # None /\ ~file[k].gone =>
    file[k].path \in Paths /\ entry[file[k].path] = file[k].inode

Inv == TablesOK /\ FilesOK /\ BytesOK /\ EntriesOK /\ NamedOK

-----------------------------------------------------------------------------

\* fd_table[fd] = f keeps the other slots, and makes a table long enough for fd.
LEMMA PutGet ==
  ASSUME NEW table \in Seq(Nat), NEW fd \in Nat, NEW f \in Nat
  PROVE  /\ put(table, fd, f) \in Seq(Nat)
         /\ Len(put(table, fd, f)) = IF fd < Len(table) THEN Len(table) ELSE fd + 1
         /\ \A x \in Nat : get(put(table, fd, f), x) = IF x = fd THEN f ELSE get(table, x)
<1> DEFINE n == IF fd < Len(table) THEN Len(table) ELSE fd + 1
           t == put(table, fd, f)
<1>1. n \in Nat /\ Len(table) <= n /\ fd < n
  BY SMTT(30)
<1>2. \A x \in Nat : get(table, x) \in Nat
  BY SMTT(30) DEF get
<1>3. t = [i \in 1 .. n |-> IF i = fd + 1 THEN f ELSE get(table, i - 1)]
  BY DEF put
<1> HIDE DEF n
<1>4. ASSUME NEW i \in 1 .. n
      PROVE  (IF i = fd + 1 THEN f ELSE get(table, i - 1)) \in Nat
  <2>1. i - 1 \in Nat
    BY <1>1, SMTT(30)
  <2>2. get(table, i - 1) \in Nat
    BY <1>2, <2>1
  <2> QED
    BY <2>2
<1>5. t \in [1 .. n -> Nat]
  BY <1>3, <1>4
<1>6. t \in Seq(Nat)
  BY <1>1, <1>5, SMTT(60)
<1>7. Len(t) = n
  BY <1>1, <1>5, <1>6, SMTT(30)
<1>8. \A x \in Nat : get(t, x) = IF x = fd THEN f ELSE get(table, x)
  BY <1>1, <1>3, <1>7, SMTT(30) DEF get
<1> QED
  BY <1>6, <1>7, <1>8 DEF n

\* A table made by put points to open files when the old one did.
LEMMA PutPoints ==
  ASSUME NEW table \in Seq(Nat), NEW fd \in Nat, NEW f \in Nat, NEW n \in Nat,
         \A i \in DOMAIN table : table[i] <= n, f <= n
  PROVE  \A i \in DOMAIN put(table, fd, f) : put(table, fd, f)[i] <= n
BY SMTT(60) DEF put, get

\* The console: three descriptors of two open files, no file on the disk.
LEMMA InitInv == Init => Inv
<1> SUFFICES ASSUME Init PROVE Inv
  OBVIOUS
<1> USE FdTableAssumption
<1>1. file \in Seq(FileType) /\ Len(file) = 2
  <2>1. Stdin \in FileType /\ Stdout \in FileType
    BY SMTT(30) DEF Stdin, Stdout, File, FileType
  <2> QED
    BY <2>1, SMTT(30) DEF Init
<1>2. TablesOK
  <2>1. <<1, 2, 2>> \in Seq(Nat) /\ <<>> \in Seq(Nat)
    BY SMTT(30)
  <2>2. \A p \in Procs : fd_table[p] = <<1, 2, 2>> \/ fd_table[p] = <<>>
    BY DEF Init
  <2>3. fd_table \in [Procs -> Seq(Nat)]
    BY <2>1 DEF Init
  <2> QED
    BY <1>1, <2>1, <2>2, <2>3, SMTT(30) DEF Init, TablesOK
<1>3. FilesOK
  BY <1>1, SMTT(30) DEF Init, FilesOK
<1>4. BytesOK
  BY SMTT(30) DEF Init, BytesOK
<1>5. EntriesOK
  BY DEF Init, EntriesOK
<1>6. NamedOK
  <2>1. file[1].inode = None /\ file[2].inode = None /\ DOMAIN file = {1, 2}
    BY SMTT(30) DEF Init, Stdin, Stdout, File
  <2> QED
    BY <2>1 DEF NamedOK
<1> QED
  BY <1>2, <1>3, <1>4, <1>5, <1>6 DEF Inv

-----------------------------------------------------------------------------
(* Steps *)

\* A new slot of one table: the tables still point to open files.
LEMMA SetsTable ==
  ASSUME Inv, NEW p \in running, NEW fd \in Nat, NEW f \in Nat, running' = running,
         Len(file) \in Nat, Len(file') \in Nat, Len(file) <= Len(file'), f <= Len(file'),
         Sets(p, put(fd_table[p], fd, f))
  PROVE  TablesOK'
<1> DEFINE t == put(fd_table[p], fd, f)
<1>1. p \in Procs /\ fd_table[p] \in Seq(Nat)
  BY DEF Inv, TablesOK
<1>2. t \in Seq(Nat) /\ Len(t) <= MaxFds
  BY <1>1, PutGet DEF Sets
<1>3. \A i \in DOMAIN fd_table[p] : fd_table[p][i] <= Len(file')
  <2>1. \A i \in DOMAIN fd_table[p] : fd_table[p][i] <= Len(file) /\ fd_table[p][i] \in Nat
    BY <1>1, SMTT(30) DEF Inv, TablesOK
  <2> QED
    BY <2>1, SMTT(30)
<1>4. \A i \in DOMAIN t : t[i] <= Len(file')
  BY <1>1, <1>3, PutPoints
<1>5. fd_table' = [fd_table EXCEPT ![p] = t]
  BY DEF Sets
<1> HIDE DEF t
<1>6. fd_table' \in [Procs -> Seq(Nat)]
  BY <1>2, <1>5 DEF Inv, TablesOK
<1>7. ASSUME NEW q \in Procs
      PROVE  /\ Len(fd_table'[q]) <= MaxFds /\ (q \notin running => fd_table'[q] = <<>>)
             /\ \A i \in DOMAIN fd_table'[q] : fd_table'[q][i] <= Len(file')
  <2>1. CASE q = p
    <3>1. fd_table'[q] = t
      BY <1>1, <1>5, <2>1 DEF Inv, TablesOK
    <3> QED
      BY <1>2, <1>4, <2>1, <3>1
  <2>2. CASE q # p
    <3>1. fd_table'[q] = fd_table[q]
      BY <1>5, <2>2 DEF Inv, TablesOK
    <3>2. \A i \in DOMAIN fd_table[q] : fd_table[q][i] <= Len(file) /\ fd_table[q][i] \in Nat
      BY SMTT(30) DEF Inv, TablesOK
    <3> QED
      BY <3>1, <3>2, SMTT(30) DEF Inv, TablesOK
  <2> QED
    BY <2>1, <2>2
<1> QED
  BY <1>6, <1>7 DEF Inv, TablesOK

\* Files that were open stay as they are when others are opened.
LEMMA OpensFiles ==
  ASSUME Inv, NEW new \in Seq(FileType), Opens(new)
  PROVE  /\ file' \in Seq(FileType) /\ Len(file) \in Nat /\ Len(file') = Len(file) + Len(new)
         /\ \A k \in 1 .. Len(file) : file'[k] = file[k]
         /\ \A k \in 1 .. Len(new) : file'[Len(file) + k] = new[k]
<1>1. file \in Seq(FileType) /\ file' = file \o new
  BY DEF Inv, FilesOK, Opens
<1> QED
  BY <1>1, SMTT(30)

\* A step that changes neither the open files nor the disk.
LEMMA TablesOnly ==
  ASSUME Inv, TablesOK', UNCHANGED <<file, disk>>
  PROVE  Inv'
BY SMTT(30) DEF Inv, FilesOK, BytesOK, EntriesOK, NamedOK, disk

\* A call that returns -1.
LEMMA FailsInv == ASSUME Inv, NEW p, Fails(p) PROVE Inv'
<1>1. UNCHANGED <<file, disk>> /\ UNCHANGED <<running, fd_table>>
  BY DEF Fails, vars
<1>2. TablesOK'
  BY <1>1 DEF Inv, TablesOK
<1> QED
  BY <1>1, <1>2, TablesOnly

\* What a descriptor stands for.
LEMMA GetType ==
  ASSUME Inv, NEW p \in Procs, NEW fd \in Nat
  PROVE  /\ get(fd_table[p], fd) \in Nat /\ get(fd_table[p], fd) <= Len(file)
         /\ Len(file) \in Nat
         /\ get(fd_table[p], fd) # None => get(fd_table[p], fd) \in DOMAIN file
<1>1. file \in Seq(FileType) /\ fd_table[p] \in Seq(Nat)
  BY DEF Inv, TablesOK, FilesOK
<1>2. \A i \in DOMAIN fd_table[p] : fd_table[p][i] <= Len(file)
  BY DEF Inv, TablesOK
<1>3. get(fd_table[p], fd) \in Nat /\ get(fd_table[p], fd) <= Len(file)
  BY <1>1, <1>2, SMTT(30) DEF get
<1> QED
  BY <1>1, <1>3, SMTT(30)

\* close, dup and dup2 change one slot of the table of the caller.
LEMMA OneSlot ==
  ASSUME Inv, NEW p \in running, NEW fd \in Nat, NEW f \in Nat, f <= Len(file),
         Sets(p, put(fd_table[p], fd, f)), UNCHANGED <<running, file, disk>>
  PROVE  Inv'
<1>1. Len(file) \in Nat
  BY SMTT(30) DEF Inv, FilesOK
<1>2. TablesOK'
  BY <1>1, SetsTable, SMTT(30)
<1> QED
  BY <1>2, TablesOnly

\* pipe opens two files that have no inode.
LEMMA SysPipeInv ==
  ASSUME Inv, NEW p \in running, sys_pipe(p)
  PROVE  Inv'
<1> USE FdTableAssumption
<1> DEFINE new == <<PipeEnd(TRUE), PipeEnd(FALSE)>>
<1>1. new \in Seq(FileType) /\ Len(new) = 2 /\ new[1].inode = None /\ new[2].inode = None
  <2>1. PipeEnd(TRUE) \in FileType /\ PipeEnd(FALSE) \in FileType
    BY SMTT(30) DEF PipeEnd, File, FileType
  <2>2. PipeEnd(TRUE).inode = None /\ PipeEnd(FALSE).inode = None
    BY DEF PipeEnd, File
  <2>3. \A a, b \in FileType : <<a, b>> \in Seq(FileType) /\ Len(<<a, b>>) = 2
    BY SMTT(30)
  <2>4. new[1] = PipeEnd(TRUE) /\ new[2] = PipeEnd(FALSE)
    OBVIOUS
  <2> HIDE DEF PipeEnd
  <2> QED
    BY <2>1, <2>2, <2>3, <2>4
<1>2. Opens(new) /\ UNCHANGED <<running, disk>>
  BY DEF sys_pipe
<1> HIDE DEF new
<1>3. /\ file' \in Seq(FileType) /\ Len(file) \in Nat /\ Len(file') = Len(file) + 2
      /\ \A k \in 1 .. Len(file) : file'[k] = file[k]
      /\ file'[Len(file) + 1] = new[1] /\ file'[Len(file) + 2] = new[2]
  <2>1. /\ file' \in Seq(FileType) /\ Len(file) \in Nat /\ Len(file') = Len(file) + Len(new)
        /\ \A k \in 1 .. Len(file) : file'[k] = file[k]
        /\ \A k \in 1 .. Len(new) : file'[Len(file) + k] = new[k]
    BY <1>1, <1>2, OpensFiles
  <2> QED
    BY <1>1, <2>1, SMTT(30)
<1>4. PICK r \in Fds, w \in Fds :
        Sets(p, put(put(fd_table[p], r, Len(file) + 1), w, Len(file) + 2))
  BY DEF sys_pipe
<1>5. TablesOK'
  <2> DEFINE t == put(fd_table[p], r, Len(file) + 1)
             u == put(t, w, Len(file) + 2)
  <2>1. p \in Procs /\ fd_table[p] \in Seq(Nat) /\ r \in Nat /\ w \in Nat
    BY SMTT(30) DEF Inv, TablesOK, Fds
  <2>2. \A i \in DOMAIN fd_table[p] : fd_table[p][i] <= Len(file) + 2
    <3>1. \A i \in DOMAIN fd_table[p] : fd_table[p][i] <= Len(file) /\ fd_table[p][i] \in Nat
      BY <2>1, SMTT(30) DEF Inv, TablesOK
    <3> QED
      BY <1>3, <3>1, SMTT(30)
  <2>a. Len(file) + 1 \in Nat /\ Len(file) + 2 \in Nat /\ Len(file) + 1 <= Len(file) + 2
    BY <1>3, SMTT(30)
  <2>3. t \in Seq(Nat) /\ \A i \in DOMAIN t : t[i] <= Len(file) + 2
    <3>1. t \in Seq(Nat)
      BY <2>1, <2>a, PutGet
    <3> QED
      BY <2>1, <2>2, <2>a, <3>1, PutPoints
  <2> HIDE DEF t
  <2>4. u \in Seq(Nat) /\ \A i \in DOMAIN u : u[i] <= Len(file')
    <3>1. u \in Seq(Nat)
      BY <2>1, <2>3, <2>a, PutGet, SMTT(30)
    <3>2. \A i \in DOMAIN u : u[i] <= Len(file) + 2
      BY <2>1, <2>3, <2>a, PutPoints, SMTT(60)
    <3> QED
      BY <1>3, <3>1, <3>2
  <2>5. fd_table' = [fd_table EXCEPT ![p] = u] /\ Len(u) <= MaxFds
    BY <1>4 DEF Sets, t
  <2> HIDE DEF u
  <2>6. fd_table' \in [Procs -> Seq(Nat)]
    BY <2>4, <2>5 DEF Inv, TablesOK
  <2>7. \A q \in Procs : \A i \in DOMAIN fd_table[q] : fd_table[q][i] <= Len(file')
    <3>1. \A q \in Procs : \A i \in DOMAIN fd_table[q] :
            fd_table[q][i] <= Len(file) /\ fd_table[q][i] \in Nat
      BY SMTT(30) DEF Inv, TablesOK
    <3> QED
      BY <1>3, <3>1, SMTT(30)
  <2> QED
    BY <1>2, <2>1, <2>4, <2>5, <2>6, <2>7 DEF Inv, TablesOK
<1>6. FilesOK'
  BY <1>2, <1>3 DEF Inv, FilesOK, disk
<1>7. BytesOK'
  <2>1. \A i \in Inodes : \A b \in DOMAIN data[i] : data[i][b] \in Nat
    BY SMTT(30) DEF Inv, FilesOK
  <2> QED
    BY <1>2, <1>3, <2>1, SMTT(60) DEF Inv, BytesOK, disk
<1>8. NamedOK'
  <2>1. \A k \in DOMAIN file' : k \in 1 .. Len(file) \/ file'[k].inode = None
    BY <1>1, <1>3, SMTT(20)
  <2> QED
    BY <1>2, <1>3, <2>1, SMTT(60) DEF Inv, NamedOK, FilesOK, disk
<1> QED
  BY <1>2, <1>5, <1>6, <1>7, <1>8 DEF Inv, EntriesOK, disk

\* open_file creates a file in a free inode, whose number no path and no open file that
\* still has its path carries.
LEMMA CreatesDisk ==
  ASSUME Inv, NEW path \in Paths, NEW inode \in Inodes, entry[path] = None,
         Creates(path, inode)
  PROVE  /\ entry' \in [Paths -> Inodes \cup {None}] /\ bitmap' \subseteq Inodes
         /\ data' \in [Inodes -> Seq(Nat)]
         /\ \A i \in Inodes : data'[i] = data[i] \/ data'[i] = <<>>
         /\ EntriesOK'
         /\ entry'[path] = inode /\ \A f \in Paths \ {path} : entry'[f] = entry[f]
<1>1. entry \in [Paths -> Inodes \cup {None}] /\ inode # None
  BY FdTableAssumption, SMTT(30) DEF Inv, FilesOK, Inodes
<1>2. /\ entry' = [entry EXCEPT ![path] = inode] /\ bitmap' = bitmap \cup {inode}
      /\ data' = [data EXCEPT ![inode] = <<>>] /\ inode \notin bitmap
  BY DEF Creates, alloc_inode
<1>3. entry'[path] = inode /\ \A f \in Paths \ {path} : entry'[f] = entry[f]
  BY <1>1, <1>2
<1>4. bitmap = {entry[f] : f \in Paths} \ {None}
  BY DEF Inv, EntriesOK
<1>5. \A f \in Paths : entry[f] # inode
  BY <1>1, <1>2, <1>4
<1>6. bitmap' = {entry'[f] : f \in Paths} \ {None}
  <2>1. ASSUME NEW x \in bitmap' PROVE x \in {entry'[f] : f \in Paths} \ {None}
    <3>1. CASE x = inode
      BY <1>1, <1>3, <3>1
    <3>2. CASE x # inode
      <4>1. PICK f \in Paths : x = entry[f] /\ x # None
        BY <1>2, <1>4, <3>2
      <4> QED
        BY <1>3, <4>1
    <3> QED
      BY <3>1, <3>2
  <2>2. ASSUME NEW f \in Paths, entry'[f] # None PROVE entry'[f] \in bitmap'
    BY <1>2, <1>3, <1>4, <2>2, SMTT(30)
  <2> QED
    BY <2>1, <2>2
<1>7. \A f, g \in Paths : entry'[f] # None /\ entry'[f] = entry'[g] => f = g
  BY <1>3, <1>5 DEF Inv, EntriesOK
<1>8. /\ data' \in [Inodes -> Seq(Nat)]
      /\ \A i \in Inodes : data'[i] = data[i] \/ data'[i] = <<>>
  BY <1>2, SMTT(30) DEF Inv, FilesOK
<1> QED
  BY <1>1, <1>2, <1>3, <1>6, <1>7, <1>8 DEF EntriesOK, Inv, FilesOK

\* open_file finds a file.
LEMMA FindsDisk ==
  ASSUME Inv, NEW path \in Paths, NEW flags, NEW inode \in Inodes, Finds(path, flags, inode)
  PROVE  /\ entry' \in [Paths -> Inodes \cup {None}] /\ bitmap' \subseteq Inodes
         /\ data' \in [Inodes -> Seq(Nat)]
         /\ \A i \in Inodes : data'[i] = data[i] \/ data'[i] = <<>>
         /\ EntriesOK'
         /\ entry'[path] = inode /\ \A f \in Paths \ {path} : entry'[f] = entry[f]
<1>1. UNCHANGED <<entry, bitmap>> /\ inode = entry[path]
  BY DEF Finds
<1>2. data' = [data EXCEPT ![inode] = <<>>] \/ data' = [data EXCEPT ![inode] = data[inode]]
  BY DEF Finds
<1>3. /\ data' \in [Inodes -> Seq(Nat)]
      /\ \A i \in Inodes : data'[i] = data[i] \/ data'[i] = <<>>
  <2>1. data \in [Inodes -> Seq(Nat)] /\ <<>> \in Seq(Nat)
    BY SMTT(30) DEF Inv, FilesOK
  <2>2. CASE data' = [data EXCEPT ![inode] = <<>>]
    BY <2>1, <2>2
  <2>3. CASE data' = [data EXCEPT ![inode] = data[inode]]
    BY <2>1, <2>3
  <2> QED
    BY <1>2, <2>2, <2>3
<1> QED
  BY <1>1, <1>3 DEF Inv, FilesOK, EntriesOK

\* open: one more open file, of the inode its path leads to.
LEMMA OpenInv ==
  ASSUME Inv, NEW p \in running, NEW path \in Paths, NEW flags, sys_open(p, path, flags)
  PROVE  Inv'
<1> USE FdTableAssumption
<1>1. CASE Fails(p)
  BY <1>1, FailsInv
<1>2. ASSUME NEW inode \in Inodes,
             \/ entry[path] = None /\ Creates(path, inode)
             \/ entry[path] # None /\ Finds(path, flags, inode),
             Opens(<<OSInode(inode, path, flags)>>), UNCHANGED running,
             NEW fd \in Fds, Sets(p, put(fd_table[p], fd, Len(file) + 1))
      PROVE  Inv'
  <2> DEFINE new == OSInode(inode, path, flags)
  <2>1. /\ new \in FileType /\ new.inode = inode /\ new.path = path
    BY SMTT(30) DEF OSInode, File, FileType
  <2> HIDE DEF new
  <2>2. <<new>> \in Seq(FileType) /\ Len(<<new>>) = 1 /\ <<new>>[1] = new
    BY <2>1, SMTT(30)
  <2>3. /\ file' \in Seq(FileType) /\ Len(file) \in Nat /\ Len(file') = Len(file) + 1
        /\ \A k \in 1 .. Len(file) : file'[k] = file[k]
        /\ file'[Len(file) + 1] = new
    <3>1. Opens(<<new>>)
      BY <1>2 DEF new
    <3>2. /\ file' \in Seq(FileType) /\ Len(file) \in Nat /\ Len(file') = Len(file) + Len(<<new>>)
          /\ \A k \in 1 .. Len(file) : file'[k] = file[k]
          /\ \A k \in 1 .. Len(<<new>>) : file'[Len(file) + k] = <<new>>[k]
      BY <2>2, <3>1, OpensFiles
    <3> QED
      BY <2>2, <3>2, SMTT(30)
  <2>4. /\ entry' \in [Paths -> Inodes \cup {None}] /\ bitmap' \subseteq Inodes
        /\ data' \in [Inodes -> Seq(Nat)]
        /\ \A i \in Inodes : data'[i] = data[i] \/ data'[i] = <<>>
        /\ EntriesOK'
        /\ entry'[path] = inode /\ \A f \in Paths \ {path} : entry'[f] = entry[f]
    BY <1>2, CreatesDisk, FindsDisk
  <2>5. TablesOK'
    <3>1. fd \in Nat /\ Len(file) + 1 \in Nat /\ Len(file') \in Nat /\ Len(file) <= Len(file')
          /\ Len(file) + 1 <= Len(file')
      BY <2>3, SMTT(20) DEF Fds
    <3> QED
      BY <1>2, <2>3, <3>1, SetsTable
  <2>6. FilesOK'
    <3>1. \A i \in Inodes : Len(data'[i]) <= MaxSize
      BY <2>4, SMTT(30) DEF Inv, FilesOK
    <3> QED
      BY <2>3, <2>4, <3>1 DEF FilesOK
  <2>7. BytesOK'
    <3>1. \A i \in Inodes : \A b \in DOMAIN data'[i] : b \in DOMAIN data[i] /\ data'[i][b] = data[i][b]
      BY <2>4, SMTT(30)
    <3>2. \A i \in Inodes : \A b \in DOMAIN data[i] : data[i][b] \in Nat
      BY SMTT(30) DEF Inv, FilesOK
    <3> QED
      BY <2>3, <3>1, <3>2, SMTT(60) DEF Inv, BytesOK
  <2>8. NamedOK'
    <3> SUFFICES ASSUME NEW k \in DOMAIN file', file'[k].inode # None, ~file'[k].gone
                 PROVE  file'[k].path \in Paths /\ entry'[file'[k].path] = file'[k].inode
      BY DEF NamedOK
    <3>1. CASE k = Len(file) + 1
      BY <2>1, <2>3, <2>4, <3>1
    <3>2. CASE k # Len(file) + 1
      <4>1. k \in 1 .. Len(file) /\ file'[k] = file[k]
        BY <2>3, <3>2, SMTT(30)
      <4>2. file[k].path \in Paths /\ entry[file[k].path] = file[k].inode
        BY <4>1, <2>3, SMTT(30) DEF Inv, NamedOK, FilesOK
      <4>3. CASE file[k].path = path
        <5>1. entry[path] # None
          BY <4>1, <4>2, <4>3
        <5>2. Finds(path, flags, inode)
          BY <1>2, <5>1
        <5> QED
          BY <2>4, <4>1, <4>2, <4>3, <5>2 DEF Finds
      <4>4. CASE file[k].path # path
        BY <2>4, <4>1, <4>2, <4>4
      <4> QED
        BY <4>3, <4>4
    <3> QED
      BY <3>1, <3>2
  <2> QED
    BY <2>4, <2>5, <2>6, <2>7, <2>8 DEF Inv
<1> QED
  BY <1>1, <1>2 DEF sys_open

\* unlink clears the inode of the path and marks its open files.
LEMMA UnlinkInv ==
  ASSUME Inv, NEW p \in running, NEW path \in Paths, sys_unlink(p, path)
  PROVE  Inv'
<1> USE FdTableAssumption
<1>1. CASE Fails(p)
  BY <1>1, FailsInv
<1>2. CASE /\ entry[path] # None
           /\ data' = [data EXCEPT ![entry[path]] = <<>>]
           /\ bitmap' = bitmap \ {entry[path]} /\ entry' = [entry EXCEPT ![path] = None]
           /\ file' = [i \in DOMAIN file |->
                IF file[i].inode = entry[path] THEN [file[i] EXCEPT !.gone = TRUE] ELSE file[i]]
           /\ UNCHANGED <<running, fd_table>>
  <2>1. /\ file \in Seq(FileType) /\ Len(file) \in Nat /\ DOMAIN file = 1 .. Len(file)
        /\ entry \in [Paths -> Inodes \cup {None}] /\ entry[path] \in Inodes
        /\ data \in [Inodes -> Seq(Nat)]
    BY <1>2, SMTT(30) DEF Inv, FilesOK
  <2>2. \A k \in 1 .. Len(file) :
          /\ file'[k] \in FileType /\ file'[k].inode = file[k].inode
          /\ file'[k].path = file[k].path /\ file'[k].offset = file[k].offset
          /\ ~file'[k].gone => file[k].inode # entry[path] /\ file'[k] = file[k]
    <3>1. \A k \in 1 .. Len(file) : file[k] \in FileType
      BY <2>1, SMTT(30)
    <3>2. \A k \in 1 .. Len(file) :
            file'[k] = IF file[k].inode = entry[path] THEN [file[k] EXCEPT !.gone = TRUE] ELSE file[k]
      BY <1>2, <2>1
    <3>3. ASSUME NEW r \in FileType
          PROVE  LET g == [r EXCEPT !.gone = TRUE]
                 IN  /\ g \in FileType /\ g.inode = r.inode /\ g.path = r.path
                     /\ g.offset = r.offset /\ g.gone
      BY DEF FileType
    <3>4. ASSUME NEW k \in 1 .. Len(file), file[k].inode = entry[path]
          PROVE  /\ file'[k] \in FileType /\ file'[k].inode = file[k].inode
                 /\ file'[k].path = file[k].path /\ file'[k].offset = file[k].offset
                 /\ file'[k].gone
      <4>1. file[k] \in FileType /\ file'[k] = [file[k] EXCEPT !.gone = TRUE]
        BY <3>1, <3>2, <3>4
      <4> QED
        BY <3>3, <4>1
    <3>5. ASSUME NEW k \in 1 .. Len(file), file[k].inode # entry[path]
          PROVE  file'[k] = file[k] /\ file'[k] \in FileType
      BY <3>1, <3>2, <3>5
    <3> QED
      BY <3>4, <3>5
  <2>3. file' \in Seq(FileType) /\ Len(file') = Len(file)
    <3>1. file' \in [1 .. Len(file) -> FileType]
      BY <1>2, <2>1, <2>2
    <3>2. file' \in Seq(FileType)
      BY <2>1, <3>1, SMTT(60)
    <3> QED
      BY <2>1, <3>1, <3>2, SMTT(30)
  <2>4. TablesOK'
    BY <1>2, <2>3 DEF Inv, TablesOK
  <2>5. /\ data' \in [Inodes -> Seq(Nat)]
        /\ \A i \in Inodes : data'[i] = data[i] \/ data'[i] = <<>>
    BY <1>2, <2>1, SMTT(30)
  <2>6. FilesOK'
    <3>1. \A i \in Inodes : Len(data'[i]) <= MaxSize
      BY <2>5, SMTT(30) DEF Inv, FilesOK
    <3>2. entry' \in [Paths -> Inodes \cup {None}] /\ bitmap' \subseteq Inodes
      BY <1>2, <2>1 DEF Inv, FilesOK
    <3> QED
      BY <2>3, <2>5, <3>1, <3>2 DEF FilesOK
  <2>7. BytesOK'
    <3>1. \A i \in Inodes : \A b \in DOMAIN data'[i] : b \in DOMAIN data[i] /\ data'[i][b] = data[i][b]
      BY <2>5, SMTT(30)
    <3>2. \A i \in Inodes : \A b \in DOMAIN data[i] : data[i][b] \in Nat
      BY <2>1, SMTT(30)
    <3> QED
      BY <2>2, <2>3, <3>1, <3>2, SMTT(60) DEF Inv, BytesOK
  <2>8. entry'[path] = None /\ \A f \in Paths \ {path} : entry'[f] = entry[f]
    BY <1>2, <2>1
  <2>9. EntriesOK'
    <3>1. \A f, g \in Paths : entry[f] # None /\ entry[f] = entry[g] => f = g
      BY DEF Inv, EntriesOK
    <3>2. bitmap = {entry[f] : f \in Paths} \ {None}
      BY DEF Inv, EntriesOK
    <3>3. ASSUME NEW x \in bitmap' PROVE x \in {entry'[f] : f \in Paths} \ {None}
      <4>1. x \in bitmap /\ x # entry[path]
        BY <1>2
      <4>2. PICK f \in Paths : x = entry[f] /\ x # None
        BY <3>2, <4>1
      <4> QED
        BY <2>8, <4>1, <4>2
    <3>4. ASSUME NEW f \in Paths, entry'[f] # None PROVE entry'[f] \in bitmap'
      <4>1. f # path /\ entry'[f] = entry[f]
        BY <2>8, <3>4
      <4>2. entry[f] \in bitmap /\ entry[f] # entry[path]
        BY <3>1, <3>2, <3>4, <4>1
      <4> QED
        BY <1>2, <4>1, <4>2, SMTT(30)
    <3>5. bitmap' = {entry'[f] : f \in Paths} \ {None}
      BY <3>3, <3>4
    <3> QED
      BY <2>8, <3>1, <3>5 DEF EntriesOK
  <2>10. NamedOK'
    <3> SUFFICES ASSUME NEW k \in DOMAIN file', file'[k].inode # None, ~file'[k].gone
                 PROVE  file'[k].path \in Paths /\ entry'[file'[k].path] = file'[k].inode
      BY DEF NamedOK
    <3>1. k \in 1 .. Len(file)
      BY <2>3, SMTT(30)
    <3>2. file[k].inode # entry[path] /\ file'[k] = file[k]
      BY <2>2, <3>1
    <3>3. file[k].path \in Paths /\ entry[file[k].path] = file[k].inode
      BY <2>1, <3>1, <3>2 DEF Inv, NamedOK
    <3> QED
      BY <2>8, <3>2, <3>3
  <2> QED
    BY <2>4, <2>6, <2>7, <2>9, <2>10 DEF Inv
<1> QED
  BY <1>1, <1>2 DEF sys_unlink

\* A shared offset only moves forward: bytes written through the file stay behind it.
LEMMA MovesOffset ==
  ASSUME Inv, NEW f \in DOMAIN file, NEW o \in 0 .. MaxSize, file[f].offset <= o,
         file' = [file EXCEPT ![f].offset = o]
  PROVE  /\ file' \in Seq(FileType) /\ Len(file') = Len(file) /\ DOMAIN file' = DOMAIN file
         /\ file'[f].offset = o
         /\ \A k \in DOMAIN file :
              /\ file'[k].inode = file[k].inode /\ file'[k].path = file[k].path
              /\ file'[k].gone = file[k].gone /\ file[k].offset <= file'[k].offset
<1>1. file \in Seq(FileType) /\ Len(file) \in Nat /\ DOMAIN file = 1 .. Len(file)
  BY SMTT(30) DEF Inv, FilesOK
<1>2. \A k \in DOMAIN file : file[k] \in FileType
  BY <1>1, SMTT(30)
<1> DEFINE new == [file[f] EXCEPT !.offset = o]
<1>3. /\ new \in FileType /\ new.inode = file[f].inode /\ new.path = file[f].path
      /\ new.gone = file[f].gone /\ new.offset = o
  BY <1>2 DEF FileType
<1>4. file' = [file EXCEPT ![f] = new]
  OBVIOUS
<1> HIDE DEF new
<1>5. file' \in Seq(FileType) /\ Len(file') = Len(file)
  BY <1>1, <1>3, <1>4, SMTT(30)
<1>6. DOMAIN file' = DOMAIN file /\ file'[f] = new /\ \A k \in DOMAIN file \ {f} : file'[k] = file[k]
  BY <1>1, <1>4
<1>7. \A k \in DOMAIN file : file[k].offset \in Int
  BY <1>2, FdTableAssumption, SMTT(30) DEF FileType
<1> QED
  BY <1>3, <1>5, <1>6, <1>7, SMTT(30)

\* read moves the offset up to the end of the file at most.
LEMMA ReadInv ==
  ASSUME Inv, NEW p \in running, NEW fd \in Fds, NEW n \in Nat, sys_read(p, fd, n)
  PROVE  Inv'
<1> USE FdTableAssumption
<1> DEFINE f == get(fd_table[p], fd)
           size == Len(data[file[f].inode]) - file[f].offset
           read_size == IF size <= 0 THEN 0 ELSE IF size < n THEN size ELSE n
<1>1. CASE Fails(p)
  BY <1>1, FailsInv
<1>2. CASE /\ f # None /\ file[f].inode # None
           /\ file' = [file EXCEPT ![f].offset = @ + read_size]
           /\ UNCHANGED <<running, fd_table, disk>>
  <2>1. f \in DOMAIN file
    BY <1>2, GetType, SMTT(60) DEF Inv, TablesOK, Fds
  <2>2. file[f] \in FileType
    BY <2>1, SMTT(60) DEF Inv, FilesOK
  <2>3. file[f].inode \in Inodes /\ file[f].offset \in 0 .. MaxSize
    BY <1>2, <2>2 DEF FileType
  <2>4. Len(data[file[f].inode]) \in 0 .. MaxSize
    BY <2>3, SMTT(30) DEF Inv, FilesOK
  <2> HIDE DEF f
  <2>5. /\ file[f].offset + read_size \in 0 .. MaxSize
        /\ file[f].offset <= file[f].offset + read_size
    <3>1. PICK o \in 0 .. MaxSize, l \in 0 .. MaxSize :
            o = file[f].offset /\ l = Len(data[file[f].inode])
      BY <2>3, <2>4
    <3>2. read_size = IF l - o <= 0 THEN 0 ELSE IF l - o < n THEN l - o ELSE n
      BY <3>1
    <3> HIDE DEF read_size
    <3>3. o + read_size \in 0 .. MaxSize /\ o <= o + read_size
      BY <3>2, SMTT(30)
    <3> QED
      BY <3>1, <3>3
  <2>6. file' = [file EXCEPT ![f].offset = file[f].offset + read_size]
    BY <1>2
  <2> HIDE DEF read_size
  <2>7. /\ file' \in Seq(FileType) /\ Len(file') = Len(file) /\ DOMAIN file' = DOMAIN file
        /\ \A k \in DOMAIN file :
              /\ file'[k].inode = file[k].inode /\ file'[k].path = file[k].path
              /\ file'[k].gone = file[k].gone /\ file[k].offset <= file'[k].offset
    BY <2>1, <2>5, <2>6, MovesOffset
  <2>8. BytesOK'
    <3> SUFFICES ASSUME NEW i \in Inodes, NEW b \in DOMAIN data[i], data[i][b] > 0
                 PROVE  /\ data[i][b] <= Len(file')
                        /\ file'[data[i][b]].inode = i /\ b <= file'[data[i][b]].offset
      BY <1>2 DEF BytesOK, disk
    <3> DEFINE w == data[i][b]
    <3>1. w \in Nat /\ w > 0 /\ b \in Nat /\ Len(file) \in Nat /\ DOMAIN file = 1 .. Len(file)
      BY SMTT(30) DEF Inv, FilesOK
    <3>2. w <= Len(file) /\ file[w].inode = i /\ b <= file[w].offset
      BY DEF Inv, BytesOK
    <3>3. w \in DOMAIN file
      BY <3>1, <3>2, SMTT(60)
    <3>4. file[w].offset \in Int /\ file'[w].offset \in Int
      <4>1. file[w] \in FileType /\ file'[w] \in FileType
        BY <2>7, <3>3, SMTT(30) DEF Inv, FilesOK
      <4> QED
        BY <4>1, SMTT(30) DEF FileType
    <3> HIDE DEF w
    <3>5. w <= Len(file') /\ file'[w].inode = i /\ b <= file'[w].offset
      BY <2>7, <3>1, <3>2, <3>3, <3>4, SMTT(30)
    <3> QED
      BY <3>5 DEF w
  <2> QED
    BY <1>2, <2>7, <2>8, SMTT(60) DEF Inv, TablesOK, FilesOK, EntriesOK, NamedOK, disk
<1> QED
  BY <1>1, <1>2 DEF sys_read

\* The bytes of a file after a write: those at the offset are the writer's.
LEMMA WrittenBytes ==
  ASSUME NEW bytes \in Seq(Nat), NEW o \in Nat, NEW n \in Nat, NEW f \in Nat
  PROVE  /\ Written(bytes, o, n, f) \in Seq(Nat)
         /\ Len(Written(bytes, o, n, f)) = IF Len(bytes) < o + n THEN o + n ELSE Len(bytes)
         /\ \A b \in DOMAIN Written(bytes, o, n, f) :
              \/ Written(bytes, o, n, f)[b] = f /\ b <= o + n
              \/ b \in DOMAIN bytes /\ Written(bytes, o, n, f)[b] = bytes[b]
              \/ Written(bytes, o, n, f)[b] = 0
<1> DEFINE len == IF Len(bytes) < o + n THEN o + n ELSE Len(bytes)
           val(i) == IF i \in o + 1 .. o + n THEN f ELSE IF i <= Len(bytes) THEN bytes[i] ELSE 0
           w == [i \in 1 .. len |-> val(i)]
<1>1. len \in Nat
  BY SMTT(30)
<1>2. \A i \in 1 .. len :
        /\ val(i) \in Nat
        /\ \/ val(i) = f /\ i <= o + n
           \/ i \in DOMAIN bytes /\ val(i) = bytes[i]
           \/ val(i) = 0
  BY SMTT(30)
<1>3. Written(bytes, o, n, f) = w
  BY DEF Written
<1> HIDE DEF len, val
<1>4. w \in [1 .. len -> Nat]
  BY <1>2
<1>5. w \in Seq(Nat) /\ Len(w) = len /\ DOMAIN w = 1 .. len
  <2>1. w \in Seq(Nat)
    BY <1>1, <1>4, SMTT(30)
  <2> QED
    BY <1>1, <1>4, <2>1, SMTT(30)
<1>6. \A b \in 1 .. len : w[b] = val(b)
  OBVIOUS
<1> HIDE DEF w
<1> QED
  BY <1>2, <1>3, <1>5, <1>6 DEF len

\* write puts the bytes at the offset and moves it behind them.
LEMMA WriteInv ==
  ASSUME Inv, NEW p \in running, NEW fd \in Fds, NEW n \in Nat, sys_write(p, fd, n)
  PROVE  Inv'
<1> USE FdTableAssumption
<1> DEFINE f == get(fd_table[p], fd)
           offset == file[f].offset
           ino == file[f].inode
<1>1. CASE Fails(p)
  BY <1>1, FailsInv
<1>2. CASE /\ f # None /\ ino # None /\ offset + n <= MaxSize
           /\ data' = [data EXCEPT ![ino] = Written(@, offset, n, f)]
           /\ file' = [file EXCEPT ![f].offset = OffsetAfter(@, n)]
           /\ UNCHANGED <<running, fd_table, entry, bitmap>>
  <2>1. f \in DOMAIN file /\ f \in Nat
    BY <1>2, GetType, SMTT(60) DEF Inv, TablesOK, Fds
  <2>2. file[f] \in FileType
    BY <2>1, SMTT(30) DEF Inv, FilesOK
  <2>3. ino \in Inodes /\ offset \in 0 .. MaxSize
    BY <1>2, <2>2 DEF FileType
  <2>4. data \in [Inodes -> Seq(Nat)] /\ data[ino] \in Seq(Nat) /\ Len(data[ino]) <= MaxSize
    BY <2>3 DEF Inv, FilesOK
  <2>5. file' = [file EXCEPT ![f].offset = offset + n]
    BY <1>2 DEF OffsetAfter
  <2> HIDE DEF f
  <2>6. offset + n \in 0 .. MaxSize /\ offset <= offset + n
    BY <1>2, <2>3, SMTT(30)
  <2>7. /\ file' \in Seq(FileType) /\ Len(file') = Len(file) /\ DOMAIN file' = DOMAIN file
        /\ file'[f].offset = offset + n
        /\ \A k \in DOMAIN file :
              /\ file'[k].inode = file[k].inode /\ file'[k].path = file[k].path
              /\ file'[k].gone = file[k].gone /\ file[k].offset <= file'[k].offset
    BY <2>1, <2>5, <2>6, MovesOffset
  <2> DEFINE w == Written(data[ino], offset, n, f)
  <2>8. /\ w \in Seq(Nat) /\ Len(w) <= MaxSize
        /\ \A b \in DOMAIN w : \/ w[b] = f /\ b <= offset + n
                               \/ b \in DOMAIN data[ino] /\ w[b] = data[ino][b]
                               \/ w[b] = 0
    <3>1. offset \in Nat
      BY <2>3, SMTT(30)
    <3> HIDE DEF offset, ino
    <3>2. /\ w \in Seq(Nat)
          /\ Len(w) = IF Len(data[ino]) < offset + n THEN offset + n ELSE Len(data[ino])
          /\ \A b \in DOMAIN w : \/ w[b] = f /\ b <= offset + n
                                 \/ b \in DOMAIN data[ino] /\ w[b] = data[ino][b]
                                 \/ w[b] = 0
      BY <2>1, <2>4, <3>1, WrittenBytes, SMTT(60)
    <3> HIDE DEF w
    <3> QED
      BY <2>4, <2>6, <3>2, SMTT(30)
  <2>9. data' = [data EXCEPT ![ino] = w]
    BY <1>2
  <2> HIDE DEF w, offset, ino
  <2>10. data' \in [Inodes -> Seq(Nat)] /\ data'[ino] = w /\ \A i \in Inodes \ {ino} : data'[i] = data[i]
    BY <2>3, <2>4, <2>8, <2>9
  <2>11. FilesOK'
    <3>1. \A i \in Inodes : Len(data'[i]) <= MaxSize
      BY <2>8, <2>10 DEF Inv, FilesOK
    <3> QED
      BY <1>2, <2>7, <2>10, <3>1 DEF Inv, FilesOK
  <2>12. BytesOK'
    <3> SUFFICES ASSUME NEW i \in Inodes, NEW b \in DOMAIN data'[i], data'[i][b] > 0
                 PROVE  /\ data'[i][b] <= Len(file')
                        /\ file'[data'[i][b]].inode = i /\ b <= file'[data'[i][b]].offset
      BY DEF BytesOK
    <3>0. Len(file) \in Nat /\ DOMAIN file = 1 .. Len(file)
      BY SMTT(30) DEF Inv, FilesOK
    <3>1. CASE i = ino /\ data'[i][b] = f /\ b <= offset + n
      BY <2>1, <2>7, <3>0, <3>1, SMTT(30) DEF ino
    <3>2. CASE b \in DOMAIN data[i] /\ data'[i][b] = data[i][b]
      <4> DEFINE x == data[i][b]
      <4>1. x \in Nat /\ x > 0 /\ b \in Nat
        BY <2>4, <3>2, SMTT(30)
      <4>2. x <= Len(file) /\ file[x].inode = i /\ b <= file[x].offset
        BY <3>2 DEF Inv, BytesOK
      <4>3. x \in DOMAIN file
        BY <3>0, <4>1, <4>2, SMTT(60)
      <4>4. file[x].offset \in Int /\ file'[x].offset \in Int
        <5>1. file[x] \in FileType /\ file'[x] \in FileType
          BY <2>7, <4>3, SMTT(30) DEF Inv, FilesOK
        <5> QED
          BY <5>1, SMTT(30) DEF FileType
      <4> HIDE DEF x
      <4>5. x <= Len(file') /\ file'[x].inode = i /\ b <= file'[x].offset
        BY <2>7, <4>1, <4>2, <4>3, <4>4, SMTT(30)
      <4> QED
        BY <3>2, <4>5 DEF x
    <3> QED
      BY <2>8, <2>10, <3>1, <3>2, SMTT(60)
  <2> QED
    BY <1>2, <2>7, <2>11, <2>12, SMTT(60) DEF Inv, TablesOK, EntriesOK, NamedOK
<1> QED
  BY <1>1, <1>2 DEF sys_write

\* fork and exit change the table of one process as a whole.
LEMMA WholeTable ==
  ASSUME Inv, NEW p \in running, NEW q \in Procs,
         \/ sys_fork(p, q)
         \/ p = q /\ sys_exit(p)
  PROVE  Inv'
<1>1. /\ fd_table \in [Procs -> Seq(Nat)] /\ p \in Procs /\ running \subseteq Procs
      /\ \A r \in Procs :
           /\ Len(fd_table[r]) <= MaxFds /\ (r \notin running => fd_table[r] = <<>>)
           /\ \A i \in DOMAIN fd_table[r] : fd_table[r][i] <= Len(file)
  BY DEF Inv, TablesOK
<1>2. UNCHANGED <<file, disk>>
  BY DEF sys_fork, sys_exit
<1>3. CASE sys_fork(p, q)
  <2>1. fd_table' = [fd_table EXCEPT ![q] = fd_table[p]] /\ running' = running \cup {q}
    BY <1>3 DEF sys_fork
  <2>2. TablesOK'
    BY <1>1, <1>2, <2>1 DEF TablesOK
  <2> QED
    BY <1>2, <2>2, TablesOnly
<1>4. CASE p = q /\ sys_exit(p)
  <2>1. fd_table' = [fd_table EXCEPT ![p] = <<>>] /\ running' = running \ {p}
    BY <1>4 DEF sys_exit
  <2>2. /\ <<>> \in Seq(Nat) /\ Len(<<>>) = 0 /\ DOMAIN <<>> = {} /\ MaxFds \in Nat
    BY FdTableAssumption, SMTT(30)
  <2>3. fd_table' \in [Procs -> Seq(Nat)]
    BY <1>1, <2>1, <2>2
  <2>4. fd_table'[p] = <<>> /\ \A r \in Procs \ {p} : fd_table'[r] = fd_table[r]
    BY <1>1, <2>1
  <2>5. TablesOK'
    BY <1>1, <1>2, <2>1, <2>2, <2>3, <2>4, SMTT(30) DEF TablesOK
  <2> QED
    BY <1>2, <2>5, TablesOnly
<1> QED
  BY <1>3, <1>4

\* Every call keeps the inductive invariant.
LEMMA NextInv == Inv /\ [Next]_vars => Inv'
<1> SUFFICES ASSUME Inv, [Next]_vars PROVE Inv'
  OBVIOUS
<1>0. Fds \subseteq Nat /\ 1 .. 2 \subseteq Nat
  BY SMTT(30) DEF Fds
<1>1. CASE UNCHANGED vars
  <2>1. UNCHANGED <<running, fd_table>> /\ UNCHANGED <<file, disk>>
    BY <1>1 DEF vars
  <2>2. TablesOK'
    BY <2>1 DEF Inv, TablesOK
  <2> QED
    BY <2>1, <2>2, TablesOnly
<1>2. ASSUME NEW p \in running, NEW path \in Paths, NEW flags \in Flags, sys_open(p, path, flags)
      PROVE  Inv'
  BY <1>2, OpenInv
<1>3. ASSUME NEW p \in running, NEW path \in Paths, sys_unlink(p, path) PROVE Inv'
  BY <1>3, UnlinkInv
<1>4. ASSUME NEW p \in running, NEW fd \in Fds, sys_close(p, fd) PROVE Inv'
  <2>1. CASE Fails(p)
    BY <2>1, FailsInv
  <2>2. CASE Sets(p, put(fd_table[p], fd, None)) /\ UNCHANGED <<running, file, disk>>
    <3>1. fd \in Nat /\ 0 \in Nat /\ 0 <= Len(file)
      BY <1>0, SMTT(30) DEF Inv, FilesOK
    <3> QED
      BY <2>2, <3>1, OneSlot
  <2> QED
    BY <1>4, <2>1, <2>2 DEF sys_close
<1>5. ASSUME NEW p \in running, NEW fd \in Fds, sys_dup(p, fd) PROVE Inv'
  <2>1. CASE Fails(p)
    BY <2>1, FailsInv
  <2>2. ASSUME NEW new_fd \in Fds, Sets(p, put(fd_table[p], new_fd, get(fd_table[p], fd))),
               UNCHANGED <<running, file, disk>>
        PROVE  Inv'
    <3>1. p \in Procs /\ fd \in Nat /\ new_fd \in Nat
      BY <1>0 DEF Inv, TablesOK
    <3>2. get(fd_table[p], fd) \in Nat /\ get(fd_table[p], fd) <= Len(file)
      BY <3>1, GetType
    <3> QED
      BY <2>2, <3>1, <3>2, OneSlot
  <2> QED
    BY <1>5, <2>1, <2>2 DEF sys_dup
<1>6. ASSUME NEW p \in running, NEW old_fd \in Fds, NEW new_fd \in Fds, sys_dup2(p, old_fd, new_fd)
      PROVE  Inv'
  <2>1. CASE Fails(p)
    BY <2>1, FailsInv
  <2>2. CASE Sets(p, put(fd_table[p], new_fd, get(fd_table[p], old_fd)))
             /\ UNCHANGED <<running, file, disk>>
    <3>1. p \in Procs /\ old_fd \in Nat /\ new_fd \in Nat
      BY <1>0 DEF Inv, TablesOK
    <3>2. get(fd_table[p], old_fd) \in Nat /\ get(fd_table[p], old_fd) <= Len(file)
      BY <3>1, GetType
    <3> QED
      BY <2>2, <3>1, <3>2, OneSlot
  <2> QED
    BY <1>6, <2>1, <2>2 DEF sys_dup2
<1>7. ASSUME NEW p \in running, sys_pipe(p) PROVE Inv'
  BY <1>7, SysPipeInv
<1>8. ASSUME NEW p \in running, NEW fd \in Fds, NEW n \in 1 .. 2, sys_read(p, fd, n) \/ sys_write(p, fd, n)
      PROVE  Inv'
  BY <1>0, <1>8, ReadInv, WriteInv
<1>9. ASSUME NEW p \in running, NEW c \in Procs, sys_fork(p, c) PROVE Inv'
  BY <1>9, WholeTable
<1>10. ASSUME NEW p \in running, sys_exit(p) PROVE Inv'
  <2>1. p \in Procs
    BY DEF Inv, TablesOK
  <2> QED
    BY <1>10, <2>1, WholeTable
<1> QED
  BY <1>1, <1>2, <1>3, <1>4, <1>5, <1>6, <1>7, <1>8, <1>9, <1>10 DEF Next

-----------------------------------------------------------------------------
(* Theorems *)

\* The inductive invariant holds in every reachable state.
LEMMA InvAlways == Spec => []Inv
BY InitInv, NextInv, PTL DEF Spec

\* What is written through an open file is behind its offset, however many processes
\* and descriptors share it: OSInode::write moves the offset past what it wrote.
THEOREM SharedWritesFollow == Spec => []WrittenBehindOffset
<1>1. Inv => WrittenBehindOffset
  <2> SUFFICES ASSUME Inv PROVE WrittenBehindOffset
    OBVIOUS
  <2> USE FdTableAssumption
  <2>0. Len(file) \in Nat /\ DOMAIN file = 1 .. Len(file) /\ \A k \in DOMAIN file : file[k] \in FileType
    BY SMTT(30) DEF Inv, FilesOK
  <2>1. \A p \in Procs : fd_table[p] \in Seq(0 .. Len(file))
    <3> SUFFICES ASSUME NEW p \in Procs PROVE fd_table[p] \in Seq(0 .. Len(file))
      OBVIOUS
    <3>1. fd_table[p] \in Seq(Nat) /\ \A i \in DOMAIN fd_table[p] : fd_table[p][i] <= Len(file)
      BY DEF Inv, TablesOK
    <3>2. fd_table[p] \in [1 .. Len(fd_table[p]) -> 0 .. Len(file)]
      BY <2>0, <3>1, SMTT(60)
    <3> QED
      BY <3>1, <3>2, SMTT(60)
  <2>2. \A i \in Inodes : data[i] \in Seq(0 .. Len(file))
    <3> SUFFICES ASSUME NEW i \in Inodes PROVE data[i] \in Seq(0 .. Len(file))
      OBVIOUS
    <3>1. data[i] \in Seq(Nat) /\ \A b \in DOMAIN data[i] : data[i][b] > 0 => data[i][b] <= Len(file)
      BY DEF Inv, FilesOK, BytesOK
    <3>2. \A b \in DOMAIN data[i] : data[i][b] \in 0 .. Len(file)
      BY <2>0, <3>1, SMTT(30)
    <3>3. data[i] \in [1 .. Len(data[i]) -> 0 .. Len(file)]
      BY <3>1, <3>2, SMTT(30)
    <3>4. Len(data[i]) \in Nat
      BY <3>1, SMTT(30)
    <3> QED
      BY <3>3, <3>4, SMTT(30)
  <2>3. \A k \in DOMAIN file : file[k].offset \in 0 .. MaxSize
    BY <2>0 DEF FileType
  <2>4. TypeOK
    BY <2>1, <2>2, <2>3 DEF TypeOK, Inv, TablesOK, FilesOK
  <2> QED
    BY <2>4 DEF WrittenBehindOffset, Inv, BytesOK
<1> QED
  BY <1>1, InvAlways, PTL

\* Every inode in use has one path, and bytes of another path come into a file only
\* through an open file that outlived the unlink of its own: alloc_inode never returns
\* an inode that a path leads to.
THEOREM BytesStayWithPaths == Spec => []BytesOfOwnPath
<1>1. Inv => BytesOfOwnPath
  <2> SUFFICES ASSUME Inv PROVE BytesOfOwnPath
    OBVIOUS
  <2>1. ASSUME NEW f \in Paths, entry[f] # None, NEW b \in DOMAIN data[entry[f]],
               data[entry[f]][b] > 0
        PROVE  file[data[entry[f]][b]].path = f \/ file[data[entry[f]][b]].gone
    <3> DEFINE w == data[entry[f]][b]
    <3>1. entry[f] \in Inodes /\ Len(file) \in Nat /\ DOMAIN file = 1 .. Len(file)
      BY <2>1, SMTT(30) DEF Inv, FilesOK
    <3>2. w \in Nat /\ w <= Len(file) /\ file[w].inode = entry[f]
      BY <2>1, <3>1, SMTT(30) DEF Inv, BytesOK, FilesOK
    <3>3. w \in DOMAIN file
      BY <2>1, <3>1, <3>2, SMTT(30)
    <3> HIDE DEF w
    <3>4. ~file[w].gone => file[w].path \in Paths /\ entry[file[w].path] = entry[f]
      BY <2>1, <3>2, <3>3 DEF Inv, NamedOK
    <3>5. file[w].path = f \/ file[w].gone
      BY <2>1, <3>4 DEF Inv, EntriesOK
    <3> QED
      BY <3>5 DEF w
  <2> QED
    BY <2>1 DEF BytesOfOwnPath, Inv, EntriesOK
<1> QED
  BY <1>1, InvAlways, PTL

\* The descriptors of the other processes, and of the caller those that are open and
\* that the call was not told to change.
SlotsStay ==
  \A p \in running \cap running' : \A fd \in Fds :
    get(fd_table[p], fd) # get(fd_table'[p], fd) =>
      p = call'.by /\ (get(fd_table[p], fd) = None \/ fd \in call'.fds)

\* A call that changes one slot, which was free or one it was told to change.
LEMMA OneSlotStays ==
  ASSUME Inv, NEW q \in running, NEW name, NEW fds, Calls(q, name, fds),
         NEW new \in Fds, NEW f \in Nat, Sets(q, put(fd_table[q], new, f)),
         get(fd_table[q], new) = None \/ new \in fds
  PROVE  SlotsStay
<1> SUFFICES ASSUME NEW p \in running, NEW fd \in Fds, get(fd_table[p], fd) # get(fd_table'[p], fd)
             PROVE  p = call'.by /\ (get(fd_table[p], fd) = None \/ fd \in call'.fds)
  BY DEF SlotsStay
<1>1. /\ p \in Procs /\ q \in Procs /\ fd \in Nat /\ new \in Nat
      /\ fd_table \in [Procs -> Seq(Nat)]
  BY SMTT(30) DEF Inv, TablesOK, Fds
<1>2. fd_table' = [fd_table EXCEPT ![q] = put(fd_table[q], new, f)]
  BY DEF Sets
<1>3. p = q
  BY <1>1, <1>2
<1>4. get(fd_table'[p], fd) = IF fd = new THEN f ELSE get(fd_table[p], fd)
  <2>1. fd_table'[p] = put(fd_table[p], new, f) /\ fd_table[p] \in Seq(Nat)
    BY <1>1, <1>2, <1>3
  <2> QED
    BY <1>1, <2>1, PutGet, SMTT(30)
<1>5. fd = new
  BY <1>4
<1>6. call'.by = q /\ call'.fds = fds
  BY DEF Calls
<1> QED
  BY <1>3, <1>5, <1>6

\* open, dup and pipe give out descriptors that were closed, and no call changes an
\* open descriptor it was not told to change, nor one of another process.
THEOREM DescriptorsStay == Spec => OpenFdsStay
<1>1. Inv /\ [Next]_vars => [SlotsStay]_vars
  <2> SUFFICES ASSUME Inv, Next PROVE SlotsStay \/ UNCHANGED vars
    OBVIOUS
  <2>0. Fds \subseteq Nat /\ running \subseteq Procs /\ Len(file) \in Nat
        /\ fd_table \in [Procs -> Seq(Nat)]
    BY SMTT(30) DEF Fds, Inv, TablesOK, FilesOK
  <2>a. UNCHANGED fd_table => SlotsStay
    BY DEF SlotsStay
  <2>b. ASSUME NEW p, Fails(p) PROVE UNCHANGED vars
    BY <2>b DEF Fails
  <2>1. ASSUME NEW p \in running, NEW path \in Paths, NEW flags \in Flags, sys_open(p, path, flags)
        PROVE  SlotsStay \/ UNCHANGED vars
    <3>1. ASSUME NEW fd \in Fds, Calls(p, "open", {}), alloc_fd(fd_table[p], fd),
                 Sets(p, put(fd_table[p], fd, Len(file) + 1))
          PROVE  SlotsStay
      <4>1. get(fd_table[p], fd) = None /\ Len(file) + 1 \in Nat
        BY <2>0, <3>1, SMTT(30) DEF alloc_fd
      <4> QED
        BY <3>1, <4>1, OneSlotStays
    <3> QED
      BY <2>1, <2>b, <3>1 DEF sys_open
  <2>2. ASSUME NEW p \in running, NEW fd \in Fds, sys_close(p, fd)
        PROVE  SlotsStay \/ UNCHANGED vars
    <3>1. ASSUME Calls(p, "close", {fd}), Sets(p, put(fd_table[p], fd, None)) PROVE SlotsStay
      BY <3>1, OneSlotStays
    <3> QED
      BY <2>2, <2>b, <3>1 DEF sys_close
  <2>3. ASSUME NEW p \in running, NEW fd \in Fds, sys_dup(p, fd)
        PROVE  SlotsStay \/ UNCHANGED vars
    <3>1. ASSUME NEW new_fd \in Fds, Calls(p, "dup", {}), alloc_fd(fd_table[p], new_fd),
                 Sets(p, put(fd_table[p], new_fd, get(fd_table[p], fd)))
          PROVE  SlotsStay
      <4>1. get(fd_table[p], new_fd) = None
        BY <3>1 DEF alloc_fd
      <4>2. get(fd_table[p], fd) \in Nat
        BY <2>0, GetType
      <4> QED
        BY <3>1, <4>1, <4>2, OneSlotStays
    <3> QED
      BY <2>3, <2>b, <3>1 DEF sys_dup
  <2>4. ASSUME NEW p \in running, NEW old_fd \in Fds, NEW new_fd \in Fds, sys_dup2(p, old_fd, new_fd)
        PROVE  SlotsStay \/ UNCHANGED vars
    <3>1. ASSUME Calls(p, "dup2", {new_fd}),
                 Sets(p, put(fd_table[p], new_fd, get(fd_table[p], old_fd)))
          PROVE  SlotsStay
      <4>1. get(fd_table[p], old_fd) \in Nat
        BY <2>0, GetType
      <4> QED
        BY <3>1, <4>1, OneSlotStays
    <3> QED
      BY <2>4, <2>b, <3>1 DEF sys_dup2
  <2>5. ASSUME NEW p \in running, sys_pipe(p) PROVE SlotsStay
    <3>1. PICK r \in Fds, w \in Fds :
            /\ alloc_fd(fd_table[p], r)
            /\ alloc_fd(put(fd_table[p], r, Len(file) + 1), w)
            /\ Sets(p, put(put(fd_table[p], r, Len(file) + 1), w, Len(file) + 2))
      BY <2>5 DEF sys_pipe
    <3> DEFINE t == put(fd_table[p], r, Len(file) + 1)
               u == put(t, w, Len(file) + 2)
    <3>2. /\ r \in Nat /\ w \in Nat /\ fd_table[p] \in Seq(Nat) /\ p \in Procs
          /\ Len(file) + 1 \in Nat /\ Len(file) + 2 \in Nat /\ Len(file) + 1 # None
      BY <2>0, SMTT(30)
    <3>3. t \in Seq(Nat) /\ \A x \in Nat : get(t, x) = IF x = r THEN Len(file) + 1 ELSE get(fd_table[p], x)
      BY <3>2, PutGet, SMTT(30)
    <3>4. get(fd_table[p], r) = None /\ get(t, w) = None
      BY <3>1 DEF alloc_fd
    <3> HIDE DEF t
    <3>5. \A x \in Nat : get(u, x) = IF x = w THEN Len(file) + 2 ELSE get(t, x)
      BY <3>2, <3>3, PutGet, SMTT(30)
    <3>6. get(fd_table[p], w) = None
      BY <3>2, <3>3, <3>4
    <3>7. fd_table' = [fd_table EXCEPT ![p] = u]
      BY <3>1 DEF Sets, t
    <3> HIDE DEF u
    <3>8. fd_table'[p] = u /\ \A q \in Procs \ {p} : fd_table'[q] = fd_table[q]
      BY <2>0, <3>2, <3>7
    <3>9. call'.by = p
      BY <2>5 DEF sys_pipe, Calls
    <3> QED
      BY <2>0, <3>3, <3>4, <3>5, <3>6, <3>8, <3>9 DEF SlotsStay
  <2>6. ASSUME NEW p \in running, NEW fd \in Fds, NEW n \in 1 .. 2, sys_read(p, fd, n) \/ sys_write(p, fd, n)
        PROVE  SlotsStay \/ UNCHANGED vars
    BY <2>6, <2>a, <2>b DEF sys_read, sys_write
  <2>7. ASSUME NEW p \in running, NEW c \in Procs, sys_fork(p, c) PROVE SlotsStay
    <3>1. c \notin running /\ fd_table' = [fd_table EXCEPT ![c] = fd_table[p]]
      BY <2>7 DEF sys_fork
    <3> QED
      BY <2>0, <3>1 DEF SlotsStay
  <2>8. ASSUME NEW p \in running, sys_exit(p) PROVE SlotsStay
    <3>1. p \notin running' /\ fd_table' = [fd_table EXCEPT ![p] = <<>>]
      BY <2>8 DEF sys_exit
    <3> QED
      BY <2>0, <3>1 DEF SlotsStay
  <2>9. ASSUME NEW p \in running, NEW path \in Paths, sys_unlink(p, path)
        PROVE  SlotsStay \/ UNCHANGED vars
    BY <2>9, <2>a, <2>b DEF sys_unlink
  <2> QED
    BY <2>1, <2>2, <2>3, <2>4, <2>5, <2>6, <2>7, <2>8, <2>9 DEF Next
<1> QED
  BY <1>1, InvAlways, PTL DEF Spec, OpenFdsStay, SlotsStay

-----------------------------------------------------------------------------
(* TaskId: the ids of processes, threads and kernel stacks, for every number of *)
(* ids and every page and stack size.                                          *)

\* The initial state of RecycleAllocator::new satisfies the invariant.
LEMMA IdInitInv == IdInit => AllocatorInv
  BY SMTT(30) DEF IdInit, AllocatorInv, IdTypeOK, DeallocAssertsHold, NoIdLost, Recycled

\* RecycleAllocator::alloc preserves the invariant, whether it pops a recycled
\* id or takes a new one.
LEMMA AllocatorAlloc == AllocatorInv /\ Alloc => AllocatorInv'
<1> SUFFICES ASSUME AllocatorInv, Alloc
             PROVE  AllocatorInv'
  OBVIOUS
<1>1. CASE recycled # <<>>
  <2> DEFINE n == Len(recycled)
  <2>0. /\ current \in Nat /\ live \subseteq Nat /\ recycled \in Seq(Nat)
        /\ \A id \in live : id < current /\ id \notin Recycled
        /\ live \cup Recycled = 0 .. current - 1
    BY DEF AllocatorInv, IdTypeOK, DeallocAssertsHold, NoIdLost
  <2>1. n \in Nat \ {0} /\ recycled \in [1 .. n -> Nat]
    BY <1>1, <2>0, EmptySeq, LenProperties
  <2>2. /\ recycled' = SubSeq(recycled, 1, n - 1)
        /\ current' = current
        /\ live' = live \cup {recycled[n]}
    BY <1>1 DEF Alloc, NextId
  <2>3. /\ recycled' \in Seq(Nat)
        /\ Len(recycled') = n - 1
        /\ \A i \in 1 .. n - 1 : recycled'[i] = recycled[i]
    BY <2>1, <2>2, SubSeqProperties, SMTT(60)
  <2>4. DOMAIN recycled' = 1 .. n - 1 /\ DOMAIN recycled = 1 .. n
    BY <2>0, <2>3, LenProperties
  <2>5. \A i, j \in 1 .. n : i # j => recycled[i] # recycled[j]
    BY <2>4 DEF AllocatorInv, NoIdLost
  <2> HIDE DEF n
  <2>6. Recycled' = Recycled \ {recycled[n]} /\ recycled[n] \in Recycled
    <3>1. Recycled' = {recycled[i] : i \in 1 .. n - 1}
      BY <2>3, <2>4 DEF Recycled
    <3>2. Recycled = {recycled[i] : i \in 1 .. n}
      BY <2>4 DEF Recycled
    <3> QED
      BY <2>1, <2>5, <3>1, <3>2, SMTT(30)
  <2>7. IdTypeOK'
    BY <2>0, <2>1, <2>2, <2>3, SMTT(30) DEF IdTypeOK
  <2>8. DeallocAssertsHold'
    BY <2>0, <2>2, <2>6, SMTT(30) DEF DeallocAssertsHold
  <2>9. NoIdLost'
    BY <2>0, <2>1, <2>2, <2>3, <2>4, <2>5, <2>6, SMTT(60) DEF NoIdLost
  <2> QED
    BY <2>7, <2>8, <2>9 DEF AllocatorInv
<1>2. CASE recycled = <<>>
  BY <1>2, SMTT(30) DEF Alloc, NextId, AllocatorInv, IdTypeOK, DeallocAssertsHold, NoIdLost, Recycled
<1> QED
  BY <1>1, <1>2

\* Dropping a handle preserves the invariant.
LEMMA AllocatorDealloc ==
  ASSUME NEW id \in live, AllocatorInv, Dealloc(id)
  PROVE  AllocatorInv'
<1> DEFINE n == Len(recycled)
<1>0. /\ current \in Nat /\ live \subseteq Nat /\ recycled \in Seq(Nat)
      /\ \A x \in live : x < current /\ x \notin Recycled
      /\ live \cup Recycled = 0 .. current - 1
  BY DEF AllocatorInv, IdTypeOK, DeallocAssertsHold, NoIdLost
<1>1. n \in Nat /\ recycled \in [1 .. n -> Nat] /\ DOMAIN recycled = 1 .. n
  BY <1>0, LenProperties
<1>2. /\ recycled' = Append(recycled, id)
      /\ current' = current
      /\ live' = live \ {id}
  BY DEF Dealloc
<1>3. /\ recycled' \in Seq(Nat)
      /\ Len(recycled') = n + 1
      /\ \A i \in 1 .. n : recycled'[i] = recycled[i]
      /\ recycled'[n + 1] = id
  BY <1>0, <1>1, <1>2, AppendProperties, SMTT(30)
<1>4. DOMAIN recycled' = 1 .. n + 1
  BY <1>3, LenProperties
<1>5. \A i, j \in 1 .. n : i # j => recycled[i] # recycled[j]
  BY <1>1 DEF AllocatorInv, NoIdLost
<1> HIDE DEF n
<1>6. \A i \in 1 .. n : recycled[i] # id
  BY <1>0, <1>1 DEF Recycled
<1>7. Recycled' = Recycled \cup {id}
  <2>1. Recycled' = {recycled'[i] : i \in 1 .. n + 1}
    BY <1>4 DEF Recycled
  <2>2. Recycled = {recycled[i] : i \in 1 .. n}
    BY <1>1 DEF Recycled
  <2> QED
    BY <1>1, <1>3, <2>1, <2>2, SMTT(30)
<1>8. IdTypeOK'
  BY <1>0, <1>2, <1>3 DEF IdTypeOK
<1>9. DeallocAssertsHold'
  BY <1>0, <1>2, <1>7 DEF DeallocAssertsHold
<1>10. NoIdLost'
  <2>1. \A i, j \in 1 .. n + 1 : i # j => recycled'[i] # recycled'[j]
    BY <1>1, <1>3, <1>5, <1>6, SMTT(30)
  <2> QED
    BY <1>0, <1>2, <1>4, <1>7, <2>1 DEF NoIdLost
<1> QED
  BY <1>8, <1>9, <1>10 DEF AllocatorInv

\* The invariant holds in every reachable state of the allocator.
THEOREM AllocatorInvariant == IdSpec => []AllocatorInv
<1>1. AllocatorInv /\ [IdNext]_id_vars => AllocatorInv'
  <2> SUFFICES ASSUME AllocatorInv, [IdNext]_id_vars
               PROVE  AllocatorInv'
    OBVIOUS
  <2>1. CASE Alloc
    BY <2>1, AllocatorAlloc
  <2>2. CASE \E id \in live : Dealloc(id)
    BY <2>2, AllocatorDealloc
  <2>3. CASE UNCHANGED id_vars
    BY <2>3 DEF id_vars, AllocatorInv, IdTypeOK, DeallocAssertsHold, NoIdLost, Recycled
  <2> QED
    BY <2>1, <2>2, <2>3 DEF IdNext
<1> QED
  BY <1>1, IdInitInv, PTL DEF IdSpec

\* The asserts of RecycleAllocator::dealloc never fail, whatever the order in
\* which handles are created and dropped.
THEOREM DeallocAssertsNeverFail == IdSpec => []DeallocAssertsHold
<1>1. AllocatorInv => DeallocAssertsHold
  BY DEF AllocatorInv
<1> QED
  BY <1>1, AllocatorInvariant, PTL

\* RecycleAllocator::alloc never returns an id that is still in use.
THEOREM AllocNeverReuses == IdSpec => []AllocIsFresh
<1>1. AllocatorInv => AllocIsFresh
  <2> SUFFICES ASSUME AllocatorInv
               PROVE  NextId \notin live
    BY DEF AllocIsFresh
  <2> USE DEF AllocatorInv, IdTypeOK, DeallocAssertsHold, Recycled
  <2>1. CASE recycled # <<>>
    <3>1. Len(recycled) \in DOMAIN recycled
      BY <2>1, EmptySeq, LenProperties, SMTT(30)
    <3> QED
      BY <2>1, <3>1 DEF NextId
  <2>2. CASE recycled = <<>>
    BY <2>2, SMTT(30) DEF NextId
  <2> QED
    BY <2>1, <2>2
<1> QED
  BY <1>1, AllocatorInvariant, PTL

\* Distinct ids are at least one stride apart.
LEMMA StrideApart ==
  ASSUME NEW i \in Nat, NEW j \in Nat, i < j, NEW s \in Nat
  PROVE  i * s + s <= j * s
<1>1. PICK d \in Nat : j = i + 1 + d
  <2>1. j - i - 1 \in Nat /\ j = i + 1 + (j - i - 1)
    BY SMTT(30)
  <2> QED
    BY <2>1
<1>2. j * s = i * s + s + d * s
  BY <1>1, SMTT(30)
<1>3. d * s \in Nat
  BY SMTT(30)
<1> QED
  BY <1>2, <1>3, SMTT(30)

\* Live stacks and trap contexts never overlap, whatever the sizes.
THEOREM StacksNeverOverlap == IdSpec => []StacksDisjoint
<1>1. AllocatorInv => StacksDisjoint
  <2> SUFFICES ASSUME AllocatorInv, NEW i \in live, NEW j \in live, i < j
               PROVE  /\ kernel_stack_top(j) + PAGE_SIZE <= kernel_stack_bottom(i)
                      /\ ustack_bottom_from_tid(i) + USER_STACK_SIZE + PAGE_SIZE
                           <= ustack_bottom_from_tid(j)
                      /\ trap_cx_bottom_from_tid(j) + PAGE_SIZE
                           <= trap_cx_bottom_from_tid(i)
    BY DEF StacksDisjoint
  <2> DEFINE ks == KERNEL_STACK_SIZE + PAGE_SIZE
             us == PAGE_SIZE + USER_STACK_SIZE
  <2>1. i \in Nat /\ j \in Nat
    BY DEF AllocatorInv, IdTypeOK
  <2>2. ks \in Nat /\ us \in Nat /\ PAGE_SIZE \in Nat
    BY SizesAssumption, SMTT(30)
  <2>3. /\ i * ks + ks <= j * ks
        /\ i * us + us <= j * us
        /\ i * PAGE_SIZE + PAGE_SIZE <= j * PAGE_SIZE
    BY <2>1, <2>2, StrideApart
  <2>4. /\ i * ks \in Nat /\ j * ks \in Nat
        /\ i * us \in Nat /\ j * us \in Nat
        /\ i * PAGE_SIZE \in Nat /\ j * PAGE_SIZE \in Nat
    BY <2>1, <2>2, SMTT(30)
  <2> HIDE DEF ks, us
  <2>5. kernel_stack_top(j) + PAGE_SIZE <= kernel_stack_bottom(i)
    <3>1. kernel_stack_top(j) = TRAMPOLINE - j * ks
      BY DEF kernel_stack_top, ks
    <3>2. kernel_stack_bottom(i) = TRAMPOLINE - i * ks - KERNEL_STACK_SIZE
      BY DEF kernel_stack_bottom, kernel_stack_top, ks
    <3>3. ks = KERNEL_STACK_SIZE + PAGE_SIZE
      BY DEF ks
    <3> QED
      BY <2>3, <2>4, <3>1, <3>2, <3>3, SizesAssumption, SMTT(30)
  <2>6. ustack_bottom_from_tid(i) + USER_STACK_SIZE + PAGE_SIZE
          <= ustack_bottom_from_tid(j)
    BY <2>3, <2>4, SizesAssumption, SMTT(30) DEF ustack_bottom_from_tid, us
  <2>7. trap_cx_bottom_from_tid(j) + PAGE_SIZE <= trap_cx_bottom_from_tid(i)
    BY <2>3, <2>4, SizesAssumption, SMTT(30) DEF trap_cx_bottom_from_tid
  <2> QED
    BY <2>5, <2>6, <2>7
<1> QED
  BY <1>1, AllocatorInvariant, PTL

-----------------------------------------------------------------------------
(* Pipe: it implements ByteQueue for every buffer size, any threads and any     *)
(* bytes.  The ring operations are shown once to append to and to remove from   *)
(* Contents; the invariant that makes them applicable says that the iterations  *)
(* a thread has left never exceed what the buffer holds.                        *)

N == RING_BUFFER_SIZE

\* The modulo of write_byte and read_byte is a wrap to 0 at the end of the array.
LEMMA IncValue ==
  ASSUME NEW i \in Index
  PROVE  Inc(i) \in Index /\ Inc(i) = IF i + 1 = N THEN 0 ELSE i + 1
BY PipeAssumption, SMTT(30) DEF Inc, Index, N

\* What the invariant says of the ring buffer alone.
RingOK ==
  /\ arr \in [Index -> Byte] /\ head \in Index /\ tail \in Index
  /\ status \in {"Empty", "Normal", "Full"}
  /\ head = tail <=> status # "Normal"

\* available_to_read and available_to_write tell empty from full by status.
LEMMA Available ==
  RingOK => /\ available_to_read \in 0 .. N
            /\ available_to_read = 0 <=> status = "Empty"
            /\ available_to_read = N <=> status = "Full"
            /\ available_to_write = N - available_to_read
BY PipeAssumption, SMTT(30) DEF RingOK, Index, available_to_read, available_to_write, N

\* The bytes between head and tail are as many as available_to_read says.
LEMMA ContentsLength ==
  RingOK => Contents \in Seq(Byte) /\ Len(Contents) = available_to_read
<1> SUFFICES ASSUME RingOK PROVE Contents \in Seq(Byte) /\ Len(Contents) = available_to_read
  OBVIOUS
<1>1. available_to_read \in Nat /\ available_to_read <= N
  BY Available, PipeAssumption, SMTT(30) DEF N
<1>2. \A i \in 1 .. available_to_read : Position(i) \in Index
  BY <1>1, PipeAssumption, SMTT(30) DEF RingOK, Position, Index, N
<1>3. Contents \in [1 .. available_to_read -> Byte]
  BY <1>2 DEF Contents, RingOK
<1> QED
  BY <1>1, <1>3, SMTT(30)

\* write_byte into a ring that is not full appends one byte to its contents.
LEMMA WriteByte ==
  ASSUME RingOK, status # "Full", NEW b \in Byte, write_byte(b)
  PROVE  /\ RingOK'
         /\ available_to_read' = available_to_read + 1
         /\ Contents' = Append(Contents, b)
<1>1. /\ head \in Index /\ tail \in Index /\ tail' \in Index /\ head' = head
      /\ tail' = IF tail + 1 = N THEN 0 ELSE tail + 1
      /\ arr' = [arr EXCEPT ![tail] = b]
      /\ status' = IF tail' = head THEN "Full" ELSE "Normal"
  BY IncValue DEF RingOK, write_byte
<1>2. RingOK'
  BY <1>1 DEF RingOK
<1>3. available_to_read' = available_to_read + 1
  BY <1>1, PipeAssumption, SMTT(30) DEF RingOK, available_to_read, Index, N
<1> DEFINE k == available_to_read
<1>4. k \in Nat /\ k < N
  BY Available, PipeAssumption, SMTT(30) DEF RingOK, N
<1>5. /\ Contents \in Seq(Byte) /\ Len(Contents) = k
      /\ Contents' \in Seq(Byte) /\ Len(Contents') = k + 1
  <2>1. (RingOK => Contents \in Seq(Byte) /\ Len(Contents) = available_to_read)'
    BY ContentsLength, PTL
  <2> QED
    BY <1>2, <1>3, <2>1, ContentsLength
<1>6. Position(k + 1) = tail
  BY <1>1, PipeAssumption, SMTT(30) DEF RingOK, available_to_read, Position, Index, N
<1>7. \A i \in 1 .. k : Position(i) # tail /\ Position(i) \in Index
  BY <1>1, PipeAssumption, SMTT(30) DEF RingOK, available_to_read, Position, Index, N
<1>8. \A i \in 1 .. k + 1 : Position(i)' = Position(i)
  BY <1>1 DEF Position
<1>9. \A i \in 1 .. k + 1 : Contents'[i] = Append(Contents, b)[i]
  BY <1>1, <1>3, <1>4, <1>5, <1>6, <1>7, <1>8, SMTT(30) DEF Contents, RingOK
<1> QED
  BY <1>2, <1>3, <1>4, <1>5, <1>9, SMTT(30)

\* read_byte from a ring that is not empty takes the first byte of its contents.
LEMMA ReadByte ==
  ASSUME RingOK, status # "Empty", read_byte
  PROVE  /\ RingOK'
         /\ available_to_read' = available_to_read - 1
         /\ Contents # <<>> /\ arr[head] = Head(Contents) /\ Contents' = Tail(Contents)
<1>1. /\ head \in Index /\ tail \in Index /\ head' \in Index /\ tail' = tail /\ arr' = arr
      /\ head' = IF head + 1 = N THEN 0 ELSE head + 1
      /\ status' = IF head' = tail THEN "Empty" ELSE "Normal"
  BY IncValue DEF RingOK, read_byte
<1>2. RingOK'
  BY <1>1 DEF RingOK
<1>3. available_to_read' = available_to_read - 1
  BY <1>1, PipeAssumption, SMTT(30) DEF RingOK, available_to_read, Index, N
<1> DEFINE k == available_to_read
<1>4. k \in Nat /\ k > 0 /\ k <= N
  BY Available, PipeAssumption, SMTT(30) DEF RingOK, N
<1>5. /\ Contents \in Seq(Byte) /\ Len(Contents) = k
      /\ Contents' \in Seq(Byte) /\ Len(Contents') = k - 1
  <2>1. (RingOK => Contents \in Seq(Byte) /\ Len(Contents) = available_to_read)'
    BY ContentsLength, PTL
  <2> QED
    BY <1>2, <1>3, <2>1, ContentsLength
<1>6. Position(1) = head
  BY <1>1, PipeAssumption, SMTT(30) DEF Position, Index, N
<1>7. \A i \in 1 .. k - 1 : Position(i)' = Position(i + 1)
  BY <1>1, <1>4, PipeAssumption, SMTT(30) DEF Position, Index, N
<1>8. \A i \in 1 .. k - 1 : Contents'[i] = Contents[i + 1]
  BY <1>1, <1>3, <1>4, <1>7, SMTT(30) DEF Contents
<1>9. Contents # <<>> /\ Head(Contents) = Contents[1] /\ Contents[1] = arr[head]
  BY <1>4, <1>5, <1>6, SMTT(30) DEF Contents
<1>10. Contents' = Tail(Contents)
  BY <1>4, <1>5, <1>8, SMTT(30)
<1> QED
  BY <1>2, <1>3, <1>9, <1>10

-----------------------------------------------------------------------------

\* The invariant gives what the lemmas about the ring need.
LEMMA InvRing == PipeInv => RingOK
BY DEF PipeInv, PipeTypeOK, RingConsistent, RingOK

\* Nobody is inside an inner loop when the running thread is not.
LEMMA AllIdle ==
  ASSUME PipeInv, NEW t \in Threads, t = Head(runq), left[t] = 0 \/ op[t] = "user"
  PROVE  \A u \in Threads : left[u] = 0
<1> SUFFICES ASSUME NEW u \in Threads, left[u] # 0 PROVE FALSE
  OBVIOUS
<1>1. left[u] > 0
  BY PipeAssumption, SMTT(30) DEF PipeInv, PipeTypeOK
<1>2. u = Head(runq) /\ op[u] # "user"
  BY <1>1 DEF PipeInv, RingConsistent
<1> QED
  BY <1>2

\* While nobody is inside an inner loop, RingConsistent is about the ring alone.
LEMMA IdleRing ==
  ASSUME head = tail <=> status # "Normal", \A u \in Threads : left[u] = 0
  PROVE  RingConsistent
<1>1. ~(0 > 0)
  BY SMTT(30)
<1> QED
  BY <1>1 DEF RingConsistent

\* The types of what a turn of an inner loop uses.
LEMMA TurnTypes ==
  ASSUME PipeInv, NEW t \in Threads
  PROVE  /\ todo[t] \in Nat /\ left[t] \in Nat
         /\ arr[head] \in Byte /\ out \in Byte \cup {Eof}
<1>1. /\ todo[t] \in 0 .. MaxLen /\ left[t] \in 0 .. RING_BUFFER_SIZE
      /\ arr[head] \in Byte /\ out \in Byte \cup {Eof}
  BY DEF PipeInv, PipeTypeOK
<1>2. \A n \in Nat : 0 .. n \subseteq Nat
  BY SMTT(30)
<1> QED
  BY <1>1, <1>2, PipeAssumption

\* suspend_current_and_run_next keeps the run queue a queue of threads.
LEMMA Rotated ==
  ASSUME PipeInv, suspend_current_and_run_next
  PROVE  runq' \in Seq(Threads) /\ runq' # <<>>
<1>1. Tail(runq) \in Seq(Threads) /\ Head(runq) \in Threads
  BY HeadTailProperties DEF PipeInv, PipeTypeOK
<1> QED
  BY <1>1, AppendProperties, SMTT(30) DEF suspend_current_and_run_next

\* Every step of the threads using the pipe keeps the invariant.
LEMMA InvStep ==
  ASSUME PipeInv, [PipeNext]_pipe_vars
  PROVE  PipeInv'
<1> USE DEF ring
<1>0. PipeTypeOK /\ RingConsistent /\ RingOK
  BY InvRing DEF PipeInv
<1>a. (RingOK => /\ available_to_read \in 0 .. N
                 /\ available_to_read = 0 <=> status = "Empty"
                 /\ available_to_read = N <=> status = "Full"
                 /\ available_to_write = N - available_to_read)'
  BY Available, PTL
<1>b. ((head = tail <=> status # "Normal") /\ (\A u \in Threads : left[u] = 0) => RingConsistent)'
  BY IdleRing, PTL
<1>c. UNCHANGED ring => (head = tail <=> status # "Normal")'
  BY <1>0 DEF RingOK
<1>d. 0 \in 0 .. MaxLen /\ 0 \in 0 .. RING_BUFFER_SIZE
  BY PipeAssumption, SMTT(30)
<1>1. ASSUME NEW t \in Threads, preempt(t) PROVE PipeInv'
  <2>1. PipeTypeOK'
    BY <1>0, <1>1, Rotated DEF PipeTypeOK, preempt
  <2>2. \A u \in Threads : left'[u] = 0
    BY <1>1, AllIdle DEF preempt, Running
  <2>3. RingConsistent'
    BY <1>b, <1>c, <1>1, <2>2 DEF preempt
  <2> QED
    BY <2>1, <2>3 DEF PipeInv
<1>2. ASSUME NEW t \in Threads, NEW e \in {"read", "write"}, close_end(t, e) PROVE PipeInv'
  <2>1. PipeTypeOK'
    BY <1>0, <1>2 DEF PipeTypeOK, close_end
  <2>2. RingConsistent'
    BY <1>0, <1>2 DEF RingConsistent, close_end, available_to_read, available_to_write
  <2> QED
    BY <2>1, <2>2 DEF PipeInv
<1>3. ASSUME NEW t \in Threads, NEW e \in {"read", "write"}, NEW n \in 0 .. MaxLen,
             sys_enter(t, e, n)
      PROVE  PipeInv'
  <2>1. PipeTypeOK'
    BY <1>0, <1>3 DEF PipeTypeOK, sys_enter
  <2>2. \A u \in Threads : left'[u] = 0
    BY <1>3, AllIdle DEF sys_enter, Running
  <2>3. RingConsistent'
    BY <1>b, <1>c, <1>3, <2>2 DEF sys_enter
  <2> QED
    BY <2>1, <2>3 DEF PipeInv
<1>4. ASSUME NEW t \in Threads, read_eof(t) PROVE PipeInv'
  <2>1. PipeTypeOK'
    BY <1>0, <1>d, <1>4 DEF PipeTypeOK, read_eof, Return
  <2>2. \A u \in Threads : left'[u] = 0
    BY <1>0, <1>4, AllIdle DEF PipeTypeOK, read_eof, Running, Return
  <2>3. RingConsistent'
    BY <1>b, <1>c, <1>4, <2>2 DEF read_eof
  <2> QED
    BY <2>1, <2>3 DEF PipeInv
<1>5. ASSUME NEW t \in Threads, NEW n \in 0 .. N, Running(t, "read") \/ Running(t, "write"),
             left[t] = 0,
             op[t] = "read" => n = available_to_read,
             op[t] = "write" => n = available_to_write,
             IF n = 0
               THEN suspend_current_and_run_next /\ UNCHANGED left
               ELSE left' = [left EXCEPT ![t] = n] /\ UNCHANGED runq,
             UNCHANGED <<ring, ends, op, todo, out>>
      PROVE  PipeInv'
  <2>1. \A u \in Threads : left[u] = 0
    BY <1>5, AllIdle DEF Running
  <2>2. CASE n = 0
    <3>1. suspend_current_and_run_next /\ UNCHANGED left
      BY <1>5, <2>2
    <3>2. PipeTypeOK'
      BY <1>0, <1>5, <3>1, Rotated DEF PipeTypeOK
    <3>3. RingConsistent'
      BY <1>b, <1>c, <1>5, <2>1, <3>1
    <3> QED
      BY <3>2, <3>3 DEF PipeInv
  <2>3. CASE n # 0
    <3>1. left' = [left EXCEPT ![t] = n] /\ UNCHANGED runq
      BY <1>5, <2>3
    <3>2. PipeTypeOK'
      BY <1>0, <1>5, <3>1 DEF PipeTypeOK, N
    <3>3. available_to_read' = available_to_read /\ available_to_write' = available_to_write
      BY <1>5 DEF available_to_read, available_to_write
    <3>4. RingConsistent'
      BY <1>0, <1>5, <2>1, <3>1, <3>3 DEF RingConsistent, Running, PipeTypeOK
    <3> QED
      BY <3>2, <3>4 DEF PipeInv
  <2> QED
    BY <2>2, <2>3
<1>6. ASSUME NEW t \in Threads, read_turn(t) \/ write_turn(t) PROVE PipeInv'
  <2>1. available_to_read \in 0 .. N /\ available_to_write \in 0 .. N
    BY <1>0, Available, PipeAssumption, SMTT(30) DEF N
  <2>2. CASE read_turn(t)
    BY <1>5, <2>1, <2>2 DEF read_turn, Running
  <2>3. CASE write_turn(t)
    BY <1>5, <2>1, <2>3 DEF write_turn, Running
  <2> QED
    BY <1>6, <2>2, <2>3
<1>7. ASSUME NEW t \in Threads, Running(t, "read") \/ Running(t, "write"), left[t] > 0,
             Transferred(t), RingOK', out' \in Byte \cup {Eof}, UNCHANGED <<ends, runq>>,
             todo[t] > 0 /\ op[t] = "read" => available_to_read' = available_to_read - 1,
             todo[t] > 0 /\ op[t] = "write" => available_to_read' = available_to_read + 1
      PROVE  PipeInv'
  <2>1. /\ \A u \in Threads \ {t} : left[u] = 0
        /\ t = Head(runq) /\ op[t] # "user" /\ todo[t] \in Nat /\ left[t] \in Nat
        /\ op[t] = "read" => left[t] = available_to_read
        /\ op[t] = "write" => left[t] = available_to_write
    BY <1>0, <1>7, PipeAssumption, SMTT(60) DEF RingConsistent, PipeTypeOK, Running
  <2>2. CASE todo[t] <= 1
    <3>1. Return(t)
      BY <1>7, <2>2 DEF Transferred
    <3>2. PipeTypeOK'
      BY <1>0, <1>d, <1>7, <3>1 DEF PipeTypeOK, Return, RingOK
    <3>3. \A u \in Threads : left'[u] = 0
      BY <1>0, <2>1, <3>1 DEF PipeTypeOK, Return
    <3>4. RingConsistent'
      BY <1>b, <1>7, <3>3 DEF RingOK
    <3> QED
      BY <3>2, <3>4 DEF PipeInv
  <2>3. CASE todo[t] > 1
    <3>1. /\ todo' = [todo EXCEPT ![t] = @ - 1] /\ left' = [left EXCEPT ![t] = @ - 1]
          /\ UNCHANGED op
      BY <1>7, <2>1, <2>3, SMTT(30) DEF Transferred
    <3>2. todo' \in [Threads -> 0 .. MaxLen] /\ left' \in [Threads -> 0 .. N]
      <4>1. todo[t] - 1 \in 0 .. MaxLen /\ left[t] - 1 \in 0 .. N
        <5>1. todo[t] \in 0 .. MaxLen /\ left[t] \in 0 .. N
          BY <1>0 DEF PipeTypeOK, N
        <5> QED
          BY <1>7, <2>3, <5>1, PipeAssumption, SMTT(30) DEF N
      <4> QED
        BY <1>0, <3>1, <4>1 DEF PipeTypeOK, N
    <3>3. PipeTypeOK'
      BY <1>0, <1>7, <3>1, <3>2 DEF PipeTypeOK, RingOK, N
    <3>a. left'[t] = left[t] - 1 /\ \A u \in Threads \ {t} : left'[u] = 0
      BY <1>0, <2>1, <3>1 DEF PipeTypeOK
    <3>b. todo[t] > 0
      BY <2>1, <2>3, SMTT(30)
    <3>4. op[t] = "read" => left'[t] = available_to_read'
      BY <1>7, <2>1, <3>a, <3>b
    <3>5. op[t] = "write" => left'[t] = available_to_write'
      <4>1. ASSUME op[t] = "write"
            PROVE  /\ left'[t] = (N - available_to_read) - 1 /\ available_to_read \in 0 .. N
                   /\ available_to_write' = N - (available_to_read + 1)
        BY <1>0, <1>a, <1>7, <2>1, <3>a, <3>b, <4>1, Available
      <4>2. \A m \in Nat : \A a \in 0 .. m : (m - a) - 1 = m - (a + 1)
        BY SMTT(30)
      <4> QED
        BY <4>1, <4>2, PipeAssumption DEF N
    <3>6. RingConsistent'
      <4>1. ~(0 > 0)
        BY SMTT(30)
      <4> QED
        BY <1>7, <2>1, <3>1, <3>a, <3>4, <3>5, <4>1 DEF RingConsistent, RingOK
    <3> QED
      BY <3>3, <3>6 DEF PipeInv
  <2> QED
    BY <2>1, <2>2, <2>3, SMTT(30)
<1>8. ASSUME NEW t \in Threads, read_step(t) PROVE PipeInv'
  <2>0. todo[t] \in Nat /\ left[t] \in Nat /\ arr[head] \in Byte
    BY TurnTypes
  <2>1. left[t] = available_to_read /\ status # "Empty"
    BY <1>0, <1>8, Available, SMTT(30) DEF RingConsistent, read_step, Running
  <2>2. CASE todo[t] = 0
    <3>1. UNCHANGED <<ring, out>>
      BY <1>8, <2>2 DEF read_step
    <3>2. RingOK' /\ out' \in Byte \cup {Eof}
      BY <1>0, <3>1 DEF RingOK, PipeTypeOK
    <3> QED
      BY <1>7, <1>8, <2>2, <3>2, SMTT(30) DEF read_step, Running
  <2>3. CASE todo[t] # 0
    <3>1. read_byte /\ out' = arr[head]
      BY <1>8, <2>3 DEF read_step
    <3>2. RingOK' /\ available_to_read' = available_to_read - 1
      BY <1>0, <2>1, <3>1, ReadByte
    <3> QED
      BY <1>7, <1>8, <2>0, <3>1, <3>2 DEF read_step, Running
  <2> QED
    BY <2>2, <2>3
<1>9. ASSUME NEW t \in Threads, write_step(t) PROVE PipeInv'
  <2>0. todo[t] \in Nat /\ left[t] \in Nat /\ out \in Byte \cup {Eof}
    BY TurnTypes
  <2>1. left[t] = available_to_write /\ status # "Full"
    BY <1>0, <1>9, Available, SMTT(30) DEF RingConsistent, write_step, Running, available_to_write
  <2>2. CASE todo[t] = 0
    <3>1. UNCHANGED <<ring, out>>
      BY <1>9, <2>2 DEF write_step
    <3>2. RingOK' /\ out' \in Byte \cup {Eof}
      BY <1>0, <3>1 DEF RingOK, PipeTypeOK
    <3> QED
      BY <1>7, <1>9, <2>2, <3>2, SMTT(30) DEF write_step, Running
  <2>3. CASE todo[t] # 0
    <3>1. PICK b \in Byte : write_byte(b)
      BY <1>9, <2>3 DEF write_step
    <3>2. RingOK' /\ available_to_read' = available_to_read + 1
      BY <1>0, <2>1, <3>1, WriteByte
    <3> QED
      BY <1>7, <1>9, <2>0, <3>2 DEF write_step, Running
  <2> QED
    BY <2>2, <2>3
<1>10. ASSUME UNCHANGED pipe_vars PROVE PipeInv'
  BY <1>0, <1>10 DEF pipe_vars, PipeInv, PipeTypeOK, RingConsistent, available_to_read, available_to_write
<1> QED
  BY <1>1, <1>2, <1>3, <1>4, <1>6, <1>8, <1>9, <1>10 DEF PipeNext, Kernel, User

-----------------------------------------------------------------------------

\* all_write_ends_closed is a truth value.
LEMMA ClosedIsBoolean == all_write_ends_closed \in BOOLEAN
BY DEF all_write_ends_closed

\* Write ends are never opened again: only a thread that finds the end in its
\* descriptors starts a write.
LEMMA StaysClosed ==
  ASSUME PipeInv, [PipeNext]_pipe_vars, all_write_ends_closed
  PROVE  all_write_ends_closed'
<1>0. /\ PipeInv /\ PipeTypeOK /\ \A p \in Processes : "write" \notin ends[p]
      /\ \A t \in Threads : op[t] # "write" /\ Owner[t] \in Processes
  BY PipeAssumption DEF PipeInv, all_write_ends_closed
<1>1. ASSUME NEW t \in Threads, NEW e \in {"read", "write"}, NEW n \in 0 .. MaxLen,
             sys_enter(t, e, n)
      PROVE  all_write_ends_closed'
  BY <1>0, <1>1 DEF sys_enter, all_write_ends_closed, PipeTypeOK
<1>2. ASSUME NEW t \in Threads, NEW e \in {"read", "write"}, close_end(t, e)
      PROVE  all_write_ends_closed'
  BY <1>0, <1>2 DEF close_end, all_write_ends_closed, PipeTypeOK
<1>3. ASSUME NEW t \in Threads,
             preempt(t) \/ read_eof(t) \/ read_turn(t) \/ write_turn(t)
      PROVE  all_write_ends_closed'
  BY <1>0, <1>3 DEF preempt, read_eof, Return, read_turn, write_turn, all_write_ends_closed,
     PipeTypeOK
<1>4. ASSUME NEW t \in Threads, read_step(t) \/ write_step(t)
      PROVE  all_write_ends_closed'
  <2>1. (Return(t) \/ UNCHANGED op) /\ UNCHANGED ends
    BY <1>4 DEF read_step, write_step, Transferred
  <2> QED
    BY <1>0, <2>1 DEF Return, all_write_ends_closed, PipeTypeOK
<1>5. ASSUME UNCHANGED pipe_vars PROVE all_write_ends_closed'
  BY <1>0, <1>5 DEF pipe_vars, all_write_ends_closed
<1> QED
  BY <1>1, <1>2, <1>3, <1>4, <1>5 DEF PipeNext, Kernel, User

\* Only the bytes, the last write end and the end of file are visible steps.
LEMMA QueueStep ==
  ASSUME PipeInv, [PipeNext]_pipe_vars
  PROVE  [Queue!Next]_<<Contents, all_write_ends_closed, out>>
<1> DEFINE closed == all_write_ends_closed
<1>0. PipeTypeOK /\ RingConsistent /\ RingOK
  BY InvRing DEF PipeInv
<1>a. closed \in BOOLEAN /\ closed' \in BOOLEAN
  BY DEF all_write_ends_closed
<1>b. Contents \in Seq(Byte) /\ Len(Contents) = available_to_read
  BY <1>0, ContentsLength
<1>c. closed => closed'
  BY StaysClosed
<1>1. ASSUME UNCHANGED <<ring, out>>
      PROVE  [Queue!Next]_<<Contents, closed, out>>
  <2>1. Contents' = Contents
    BY <1>1 DEF ring, Contents, Position, available_to_read
  <2>2. CASE closed' = closed
    BY <1>1, <2>1, <2>2
  <2>3. CASE closed' # closed
    <3>1. ~closed /\ closed' = TRUE
      BY <1>a, <1>c, <2>3, SMTT(30)
    <3> QED
      BY <1>1, <2>1, <3>1 DEF Queue!Next, Queue!Close
  <2> QED
    BY <2>2, <2>3
<1>2. ASSUME NEW t \in Threads, read_eof(t) PROVE [Queue!Next]_<<Contents, closed, out>>
  <2>1. closed /\ available_to_read = 0 /\ UNCHANGED ring /\ out' = Eof
    BY <1>2 DEF read_eof, ReadsEof
  <2>2. Contents' = Contents
    BY <2>1 DEF ring, Contents, Position, available_to_read
  <2>3. Contents = <<>>
    BY <1>b, <2>1, EmptySeq
  <2>4. closed' = closed
    BY <1>a, <1>c, <2>1
  <2> QED
    BY <2>1, <2>2, <2>3, <2>4 DEF Queue!Next, Queue!EndOfFile
<1>3. ASSUME NEW t \in Threads, read_step(t) PROVE [Queue!Next]_<<Contents, closed, out>>
  <2>1. CASE todo[t] = 0
    BY <1>1, <1>3, <2>1 DEF read_step
  <2>2. CASE todo[t] # 0
    <3>1. read_byte /\ out' = arr[head] /\ UNCHANGED ends /\ op[t] = "read"
      BY <1>3, <2>2 DEF read_step, Running
    <3>2. status # "Empty"
      BY <1>0, <1>3, Available, SMTT(30) DEF RingConsistent, read_step, Running
    <3>3. Contents # <<>> /\ out' = Head(Contents) /\ Contents' = Tail(Contents)
      BY <1>0, <3>1, <3>2, ReadByte
    <3>4. op' = op \/ op' = [op EXCEPT ![t] = "user"]
      BY <1>3 DEF read_step, Transferred, Return
    <3>5. closed' = closed
      BY <1>0, <1>a, <3>1, <3>4 DEF all_write_ends_closed, PipeTypeOK
    <3> QED
      BY <3>3, <3>5 DEF Queue!Next, Queue!Get
  <2> QED
    BY <2>1, <2>2
<1>4. ASSUME NEW t \in Threads, write_step(t) PROVE [Queue!Next]_<<Contents, closed, out>>
  <2>1. CASE todo[t] = 0
    BY <1>1, <1>4, <2>1 DEF write_step
  <2>2. CASE todo[t] # 0
    <3>1. PICK b \in Byte : write_byte(b)
      BY <1>4, <2>2 DEF write_step
    <3>2. UNCHANGED out /\ op[t] = "write"
      BY <1>4 DEF write_step, Running
    <3>3. status # "Full" /\ available_to_read < N /\ ~closed
      BY <1>0, <1>4, <3>2, Available, PipeAssumption, SMTT(30)
         DEF RingConsistent, write_step, Running, all_write_ends_closed, available_to_write, N
    <3>4. Contents' = Append(Contents, b)
      BY <1>0, <3>1, <3>3, WriteByte
    <3>5. Queue!Put
      BY <1>b, <3>2, <3>3, <3>4 DEF Queue!Put, N
    <3>6. closed' = closed \/ closed' = TRUE
      BY <1>a, <3>3
    <3> QED
      BY <3>5, <3>6 DEF Queue!Next, Queue!PutAndClose
  <2> QED
    BY <2>1, <2>2
<1>5. ASSUME NEW t \in Threads, User(t) \/ read_turn(t) \/ write_turn(t)
      PROVE  [Queue!Next]_<<Contents, closed, out>>
  BY <1>1, <1>5 DEF User, preempt, close_end, sys_enter, read_turn, write_turn
<1>6. ASSUME UNCHANGED pipe_vars PROVE [Queue!Next]_<<Contents, closed, out>>
  BY <1>1, <1>6 DEF pipe_vars, ring
<1> QED
  BY <1>2, <1>3, <1>4, <1>5, <1>6 DEF PipeNext, Kernel

INSTANCE FiniteSetTheorems

\* A new pipe satisfies the invariant.
LEMMA PipeInitInv == PipeInit => PipeInv
<1> SUFFICES ASSUME PipeInit PROVE PipeInv
  OBVIOUS
<1>1. Cardinality(Threads) \in Nat /\ Cardinality(Threads) # 0
  BY PipeAssumption, FS_CardinalityType, FS_EmptySet
<1>2. runq \in Seq(Threads) /\ runq # <<>>
  BY <1>1, SMTT(30) DEF PipeInit, Orders
<1>3. arr \in [Index -> Byte] /\ 0 \in Index
  BY PipeAssumption, SMTT(30) DEF PipeInit, Index
<1>4. PipeTypeOK
  BY <1>2, <1>3, PipeAssumption, SMTT(30) DEF PipeInit, PipeTypeOK
<1>5. RingConsistent
  BY SMTT(30) DEF PipeInit, RingConsistent
<1> QED
  BY <1>4, <1>5 DEF PipeInv

\* For every buffer size the status tells full from empty, and the inner loops
\* stay within the contents of the buffer.
THEOREM RingInvariant == PipeSpec => []PipeInv
<1>1. PipeInit => PipeInv
  BY PipeInitInv
<1>2. PipeInv /\ [PipeNext]_pipe_vars => PipeInv'
  BY InvStep
<1> QED
  BY <1>1, <1>2, PTL DEF PipeSpec

\* A new pipe is an empty, open byte queue.
LEMMA InitQueue == PipeInit => Queue!Init
<1> SUFFICES ASSUME PipeInit PROVE Queue!Init
  OBVIOUS
<1>1. Contents = <<>>
  <2>1. Contents \in Seq(Byte) /\ Len(Contents) = available_to_read
    BY PipeInitInv, InvRing, ContentsLength
  <2>2. available_to_read = 0
    BY DEF PipeInit, available_to_read
  <2> QED
    BY <2>1, <2>2, EmptySeq
<1>2. all_write_ends_closed = FALSE
  <2>1. PICK t \in Threads : Owner[t] \in Processes
    BY PipeAssumption
  <2>2. ~all_write_ends_closed
    BY <2>1 DEF PipeInit, all_write_ends_closed
  <2> QED
    BY <2>2, ClosedIsBoolean
<1> QED
  BY <1>1, <1>2 DEF PipeInit, Queue!Init

\* The pipe of fs/pipe.rs implements the bounded FIFO queue with end of file.
THEOREM PipeImplementsQueue == PipeSpec => IsByteQueue
<1>1. PipeInit => Queue!Init
  BY InitQueue
<1>2. PipeInv /\ [PipeNext]_pipe_vars => [Queue!Next]_<<Contents, all_write_ends_closed, out>>
  BY QueueStep
<1> QED
  BY <1>1, <1>2, RingInvariant, PTL DEF PipeSpec, PipeInv, IsByteQueue, Queue!Spec
=============================================================================
