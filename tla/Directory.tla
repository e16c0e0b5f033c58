----------------------------- MODULE Directory -----------------------------
(***************************************************************************)
(* The tree of directories: Inode::find, create_inode, create_dir, delete  *)
(* and clear of easy-fs/src/vfs.rs over the inode bitmap, path resolution  *)
(* in kernel/src/fs, and the system calls open, mkdir, unlink and chdir of *)
(* kernel/src/syscall/fs.rs, called by one process.                        *)
(*                                                                         *)
(* A path is the sequence of its parts.  `ents` is the content of a        *)
(* directory, entry by entry; the bytes of a file are left out.  A call    *)
(* holds the lock of the file system in each of its parts and is not       *)
(* preempted between them: it is one step.  A failed assert or unwrap      *)
(* stops the kernel.                                                       *)
(***************************************************************************)
EXTENDS Integers, Sequences, FiniteSets, SequencesExt

CONSTANTS
  Names,        \* names of files and directories, strings
  NInodes,      \* bits of the inode bitmap
  UserPaths,    \* the paths programs pass: [absolute, parts], "." and ".." among the parts
  MaxDepth      \* files are made up to this depth, directories above it

Inodes == 0 .. NInodes - 1
ROOT == 0

\* The Option and the panics of the look-ups.
None == -1
NotADirectory == -2

ASSUME DirectoryAssumption ==
  /\ NInodes \in Nat \ {0} /\ MaxDepth \in Nat
  /\ Names \cap {"", ".", ".."} = {}
  /\ UserPaths \subseteq [absolute : BOOLEAN, parts : Seq(Names \cup {".", ".."})]

VARIABLES
  bits,       \* inode_bitmap: the inodes allocated
  kind,       \* DiskInode::kind
  ents,       \* the DirEntries of a directory
  cwd,        \* cwd of the process
  ret,        \* the value the last call returned
  halted,     \* has the kernel panicked?
  misused     \* history: was a directory opened with TRUNC, or the root made by mkdir?

vars == <<bits, kind, ents, cwd, ret, halted, misused>>

DirEntry(name, ino) == [name |-> name, ino |-> ino]

\* DirEntries "." and "..", written by set_default_dirent.
Default(ino, parent) == <<DirEntry(".", ino), DirEntry("..", parent)>>

\* The file system as easy-fs-fuse makes it, with nothing in it.
Init ==
  /\ bits = {ROOT}
  /\ kind = [i \in Inodes |-> IF i = ROOT THEN "dir" ELSE "file"]
  /\ ents = [i \in Inodes |-> IF i = ROOT THEN Default(ROOT, ROOT) ELSE <<>>]
  /\ cwd = <<>> /\ ret = 0 /\ halted = FALSE /\ misused = FALSE

-----------------------------------------------------------------------------
(* Looking up *)

\* The result of Step along the parts of a path, the first part first.
Along(Step(_, _), from, path) ==
  LET after[n \in 0 .. Len(path)] == IF n = 0 THEN from ELSE Step(after[n - 1], path[n])
  IN after[Len(path)]

\* Mutant: ".." is left out like ".".
PushSkipsDotDot(parts, part) ==
  IF part \in {".", ".."} THEN parts ELSE Append(parts, part)

\* One part of a path in get_full_path.
Push(parts, part) ==
  IF part = "." THEN parts
  ELSE IF part = ".." THEN (IF parts = <<>> THEN parts ELSE Front(parts))
  ELSE Append(parts, part)

get_full_path(path) ==
  Along(Push, <<>>, IF path.absolute THEN path.parts ELSE cwd \o path.parts)

\* The first entry with that name: its inode.
find_inode_id(dir, name) ==
  LET at == {i \in DOMAIN ents[dir] : ents[dir][i].name = name}
  IN IF at = {} THEN None ELSE ents[dir][CHOOSE i \in at : \A j \in at : i <= j].ino

\* Inode::find: the assert of find_inode_id fails on a file.
FindIn(dir, name) ==
  IF dir \in {None, NotADirectory} THEN dir
  ELSE IF kind[dir] # "dir" THEN NotADirectory
  ELSE find_inode_id(dir, name)

\* inode::find
find(path) == Along(FindIn, ROOT, path)

\* rsplit_once('/'): "/" has the parent "" and the target "".
Parent(path) == IF path = <<>> THEN <<>> ELSE Front(path)
Target(path) == IF path = <<>> THEN "" ELSE Last(path)

-----------------------------------------------------------------------------
(* Changing a directory *)

Returns(value) == ret' = value /\ UNCHANGED halted
Unchanged == UNCHANGED <<bits, kind, ents, cwd>>
Panics == halted' = TRUE /\ ret' = ret /\ Unchanged
Fails(value) == Returns(value) /\ Unchanged

\* Bitmap::alloc: the lowest clear bit.
FirstFree == CHOOSE i \in Inodes \ bits : \A j \in Inodes \ bits : i <= j

\* Mutant: ".." is the root.
EntriesOfRoot(k, ino, dir) == IF k = "dir" THEN Default(ino, ROOT) ELSE <<>>

\* What a new inode holds: create_dir calls set_default_dirent.
NewEntries(k, ino, dir) == IF k = "dir" THEN Default(ino, dir) ELSE <<>>

\* create_inode after the name was not found, and create_dir.
create_inode(dir, name, k) ==
  LET ino == FirstFree
  IN /\ bits' = bits \cup {ino}
     /\ kind' = [kind EXCEPT ![ino] = k]
     /\ ents' = [ents EXCEPT ![ino] = NewEntries(k, ino, dir),
                             ![dir] = Append(@, DirEntry(name, ino))]
     /\ UNCHANGED cwd

\* Mutant: only the inode number is moved into the hole.
RemoveMovesInode(es, i) == Front([es EXCEPT ![i].ino = Last(es).ino])

\* The last DirEntry takes the place of the deleted one.
RemoveEntry(es, i) == Front([es EXCEPT ![i] = Last(es)])

\* Inode::clear of ino and delete of its entry, the first with that name, in dir.
\* The loop of delete goes on to the old number of entries: what it reads past
\* the new end is an empty DirEntry, of name "" and inode 0.
clear_and_delete(dir, name, ino) ==
  LET i == CHOOSE i \in DOMAIN ents[dir] :
             /\ ents[dir][i].name = name
             /\ \A j \in 1 .. i - 1 : ents[dir][j].name # name
      past == IF name = "" THEN {0} ELSE {}
  IN /\ bits' = bits \ ({ino} \cup past)
     /\ ents' = [ents EXCEPT ![ino] = <<>>, ![dir] = RemoveEntry(@, i)]
     /\ UNCHANGED <<kind, cwd>>

-----------------------------------------------------------------------------
(* System calls *)

\* open_file with CREATE: an existing file is cleared.
OpenCreates(path) ==
  LET found == find(path)
      parent == find(Parent(path))
  IN \/ found = NotADirectory /\ Panics
     \/ found \in Inodes /\ Fails(0)
     \/ found = None /\ parent = None /\ Fails(-1)
     \/ found = None /\ parent \in Inodes /\ bits = Inodes /\ Panics
     \/ /\ found = None /\ parent \in Inodes /\ bits # Inodes
        /\ Len(path) <= MaxDepth
        /\ create_inode(parent, Target(path), "file")
        /\ Returns(0)

\* open_file without CREATE: TRUNC clears whatever was found.
OpenExisting(path, trunc) ==
  LET found == find(path)
  IN \/ found = NotADirectory /\ Panics
     \/ found = None /\ Fails(-1)
     \/ found \in Inodes /\ ~trunc /\ Fails(0)
     \/ /\ found \in Inodes /\ trunc
        /\ ents' = [ents EXCEPT ![found] = <<>>]
        /\ UNCHANGED <<bits, kind, cwd>>
        /\ Returns(0)

\* sys_open; flags \subseteq {"CREATE", "TRUNC"}, the file descriptor left out.
sys_open(user, flags) ==
  LET path == get_full_path(user)
  IN IF "CREATE" \in flags THEN OpenCreates(path) ELSE OpenExisting(path, "TRUNC" \in flags)

sys_mkdir(user) ==
  LET path == get_full_path(user)
      parent == find(Parent(path))
      found == FindIn(parent, Target(path))
  IN \/ found = NotADirectory /\ Panics
     \/ parent = None /\ Fails(-1)
     \/ parent \in Inodes /\ found \in Inodes /\ Fails(-2)
     \/ parent \in Inodes /\ found = None /\ bits = Inodes /\ Panics
     \/ /\ parent \in Inodes /\ found = None /\ bits # Inodes
        /\ Len(path) < MaxDepth
        /\ create_inode(parent, Target(path), "dir")
        /\ Returns(0)

\* file_size() == DIRENT_SIZE * 2
IsEmptyDir(ino) == Len(ents[ino]) = 2

sys_unlink(user, remove_dir) ==
  LET path == get_full_path(user)
      parent == find(Parent(path))
      found == FindIn(parent, Target(path))
      is_dir == found \in Inodes /\ kind[found] = "dir"
  IN \/ found = NotADirectory /\ Panics
     \/ found = None /\ Fails(-1)
     \/ found \in Inodes /\ remove_dir # is_dir /\ Fails(-2)
     \/ is_dir /\ remove_dir /\ ~IsEmptyDir(found) /\ Fails(-3)
     \/ /\ found \in Inodes /\ remove_dir = is_dir /\ (is_dir => IsEmptyDir(found))
        /\ clear_and_delete(parent, Target(path), found)
        /\ Returns(0)

sys_chdir(user) ==
  LET path == get_full_path(user)
      found == find(path)
  IN \/ found = NotADirectory /\ Panics
     \/ found = None /\ Fails(-1)
     \/ found \in Inodes /\ kind[found] # "dir" /\ Fails(-2)
     \/ /\ found \in Inodes /\ kind[found] = "dir"
        /\ cwd' = path
        /\ UNCHANGED <<bits, kind, ents>>
        /\ Returns(0)

\* What comes after a misuse is not followed.
Next ==
  /\ ~halted /\ ~misused
  /\ \E user \in UserPaths :
       \/ \E flags \in SUBSET {"CREATE", "TRUNC"} :
            /\ sys_open(user, flags)
            /\ misused' = (misused \/ \E d \in bits : kind[d] = "dir" /\ ents'[d] = <<>>)
       \/ sys_mkdir(user) /\ misused' = (misused \/ get_full_path(user) = <<>>)
       \/ \E remove_dir \in BOOLEAN : sys_unlink(user, remove_dir) /\ UNCHANGED misused
       \/ sys_chdir(user) /\ UNCHANGED misused

Spec == Init /\ [][Next]_vars

-----------------------------------------------------------------------------
(* Properties *)

Dots == {".", ".."}

\* The inodes an entry other than "." and ".." of a directory leads to.
Children(dir) == {ents[dir][i].ino : i \in {j \in DOMAIN ents[dir] : ents[dir][j].name \notin Dots}}

RECURSIVE Below(_, _)

\* The inodes reached from the set d in at most n steps.
Below(d, n) ==
  IF n = 0 THEN d
  ELSE Below(d \cup UNION {Children(i) : i \in {j \in d : kind[j] = "dir"}}, n - 1)

Reachable == Below({ROOT}, NInodes)

\* The types of the bitmap, the directories and the calls.
TypeOK ==
  /\ bits \subseteq Inodes /\ kind \in [Inodes -> {"file", "dir"}]
  /\ \A i \in Inodes : \A k \in DOMAIN ents[i] :
       ents[i][k].name \in Names \cup {"", ".", ".."} /\ ents[i][k].ino \in Inodes
  /\ cwd \in Seq(Names) /\ ret \in -3 .. 0 /\ halted \in BOOLEAN

\* The directory that ".." of d names: the one d is entered in, the root for the root.
EnteredIn(d) ==
  IF d = ROOT THEN ROOT ELSE CHOOSE p \in Reachable : kind[p] = "dir" /\ d \in Children(p)

\* The places, other than "." and "..", where inode i is entered.
Links(i) ==
  {<<d, k>> \in Reachable \X (3 .. NInodes + 2) :
     kind[d] = "dir" /\ k \in DOMAIN ents[d] /\ ents[d][k].ino = i}

\* Through any sequence of create, mkdir, unlink and rmdir the entries form a tree:
\* the allocated inodes are those that can be reached, none is lost or used after
\* it was freed, each is entered once, names in a directory differ, and "." and
\* ".." lead to the directory and to the one it is entered in.  Opening a directory
\* with TRUNC, which clears it, and mkdir of the root end that.
TreeSound ==
  /\ TypeOK
  /\ ~misused =>
       /\ bits = Reachable
       /\ \A d \in {i \in Reachable : kind[i] = "dir"} :
            /\ SubSeq(ents[d], 1, 2) = Default(d, EnteredIn(d))
            /\ \A i, j \in DOMAIN ents[d] : ents[d][i].name = ents[d][j].name => i = j
       /\ \A i \in Reachable \ {ROOT} : Cardinality(Links(i)) = 1

\* Walking a path through the "." and ".." entries, from the root or from cwd.
Walk(user) == Along(FindIn, IF user.absolute THEN ROOT ELSE find(cwd), user.parts)

\* Resolving ".." on the text of a path, as get_full_path does, leads to the inode
\* that walking the ".." entries on the disk leads to, wherever cwd is, as long as it exists.
PathsAgree ==
  \A user \in UserPaths :
    Walk(user) \in Inodes /\ ~misused => find(get_full_path(user)) = Walk(user)

\* A name that stays in a directory stays the name of the same inode: deleting an
\* entry moves the last one and changes no other.
EntriesStay ==
  [][\A d \in Inodes : \A name \in Names :
       LET before == find_inode_id(d, name)
           after == find_inode_id(d, name)'
       IN before # None /\ after # None /\ d \in Reachable => before = after]_vars
=============================================================================
