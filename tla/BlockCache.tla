----------------------------- MODULE BlockCache -----------------------------
(***************************************************************************)
(* easy-fs/src/block_cache.rs: the BlockCacheManager, the BlockCaches it   *)
(* holds and the block device below them.                                  *)
(*                                                                         *)
(* A user of the cache nests its accesses, as easy-fs does when it reads   *)
(* an indirect block inside a closure over an inode: `held` is the stack   *)
(* of BlockCaches it has an Arc of, and holds the lock of.  The value of a *)
(* block stands for its bytes.  A power failure may come between any two   *)
(* steps; the disk keeps what was written to it.                           *)
(***************************************************************************)
EXTENDS Integers, Sequences, FiniteSets, Functions

CONSTANTS
  Blocks, Values, Users,
  BLOCK_CACHE_SIZE,
  MaxNesting            \* how deep the closures of one user nest

ASSUME BlockCacheAssumption ==
  /\ Values # {} /\ IsFiniteSet(Users)
  /\ BLOCK_CACHE_SIZE \in Nat \ {0} /\ MaxNesting \in Nat \ {0}
  /\ Cardinality(Users) * MaxNesting <= BLOCK_CACHE_SIZE

VARIABLES
  queue,      \* BlockCacheManager::queue: [id, cache, modified]
  disk,       \* the block device
  held,       \* per user: the ids of the BlockCaches it holds, innermost last
  syncing,    \* 0, or the index sync_all has reached
  maybe,      \* history: the values each block had since the last sync_all
  out         \* history: the value read last

vars == <<queue, disk, held, syncing, maybe, out>>

Init ==
  /\ queue = <<>> /\ disk \in [Blocks -> Values]
  /\ held = [u \in Users |-> <<>>]
  /\ syncing = 0
  /\ maybe = [b \in Blocks |-> {disk[b]}]
  /\ out \in Values

-----------------------------------------------------------------------------

Cached == {queue[i].id : i \in DOMAIN queue}
Slot(b) == CHOOSE i \in DOMAIN queue : queue[i].id = b
Held == UNION {Range(held[u]) : u \in Users}

\* BlockCache::sync, also called by Drop.
sync(entry) ==
  IF entry.modified THEN [disk EXCEPT ![entry.id] = entry.cache] ELSE disk

\* Mutant: the BlockCache in use may be replaced.
EvictsAny == 1 .. Len(queue)

\* Mutant: only the oldest entry is considered.
EvictsFirst == {i \in DOMAIN queue : i = 1 /\ queue[i].id \notin Held}

\* The entries with strong_count 1: only the manager refers to them.
Evictable == {i \in DOMAIN queue : queue[i].id \notin Held}

swap_remove(s, i) == SubSeq([s EXCEPT ![i] = s[Len(s)]], 1, Len(s) - 1)

\* BlockCache::new: the block is read from the device.
NewBlockCache(b, d) == [id |-> b, cache |-> d[b], modified |-> FALSE]

Full == Len(queue) = BLOCK_CACHE_SIZE

Takes(u, b) == held' = [held EXCEPT ![u] = Append(@, b)]

\* BlockCacheManager::get finds the block in the queue, ...
GetCached(u, b) ==
  /\ b \in Cached
  /\ Takes(u, b)
  /\ UNCHANGED <<queue, disk>>

\* ... loads it into a new place, ...
GetLoads(u, b) ==
  /\ b \notin Cached /\ ~Full
  /\ queue' = Append(queue, NewBlockCache(b, disk))
  /\ Takes(u, b)
  /\ UNCHANGED disk

\* ... or in the place of the first one nobody uses, which is dropped.  When all
\* are in use it panics with "Run out of BlockCache" (see NeverRunsOut).
GetReplaces(u, b) ==
  /\ b \notin Cached /\ Full
  /\ \E i \in Evictable :
       /\ \A j \in Evictable : i <= j
       /\ disk' = sync(queue[i])
       /\ queue' = Append(swap_remove(queue, i), NewBlockCache(b, disk'))
  /\ Takes(u, b)

\* block_cache::get(b).lock(): the BlockCache is not locked by anybody, sync_all
\* does not hold the manager.
get(u, b) ==
  /\ syncing = 0
  /\ Len(held[u]) < MaxNesting /\ b \notin Held
  /\ GetCached(u, b) \/ GetLoads(u, b) \/ GetReplaces(u, b)
  /\ UNCHANGED <<syncing, maybe, out>>

Innermost(u) == Slot(held[u][Len(held[u])])

\* BlockCache::read
read(u) ==
  /\ held[u] # <<>>
  /\ out' = queue[Innermost(u)].cache
  /\ UNCHANGED <<queue, disk, held, syncing, maybe>>

\* as_mut_ref and the write through it.
Modified(entry, v) == [entry EXCEPT !.cache = v, !.modified = TRUE]

\* BlockCache::modify
modify(u, v) ==
  /\ held[u] # <<>>
  /\ LET i == Innermost(u)
     IN /\ queue' = [queue EXCEPT ![i] = Modified(@, v)]
        /\ maybe' = [maybe EXCEPT ![queue[i].id] = @ \cup {v}]
  /\ UNCHANGED <<disk, held, syncing, out>>

\* The guard and the Arc go out of scope.
release(u) ==
  /\ held[u] # <<>>
  /\ held' = [held EXCEPT ![u] = SubSeq(@, 1, Len(@) - 1)]
  /\ UNCHANGED <<queue, disk, syncing, maybe, out>>

\* sync_all takes the lock of the manager, ...
sync_all ==
  /\ syncing = 0
  /\ syncing' = 1
  /\ UNCHANGED <<queue, disk, held, maybe, out>>

\* ... writes back one BlockCache after the other, once it is not locked, ...
sync_next ==
  /\ syncing \in DOMAIN queue /\ queue[syncing].id \notin Held
  /\ disk' = sync(queue[syncing])
  /\ queue' = [queue EXCEPT ![syncing].modified = FALSE]
  /\ syncing' = syncing + 1
  /\ UNCHANGED <<held, maybe, out>>

Contents(b) == IF b \in Cached THEN queue[Slot(b)].cache ELSE disk[b]

\* Mutant: the last BlockCache of the queue is left out.
SyncedButLast == syncing >= Len(queue)

SyncedAll == syncing > Len(queue)

\* ... and releases it.
sync_done ==
  /\ syncing > 0 /\ SyncedAll
  /\ syncing' = 0
  /\ maybe' = [b \in Blocks |-> {Contents(b)}]
  /\ UNCHANGED <<queue, disk, held, out>>

\* A power failure and the next start of the system.
crash ==
  /\ queue' = <<>> /\ held' = [u \in Users |-> <<>>]
  /\ syncing' = 0
  /\ maybe' = [b \in Blocks |-> {disk[b]}]
  /\ UNCHANGED <<disk, out>>

Next ==
  \/ \E u \in Users :
       \/ \E b \in Blocks : get(u, b)
       \/ read(u)
       \/ \E v \in Values : modify(u, v)
       \/ release(u)
  \/ sync_all
  \/ sync_next
  \/ sync_done
  \/ crash

Spec == Init /\ [][Next]_vars

-----------------------------------------------------------------------------
(* Properties *)

\* The types of the queue, the entries and the users of the cache.
TypeOK ==
  /\ queue \in Seq([id : Blocks, cache : Values, modified : BOOLEAN])
  /\ Len(queue) <= BLOCK_CACHE_SIZE
  /\ disk \in [Blocks -> Values]
  /\ held \in [Users -> Seq(Blocks)]
  /\ syncing \in Nat
  /\ maybe \in [Blocks -> SUBSET Values] /\ out \in Values

\* A block is cached at most once, and stays cached while somebody uses it: two
\* users never work on different copies of one block.
OneCopy ==
  /\ TypeOK
  /\ \A i, j \in DOMAIN queue : queue[i].id = queue[j].id => i = j
  /\ Held \subseteq Cached

\* "Run out of BlockCache" is never reached as long as the closures of all users
\* together do not nest deeper than the queue is long.
NeverRunsOut ==
  (\E u \in Users : Len(held[u]) < MaxNesting) /\ Full => Evictable # {}

Store == INSTANCE BlockStore WITH mem <- [b \in Blocks |-> Contents(b)]

\* The cache is invisible but for power failures, and these set a block back at
\* most to its state at the last sync_all.
IsBlockStore == Store!Spec
=============================================================================
