------------------------- MODULE BlockCache_proofs -------------------------
(***************************************************************************)
(* The block cache implements BlockStore and never runs out of entries,    *)
(* for any number of blocks, values and users and any size of the cache.   *)
(* CacheInv adds to OneCopy what the refinement needs: an entry that is    *)
(* not marked modified equals the block of the device, what sync_all has   *)
(* passed is clean and in nobody's hands, and both the device and the      *)
(* cache hold values a power failure may leave.  Nested bounds what the    *)
(* users hold.                                                             *)
(***************************************************************************)
EXTENDS BlockCache, SequenceFacts, TLAPS

\* The prover of the leaves that name none: arithmetic, tuples and sequences need SMT.
USE ZenonT(30)

Entry == [id : Blocks, cache : Values, modified : BOOLEAN]

Unique(q) == \A i, j \in DOMAIN q : q[i].id = q[j].id => i = j

\* An entry that sync would not write has nothing to write.
Clean == \A i \in DOMAIN queue : ~queue[i].modified => queue[i].cache = disk[queue[i].id]

\* The entries sync_all has passed.
Passed ==
  \A i \in DOMAIN queue : i < syncing => ~queue[i].modified /\ queue[i].id \notin Held

\* What is in the cache and what is on the device.
Possible ==
  /\ \A b \in Blocks : disk[b] \in maybe[b]
  /\ \A i \in DOMAIN queue : queue[i].cache \in maybe[queue[i].id]

CacheInv == OneCopy /\ Clean /\ Passed /\ Possible

\* What is in the queue.
LEMMA Entries ==
  ASSUME NEW q \in Seq(Entry)
  PROVE  \A i \in DOMAIN q : q[i] \in Entry /\ q[i].id \in Blocks /\ q[i].cache \in Values
<1>1. \A i \in DOMAIN q : q[i] \in Entry
  BY SMTT(30)
<1> QED
  BY <1>1 DEF Entry

\* The place of an entry is found by its id.
LEMMA SlotIs ==
  ASSUME NEW q, Unique(q), NEW i \in DOMAIN q
  PROVE  (CHOOSE j \in DOMAIN q : q[j].id = q[i].id) = i
<1>1. \E j \in DOMAIN q : q[j].id = q[i].id
  OBVIOUS
<1> QED
  BY <1>1 DEF Unique

\* What the cache shows of a block: the entry, if there is one, or the device.
LEMMA ContentsIs ==
  ASSUME Unique(queue)
  PROVE  \A b : /\ \A i \in DOMAIN queue : queue[i].id = b => Contents(b) = queue[i].cache
                /\ b \notin Cached => Contents(b) = disk[b]
<1>1. ASSUME NEW b, NEW i \in DOMAIN queue, queue[i].id = b PROVE Contents(b) = queue[i].cache
  <2>1. Slot(b) = i
    BY <1>1, SlotIs, SMTT(30) DEF Slot
  <2> QED
    BY <1>1, <2>1 DEF Contents, Cached
<1> QED
  BY <1>1 DEF Contents

\* The same after a step.
LEMMA ContentsNext ==
  ASSUME Unique(queue')
  PROVE  \A b : /\ \A i \in DOMAIN queue' : queue'[i].id = b => Contents(b)' = queue'[i].cache
                /\ b \notin Cached' => Contents(b)' = disk'[b]
<1>1. ASSUME NEW b, NEW i \in DOMAIN queue', queue'[i].id = b
      PROVE  Contents(b)' = queue'[i].cache
  <2>1. Slot(b)' = i
    BY <1>1, SlotIs, SMTT(30) DEF Slot
  <2> QED
    BY <1>1, <2>1 DEF Contents, Cached
<1> QED
  BY <1>1 DEF Contents

\* An empty cache in front of any device.
LEMMA InitInv == Init => CacheInv
<1> SUFFICES ASSUME Init PROVE CacheInv
  OBVIOUS
<1>1. queue = <<>> /\ DOMAIN queue = {} /\ Len(queue) = 0
  BY SMTT(30) DEF Init
<1>2. TypeOK
  BY <1>1, BlockCacheAssumption, SMTT(30) DEF Init, TypeOK
<1>3. Held = {}
  BY SMTT(30) DEF Init, Held, Range
<1> QED
  BY <1>1, <1>2, <1>3 DEF Init, CacheInv, OneCopy, Clean, Passed, Possible

\* The state maps to the state of BlockStore with these contents.
SameStore == \A b \in Blocks : Contents(b)' = Contents(b)

\* A user's stack of BlockCaches grows by one.
LEMMA TakesHeld ==
  ASSUME TypeOK, NEW u \in Users, NEW b \in Blocks, Takes(u, b)
  PROVE  held' \in [Users -> Seq(Blocks)] /\ Held' \subseteq Held \cup {b}
<1>1. held[u] \in Seq(Blocks) /\ held' = [held EXCEPT ![u] = Append(held[u], b)]
  BY DEF TypeOK, Takes
<1>2. /\ Append(held[u], b) \in Seq(Blocks)
      /\ Range(Append(held[u], b)) \subseteq Range(held[u]) \cup {b}
  BY <1>1, SMTT(30) DEF Range
<1> QED
  BY <1>1, <1>2 DEF TypeOK, Held

\* Loading a block does not change what the cache shows, nor the invariant.
LEMMA GetLoadsStep ==
  ASSUME CacheInv, NEW u \in Users, NEW b \in Blocks, GetLoads(u, b), syncing = 0,
         UNCHANGED <<syncing, maybe, out>>
  PROVE  CacheInv' /\ SameStore
<1> DEFINE n == Len(queue)
           e == NewBlockCache(b, disk)
<1>0. TypeOK /\ Unique(queue) /\ Held \subseteq Cached
  BY DEF CacheInv, OneCopy, Unique
<1>1. n \in Nat /\ queue \in Seq(Entry) /\ DOMAIN queue = 1 .. n /\ e \in Entry
  BY <1>0, SMTT(30) DEF TypeOK, Entry, NewBlockCache
<1>2. b \notin Cached /\ n < BLOCK_CACHE_SIZE /\ UNCHANGED disk
  <2>1. BLOCK_CACHE_SIZE \in Nat
    BY BlockCacheAssumption
  <2>2. n <= BLOCK_CACHE_SIZE /\ n # BLOCK_CACHE_SIZE
    BY <1>0 DEF GetLoads, Full, TypeOK
  <2>3. n \in Nat
    BY <1>1
  <2>4. n < BLOCK_CACHE_SIZE
    <3> HIDE DEF n
    <3> QED
      BY <2>1, <2>2, <2>3, SMTT(30)
  <2> QED
    BY <2>4 DEF GetLoads
<1>3. e.id = b /\ e.cache = disk[b] /\ e.modified = FALSE
  BY DEF NewBlockCache
<1>4. /\ queue' \in Seq(Entry) /\ Len(queue') = n + 1 /\ DOMAIN queue' = 1 .. n + 1
      /\ \A i \in 1 .. n : queue'[i] = queue[i]
      /\ queue'[n + 1] = e
  BY <1>1, SMTT(30) DEF GetLoads
<1>5. \A i \in 1 .. n : queue[i].id # b
  BY <1>1, <1>2 DEF Cached
<1>6. Unique(queue')
  BY <1>0, <1>1, <1>3, <1>4, <1>5, SMTT(30) DEF Unique
<1>7. TypeOK'
  <2>1. held' \in [Users -> Seq(Blocks)]
    BY <1>0, TakesHeld DEF GetLoads
  <2> QED
    BY <1>0, <1>1, <1>2, <1>4, <2>1, BlockCacheAssumption, SMTT(30) DEF TypeOK, Entry
<1>8. Cached' = Cached \cup {b}
  BY <1>1, <1>3, <1>4, SMTT(30) DEF Cached
<1>9. Held' \subseteq Cached'
  BY <1>0, <1>8, TakesHeld DEF GetLoads
<1>10. OneCopy'
  BY <1>6, <1>7, <1>9 DEF OneCopy, Unique
<1>11. Clean' /\ Passed'
  BY <1>1, <1>2, <1>3, <1>4, SMTT(30) DEF CacheInv, Clean, Passed
<1>12. Possible'
  BY <1>1, <1>2, <1>3, <1>4, SMTT(30) DEF CacheInv, Possible
<1>13. SameStore
  <2> SUFFICES ASSUME NEW c \in Blocks PROVE Contents(c)' = Contents(c)
    BY DEF SameStore
  <2>1. CASE c = b
    BY <1>0, <1>1, <1>2, <1>3, <1>4, <1>6, <2>1, ContentsIs, ContentsNext, SMTT(30)
  <2>2. CASE c \in Cached
    <3>1. PICK i \in 1 .. n : queue[i].id = c
      BY <1>1, <2>2 DEF Cached
    <3> QED
      BY <1>0, <1>1, <1>4, <1>6, <3>1, ContentsIs, ContentsNext, SMTT(30)
  <2>3. CASE c # b /\ c \notin Cached
    BY <1>0, <1>2, <1>6, <1>8, <2>3, ContentsIs, ContentsNext, SMTT(30)
  <2> QED
    BY <2>1, <2>2, <2>3
<1> QED
  BY <1>10, <1>11, <1>12, <1>13 DEF CacheInv

\* Replacing an entry that nobody uses writes it back: nothing that was shown is lost.
LEMMA GetReplacesStep ==
  ASSUME CacheInv, NEW u \in Users, NEW b \in Blocks, GetReplaces(u, b), syncing = 0,
         UNCHANGED <<syncing, maybe, out>>
  PROVE  CacheInv' /\ SameStore
<1> DEFINE n == Len(queue)
<1>0. TypeOK /\ Unique(queue) /\ Held \subseteq Cached
  BY DEF CacheInv, OneCopy, Unique
<1>1. n \in Nat /\ queue \in Seq(Entry) /\ DOMAIN queue = 1 .. n
      /\ \A k \in 1 .. n : queue[k] \in Entry
  <2>1. queue \in Seq(Entry)
    BY <1>0 DEF TypeOK, Entry
  <2> QED
    BY <2>1, SMTT(30)
<1>2. PICK i \in Evictable :
        /\ disk' = sync(queue[i])
        /\ queue' = Append(swap_remove(queue, i), NewBlockCache(b, disk'))
  BY DEF GetReplaces
<1>3. i \in 1 .. n /\ queue[i].id \notin Held
  BY <1>1, <1>2 DEF Evictable
<1>n. n \in 1 .. n /\ \A k \in 1 .. n : k # n => k \in 1 .. n - 1
  <2>1. n \in Nat /\ i \in 1 .. n
    BY <1>1, <1>3
  <2> HIDE DEF n
  <2> QED
    BY <2>1, SMTT(30)
<1> DEFINE e == NewBlockCache(b, disk')
           r == swap_remove(queue, i)
<1>4. b \notin Cached /\ \A k \in 1 .. n : queue[k].id # b
  BY <1>1 DEF GetReplaces, Cached
<1>5. /\ disk' \in [Blocks -> Values] /\ disk'[queue[i].id] = queue[i].cache
      /\ \A c \in Blocks \ {queue[i].id} : disk'[c] = disk[c]
  BY <1>0, <1>1, <1>2, <1>3 DEF sync, TypeOK, Entry, CacheInv, Clean
<1>6. e \in Entry /\ e.id = b /\ e.cache = disk[b] /\ e.cache = disk'[b] /\ e.modified = FALSE
  BY <1>3, <1>4, <1>5 DEF NewBlockCache, Entry
<1>7. /\ r \in Seq(Entry) /\ Len(r) = n - 1
      /\ \A k \in 1 .. n - 1 : r[k] = IF k = i THEN queue[n] ELSE queue[k]
  <2> DEFINE q == [queue EXCEPT ![i] = queue[n]]
  <2>1. q \in [1 .. n -> Entry] /\ \A k \in 1 .. n : q[k] = IF k = i THEN queue[n] ELSE queue[k]
    BY <1>1, <1>3, SMTT(30)
  <2>2. r = SubSeq(q, 1, n - 1)
    BY DEF swap_remove
  <2> HIDE DEF q, r
  <2>3. \A k \in 1 .. n - 1 : q[k] \in Entry
    BY <1>1, <2>1, SMTT(30)
  <2>4. /\ SubSeq(q, 1, n - 1) \in Seq(Entry)
        /\ Len(SubSeq(q, 1, n - 1)) = IF 1 <= n - 1 THEN n - 1 - 1 + 1 ELSE 0
        /\ \A k \in 1 .. n - 1 - 1 + 1 : SubSeq(q, 1, n - 1)[k] = q[1 + k - 1]
    BY <1>1, <2>3, SubSeqProperties, SMTT(30)
  <2> QED
    BY <1>1, <1>3, <2>1, <2>2, <2>4, SMTT(30)
<1> HIDE DEF e, r
<1>8. /\ queue' \in Seq(Entry) /\ Len(queue') = n /\ DOMAIN queue' = 1 .. n
      /\ \A k \in 1 .. n - 1 : queue'[k] = IF k = i THEN queue[n] ELSE queue[k]
      /\ queue'[n] = e
  <2>1. queue' = Append(r, e)
    BY <1>2 DEF r, e
  <2>2. n - 1 \in Nat /\ n - 1 + 1 = n
    BY <1>1, <1>3, SMTT(30)
  <2>3. /\ Append(r, e) \in Seq(Entry) /\ Len(Append(r, e)) = n
        /\ \A k \in 1 .. n - 1 : Append(r, e)[k] = r[k]
        /\ Append(r, e)[n] = e
    BY <1>6, <1>7, <2>2, AppendProperties, SMTT(30)
  <2>4. queue' \in Seq(Entry) /\ Len(queue') = n /\ queue'[n] = e
    BY <2>1, <2>3
  <2>5. DOMAIN queue' = 1 .. n
    BY <2>4, SMTT(30)
  <2>6. \A k \in 1 .. n - 1 : queue'[k] = r[k]
    BY <2>1, <2>3
  <2> QED
    BY <1>7, <2>4, <2>5, <2>6
<1>9. Unique(queue')
  BY <1>0, <1>1, <1>3, <1>4, <1>6, <1>8, SMTT(60) DEF Unique
<1>10. Cached' = (Cached \ {queue[i].id}) \cup {b}
  <2>1. \A k \in 1 .. n : k # i => \E l \in 1 .. n : queue'[l] = queue[k]
    BY <1>1, <1>3, <1>8, SMTT(30)
  <2>2. \A l \in 1 .. n - 1 : \E k \in 1 .. n : k # i /\ queue'[l] = queue[k]
    BY <1>1, <1>3, <1>8, SMTT(30)
  <2>3. \A k \in 1 .. n : k # i => queue[k].id # queue[i].id
    BY <1>0, <1>1, <1>3 DEF Unique
  <2>4. \A c : c \in Cached <=> \E k \in 1 .. n : queue[k].id = c
    BY <1>1 DEF Cached
  <2>5. \A c : c \in Cached' <=> \E k \in 1 .. n : queue'[k].id = c
    BY <1>8 DEF Cached
  <2>6. ASSUME NEW c, c \in Cached' PROVE c \in (Cached \ {queue[i].id}) \cup {b}
    <3>1. PICK l \in 1 .. n : queue'[l].id = c
      BY <2>5, <2>6
    <3>2. CASE l = n
      BY <1>6, <1>8, <3>1, <3>2
    <3>3. CASE l # n
      <4>1. PICK k \in 1 .. n : k # i /\ queue'[l] = queue[k]
        BY <1>n, <2>2, <3>3
      <4> QED
        BY <2>3, <2>4, <3>1, <4>1
    <3> QED
      BY <3>2, <3>3
  <2>7. ASSUME NEW c \in Cached, c # queue[i].id PROVE c \in Cached'
    <3>1. PICK k \in 1 .. n : queue[k].id = c
      BY <2>4
    <3>2. PICK l \in 1 .. n : queue'[l] = queue[k]
      BY <2>1, <2>7, <3>1
    <3> QED
      BY <2>5, <3>1, <3>2
  <2>8. b \in Cached'
    BY <1>1, <1>3, <1>6, <1>8, <2>5, SMTT(30)
  <2> QED
    BY <2>6, <2>7, <2>8
<1>11. TypeOK'
  <2>1. held' \in [Users -> Seq(Blocks)]
    BY <1>0, TakesHeld DEF GetReplaces
  <2> QED
    BY <1>0, <1>1, <1>5, <1>8, <2>1 DEF TypeOK, Entry
<1>12. Held' \subseteq Cached'
  BY <1>0, <1>3, <1>10, TakesHeld DEF GetReplaces
<1>13. OneCopy'
  BY <1>9, <1>11, <1>12 DEF OneCopy, Unique
<1>14. \A k \in 1 .. n : queue[k].cache \in maybe[queue[k].id]
  BY <1>1 DEF CacheInv, Possible
<1>15. \A k \in 1 .. n - 1 :
         \E l \in 1 .. n : l # i /\ queue'[k] = queue[l] /\ queue[l].id # queue[i].id
  BY <1>0, <1>1, <1>3, <1>8, SMTT(60) DEF Unique
<1>16. Clean'
  <2> SUFFICES ASSUME NEW k \in 1 .. n, ~queue'[k].modified
               PROVE  queue'[k].cache = disk'[queue'[k].id]
    BY <1>8 DEF Clean
  <2>1. CASE k = n
    BY <1>6, <1>8, <2>1
  <2>2. CASE k # n
    <3>0. k \in 1 .. n - 1
      BY <1>n, <2>2
    <3>1. PICK l \in 1 .. n : l # i /\ queue'[k] = queue[l] /\ queue[l].id # queue[i].id
      BY <1>15, <3>0
    <3>2. queue[l].cache = disk[queue[l].id] /\ queue[l].id \in Blocks
      BY <1>1, <3>1 DEF CacheInv, Clean, Entry
    <3> QED
      BY <1>5, <3>1, <3>2
  <2> QED
    BY <2>1, <2>2
<1>17. Passed'
  BY <1>8, SMTT(30) DEF Passed
<1>18. Possible'
  <2>1. \A c \in Blocks : disk'[c] \in maybe[c]
    BY <1>3, <1>5, <1>14 DEF CacheInv, Possible
  <2>2. ASSUME NEW k \in 1 .. n PROVE queue'[k].cache \in maybe[queue'[k].id]
    <3>1. CASE k = n
      BY <1>6, <1>8, <2>1, <3>1
    <3>2. CASE k # n
      BY <1>n, <1>14, <1>15, <3>2
    <3> QED
      BY <3>1, <3>2
  <2> QED
    BY <1>8, <2>1, <2>2 DEF Possible
<1>19. SameStore
  <2> SUFFICES ASSUME NEW c \in Blocks PROVE Contents(c)' = Contents(c)
    BY DEF SameStore
  <2>1. CASE c = b
    <3>1. Contents(c) = disk[b]
      BY <1>0, <1>4, <2>1, ContentsIs
    <3>2. n \in DOMAIN queue' /\ queue'[n].id = c /\ queue'[n].cache = disk[b]
      BY <1>n, <1>6, <1>8, <2>1
    <3>3. Contents(c)' = queue'[n].cache
      BY <1>9, <3>2, ContentsNext
    <3> QED
      BY <3>1, <3>2, <3>3
  <2>2. CASE c # b /\ c \notin Cached
    <3>1. c \notin Cached' /\ disk'[c] = disk[c]
      BY <1>1, <1>3, <1>5, <1>10, <2>2 DEF Cached
    <3> QED
      BY <1>0, <1>9, <2>2, <3>1, ContentsIs, ContentsNext
  <2>3. CASE c = queue[i].id
    <3>1. c \notin Cached'
      BY <1>3, <1>4, <1>10, <2>3
    <3> QED
      BY <1>0, <1>1, <1>3, <1>5, <1>9, <2>3, <3>1, ContentsIs, ContentsNext, SMTT(30)
  <2>4. CASE c \in Cached /\ c # queue[i].id
    <3>1. PICK k \in 1 .. n : queue[k].id = c
      BY <1>1, <2>4 DEF Cached
    <3>2. PICK l \in 1 .. n : queue'[l] = queue[k]
      BY <1>1, <1>3, <1>8, <2>4, <3>1, SMTT(30)
    <3> QED
      BY <1>0, <1>1, <1>8, <1>9, <3>1, <3>2, ContentsIs, ContentsNext, SMTT(30)
  <2> QED
    BY <2>1, <2>2, <2>3, <2>4
<1> QED
  BY <1>13, <1>16, <1>17, <1>18, <1>19 DEF CacheInv

\* A lookup in the queue leaves the queue alone.
LEMMA GetCachedStep ==
  ASSUME CacheInv, NEW u \in Users, NEW b \in Blocks, GetCached(u, b), syncing = 0,
         UNCHANGED <<syncing, maybe, out>>
  PROVE  CacheInv' /\ SameStore
<1>0. TypeOK /\ Held \subseteq Cached /\ b \in Cached /\ Takes(u, b) /\ UNCHANGED <<queue, disk>>
  BY DEF CacheInv, OneCopy, GetCached
<1>1. held' \in [Users -> Seq(Blocks)] /\ Held' \subseteq Held \cup {b}
  BY <1>0, TakesHeld
<1>2. Cached' = Cached /\ SameStore
  BY <1>0, SMTT(30) DEF Cached, Contents, Slot, SameStore
<1>3. TypeOK'
  BY <1>0, <1>1 DEF TypeOK
<1>4. OneCopy'
  BY <1>0, <1>1, <1>2, <1>3 DEF CacheInv, OneCopy
<1>5. Clean' /\ Possible'
  BY <1>0 DEF CacheInv, Clean, Possible
<1>6. Passed'
  <2>1. DOMAIN queue' \subseteq Nat \ {0}
    BY <1>0, SMTT(30) DEF TypeOK
  <2> QED
    BY <2>1, SMTT(30) DEF Passed
<1> QED
  BY <1>2, <1>4, <1>5, <1>6 DEF CacheInv

\* The BlockCache a user works on is in the queue and in use.
LEMMA InnermostIs ==
  ASSUME CacheInv, NEW u \in Users, held[u] # <<>>
  PROVE  Innermost(u) \in DOMAIN queue /\ queue[Innermost(u)].id \in Held
<1> DEFINE b == held[u][Len(held[u])]
<1>1. b \in Held
  <2>1. held[u] \in Seq(Blocks) /\ Len(held[u]) \in DOMAIN held[u]
    BY SMTT(30) DEF CacheInv, OneCopy, TypeOK
  <2>2. b \in Range(held[u])
    BY <2>1 DEF Range
  <2> QED
    BY <2>2 DEF Held
<1>2. PICK i \in DOMAIN queue : queue[i].id = b
  BY <1>1 DEF CacheInv, OneCopy, Cached
<1>3. Unique(queue)
  BY DEF CacheInv, OneCopy, Unique
<1>4. Slot(b) = i
  BY <1>2, <1>3, SlotIs, SMTT(30) DEF Slot
<1> QED
  BY <1>1, <1>2, <1>4 DEF Innermost

\* A read returns what the cache shows of the block.
LEMMA ReadStep ==
  ASSUME CacheInv, NEW u \in Users, read(u)
  PROVE  CacheInv' /\ SameStore /\ UNCHANGED maybe /\ \E b \in Blocks : out' = Contents(b)
<1> DEFINE i == Innermost(u)
           b == queue[i].id
<1>1. held[u] # <<>> /\ out' = queue[i].cache /\ UNCHANGED <<queue, disk, held, syncing, maybe>>
  BY DEF read
<1>2. i \in DOMAIN queue
  BY <1>1, InnermostIs
<1>3. Unique(queue) /\ queue \in Seq(Entry)
  BY DEF CacheInv, OneCopy, Unique, TypeOK, Entry
<1>4. queue[i] \in Entry
  BY <1>2, <1>3, SMTT(30)
<1>5. Contents(b) = queue[i].cache
  BY <1>2, <1>3, ContentsIs
<1>6. b \in Blocks /\ queue[i].cache \in Values
  BY <1>4 DEF Entry
<1>7. Cached' = Cached /\ Held' = Held /\ SameStore
  BY <1>1, SMTT(30) DEF Cached, Held, Contents, Slot, SameStore
<1>8. TypeOK'
  BY <1>1, <1>6 DEF CacheInv, OneCopy, TypeOK
<1>9. OneCopy' /\ Clean' /\ Passed' /\ Possible'
  BY <1>1, <1>7, <1>8 DEF CacheInv, OneCopy, Clean, Passed, Possible
<1> QED
  BY <1>1, <1>5, <1>6, <1>7, <1>9 DEF CacheInv

\* A modify changes what the cache shows of one block.
LEMMA ModifyStep ==
  ASSUME CacheInv, NEW u \in Users, NEW v \in Values, modify(u, v)
  PROVE  /\ CacheInv' /\ UNCHANGED out
         /\ \E b \in Blocks :
              /\ Contents(b)' = v /\ \A c \in Blocks \ {b} : Contents(c)' = Contents(c)
              /\ maybe' = [maybe EXCEPT ![b] = @ \cup {v}]
<1>3. Unique(queue) /\ queue \in Seq(Entry) /\ TypeOK
  BY DEF CacheInv, OneCopy, Unique, TypeOK, Entry
<1>a. PICK i \in DOMAIN queue : i = Innermost(u) /\ queue[i].id \in Held
  BY InnermostIs DEF modify
<1>b. PICK b \in Blocks : b = queue[i].id
  BY <1>3, Entries
<1>1. /\ queue' = [queue EXCEPT ![i] = Modified(@, v)]
      /\ maybe' = [maybe EXCEPT ![b] = @ \cup {v}] /\ UNCHANGED <<disk, held, syncing, out>>
  BY <1>a, <1>b DEF modify
<1>2. i \in DOMAIN queue /\ b \in Held
  BY <1>a, <1>b
<1>4. queue[i] \in Entry /\ b \in Blocks /\ queue[i].id = b
  BY <1>3, <1>b, Entries
<1>5. /\ DOMAIN queue' = DOMAIN queue
      /\ \A j \in DOMAIN queue : j # i => queue'[j] = queue[j]
      /\ queue'[i] = [queue[i] EXCEPT !.cache = v, !.modified = TRUE]
  BY <1>1, <1>2, <1>3 DEF Modified
<1>6. queue'[i] \in Entry /\ queue'[i].id = b /\ queue'[i].cache = v /\ queue'[i].modified = TRUE
  BY <1>4, <1>5 DEF Entry
<1>7. queue' \in Seq(Entry) /\ Len(queue') = Len(queue)
  BY <1>1, <1>2, <1>3, <1>5, <1>6, SMTT(30)
<1>8. \A j \in DOMAIN queue : queue'[j].id = queue[j].id
  BY <1>4, <1>5, <1>6
<1>9. Unique(queue') /\ Cached' = Cached /\ Held' = Held
  BY <1>1, <1>3, <1>5, <1>8, SMTT(30) DEF Unique, Cached, Held
<1>10. TypeOK'
  <2>1. maybe' \in [Blocks -> SUBSET Values]
    BY <1>1, <1>3, <1>4 DEF TypeOK
  <2> QED
    BY <1>1, <1>3, <1>7, <2>1 DEF TypeOK, Entry
<1>11. OneCopy'
  BY <1>9, <1>10 DEF CacheInv, OneCopy, Unique
<1>12. Clean'
  BY <1>1, <1>5, <1>6 DEF CacheInv, Clean
<1>13. Passed'
  BY <1>1, <1>2, <1>4, <1>5, <1>9 DEF CacheInv, Passed
<1>14. Possible'
  <2>1. \A c \in Blocks : maybe[c] \subseteq maybe'[c]
    BY <1>1, <1>3, <1>4 DEF TypeOK
  <2>2. v \in maybe'[b]
    BY <1>1, <1>3, <1>4 DEF TypeOK
  <2>3. \A j \in DOMAIN queue : queue[j].id \in Blocks
    BY <1>3, Entries
  <2> QED
    BY <1>1, <1>5, <1>6, <2>1, <2>2, <2>3, SMTT(30) DEF CacheInv, Possible
<1>15. Contents(b)' = v
  BY <1>2, <1>5, <1>6, <1>9, ContentsNext
<1>16. ASSUME NEW c \in Blocks \ {b} PROVE Contents(c)' = Contents(c)
  <2>1. CASE c \in Cached
    <3>1. PICK j \in DOMAIN queue : queue[j].id = c
      BY <2>1 DEF Cached
    <3>2. j # i
      BY <1>4, <1>16, <3>1
    <3> QED
      BY <1>3, <1>5, <1>9, <3>1, <3>2, ContentsIs, ContentsNext, SMTT(30)
  <2>2. CASE c \notin Cached
    BY <1>1, <1>3, <1>9, <2>2, ContentsIs, ContentsNext, SMTT(30)
  <2> QED
    BY <2>1, <2>2
<1> QED
  BY <1>1, <1>4, <1>11, <1>12, <1>13, <1>14, <1>15, <1>16 DEF CacheInv

\* Releasing a BlockCache and taking the manager's lock for sync_all.
LEMMA ReleaseStep ==
  ASSUME CacheInv,
         \/ \E u \in Users : release(u)
         \/ sync_all
         \/ UNCHANGED vars
  PROVE  CacheInv' /\ SameStore /\ UNCHANGED <<maybe, out>>
<1>0. TypeOK
  BY DEF CacheInv, OneCopy
<1>1. UNCHANGED <<queue, disk, maybe, out>> /\ (syncing' = syncing \/ syncing' = 1)
  BY DEF release, sync_all, vars
<1>2. held' \in [Users -> Seq(Blocks)] /\ Held' \subseteq Held
  <2>1. ASSUME NEW u \in Users, release(u)
        PROVE  held' \in [Users -> Seq(Blocks)] /\ Held' \subseteq Held
    <3>1. /\ held[u] \in Seq(Blocks) /\ held[u] # <<>>
          /\ held' = [held EXCEPT ![u] = SubSeq(held[u], 1, Len(held[u]) - 1)]
      BY <1>0, <2>1 DEF TypeOK, release
    <3>2. /\ SubSeq(held[u], 1, Len(held[u]) - 1) \in Seq(Blocks)
          /\ Range(SubSeq(held[u], 1, Len(held[u]) - 1)) \subseteq Range(held[u])
      BY <3>1, SMTT(30) DEF Range
    <3> QED
      BY <1>0, <3>1, <3>2 DEF TypeOK, Held
  <2>2. ASSUME UNCHANGED held PROVE held' \in [Users -> Seq(Blocks)] /\ Held' \subseteq Held
    BY <1>0, <2>2 DEF TypeOK, Held
  <2> QED
    BY <2>1, <2>2 DEF sync_all, vars
<1>3. TypeOK'
  BY <1>0, <1>1, <1>2, SMTT(30) DEF TypeOK
<1>4. Cached' = Cached /\ SameStore
  BY <1>1, SMTT(30) DEF Cached, Contents, Slot, SameStore
<1>5. OneCopy'
  BY <1>1, <1>2, <1>3, <1>4 DEF CacheInv, OneCopy
<1>6. Clean' /\ Possible'
  BY <1>1 DEF CacheInv, Clean, Possible
<1>7. Passed'
  <2>1. DOMAIN queue = 1 .. Len(queue) /\ Len(queue) \in Nat
    BY <1>0, SMTT(30) DEF TypeOK
  <2> QED
    BY <1>1, <1>2, <2>1, SMTT(30) DEF CacheInv, Passed
<1> QED
  BY <1>1, <1>4, <1>5, <1>6, <1>7 DEF CacheInv

\* sync_all writes back an entry that nobody works on.
LEMMA SyncNextStep ==
  ASSUME CacheInv, sync_next
  PROVE  CacheInv' /\ SameStore /\ UNCHANGED <<maybe, out>>
<1> DEFINE i == syncing
           b == queue[i].id
<1>1. /\ i \in DOMAIN queue /\ b \notin Held /\ disk' = sync(queue[i])
      /\ queue' = [queue EXCEPT ![i] = [@ EXCEPT !.modified = FALSE]]
      /\ syncing' = i + 1 /\ UNCHANGED <<held, maybe, out>>
  BY DEF sync_next
<1>2. Unique(queue) /\ queue \in Seq(Entry) /\ TypeOK /\ i \in Nat
  BY DEF CacheInv, OneCopy, Unique, TypeOK, Entry
<1>3. queue[i] \in Entry
  BY <1>1, <1>2, SMTT(30)
<1>4. /\ disk' \in [Blocks -> Values] /\ disk'[b] = queue[i].cache
      /\ \A c \in Blocks \ {b} : disk'[c] = disk[c]
  BY <1>1, <1>2, <1>3 DEF sync, TypeOK, Entry, CacheInv, Clean
<1>5. /\ DOMAIN queue' = DOMAIN queue
      /\ \A j \in DOMAIN queue : j # i => queue'[j] = queue[j]
      /\ queue'[i] = [queue[i] EXCEPT !.modified = FALSE]
  BY <1>1, <1>2
<1>6. /\ queue'[i] \in Entry /\ queue'[i].id = b /\ queue'[i].cache = queue[i].cache
      /\ queue'[i].modified = FALSE
  BY <1>3, <1>5 DEF Entry
<1>7. queue' \in Seq(Entry) /\ Len(queue') = Len(queue)
  BY <1>1, <1>2, <1>5, <1>6, SMTT(30)
<1>8. \A j \in DOMAIN queue : queue'[j].id = queue[j].id /\ queue'[j].cache = queue[j].cache
  BY <1>5, <1>6
<1>9. Unique(queue') /\ Cached' = Cached /\ Held' = Held
  BY <1>1, <1>2, <1>5, <1>8, SMTT(30) DEF Unique, Cached, Held
<1>10. TypeOK'
  BY <1>1, <1>2, <1>4, <1>7, SMTT(30) DEF TypeOK, Entry
<1>11. OneCopy'
  BY <1>9, <1>10 DEF CacheInv, OneCopy, Unique
<1>12. \A j \in DOMAIN queue : j # i => queue[j].id # b /\ queue[j].id \in Blocks
  BY <1>1, <1>2, Entries DEF Unique
<1>13. Clean'
  <2> SUFFICES ASSUME NEW j \in DOMAIN queue, ~queue'[j].modified
               PROVE  queue'[j].cache = disk'[queue'[j].id]
    BY <1>5 DEF Clean
  <2>1. CASE j = i
    BY <1>4, <1>6, <2>1
  <2>2. CASE j # i
    <3>1. queue'[j] = queue[j] /\ queue[j].cache = disk[queue[j].id]
      BY <1>5, <2>2 DEF CacheInv, Clean
    <3> QED
      BY <1>4, <1>12, <2>2, <3>1
  <2> QED
    BY <2>1, <2>2
<1>14. Passed'
  <2>1. \A j \in DOMAIN queue : j < i + 1 => j < i \/ j = i
    BY <1>2, SMTT(30)
  <2> QED
    BY <1>1, <1>5, <1>6, <1>9, <2>1, SMTT(30) DEF CacheInv, Passed
<1>15. Possible'
  BY <1>1, <1>4, <1>5, <1>8, SMTT(30) DEF CacheInv, Possible
<1>16. SameStore
  <2> SUFFICES ASSUME NEW c \in Blocks PROVE Contents(c)' = Contents(c)
    BY DEF SameStore
  <2>1. CASE c \in Cached
    <3>1. PICK j \in DOMAIN queue : queue[j].id = c
      BY <2>1 DEF Cached
    <3>2. Contents(c) = queue[j].cache
      BY <1>2, <3>1, ContentsIs
    <3>3. Contents(c)' = queue'[j].cache
      BY <1>5, <1>8, <1>9, <3>1, ContentsNext, SMTT(30)
    <3> QED
      BY <1>8, <3>1, <3>2, <3>3
  <2>2. CASE c \notin Cached
    <3>1. c # b
      BY <1>1, <2>2 DEF Cached
    <3> QED
      BY <1>2, <1>4, <1>9, <2>2, <3>1, ContentsIs, ContentsNext, SMTT(30)
  <2> QED
    BY <2>1, <2>2
<1> QED
  BY <1>1, <1>11, <1>13, <1>14, <1>15, <1>16 DEF CacheInv

\* When sync_all is done, the device holds what the cache shows.
LEMMA SyncDoneStep ==
  ASSUME CacheInv, sync_done
  PROVE  CacheInv' /\ SameStore /\ UNCHANGED out /\ maybe' = [b \in Blocks |-> {Contents(b)}]
<1>1. /\ syncing > Len(queue) /\ syncing' = 0 /\ maybe' = [b \in Blocks |-> {Contents(b)}]
      /\ UNCHANGED <<queue, disk, held, out>>
  BY DEF sync_done, SyncedAll
<1>2. Unique(queue) /\ queue \in Seq(Entry) /\ TypeOK
  BY DEF CacheInv, OneCopy, Unique, TypeOK, Entry
<1>3. \A i \in DOMAIN queue : i \in Nat /\ i > 0 /\ i < syncing
  BY <1>1, <1>2, SMTT(30) DEF TypeOK
<1>4. \A i \in DOMAIN queue : queue[i].cache = disk[queue[i].id]
  BY <1>3 DEF CacheInv, Passed, Clean
<1>5. \A i \in DOMAIN queue : Contents(queue[i].id) = queue[i].cache /\ queue[i].id \in Blocks
  BY <1>2, ContentsIs, Entries
<1>6. \A b \in Blocks : Contents(b) = disk[b]
  <2> SUFFICES ASSUME NEW b \in Blocks PROVE Contents(b) = disk[b]
    OBVIOUS
  <2>1. CASE b \in Cached
    BY <1>4, <1>5, <2>1 DEF Cached
  <2>2. CASE b \notin Cached
    BY <1>2, <2>2, ContentsIs
  <2> QED
    BY <2>1, <2>2
<1>7. Cached' = Cached /\ Held' = Held /\ SameStore
  BY <1>1, SMTT(30) DEF Cached, Held, Contents, Slot, SameStore
<1>8. maybe' \in [Blocks -> SUBSET Values]
  BY <1>1, <1>2, <1>6 DEF TypeOK
<1>9. TypeOK'
  BY <1>1, <1>2, <1>8 DEF TypeOK
<1>10. OneCopy'
  BY <1>1, <1>7, <1>9 DEF CacheInv, OneCopy
<1>11. Clean'
  BY <1>1 DEF CacheInv, Clean
<1>12. Passed'
  BY <1>1, <1>3, SMTT(30) DEF Passed
<1>13. Possible'
  BY <1>1, <1>5, <1>6 DEF Possible
<1> QED
  BY <1>1, <1>7, <1>10, <1>11, <1>12, <1>13 DEF CacheInv

\* After a power failure the device is what is left.
LEMMA CrashStep ==
  ASSUME CacheInv, crash
  PROVE  /\ CacheInv' /\ UNCHANGED out
         /\ \A b \in Blocks : Contents(b)' = disk[b] /\ disk[b] \in Values /\ disk[b] \in maybe[b]
         /\ maybe' = [b \in Blocks |-> {disk[b]}]
<1>1. /\ queue' = <<>> /\ DOMAIN queue' = {} /\ Len(queue') = 0
      /\ held' = [u \in Users |-> <<>>] /\ syncing' = 0
      /\ maybe' = [b \in Blocks |-> {disk[b]}] /\ UNCHANGED <<disk, out>>
  BY SMTT(30) DEF crash
<1>2. TypeOK
  BY DEF CacheInv, OneCopy
<1>3. maybe' \in [Blocks -> SUBSET Values] /\ held' \in [Users -> Seq(Blocks)]
  BY <1>1, <1>2, SMTT(30) DEF TypeOK
<1>4. BLOCK_CACHE_SIZE \in Nat
  BY BlockCacheAssumption
<1>5. TypeOK'
  BY <1>1, <1>2, <1>3, <1>4, SMTT(30) DEF TypeOK
<1>6. Cached' = {} /\ Held' = {}
  BY <1>1 DEF Cached, Held, Range
<1>7. OneCopy' /\ Clean' /\ Passed' /\ Possible'
  BY <1>1, <1>5, <1>6 DEF OneCopy, Clean, Passed, Possible
<1>8. \A b \in Blocks : Contents(b)' = disk[b]
  BY <1>1, <1>6 DEF Contents
<1>9. \A b \in Blocks : disk[b] \in Values /\ disk[b] \in maybe[b]
  BY <1>2 DEF CacheInv, Possible, TypeOK
<1> QED
  BY <1>1, <1>7, <1>8, <1>9 DEF CacheInv

\* A get in any of its outcomes.
LEMMA GetStep ==
  ASSUME CacheInv, NEW u \in Users, NEW b \in Blocks, get(u, b)
  PROVE  CacheInv' /\ SameStore /\ UNCHANGED <<maybe, out>>
BY GetCachedStep, GetLoadsStep, GetReplacesStep DEF get

-----------------------------------------------------------------------------

\* Every step keeps the invariant.
LEMMA NextInv ==
  ASSUME CacheInv, [Next]_vars
  PROVE  CacheInv'
BY GetStep, ReadStep, ModifyStep, ReleaseStep, SyncNextStep, SyncDoneStep, CrashStep DEF Next

\* Every step of the cache is a step of the store or leaves it as it is.
LEMMA NextStore ==
  ASSUME CacheInv, [Next]_vars
  PROVE  [Store!Next]_<<[b \in Blocks |-> Contents(b)], maybe, out>>
<1> DEFINE mem == [b \in Blocks |-> Contents(b)]
<1>0. mem' = [b \in Blocks |-> Contents(b)']
  OBVIOUS
<1>s. SameStore => mem' = mem
  BY DEF SameStore
<1>1. ASSUME NEW u \in Users, NEW b \in Blocks, get(u, b) PROVE UNCHANGED <<mem, maybe, out>>
  BY <1>1, <1>s, GetStep
<1>2. ASSUME NEW u \in Users, read(u) PROVE \E b \in Blocks : Store!Read(b)
  <2>1. PICK b \in Blocks : out' = Contents(b)
    BY <1>2, ReadStep
  <2>2. out' = mem[b] /\ UNCHANGED <<mem, maybe>>
    BY <1>2, <1>s, <2>1, ReadStep
  <2> QED
    BY <2>2 DEF Store!Read
<1>3. ASSUME NEW u \in Users, NEW v \in Values, modify(u, v)
      PROVE  \E b \in Blocks : Store!Write(b, v)
  <2>1. PICK b \in Blocks :
          /\ Contents(b)' = v /\ \A c \in Blocks \ {b} : Contents(c)' = Contents(c)
          /\ maybe' = [maybe EXCEPT ![b] = @ \cup {v}]
    BY <1>3, ModifyStep
  <2>2. mem' = [mem EXCEPT ![b] = v]
    BY <1>0, <2>1
  <2>3. UNCHANGED out
    BY <1>3, ModifyStep
  <2> QED
    BY <2>1, <2>2, <2>3 DEF Store!Write
<1>4. ASSUME (\E u \in Users : release(u)) \/ sync_all \/ UNCHANGED vars
      PROVE  UNCHANGED <<mem, maybe, out>>
  BY <1>4, <1>s, ReleaseStep
<1>5. ASSUME sync_next PROVE UNCHANGED <<mem, maybe, out>>
  BY <1>5, <1>s, SyncNextStep
<1>6. ASSUME sync_done PROVE Store!Sync
  <2>1. maybe' = [b \in Blocks |-> {mem[b]}]
    BY <1>6, SyncDoneStep
  <2> QED
    BY <1>6, <1>s, <2>1, SyncDoneStep DEF Store!Sync
<1>7. ASSUME crash PROVE Store!Crash
  <2>1. /\ UNCHANGED out /\ maybe' = [b \in Blocks |-> {disk[b]}]
        /\ \A b \in Blocks : Contents(b)' = disk[b] /\ disk[b] \in Values /\ disk[b] \in maybe[b]
    BY <1>7, CrashStep
  <2>2. mem' \in [Blocks -> Values] /\ \A b \in Blocks : mem'[b] = disk[b]
    BY <1>0, <2>1
  <2>3. maybe' = [b \in Blocks |-> {mem'[b]}]
    BY <2>1, <2>2
  <2> QED
    BY <2>1, <2>2, <2>3 DEF Store!Crash
<1> QED
  BY <1>1, <1>2, <1>3, <1>4, <1>5, <1>6, <1>7 DEF Next, Store!Next

\* Every reachable state satisfies the invariant.
LEMMA InvAlways == Spec => []CacheInv
<1>1. CacheInv /\ [Next]_vars => CacheInv'
  BY NextInv
<1> QED
  BY <1>1, InitInv, PTL DEF Spec

\* For any number of blocks and users, and any size of the cache and depth of nesting,
\* a block is cached at most once and stays cached while it is used.
THEOREM CopiesAreUnique == Spec => []OneCopy
<1>1. CacheInv => OneCopy
  BY DEF CacheInv
<1> QED
  BY <1>1, InvAlways, PTL

\* For any number of blocks, values and users, and any size of the cache, the cache
\* implements BlockStore: evictions are invisible, and a power failure sets a block back
\* at most to its state at the last sync_all.
THEOREM CacheIsBlockStore == Spec => IsBlockStore
<1>1. Init => Store!Init
  <2> SUFFICES ASSUME Init PROVE Store!Init
    OBVIOUS
  <2>1. \A b \in Blocks : Contents(b) = disk[b]
    BY SMTT(30) DEF Init, Contents, Cached
  <2> DEFINE mem == [b \in Blocks |-> Contents(b)]
  <2>2. mem \in [Blocks -> Values] /\ maybe = [b \in Blocks |-> {mem[b]}] /\ out \in Values
    BY <2>1 DEF Init
  <2> QED
    BY <2>2 DEF Store!Init
<1>2. CacheInv /\ [Next]_vars =>
        [Store!Next]_<<[b \in Blocks |-> Contents(b)], maybe, out>>
  BY NextStore
<1> QED
  BY <1>1, <1>2, InvAlways, PTL DEF Spec, IsBlockStore, Store!Spec

-----------------------------------------------------------------------------
(* The size of the cache *)

\* No user nests deeper than the bound says.
Nested == \A u \in Users : Len(held[u]) <= MaxNesting

\* Only get nests deeper, and only below the bound.
LEMMA NestedStep ==
  ASSUME TypeOK, Nested, [Next]_vars
  PROVE  Nested'
<1>0. held \in [Users -> Seq(Blocks)] /\ MaxNesting \in Nat
  BY BlockCacheAssumption DEF TypeOK
<1>1. ASSUME NEW u \in Users, NEW q \in Seq(Blocks), Len(q) <= MaxNesting,
             held' = [held EXCEPT ![u] = q]
      PROVE  Nested'
  BY <1>0, <1>1 DEF Nested
<1>2. ASSUME NEW u \in Users, NEW b \in Blocks, get(u, b) PROVE Nested'
  <2>1. Len(held[u]) < MaxNesting /\ held' = [held EXCEPT ![u] = Append(held[u], b)]
    BY <1>2 DEF get, GetCached, GetLoads, GetReplaces, Takes
  <2>2. /\ Append(held[u], b) \in Seq(Blocks) /\ Len(held[u]) \in Nat
        /\ Len(Append(held[u], b)) = Len(held[u]) + 1
    BY <1>0, AppendProperties, LenProperties, SMTT(30)
  <2>3. Len(Append(held[u], b)) <= MaxNesting
    BY <1>0, <2>1, <2>2, SMTT(30)
  <2> QED
    BY <1>1, <2>1, <2>2, <2>3
<1>3. ASSUME NEW u \in Users, release(u) PROVE Nested'
  <2>1. held[u] # <<>> /\ held' = [held EXCEPT ![u] = SubSeq(held[u], 1, Len(held[u]) - 1)]
    BY <1>3 DEF release
  <2>2. Len(held[u]) \in Nat \ {0} /\ Len(held[u]) <= MaxNesting
    BY <1>0, <2>1, EmptySeq DEF Nested
  <2>3. \A i \in 1 .. Len(held[u]) - 1 : held[u][i] \in Blocks
    BY <1>0, <2>2, LenProperties, SMTT(30)
  <2>4. /\ SubSeq(held[u], 1, Len(held[u]) - 1) \in Seq(Blocks)
        /\ Len(SubSeq(held[u], 1, Len(held[u]) - 1)) <= MaxNesting
    BY <1>0, <2>2, <2>3, SubSeqProperties, SMTT(30)
  <2> QED
    BY <1>1, <2>1, <2>4
<1>4. ASSUME crash PROVE Nested'
  BY <1>0, <1>4, SMTT(30) DEF crash, Nested
<1>5. CASE UNCHANGED held
  BY <1>5 DEF Nested
<1> QED
  BY <1>2, <1>3, <1>4, <1>5 DEF Next, read, modify, sync_all, sync_next, sync_done, vars

INSTANCE FiniteSetTheorems

\* A full queue whose entries are all in use would put more entries than there are into the
\* places of the users' stacks, one of which is empty.
LEMMA RoomForOne ==
  ASSUME CacheInv, Nested, NEW v \in Users, Len(held[v]) < MaxNesting, Full
  PROVE  Evictable # {}
<1> SUFFICES ASSUME Evictable = {} PROVE FALSE
  OBVIOUS
<1> DEFINE n == BLOCK_CACHE_SIZE
           Places == Users \X (1 .. MaxNesting)
           T == Places \ {<<v, MaxNesting>>}
           f == [i \in 1 .. n |-> CHOOSE s \in T : held[s[1]][s[2]] = queue[i].id]
<1>0. /\ n \in Nat /\ MaxNesting \in Nat \ {0} /\ held \in [Users -> Seq(Blocks)]
      /\ IsFiniteSet(Users) /\ Cardinality(Users) * MaxNesting <= n
  BY BlockCacheAssumption DEF CacheInv, OneCopy, TypeOK
<1>1. DOMAIN queue = 1 .. n
  BY SMTT(30) DEF CacheInv, OneCopy, TypeOK, Full
<1>2. IsFiniteSet(T) /\ Cardinality(T) < n
  <2>1. IsFiniteSet(1 .. MaxNesting) /\ Cardinality(1 .. MaxNesting) = MaxNesting
    BY <1>0, FS_Interval, SMTT(30)
  <2>2. IsFiniteSet(Places) /\ Cardinality(Places) = Cardinality(Users) * MaxNesting
    BY <1>0, <2>1, FS_Product
  <2>3. MaxNesting \in 1 .. MaxNesting
    BY <1>0, SMTT(30)
  <2>4. <<v, MaxNesting>> \in Places
    BY <2>3
  <2>5. Cardinality(Places) \in Nat
    BY <2>2, FS_CardinalityType
  <2> HIDE DEF Places
  <2>6. IsFiniteSet(T) /\ Cardinality(T) = Cardinality(Places) - 1
    BY <2>2, <2>4, FS_RemoveElement
  <2> QED
    BY <1>0, <2>2, <2>5, <2>6, SMTT(30)
<1>3. ASSUME NEW i \in 1 .. n PROVE \E s \in T : held[s[1]][s[2]] = queue[i].id
  <2>1. queue[i].id \in Held
    BY <1>1 DEF Evictable
  <2>2. PICK u \in Users : queue[i].id \in Range(held[u])
    BY <2>1 DEF Held
  <2>3. PICK p \in DOMAIN held[u] : held[u][p] = queue[i].id
    BY <2>2 DEF Range
  <2>4. Len(held[u]) \in Nat /\ DOMAIN held[u] = 1 .. Len(held[u]) /\ Len(held[u]) <= MaxNesting
    BY <1>0, LenProperties DEF Nested
  <2>5. p \in 1 .. MaxNesting /\ (u = v => p # MaxNesting)
    BY <1>0, <2>3, <2>4, SMTT(30)
  <2>6. <<u, p>> \in T
    BY <2>5
  <2> QED
    BY <2>3, <2>6
<1> HIDE DEF T
<1>4. f \in [1 .. n -> T] /\ \A i \in 1 .. n : held[f[i][1]][f[i][2]] = queue[i].id
  BY <1>3
<1> HIDE DEF f
<1>5. IsFiniteSet(1 .. n) /\ Cardinality(1 .. n) = n
  BY <1>0, FS_Interval, SMTT(30)
<1>6. PICK i, j \in 1 .. n : i # j /\ f[i] = f[j]
  <2>1. f \in [1 .. n -> T] /\ Cardinality(T) < Cardinality(1 .. n)
    BY <1>2, <1>4, <1>5
  <2> QED
    BY <1>2, <1>5, <2>1, FS_PigeonHole
<1>7. queue[i].id = queue[j].id
  <2>1. held[f[i][1]][f[i][2]] = queue[i].id /\ held[f[j][1]][f[j][2]] = queue[j].id
    BY <1>4
  <2> QED
    BY <1>6, <2>1
<1>8. \A a, b \in 1 .. n : queue[a].id = queue[b].id => a = b
  BY <1>1 DEF CacheInv, OneCopy
<1> QED
  BY <1>6, <1>7, <1>8

\* "Run out of BlockCache" is never reached, for any number of blocks, users and values: a
\* full cache has an entry nobody uses as long as a user can still nest, if all users
\* together nest at most as deep as the queue is long (BlockCacheManager::get).
THEOREM CacheNeverRunsOut == Spec => []NeverRunsOut
<1>1. Init => Nested
  <2>1. Init => \A u \in Users : Len(held[u]) = 0
    BY EmptySeq DEF Init
  <2> QED
    BY <2>1, BlockCacheAssumption, SMTT(30) DEF Nested
<1>2. CacheInv /\ Nested /\ [Next]_vars => Nested'
  BY NestedStep DEF CacheInv, OneCopy
<1>3. CacheInv /\ Nested => NeverRunsOut
  BY RoomForOne DEF NeverRunsOut
<1>4. Spec => []Nested
  BY <1>1, <1>2, InvAlways, PTL DEF Spec
<1> QED
  BY <1>3, <1>4, InvAlways, PTL
=============================================================================
