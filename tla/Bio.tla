-------------------------------- MODULE Bio ---------------------------------
(***************************************************************************)
(* The buffer cache of kernel/bio.c with the sleep locks of                *)
(* kernel/sleeplock.c. A critical section of bcache.lock is one action. A  *)
(* process that has a buffer locked may change its contents, any number of *)
(* times: it writes them, or pins the buffer as log_write() does. A pinned *)
(* buffer is written and unpinned by a later holder, as by install_trans().*)
(* A process of the kernel that has two buffers at a time, as bmap() and   *)
(* write_log() do, is two members of Procs here.                           *)
(* Who waits in acquiresleep() gets the lock when it is free: module Proc  *)
(* is about sleep() and wakeup().                                          *)
(***************************************************************************)
EXTENDS Naturals, Sequences, FiniteSets, SequencesExt

CONSTANTS
  Procs, Blocks, Vals,
  NBUF,
  Changing,     \* bound: the blocks that are written
  MaxPin,       \* bound: blocks that are pinned at a time
  Nobody, Nothing

\* Assumed where the module is instantiated (Storage).  NBUF may be too small for what
\* Procs and the log take: 30 buffers, for a log of 30 blocks and 64 processes.
Parameters ==
  /\ NBUF \in Nat /\ MaxPin \in Nat
  /\ Changing \subseteq Blocks
  /\ Nothing \notin Blocks \cup Vals

VARIABLES
  disk,      \* the blocks
  lru,       \* bcache.head: the buffers, the most recently used one first
  blockno, valid, refcnt, data,   \* of each buffer,
  lock,      \* and who has its sleep lock
  pinned,    \* history: the blocks that bpin() keeps
  pc,        \* where a process is in bread() ... brelse()
  want,      \* the block it has asked for
  mine,      \* the buffer bget() has found
  panicked   \* bget() has found none; bcache.lock is never given back

bufVars == <<blockno, valid, refcnt, data, lock>>
vars == <<disk, lru, bufVars, pinned, pc, want, mine, panicked>>

Bufs == 1 .. NBUF

Init ==
  /\ disk = [n \in Blocks |-> CHOOSE v \in Vals : TRUE]   \* which one makes no difference
  /\ lru = [n \in Bufs |-> NBUF + 1 - n]
  /\ blockno = [b \in Bufs |-> Nothing]
  /\ valid = [b \in Bufs |-> FALSE]
  /\ refcnt = [b \in Bufs |-> 0]
  /\ data = [b \in Bufs |-> Nothing]
  /\ lock = [b \in Bufs |-> Nobody]
  /\ pinned = {}
  /\ pc = [p \in Procs |-> "idle"]
  /\ want = [p \in Procs |-> Nothing]
  /\ mine = [p \in Procs |-> 1]
  /\ panicked = FALSE

Goto(p, here, there) ==
  /\ pc[p] = here
  /\ pc' = [pc EXCEPT ![p] = there]

----------------------------------------------------------------------------
(* bread()                                                                 *)

Cached(n) == {b \in Bufs : blockno[b] = n}

\* Mutant of BgetHit: the reference is not taken before bcache.lock is dropped.
BgetHitUncounted(b) == UNCHANGED <<blockno, valid, refcnt, data, lock>>

BgetHit(b) ==
  /\ refcnt' = [refcnt EXCEPT ![b] = @ + 1]
  /\ UNCHANGED <<blockno, valid, data, lock>>

\* b is the least recently used buffer that nobody refers to.
Recycle(b) ==
  \E t \in DOMAIN lru :
    /\ lru[t] = b /\ refcnt[b] = 0
    /\ \A u \in t + 1 .. Len(lru) : refcnt[lru[u]] > 0

BgetMiss(b, n) ==
  /\ blockno' = [blockno EXCEPT ![b] = n]
  /\ valid' = [valid EXCEPT ![b] = FALSE]
  /\ refcnt' = [refcnt EXCEPT ![b] = 1]
  /\ data' = [data EXCEPT ![b] = Nothing]
  /\ UNCHANGED lock

\* bget() up to the release of bcache.lock.
Bget(p, n) ==
  /\ ~panicked
  /\ Goto(p, "idle", "lock")
  /\ want' = [want EXCEPT ![p] = n]
  /\ \E b \in Bufs :
       /\ IF Cached(n) # {} THEN b \in Cached(n) /\ BgetHit(b)
                            ELSE Recycle(b) /\ BgetMiss(b, n)
       /\ mine' = [mine EXCEPT ![p] = b]
  /\ UNCHANGED <<disk, lru, pinned, panicked>>

\* panic("bget: no buffers").
NoBuffers(p, n) ==
  /\ ~panicked
  /\ pc[p] = "idle"
  /\ Cached(n) = {} /\ \A b \in Bufs : refcnt[b] > 0
  /\ panicked' = TRUE
  /\ UNCHANGED <<disk, lru, bufVars, pinned, pc, want, mine>>

\* It stays in a loop, with interrupts off.
Panic ==
  /\ panicked
  /\ UNCHANGED vars

\* acquiresleep(), and virtio_disk_rw() if need be.
BreadReturn(p) ==
  LET b == mine[p] IN
  /\ lock[b] = Nobody
  /\ Goto(p, "lock", "held")
  /\ lock' = [lock EXCEPT ![b] = p]
  /\ data' = [data EXCEPT ![b] = IF valid[b] THEN @ ELSE disk[blockno[b]]]
  /\ valid' = [valid EXCEPT ![b] = TRUE]
  /\ UNCHANGED <<disk, lru, blockno, refcnt, pinned, want, mine, panicked>>

----------------------------------------------------------------------------
(* What the holder does                                                    *)

Holding(p, b) == pc[p] = "held" /\ mine[p] = b /\ want[p] \in Changing

\* The contents become v and are written: bwrite().
Bwrite(p, b, v) ==
  /\ Holding(p, b)
  /\ want[p] \notin pinned
  /\ data' = [data EXCEPT ![b] = v]
  /\ disk' = [disk EXCEPT ![blockno[b]] = v]
  /\ UNCHANGED <<lru, blockno, valid, refcnt, lock, pinned, pc, want, mine, panicked>>

\* The contents become v, and log_write() pins the block unless it has before.
Bpin(p, b, v) ==
  /\ Holding(p, b)
  /\ want[p] \in pinned \/ ~panicked
  /\ Cardinality(pinned \cup {want[p]}) <= MaxPin
  /\ data' = [data EXCEPT ![b] = v]
  /\ refcnt' = [refcnt EXCEPT ![b] = IF want[p] \in pinned THEN @ ELSE @ + 1]
  /\ pinned' = pinned \cup {want[p]}
  /\ UNCHANGED <<disk, lru, blockno, valid, lock, pc, want, mine, panicked>>

\* install_trans(): bwrite() and bunpin().
Bunpin(p, b) ==
  /\ Holding(p, b)
  /\ want[p] \in pinned /\ ~panicked
  /\ disk' = [disk EXCEPT ![blockno[b]] = data[b]]
  /\ refcnt' = [refcnt EXCEPT ![b] = @ - 1]
  /\ pinned' = pinned \ {want[p]}
  /\ UNCHANGED <<lru, blockno, valid, data, lock, pc, want, mine, panicked>>

----------------------------------------------------------------------------
(* brelse()                                                                *)

ReleaseSleep(p) ==
  /\ Goto(p, "held", "brelse")
  /\ lock' = [lock EXCEPT ![mine[p]] = Nobody]
  /\ UNCHANGED <<disk, lru, blockno, valid, refcnt, data, pinned, want, mine, panicked>>

Brelse(p) ==
  LET b == mine[p] IN
  /\ ~panicked
  /\ Goto(p, "brelse", "idle")
  /\ refcnt' = [refcnt EXCEPT ![b] = @ - 1]
  /\ lru' = IF refcnt[b] = 1 THEN <<b>> \o Remove(lru, b) ELSE lru
  /\ want' = [want EXCEPT ![p] = Nothing]
  /\ mine' = [mine EXCEPT ![p] = 1]
  /\ UNCHANGED <<disk, blockno, valid, data, lock, pinned, panicked>>

----------------------------------------------------------------------------

Process(p) ==
  \/ \E n \in Blocks : Bget(p, n) \/ NoBuffers(p, n)
  \/ BreadReturn(p)
  \/ \E b \in Bufs : Bunpin(p, b) \/ \E v \in Vals : Bwrite(p, b, v) \/ Bpin(p, b, v)
  \/ ReleaseSleep(p)
  \/ Brelse(p)

Next == Panic \/ \E p \in Procs : Process(p)

Spec == Init /\ [][Next]_vars

----------------------------------------------------------------------------

Holds(p, n) == want[p] = n /\ pc[p] = "held"

\* The newest contents of a block: in its buffer, or on the disk.
Newest(n) == LET bs == {b \in Cached(n) : valid[b]}
             IN  IF bs = {} THEN disk[n] ELSE data[CHOOSE b \in bs : TRUE]

Store == INSTANCE BlockStore WITH
  content <- [n \in Blocks |-> Newest(n)],
  holders <- [n \in Blocks |-> {p \in Procs : Holds(p, n)}],
  seen    <- [p \in Procs |-> IF \E n \in Blocks : Holds(p, n) THEN data[mine[p]] ELSE Nothing]

\* One process at a time has a block, and sees what the last one left in it, from
\* the cache or from the disk, though buffers are recycled and bget() waits for
\* the buffer without bcache.lock, up to and after a panic for want of buffers
\* (bio.c:69-86, 116-137; sleeplock.c:21-42).
StoreSpec == Store!Spec
=============================================================================
