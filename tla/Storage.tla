------------------------------- MODULE Storage --------------------------------
(***************************************************************************)
(* The layers of the file system (kernel/fs.c:1-10) down to the disk:      *)
(* inodes and directories, log, buffer cache, driver.  Each is driven by   *)
(* processes that do whatever the layers above may do.  A behaviour is one *)
(* of a single layer; what a layer takes for granted of the one below is   *)
(* what that one is shown to do: Inode changes the disk as AtomicDisk      *)
(* does, Log uses blocks as BlockStore has them, Bio reads and writes the  *)
(* disk in one step, as DoneOnReturn says.                                 *)
(***************************************************************************)
EXTENDS Naturals

CONSTANTS
  Procs, Blocks, Vals, Absent,
  MAXOPBLOCKS, LOGSIZE, SIZE,
  Buffered, NBUF, Changing, MaxPin,
  Names, Inums,
  Callers, KillSet, NUM,
  Nobody

VARIABLES
  layer,
  home, hdr, logblk, cache, pin, lh, outstanding, committing, boot, pc, tail, used,
  disk, lru, blockno, bvalid, refcnt, data, buflock, pinned, at, want, mine, panicked,
  dinode, dir, dirlock, ref, valid, ip, lock, panic, point, call, ino, fresh,
  free, desc, info, avail, queue, irq, handling, bdisk, buffer, block, stage, head

logVars == <<home, hdr, logblk, cache, pin, lh, outstanding, committing, boot, pc, tail, used>>
bioVars ==
  <<disk, lru, blockno, bvalid, refcnt, data, buflock, pinned, at, want, mine, panicked>>
inodeVars == <<dinode, dir, dirlock, ref, valid, ip, lock, panic, point, call, ino, fresh>>
diskVars == <<free, desc, info, avail, queue, irq, handling, bdisk, buffer, block, stage, head>>
vars == <<layer, logVars, bioVars, inodeVars, diskVars>>

Logging == INSTANCE Log
Caching == INSTANCE Bio WITH
  Blocks <- Buffered, Nothing <- Absent, valid <- bvalid, lock <- buflock, pc <- at
Inodes == INSTANCE Inode WITH pc <- point
Disk == INSTANCE Virtio WITH
  NoBuf <- Nobody, used <- queue, data <- buffer, at <- stage

ASSUME StorageAssumption ==
  /\ Logging!Parameters
  /\ Caching!Parameters
  /\ Inodes!Parameters
  /\ Disk!Parameters
  /\ Procs \subseteq Callers

Layers == {"inodes", "log", "cache", "disk"}

First == CHOOSE v \in Vals : TRUE

\* What the blocks hold at first makes a difference to the log, and to the disk.
Init ==
  /\ layer \in Layers
  /\ Logging!Init
  /\ layer # "log" => home = [b \in Blocks |-> First] /\ \A t \in Logging!Tails : logblk[t] = First
  /\ Caching!Init
  /\ Inodes!Init
  /\ Disk!Init
  /\ layer # "disk" => \A p \in Callers : block[p] = First

OnlyLog    == layer = "log" /\ UNCHANGED <<layer, bioVars, inodeVars, diskVars>>
OnlyCache  == layer = "cache" /\ UNCHANGED <<layer, logVars, inodeVars, diskVars>>
OnlyInodes == layer = "inodes" /\ UNCHANGED <<layer, logVars, bioVars, diskVars>>
OnlyDisk   == layer = "disk" /\ UNCHANGED <<layer, logVars, bioVars, inodeVars>>

RunLog    == OnlyLog /\ Logging!Next
RunCache  == OnlyCache /\ Caching!Next
RunInodes == OnlyInodes /\ Inodes!Next
RunDisk   == OnlyDisk /\ Disk!Next

Next == RunLog \/ RunCache \/ RunInodes \/ RunDisk

Spec == Init /\ [][Next]_vars

\* What a process comes to do in the layer of the behaviour though others may be
\* in its way again and again.
Gets(p) ==
  \/ OnlyDisk /\ Disk!Progress(p)
  \/ p \in Procs /\ ((OnlyLog /\ Logging!Begin(p)) \/ (OnlyInodes /\ Inodes!Locking(p)))

\* As in Log, Inode and Virtio; no property of the cache needs any.
Fairness ==
  /\ \A p \in Callers : SF_vars(Gets(p))
  /\ WF_vars((OnlyLog /\ Logging!Recover) \/ (OnlyDisk /\ Disk!Interrupt))
  /\ \A p \in Procs :
       /\ WF_vars((OnlyLog /\ Logging!EndOp(p)) \/ (OnlyInodes /\ Inodes!Inside(p)))
       /\ WF_vars(OnlyLog /\ Logging!CommitStep(p))
       /\ WF_vars(OnlyLog /\ Logging!BeginSleep(p))

FairSpec == Spec /\ Fairness

----------------------------------------------------------------------------

\* The log commits alone, and begin_op() has kept room for what the calls may
\* still write (log.c:12-16, 131-140).
CallsAdmitted == Logging!CommitAlone /\ Logging!Reserved

\* When the end_op() that commits returns, a crash would lose nothing of what
\* was written (log.c:147-175).
CommittedOnReturn == Logging!CommittedOnReturn

\* The log implements an atomic disk, crashes at every point included
\* (log.c:69-119, 194-206).
DiskSpec == Logging!DiskSpec

\* The buffer cache implements a store of blocks that one process at a time has,
\* and sees as the last one left it, until bget() panics for want of buffers and
\* after that (bio.c:58-137).
StoreSpec == Caching!StoreSpec

\* Names, link counts, references and the copies in memory of the inodes agree,
\* and no call panics (fs.c:325-352; sysfile.c:118-166, 184-284).
InodeKept == Inodes!InodeKept

\* The descriptors and the rings agree with the processes that wait, so that no
\* interrupt meets a request it does not know (virtio_disk.c:143-201, 276-309).
RequestsKnown == Disk!RequestsKnown

\* When virtio_disk_rw() returns, block and buffer agree: the device has done
\* what was asked, out of order, after spurious wakeups and with several
\* completions in one interrupt or not (virtio_disk.c:271-274).
DoneOnReturn == Disk!DoneOnReturn

Waits(p) ==
  \/ p \in Procs /\ (Inodes!InCall(p) \/ Logging!Waits(p))
  \/ Disk!InRequest(p)

\* Nobody waits for ever.  A call on files that others create, link and unlink at
\* the same time ends: the locks of the directory and of the inodes do not deadlock
\* (sysfile.c:203-262).  Whoever is in begin_op() gets in, or the machine crashes
\* (log.c:127-143).  No completion of the disk is lost between the acknowledgement
\* of an interrupt and the loop over the ring, and who waits for descriptors gets
\* them (virtio_disk.c:216-221, 293-312).
NobodyWaitsForEver == \A p \in Callers : Waits(p) ~> ~Waits(p)
=============================================================================
