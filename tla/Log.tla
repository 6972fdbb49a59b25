-------------------------------- MODULE Log ---------------------------------
(***************************************************************************)
(* The log of kernel/log.c: file system calls run between begin_op() and   *)
(* end_op(); log_write() puts the blocks they change on a list and pins    *)
(* them in the buffer cache; the last end_op() copies them to the log area *)
(* of the disk, commits by writing the header, installs them at their home *)
(* locations and erases the header.  The machine may crash between any two *)
(* disk writes, recovery included.                                         *)
(*                                                                         *)
(* A critical section of log.lock is one action; a commit holds no lock    *)
(* and is one action per disk write.  The write of a block is atomic.  A   *)
(* process changes a block and calls log_write() while it has the buffer   *)
(* locked, which is one action too.                                        *)
(***************************************************************************)
EXTENDS Naturals, Sequences, FiniteSets

CONSTANTS
  Procs,
  Blocks,       \* home blocks
  Vals,         \* contents of a block
  Absent,       \* not in the buffer cache
  MAXOPBLOCKS,  \* how many blocks a file system call writes
  LOGSIZE,
  SIZE          \* sb.nlog, the blocks of the log area with the header:
                \* LOGSIZE in mkfs.c

\* Assumed where the module is instantiated (Storage).
Parameters ==
  /\ MAXOPBLOCKS \in Nat
  /\ LOGSIZE \in Nat
  /\ SIZE \in Nat \ {0}
  /\ SIZE <= LOGSIZE + 1
  /\ Absent \notin Vals

VARIABLES
  home, hdr, logblk,           \* on disk: the blocks, the header, the log
  cache,                       \* the buffers of the home blocks,
  pin,                         \* and their bpin() counts
  lh, outstanding, committing, \* log.lh and its counters
  boot,                        \* "read", "install", "erase", or "up"
  pc,                          \* where a process is
  tail,                        \* the loop variable of whoever commits
  used                         \* history: the blocks a call has written

disk == <<home, hdr, logblk>>
mem == <<cache, pin, lh, outstanding, committing>>
vars == <<disk, mem, boot, pc, tail, used>>

Tails == 1 .. SIZE - 1

\* What bread() returns.
Content(b) == IF cache[b] = Absent THEN home[b] ELSE cache[b]

Init ==
  /\ home \in [Blocks -> Vals]
  /\ hdr = <<>>
  /\ logblk \in {[t \in Tails |-> v] : v \in Vals}
  /\ cache = [b \in Blocks |-> Absent]
  /\ pin = [b \in Blocks |-> 0]
  /\ lh = <<>>
  /\ outstanding = 0
  /\ committing = FALSE
  /\ boot = "read"
  /\ pc = [p \in Procs |-> "idle"]
  /\ tail = 1
  /\ used = [p \in Procs |-> {}]

\* pc when wakeup(&log) has been called.
WokenUp == [p \in Procs |-> IF pc[p] = "asleep" THEN "begin" ELSE pc[p]]

----------------------------------------------------------------------------
(* begin_op() *)

\* Mutant of NoRoom: the calls that are outstanding are not counted.
NoRoomForOne == Len(lh) + MAXOPBLOCKS > LOGSIZE

NoRoom == Len(lh) + (outstanding + 1) * MAXOPBLOCKS > LOGSIZE

\* Mutant of MustWait: a commit may be on its way.
MustWaitForRoom == NoRoom

MustWait == committing \/ NoRoom

Call(p) ==
  /\ boot = "up"
  /\ pc[p] = "idle"
  /\ pc' = [pc EXCEPT ![p] = "begin"]
  /\ UNCHANGED <<disk, mem, boot, tail, used>>

BeginSleep(p) ==
  /\ pc[p] = "begin"
  /\ MustWait
  /\ pc' = [pc EXCEPT ![p] = "asleep"]
  /\ UNCHANGED <<disk, mem, boot, tail, used>>

Begin(p) ==
  /\ pc[p] = "begin"
  /\ ~MustWait
  /\ outstanding' = outstanding + 1
  /\ pc' = [pc EXCEPT ![p] = "op"]
  /\ used' = [used EXCEPT ![p] = {}]
  /\ UNCHANGED <<disk, cache, pin, lh, committing, boot, tail>>

----------------------------------------------------------------------------
(* log_write(b), of a block that now holds v *)

Logged(b) == \E t \in 1 .. Len(lh) : lh[t] = b

TooBig == Len(lh) >= LOGSIZE \/ Len(lh) >= SIZE - 1

\* param.h: "max # of blocks any FS op writes".
WithinOp(p, b) == b \in used[p] \/ Cardinality(used[p]) < MAXOPBLOCKS

Pin(b) == IF Logged(b) THEN pin ELSE [pin EXCEPT ![b] = @ + 1]

LogWrite(p, b, v) ==
  /\ pc[p] = "op"
  /\ WithinOp(p, b)
  /\ ~TooBig
  /\ cache' = [cache EXCEPT ![b] = v]
  /\ lh' = IF Logged(b) THEN lh ELSE Append(lh, b)
  /\ pin' = Pin(b)
  /\ used' = [used EXCEPT ![p] = @ \cup {b}]
  /\ UNCHANGED <<disk, outstanding, committing, boot, pc, tail>>

----------------------------------------------------------------------------
(* end_op() and commit() *)

\* Others are still at work: their reservations have shrunk.
EndOpFirst(p) ==
  /\ outstanding > 1
  /\ pc' = [WokenUp EXCEPT ![p] = "idle"]
  /\ UNCHANGED <<committing, tail>>

\* Mutant of EndOpLast: a single block is not worth a commit.
EndOpUncommitted(p) ==
  /\ outstanding = 1
  /\ committing' = TRUE
  /\ tail' = 1
  /\ pc' = [pc EXCEPT ![p] = IF Len(lh) <= 1 THEN "leave" ELSE "log"]

EndOpLast(p) ==
  /\ outstanding = 1
  /\ committing' = TRUE
  /\ tail' = 1
  /\ pc' = [pc EXCEPT ![p] = IF lh = <<>> THEN "leave" ELSE "log"]

EndOp(p) ==
  /\ pc[p] = "op"
  /\ outstanding' = outstanding - 1
  /\ EndOpFirst(p) \/ EndOpLast(p)
  /\ UNCHANGED <<disk, cache, pin, lh, boot, used>>

\* The committer goes on to the next block of the list, or to point next.
Loop(p, here, next) ==
  /\ pc[p] = here
  /\ tail' = IF tail = Len(lh) THEN 1 ELSE tail + 1
  /\ pc' = [pc EXCEPT ![p] = IF tail = Len(lh) THEN next ELSE here]

WriteLog(p) ==
  /\ Loop(p, "log", "head")
  /\ logblk' = [logblk EXCEPT ![tail] = Content(lh[tail])]
  /\ UNCHANGED <<home, hdr, mem, boot, used>>

\* The point of commit.
WriteHead(p) ==
  /\ pc[p] = "head"
  /\ hdr' = lh
  /\ pc' = [pc EXCEPT ![p] = "install"]
  /\ UNCHANGED <<home, logblk, mem, boot, tail, used>>

\* One turn of install_trans(), without the bunpin().
InstallBlock ==
  /\ home' = [home EXCEPT ![lh[tail]] = logblk[tail]]
  /\ cache' = [cache EXCEPT ![lh[tail]] = logblk[tail]]

Install(p) ==
  /\ Loop(p, "install", "erase")
  /\ InstallBlock
  /\ pin' = [pin EXCEPT ![lh[tail]] = @ - 1]
  /\ UNCHANGED <<hdr, logblk, lh, outstanding, committing, boot, used>>

Erase(p) ==
  /\ pc[p] = "erase"
  /\ lh' = <<>>
  /\ hdr' = <<>>
  /\ pc' = [pc EXCEPT ![p] = "leave"]
  /\ UNCHANGED <<home, logblk, cache, pin, outstanding, committing, boot, tail, used>>

\* Mutant of Leave: no wakeup after the commit.
LeaveSilent(p) ==
  /\ pc[p] = "leave"
  /\ committing' = FALSE
  /\ pc' = [pc EXCEPT ![p] = "idle"]
  /\ UNCHANGED <<disk, cache, pin, lh, outstanding, boot, tail, used>>

\* end_op() returns after a commit.
Leave(p) ==
  /\ pc[p] = "leave"
  /\ committing' = FALSE
  /\ pc' = [WokenUp EXCEPT ![p] = "idle"]
  /\ UNCHANGED <<disk, cache, pin, lh, outstanding, boot, tail, used>>

----------------------------------------------------------------------------
(* The buffer cache reuses a buffer that nobody has. *)

Evictable(b) == cache[b] # Absent /\ pin[b] = 0

Evict(b) ==
  /\ Evictable(b)
  /\ cache' = [cache EXCEPT ![b] = Absent]
  /\ UNCHANGED <<disk, pin, lh, outstanding, committing, boot, pc, tail, used>>

----------------------------------------------------------------------------
(* Crashes and recovery *)

\* Memory is lost.
Restart ==
  /\ cache' = [b \in Blocks |-> Absent]
  /\ pin' = [b \in Blocks |-> 0]
  /\ lh' = <<>>
  /\ outstanding' = 0
  /\ committing' = FALSE
  /\ boot' = "read"
  /\ pc' = [p \in Procs |-> "idle"]
  /\ tail' = 1
  /\ used' = [p \in Procs |-> {}]
  /\ UNCHANGED disk

Crash == Restart

\* log_write() panics even if it would not need another block.
Panic(p, b) ==
  /\ pc[p] = "op"
  /\ WithinOp(p, b)
  /\ TooBig
  /\ Restart

ReadHead ==
  /\ boot = "read"
  /\ lh' = hdr
  /\ boot' = IF hdr = <<>> THEN "erase" ELSE "install"
  /\ UNCHANGED <<disk, cache, pin, outstanding, committing, pc, tail, used>>

\* Mutant of RecoverInstall: the loop ends after one block.
RecoverInstallOne ==
  /\ boot = "install"
  /\ InstallBlock
  /\ boot' = "erase"
  /\ UNCHANGED <<hdr, logblk, pin, lh, outstanding, committing, pc, tail, used>>

RecoverInstall ==
  /\ boot = "install"
  /\ InstallBlock
  /\ tail' = IF tail = Len(lh) THEN 1 ELSE tail + 1
  /\ boot' = IF tail = Len(lh) THEN "erase" ELSE "install"
  /\ UNCHANGED <<hdr, logblk, pin, lh, outstanding, committing, pc, used>>

RecoverErase ==
  /\ boot = "erase"
  /\ lh' = <<>>
  /\ hdr' = <<>>
  /\ boot' = "up"
  /\ UNCHANGED <<home, logblk, cache, pin, outstanding, committing, pc, tail, used>>

----------------------------------------------------------------------------

CommitStep(p) == WriteLog(p) \/ WriteHead(p) \/ Install(p) \/ Erase(p) \/ Leave(p)

Recover == ReadHead \/ RecoverInstall \/ RecoverErase

Next ==
  \/ \E p \in Procs :
       \/ Call(p) \/ BeginSleep(p) \/ Begin(p) \/ EndOp(p) \/ CommitStep(p)
       \/ \E b \in Blocks : Panic(p, b) \/ \E v \in Vals : LogWrite(p, b, v)
  \/ \E b \in Blocks : Evict(b)
  \/ Crash
  \/ Recover

Spec == Init /\ [][Next]_vars

\* A file system call ends, a commit and a recovery go on, and a process in
\* begin_op() gets log.lock again and again.
Fairness ==
  /\ WF_vars(Recover)
  /\ \A p \in Procs :
       /\ WF_vars(EndOp(p))
       /\ WF_vars(CommitStep(p))
       /\ WF_vars(BeginSleep(p))
       /\ SF_vars(Begin(p))

FairSpec == Spec /\ Fairness

----------------------------------------------------------------------------

\* Every variable keeps its type; nobody pins a block twice.
TypeOK ==
  /\ home \in [Blocks -> Vals]
  /\ hdr \in Seq(Blocks) /\ Len(hdr) < SIZE
  /\ logblk \in [Tails -> Vals]
  /\ cache \in [Blocks -> Vals \cup {Absent}]
  /\ pin \in [Blocks -> {0, 1}]
  /\ lh \in Seq(Blocks) /\ Len(lh) < SIZE
  /\ outstanding \in 0 .. Cardinality(Procs)
  /\ committing \in BOOLEAN
  /\ boot \in {"read", "install", "erase", "up"}
  /\ pc \in [Procs -> {"idle", "begin", "asleep", "op",
                       "log", "head", "install", "erase", "leave"}]
  /\ tail \in Nat \ {0}
  /\ used \in [Procs -> SUBSET Blocks]

InOp == {p \in Procs : pc[p] = "op"}
Committers == {p \in Procs : pc[p] \in {"log", "head", "install", "erase", "leave"}}

\* Nobody is inside a file system call while the log commits ("there is never
\* any reasoning required about whether a commit might write an uncommitted
\* system call's updates to disk", log.c:12-16), and at most one commits.
CommitAlone ==
  Committers # {} => InOp = {} /\ Cardinality(Committers) = 1 /\ committing

\* The blocks the calls may still write, a pair for each.
Spare == {a \in InOp \X (1 .. MAXOPBLOCKS) : a[2] > Cardinality(used[a[1]])}

\* begin_op() has kept room for what the calls may still write (log.c:133).
Reserved == Len(lh) + Cardinality(Spare) <= LOGSIZE

\* What recovery makes of the disk as it is.
Recovered ==
  [b \in Blocks |->
     IF \E t \in 1 .. Len(hdr) : hdr[t] = b
     THEN logblk[CHOOSE t \in 1 .. Len(hdr) : hdr[t] = b]
     ELSE home[b]]

\* When the end_op() that commits returns, a crash would lose nothing of what
\* was written (log.c:147-175).
CommittedOnReturn ==
  [][\A p \in Procs :
       pc[p] = "leave" /\ pc'[p] = "idle" /\ boot' = "up"
         => Recovered = [b \in Blocks |-> Content(b)]]_vars

\* In begin_op().
Waits(p) == pc[p] \in {"begin", "asleep"}

\* The log implements an atomic disk, crashes at every point included.
Disk == INSTANCE AtomicDisk WITH
  durable <- Recovered,
  view    <- IF boot = "up" THEN [b \in Blocks |-> Content(b)] ELSE Recovered,
  active  <- InOp

DiskSpec == Disk!Spec
=============================================================================
