-------------------------------- MODULE Pipe --------------------------------
(***************************************************************************)
(* A pipe of kernel/pipe.c, the processes that share its two ends, and     *)
(* kill().  pi->lock is a variable: pipewrite() and piperead() keep it     *)
(* over their loops and give it away only in sleep(), but kill() does not  *)
(* take it, so a process may be killed between any two turns of a loop.    *)
(*                                                                         *)
(* The end-points of the pipe are two struct file; their counts are the    *)
(* processes that have them open.  A process inside a call keeps its end.  *)
(***************************************************************************)
EXTENDS Naturals, FiniteSets

CONSTANTS
  Procs,
  First,      \* the process that called pipe()
  KillSet,    \* those that may be killed
  Bytes,
  PIPESIZE,   \* 512
  WORD,       \* uint: 2^32
  MaxN,       \* bound: the most bytes in a call
  NoProc

\* Assumed where the module is instantiated (Endpoints).
Parameters ==
  /\ First \in Procs /\ NoProc \notin Procs
  /\ KillSet \subseteq Procs
  /\ Bytes # {}
  /\ PIPESIZE \in Nat \ {0}
  /\ MaxN \in Nat
  /\ WORD \in Nat /\ WORD > PIPESIZE + 1 /\ WORD % PIPESIZE = 0

VARIABLES
  data, nread, nwrite, readopen, writeopen,
  lock,      \* pi->lock
  rd, wr,    \* who has the read end, the write end open
  pc,        \* where a process is: "user", or inside a call
  left,      \* n - i, or 0 outside of a call
  killed

pipe == <<data, nread, nwrite, readopen, writeopen>>
vars == <<pipe, lock, rd, wr, pc, left, killed>>

Init ==
  /\ data \in {[k \in 0 .. PIPESIZE - 1 |-> x] : x \in Bytes}
  /\ nread = 0
  /\ nwrite = 0
  /\ readopen = TRUE
  /\ writeopen = TRUE
  /\ lock = NoProc
  /\ rd = {First}
  /\ wr = {First}
  /\ pc = [p \in Procs |-> "user"]
  /\ left = [p \in Procs |-> 0]
  /\ killed = [p \in Procs |-> FALSE]

Empty == nread = nwrite

Full == nwrite = (nread + PIPESIZE) % WORD

\* pc when the sleepers at point "from" have been woken: they want the lock.
Woken(from, to) == [q \in Procs |-> IF pc[q] = from THEN to ELSE pc[q]]

WakeReaders == Woken("rsleep", "rlock")    \* wakeup(&pi->nread)
WakeWriters == Woken("wsleep", "wlock")    \* wakeup(&pi->nwrite)

\* Process p, inside a call, goes on to point at.
Goto(p, at) == pc' = [pc EXCEPT ![p] = at]

----------------------------------------------------------------------------
(* pipewrite() *)

Write(p, n) ==
  /\ pc[p] = "user"
  /\ p \in wr
  /\ ~killed[p]
  /\ Goto(p, "wlock")
  /\ left' = [left EXCEPT ![p] = n]
  /\ UNCHANGED <<pipe, lock, rd, wr, killed>>

\* acquire(), at the beginning or at the end of sleep().
WriteLock(p) ==
  /\ pc[p] = "wlock"
  /\ lock = NoProc
  /\ lock' = p
  /\ Goto(p, "wloop")
  /\ UNCHANGED <<pipe, rd, wr, left, killed>>

\* All is written: the readers are woken.
WriteDone(p) ==
  /\ pc[p] = "wloop"
  /\ left[p] = 0
  /\ lock' = NoProc
  /\ pc' = [WakeReaders EXCEPT ![p] = "user"]
  /\ UNCHANGED <<pipe, rd, wr, left, killed>>

\* No reader is left, or p is killed: -1.
WriteRefused(p) ==
  /\ pc[p] = "wloop"
  /\ left[p] > 0
  /\ ~readopen \/ killed[p]
  /\ lock' = NoProc
  /\ Goto(p, "user")
  /\ left' = [left EXCEPT ![p] = 0]
  /\ UNCHANGED <<pipe, rd, wr, killed>>

\* Mutant of WriteTest: p writes on when nobody can read.
WriteTestKilled(p) ==
  /\ pc[p] = "wloop"
  /\ left[p] > 0
  /\ ~killed[p]
  /\ Goto(p, "wbody")
  /\ UNCHANGED <<pipe, lock, rd, wr, left, killed>>

WriteTest(p) ==
  /\ pc[p] = "wloop"
  /\ left[p] > 0
  /\ readopen /\ ~killed[p]
  /\ Goto(p, "wbody")
  /\ UNCHANGED <<pipe, lock, rd, wr, left, killed>>

\* Mutant of WriteFull: sleep without a wakeup of the readers.
WriteFullSilent(p) ==
  /\ pc[p] = "wbody"
  /\ Full
  /\ lock' = NoProc
  /\ Goto(p, "wsleep")
  /\ UNCHANGED <<pipe, rd, wr, left, killed>>

WriteFull(p) ==
  /\ pc[p] = "wbody"
  /\ Full
  /\ lock' = NoProc
  /\ pc' = [WakeReaders EXCEPT ![p] = "wsleep"]
  /\ UNCHANGED <<pipe, rd, wr, left, killed>>

WriteByte(p, x) ==
  /\ pc[p] = "wbody"
  /\ ~Full
  /\ data' = [data EXCEPT ![nwrite % PIPESIZE] = x]
  /\ nwrite' = (nwrite + 1) % WORD
  /\ left' = [left EXCEPT ![p] = @ - 1]
  /\ Goto(p, "wloop")
  /\ UNCHANGED <<nread, readopen, writeopen, lock, rd, wr, killed>>

\* copyin() fails: the call ends with what has been written.
WriteFault(p) ==
  /\ pc[p] = "wbody"
  /\ ~Full
  /\ lock' = NoProc
  /\ pc' = [WakeReaders EXCEPT ![p] = "user"]
  /\ left' = [left EXCEPT ![p] = 0]
  /\ UNCHANGED <<pipe, rd, wr, killed>>

----------------------------------------------------------------------------
(* piperead() *)

Read(p, n) ==
  /\ pc[p] = "user"
  /\ p \in rd
  /\ ~killed[p]
  /\ Goto(p, "rlock")
  /\ left' = [left EXCEPT ![p] = n]
  /\ UNCHANGED <<pipe, lock, rd, wr, killed>>

ReadLock(p) ==
  /\ pc[p] = "rlock"
  /\ lock = NoProc
  /\ lock' = p
  /\ Goto(p, "rloop")
  /\ UNCHANGED <<pipe, rd, wr, left, killed>>

MustWait == Empty /\ writeopen

ReadRefused(p) ==
  /\ pc[p] = "rloop"
  /\ MustWait
  /\ killed[p]
  /\ lock' = NoProc
  /\ Goto(p, "user")
  /\ left' = [left EXCEPT ![p] = 0]
  /\ UNCHANGED <<pipe, rd, wr, killed>>

ReadTest(p) ==
  /\ pc[p] = "rloop"
  /\ MustWait => ~killed[p]
  /\ Goto(p, IF MustWait THEN "rwait" ELSE "rcopy")
  /\ UNCHANGED <<pipe, lock, rd, wr, left, killed>>

ReadSleep(p) ==
  /\ pc[p] = "rwait"
  /\ lock' = NoProc
  /\ Goto(p, "rsleep")
  /\ UNCHANGED <<pipe, rd, wr, left, killed>>

\* A byte leaves the pipe whether or not copyout() puts it anywhere; if it does
\* not, the loop ends.
ReadByte(p, ok) ==
  /\ pc[p] = "rcopy"
  /\ left[p] > 0 /\ ~Empty
  /\ nread' = (nread + 1) % WORD
  /\ left' = [left EXCEPT ![p] = IF ok THEN @ - 1 ELSE 0]
  /\ UNCHANGED <<data, nwrite, readopen, writeopen, lock, rd, wr, pc, killed>>

ReadDone(p) ==
  /\ pc[p] = "rcopy"
  /\ left[p] = 0 \/ Empty
  /\ lock' = NoProc
  /\ pc' = [WakeWriters EXCEPT ![p] = "user"]
  /\ left' = [left EXCEPT ![p] = 0]
  /\ UNCHANGED <<pipe, rd, wr, killed>>

----------------------------------------------------------------------------
(* fork(), close() and exit(), kill() *)

\* Process q is a child of p, or a child of such a child: fork() has copied
\* p's open files.
Inherit(p, q) ==
  /\ pc[p] = "user" /\ pc[q] = "user"
  /\ q \notin rd \cup wr
  /\ p \in rd \cup wr
  /\ ~killed[q]
  /\ rd' = IF p \in rd THEN rd \cup {q} ELSE rd
  /\ wr' = IF p \in wr THEN wr \cup {q} ELSE wr
  /\ UNCHANGED <<pipe, lock, pc, left, killed>>

\* Mutant of LastOf: the end is closed for everybody.
LastOfAny(end) == TRUE

LastOf(end) == Cardinality(end) = 1

\* fileclose() counts down; for the last process it goes on to pipeclose(), with
\* no lock in between.
CloseRead(p) ==
  /\ pc[p] = "user"
  /\ p \in rd
  /\ rd' = rd \ {p}
  /\ Goto(p, IF LastOf(rd) THEN "rclose" ELSE "user")
  /\ UNCHANGED <<pipe, lock, wr, left, killed>>

CloseWrite(p) ==
  /\ pc[p] = "user"
  /\ p \in wr
  /\ wr' = wr \ {p}
  /\ Goto(p, IF LastOf(wr) THEN "wclose" ELSE "user")
  /\ UNCHANGED <<pipe, lock, rd, left, killed>>

\* pipeclose(), which wakes whoever sleeps at the other end.
PipeCloseRead(p) ==
  /\ pc[p] = "rclose"
  /\ lock = NoProc
  /\ readopen' = FALSE
  /\ pc' = [WakeWriters EXCEPT ![p] = "user"]
  /\ UNCHANGED <<data, nread, nwrite, writeopen, lock, rd, wr, left, killed>>

\* Mutant of PipeCloseWrite: no wakeup.
PipeCloseSilent(p) ==
  /\ pc[p] = "wclose"
  /\ lock = NoProc
  /\ writeopen' = FALSE
  /\ Goto(p, "user")
  /\ UNCHANGED <<data, nread, nwrite, readopen, lock, rd, wr, left, killed>>

PipeCloseWrite(p) ==
  /\ pc[p] = "wclose"
  /\ lock = NoProc
  /\ writeopen' = FALSE
  /\ pc' = [WakeReaders EXCEPT ![p] = "user"]
  /\ UNCHANGED <<data, nread, nwrite, readopen, lock, rd, wr, left, killed>>

Kill(p) ==
  /\ p \in KillSet
  /\ ~killed[p]
  /\ killed' = [killed EXCEPT ![p] = TRUE]
  /\ Goto(p, CASE pc[p] = "rsleep" -> "rlock"
               [] pc[p] = "wsleep" -> "wlock"
               [] OTHER -> pc[p])
  /\ UNCHANGED <<pipe, lock, rd, wr, left>>

----------------------------------------------------------------------------

WriteStep(p) ==
  \/ WriteLock(p) \/ WriteDone(p) \/ WriteRefused(p) \/ WriteTest(p)
  \/ WriteFull(p) \/ WriteFault(p)
  \/ \E x \in Bytes : WriteByte(p, x)

ReadStep(p) ==
  \/ ReadLock(p) \/ ReadRefused(p) \/ ReadTest(p) \/ ReadSleep(p) \/ ReadDone(p)
  \/ \E ok \in BOOLEAN : ReadByte(p, ok)

Close(p) == CloseRead(p) \/ CloseWrite(p)

PipeClose(p) == PipeCloseRead(p) \/ PipeCloseWrite(p)

Next ==
  \E p \in Procs :
    \/ \E n \in 0 .. MaxN : Write(p, n) \/ Read(p, n)
    \/ WriteStep(p) \/ ReadStep(p)
    \/ \E q \in Procs : Inherit(p, q)
    \/ Close(p) \/ PipeClose(p)
    \/ Kill(p)

Spec == Init /\ [][Next]_vars

\* What p does when left to itself: it goes on inside a call, and exits, which
\* closes its ends, once it has been killed.
Continue(p) ==
  WriteStep(p) \/ ReadStep(p) \/ PipeClose(p) \/ (killed[p] /\ Close(p))

\* Strong, as p competes for the lock of the pipe.
Fairness == \A p \in Procs : SF_vars(Continue(p))

FairSpec == Spec /\ Fairness

----------------------------------------------------------------------------

Count == (nwrite + WORD - nread) % WORD

\* Every variable keeps its type, and the counters, which wrap, are never more
\* than PIPESIZE apart.
TypeOK ==
  /\ data \in [0 .. PIPESIZE - 1 -> Bytes]
  /\ nread \in 0 .. WORD - 1
  /\ nwrite \in 0 .. WORD - 1
  /\ Count <= PIPESIZE
  /\ readopen \in BOOLEAN /\ writeopen \in BOOLEAN
  /\ lock \in Procs \cup {NoProc}
  /\ rd \in SUBSET Procs /\ wr \in SUBSET Procs
  /\ pc \in [Procs -> {"user", "wlock", "wloop", "wbody", "wsleep",
                       "rlock", "rloop", "rwait", "rcopy", "rsleep",
                       "rclose", "wclose"}]
  /\ left \in [Procs -> 0 .. MaxN]
  /\ killed \in [Procs -> BOOLEAN]

\* The page of the pipe, which pipeclose() frees when both ends are closed, is
\* not in use by a call: the writer has closed nothing, nor has the reader
\* (pipe.c:58-74).
OpenWhileUsed ==
  \A p \in Procs :
    /\ pc[p] \in {"wlock", "wloop", "wbody", "wsleep"} => writeopen
    /\ pc[p] \in {"rlock", "rloop", "rwait", "rcopy", "rsleep"} => readopen

\* Nobody sleeps for what is there: a sleeping reader has nothing to read
\* (pipe.c:110, "pipe-empty"), a sleeping writer no room (pipe.c:89,
\* "pipewrite-full"), as soon as the lock is free.  This is so until somebody is
\* killed: pipewrite() returns without a wakeup then (pipe.c:85-88).
NoLostWakeup ==
  lock = NoProc /\ (\A p \in Procs : ~killed[p]) =>
    \A p \in Procs :
      /\ pc[p] = "rsleep" => Empty /\ writeopen
      /\ pc[p] = "wsleep" => Full /\ readopen

\* In a call, with no writer left: a read has come to the end of the file.
AtEndOfFile(p) == pc[p] # "user" /\ ~writeopen

\* The ring is a bounded queue.
Queue == INSTANCE BoundedQueue WITH
  Capacity <- PIPESIZE,
  queue <- [k \in 1 .. Count |-> data[(nread + k - 1) % PIPESIZE]]

QueueSpec == Queue!Spec
=============================================================================
