------------------------------- MODULE Virtio -------------------------------
(***************************************************************************)
(* The disk driver of kernel/virtio_disk.c and the device it drives.       *)
(*                                                                         *)
(* A request is a chain of three descriptors: the command, the buffer, the *)
(* status byte.  A process puts one together under vdisk_lock, submits it  *)
(* and sleeps; the device completes the submitted chains in any order; the *)
(* interrupt handler wakes the processes.  A section under vdisk_lock is   *)
(* one action, but for the interrupt handler: between its acknowledgement  *)
(* and its loop the device, which knows no lock, may complete more.        *)
(*                                                                         *)
(* A caller has the buffer locked, and no two buffers are for one block    *)
(* (see Bio): process p's buffer and its block are both called p.  The     *)
(* rings hold NUM entries and are never full, a request being three        *)
(* descriptors: avail is the set of the heads the device has not completed,*)
(* used the sequence of the heads the driver has not seen completed.       *)
(***************************************************************************)
EXTENDS Naturals, FiniteSets, Sequences, SequencesExt

CONSTANTS
  Callers,  \* processes in virtio_disk_rw(), with a buffer each
  KillSet,  \* those that may be killed
  Vals,     \* contents of a block
  NUM,      \* 8 descriptors
  NoBuf     \* a null pointer

\* Assumed where the module is instantiated (Storage).
Parameters ==
  /\ Callers # {} /\ Vals # {} /\ NoBuf \notin Callers
  /\ KillSet \subseteq Callers
  /\ NUM \in Nat /\ NUM > 2

VARIABLES
  free,     \* disk.free: the descriptors that are
  desc,     \* the command (at the head of a chain), where a descriptor points
            \* to, and the next of its chain
  info,     \* disk.info
  avail, used, irq,
  handling, \* the interrupt handler holds vdisk_lock
  bdisk,    \* b->disk
  data,     \* b->data
  block,    \* what is on the disk
  at, head  \* a process: its point in virtio_disk_rw(), and its idx[0]

descVars == <<free, desc, info>>
ringVars == <<avail, used, irq, handling>>
vars == <<descVars, ringVars, bdisk, data, block, at, head>>

Descs == 0 .. NUM - 1
NoDesc == NUM
Cleared == [op |-> "none", addr |-> NoBuf, next |-> NoDesc]

Init ==
  /\ free = Descs
  /\ desc = [i \in Descs |-> Cleared]
  /\ info = [i \in Descs |-> [b |-> NoBuf, status |-> 0]]
  /\ avail = {}
  /\ used = <<>>
  /\ irq = FALSE
  /\ handling = FALSE
  /\ bdisk = [p \in Callers |-> 0]
  /\ \E v \in Vals : block = [p \in Callers |-> v]
  /\ data = block
  /\ at = [p \in Callers |-> "idle"]
  /\ head = [p \in Callers |-> NoDesc]

\* wakeup() of those who sleep at one point: they go on at another.
Woken(from, to) == [p \in Callers |-> IF at[p] = from THEN to ELSE at[p]]

----------------------------------------------------------------------------
(* virtio_disk_rw() *)

\* A caller comes to read its block into a buffer of which the contents v no
\* longer matter, or to write the contents v it has put there.  Where buffer and
\* block agree before the call, the call can show nothing.
Enter(p, op, v) ==
  /\ at[p] = "idle"
  /\ v # block[p]
  /\ data' = [data EXCEPT ![p] = v]
  /\ at' = [at EXCEPT ![p] = op]
  /\ UNCHANGED <<descVars, ringVars, bdisk, block, head>>

Type(p) == IF at[p] = "write" THEN "OUT" ELSE "IN"

\* The n-th free descriptor, as alloc_desc() finds them.
NthFree(n) == CHOOSE i \in free : Cardinality({j \in free : j < i}) = n - 1

\* alloc3_desc() fails: what it has taken it frees again, which wakes all that
\* sleep for descriptors; then p sleeps itself.
AllocFails(p) ==
  /\ ~handling
  /\ at[p] \in {"read", "write"}
  /\ Cardinality(free) < 3
  /\ at' = [q \in Callers |->
              CASE q = p -> IF at[p] = "read" THEN "rsleep" ELSE "wsleep"
                [] at[q] = "rsleep" /\ free # {} -> "read"
                [] at[q] = "wsleep" /\ free # {} -> "write"
                [] OTHER -> at[q]]
  /\ UNCHANGED <<descVars, ringVars, bdisk, data, block, head>>

\* It succeeds: the chain is put together and submitted.
Submit(p) ==
  LET i == NthFree(1)
      j == NthFree(2)
      k == NthFree(3)
  IN
  /\ ~handling
  /\ at[p] \in {"read", "write"}
  /\ Cardinality(free) >= 3
  /\ free' = free \ {i, j, k}
  /\ desc' = [desc EXCEPT ![i] = [op |-> Type(p), addr |-> i, next |-> j],
                          ![j] = [op |-> "none", addr |-> p, next |-> k],
                          ![k] = [op |-> "none", addr |-> i, next |-> NoDesc]]
  /\ info' = [info EXCEPT ![i] = [b |-> p, status |-> 255]]
  /\ bdisk' = [bdisk EXCEPT ![p] = 1]
  /\ avail' = avail \cup {i}
  /\ at' = [at EXCEPT ![p] = "iosleep"]
  /\ head' = [head EXCEPT ![p] = i]
  /\ UNCHANGED <<used, irq, handling, data, block>>

\* Mutant of Chain: the first descriptor only; the others leak.
ChainFirst(i) == {i}

\* The descriptors free_chain(i) frees.
Chain(i) == {i, desc[i].next, desc[desc[i].next].next}

\* Mutant of Finish: whatever woke p, the request is taken for done.
FinishAnyway(p) ==
  /\ ~handling
  /\ at[p] = "wait"
  /\ UNCHANGED info
  /\ free' = free \cup Chain(head[p])
  /\ desc' = [i \in Descs |-> IF i \in Chain(head[p]) THEN Cleared ELSE desc[i]]
  /\ at' = [at EXCEPT ![p] = "idle"]
  /\ head' = [head EXCEPT ![p] = NoDesc]
  /\ UNCHANGED <<ringVars, bdisk, data, block>>

\* Awake, and b->disk is 0: the chain is freed, which wakes the sleepers.
Finish(p) ==
  /\ ~handling
  /\ at[p] = "wait"
  /\ bdisk[p] = 0
  /\ info' = [info EXCEPT ![head[p]].b = NoBuf]
  /\ free' = free \cup Chain(head[p])
  /\ desc' = [i \in Descs |-> IF i \in Chain(head[p]) THEN Cleared ELSE desc[i]]
  /\ at' = [q \in Callers |-> CASE q = p -> "idle"
                                [] at[q] = "rsleep" -> "read"
                                [] at[q] = "wsleep" -> "write"
                                [] OTHER -> at[q]]
  /\ head' = [head EXCEPT ![p] = NoDesc]
  /\ UNCHANGED <<ringVars, bdisk, data, block>>

\* kill() wakes any sleeper, without vdisk_lock.
Kill(p) ==
  /\ p \in KillSet
  /\ at[p] \in {"iosleep", "rsleep", "wsleep"}
  /\ at' = [at EXCEPT ![p] = CASE at[p] = "iosleep" -> "wait"
                               [] at[p] = "rsleep" -> "read"
                               [] at[p] = "wsleep" -> "write"]
  /\ UNCHANGED <<descVars, ringVars, bdisk, data, block, head>>

\* Awake, and the request is not done: while(b->disk == 1).
SleepAgain(p) ==
  /\ ~handling
  /\ at[p] = "wait"
  /\ bdisk[p] = 1
  /\ at' = [at EXCEPT ![p] = "iosleep"]
  /\ UNCHANGED <<descVars, ringVars, bdisk, data, block, head>>

----------------------------------------------------------------------------
(* The device *)

\* It follows the chain, moves the data, writes the status, puts the head into
\* the used ring and raises its interrupt.
Complete(h) ==
  LET second == desc[h].next
      b == desc[second].addr
      status == desc[desc[second].next].addr
  IN
  /\ h \in avail
  /\ IF desc[h].op = "OUT"
     THEN block' = [block EXCEPT ![b] = data[b]] /\ UNCHANGED data
     ELSE data' = [data EXCEPT ![b] = block[b]] /\ UNCHANGED block
  /\ info' = [info EXCEPT ![status].status = 0]
  /\ avail' = avail \ {h}
  /\ used' = Append(used, h)
  /\ irq' = TRUE
  /\ UNCHANGED <<free, desc, handling, bdisk, at, head>>

----------------------------------------------------------------------------
(* virtio_disk_intr() *)

Acknowledge ==
  /\ irq
  /\ ~handling
  /\ irq' = FALSE
  /\ handling' = TRUE
  /\ UNCHANGED <<descVars, avail, used, bdisk, data, block, at, head>>

\* Mutant of HandleUsed: one completion for each interrupt.
HandleOne ==
  /\ handling
  /\ handling' = FALSE
  /\ LET done == IF used = <<>> THEN {} ELSE {info[Head(used)].b} IN
     /\ bdisk' = [p \in Callers |-> IF p \in done THEN 0 ELSE bdisk[p]]
     /\ at' = [p \in Callers |-> IF p \in done /\ at[p] = "iosleep" THEN "wait" ELSE at[p]]
  /\ used' = IF used = <<>> THEN used ELSE Tail(used)
  /\ UNCHANGED <<descVars, avail, irq, data, block, head>>

\* All entries of the used ring: their buffers are the processes' again.
HandleUsed ==
  /\ handling
  /\ handling' = FALSE
  /\ LET done == {info[h].b : h \in ToSet(used)} IN
     /\ bdisk' = [p \in Callers |-> IF p \in done THEN 0 ELSE bdisk[p]]
     /\ at' = [p \in Callers |-> IF p \in done /\ at[p] = "iosleep" THEN "wait" ELSE at[p]]
  /\ used' = <<>>
  /\ UNCHANGED <<descVars, avail, irq, data, block, head>>

----------------------------------------------------------------------------

Inside(p) == AllocFails(p) \/ Submit(p) \/ Finish(p) \/ SleepAgain(p)

Device == \E h \in Descs : Complete(h)

Interrupt == Acknowledge \/ HandleUsed

Next ==
  \/ \E p \in Callers :
       \/ \E op \in {"read", "write"}, v \in Vals : Enter(p, op, v)
       \/ Inside(p)
       \/ Kill(p)
  \/ Device
  \/ Interrupt

Spec == Init /\ [][Next]_vars

\* What brings p's request on: p goes on, or the device does what p submitted.
Progress(p) == Submit(p) \/ Finish(p) \/ \E h \in Descs : head[p] = h /\ Complete(h)

\* Strong for p, which competes for descriptors and for vdisk_lock.
Fairness == WF_vars(Interrupt) /\ \A p \in Callers : SF_vars(Progress(p))

FairSpec == Spec /\ Fairness

----------------------------------------------------------------------------

\* Every variable keeps its type.
TypeOK ==
  /\ free \in SUBSET Descs
  /\ desc \in [Descs -> [op : {"IN", "OUT", "none"}, addr : Callers \cup Descs \cup {NoBuf},
                       next : Descs \cup {NoDesc}]]
  /\ info \in [Descs -> [b : Callers \cup {NoBuf}, status : {0, 255}]]
  /\ avail \in SUBSET Descs /\ used \in Seq(Descs)
  /\ irq \in BOOLEAN /\ handling \in BOOLEAN
  /\ bdisk \in [Callers -> {0, 1}]
  /\ data \in [Callers -> Vals] /\ block \in [Callers -> Vals]
  /\ at \in [Callers -> {"idle", "read", "write", "rsleep", "wsleep", "iosleep", "wait"}]
  /\ head \in [Callers -> Descs \cup {NoDesc}]

\* A descriptor is free, or in the chain of one process that waits for its
\* request: none is reused too early, given out twice or leaked
\* (virtio_disk.c:143-201, 276-277).
OneChainEach ==
  LET waiting == {p \in Callers : at[p] \in {"iosleep", "wait"}} IN
  /\ \A p \in waiting : Cardinality(Chain(head[p])) = 3
  /\ \A p, q \in waiting : p # q => Chain(head[p]) \cap Chain(head[q]) = {}
  /\ free = Descs \ UNION {Chain(head[p]) : p \in waiting}

\* What the interrupt handler finds in the used ring is a request that succeeded
\* and that a process still waits for: it neither panics on the status nor
\* follows a null info[id].b (virtio_disk.c:302-309).
KnownCompletion ==
  \A h \in ToSet(used) :
    /\ info[h].status = 0
    /\ \E p \in Callers : info[h].b = p /\ head[p] = h /\ bdisk[p] = 1

\* The descriptors and the rings agree with the processes that wait, so that
\* no interrupt meets a request it does not know (virtio_disk.c:143-201, 276-309).
RequestsKnown == OneChainEach /\ KnownCompletion

\* When virtio_disk_rw() returns, block and buffer agree: the device has done
\* what was asked, out of order, after spurious wakeups and with several
\* completions in one interrupt or not (virtio_disk.c:271-274).
DoneOnReturn ==
  [][\A p \in Callers :
       at[p] = "wait" /\ at'[p] = "idle" => data[p] = block[p]]_vars

InRequest(p) == at[p] # "idle"
=============================================================================
