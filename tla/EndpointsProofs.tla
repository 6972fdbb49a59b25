--------------------------- MODULE EndpointsProofs ----------------------------
(***************************************************************************)
(* Proofs about Endpoints: the pipe with its counters and its ring, its    *)
(* ends and the calls that use them, its sleepers, and that it is a        *)
(* bounded queue; then the console's two halves and the clock; for any     *)
(* number of processes and any sizes.                                      *)
(***************************************************************************)
EXTENDS Endpoints, Numbers, FiniteSetTheorems, SequenceTheorems

----------------------------------------------------------------------------
(* The pipe by itself *)

Writing == {"wlock", "wloop", "wbody", "wsleep"}
Reading == {"rlock", "rloop", "rwait", "rcopy", "rsleep"}

\* Where a process has pi->lock.
Holding == {"wloop", "wbody", "rloop", "rwait", "rcopy"}

\* pi->lock is with the one that goes round in a loop.
PipeLockInv == \A p \in Procs : pc[p] \in Holding <=> lock = p

\* An end is open while a process has it; a call has it, and pipeclose() is on
\* its way only when nobody has.
PipeEndsInv ==
  /\ IsFiniteSet(rd) /\ IsFiniteSet(wr)
  /\ rd # {} => readopen
  /\ wr # {} => writeopen
  /\ \A p \in Procs :
       /\ pc[p] \in Writing => p \in wr
       /\ pc[p] \in Reading => p \in rd
       /\ pc[p] = "rclose" => rd = {}
       /\ pc[p] = "wclose" => wr = {}

\* What a loop has found out under the lock is so while it keeps the lock.
PipeLoopInv ==
  \A p \in Procs :
    /\ pc[p] = "wbody" => readopen /\ left[p] > 0
    /\ pc[p] = "rwait" => APipe!MustWait

\* Who sleeps has been right to, or somebody at work at the pipe will wake it
\* before giving the lock away.
PipeSleepInv ==
  (\A p \in Procs : ~killed[p]) =>
    \A p \in Procs :
      /\ pc[p] = "rsleep" => /\ writeopen
                             /\ APipe!Empty \/ \E q \in Procs : pc[q] \in {"wloop", "wbody"}
      /\ pc[p] = "wsleep" => /\ readopen
                             /\ APipe!Full \/ \E q \in Procs : pc[q] = "rcopy"

PipeInv == APipe!TypeOK /\ PipeLockInv /\ PipeEndsInv /\ PipeLoopInv /\ PipeSleepInv

----------------------------------------------------------------------------
(* The counters and the ring *)

LEMMA Sizes ==
  ASSUME APipe!Parameters
  PROVE  /\ WORD \in Nat \ {0} /\ PIPESIZE \in Nat \ {0}
         /\ PIPESIZE + 1 < WORD
BY DEF APipe!Parameters

PipeCounters == nread \in 0 .. WORD - 1 /\ nwrite \in 0 .. WORD - 1

\* The number of bytes inside, without the remainder.
LEMMA CountIs ==
  ASSUME APipe!Parameters, PipeCounters
  PROVE  /\ APipe!Count \in 0 .. WORD - 1
         /\ nread <= nwrite => APipe!Count = nwrite - nread
         /\ nwrite < nread => APipe!Count = nwrite + WORD - nread
BY Sizes, ApartIs DEF PipeCounters, APipe!Count, Apart

\* Full and empty are what they should be.
LEMMA FullIs ==
  ASSUME APipe!Parameters, PipeCounters
  PROVE  /\ APipe!Full <=> APipe!Count = PIPESIZE
         /\ APipe!Empty <=> APipe!Count = 0
<1>1. CASE nread + PIPESIZE <= WORD - 1
  <2>1. (nread + PIPESIZE) % WORD = nread + PIPESIZE
    BY <1>1, Sizes, ModSmall DEF PipeCounters
  <2> QED BY <1>1, <2>1, Sizes, CountIs DEF PipeCounters, APipe!Full, APipe!Empty
<1>2. CASE nread + PIPESIZE >= WORD
  <2>1. nread + PIPESIZE \in WORD .. 2 * WORD - 1
    BY <1>2, Sizes DEF PipeCounters
  <2>2. (nread + PIPESIZE) % WORD = nread + PIPESIZE - WORD
    BY <2>1, Sizes, ModWrap DEF PipeCounters
  <2> QED BY <1>2, <2>2, Sizes, CountIs DEF PipeCounters, APipe!Full, APipe!Empty
<1> QED BY <1>1, <1>2, Sizes DEF PipeCounters

\* A byte more, and its place in the ring: behind the last.
LEMMA CountPut ==
  ASSUME APipe!Parameters, PipeCounters, APipe!Count < PIPESIZE,
         nwrite' = (nwrite + 1) % WORD, nread' = nread
  PROVE  /\ PipeCounters'
         /\ APipe!Count' = APipe!Count + 1
<1>1. nwrite' = IF nwrite = WORD - 1 THEN 0 ELSE nwrite + 1
  BY Sizes, NextIs DEF PipeCounters
<1>2. PipeCounters'
  BY <1>1, Sizes DEF PipeCounters
<1>3. /\ nread' <= nwrite' => APipe!Count' = nwrite' - nread'
      /\ nwrite' < nread' => APipe!Count' = nwrite' + WORD - nread'
  BY <1>2, Sizes, ApartIs DEF PipeCounters, APipe!Count, Apart
<1> QED BY <1>1, <1>2, <1>3, CountIs, Sizes DEF PipeCounters

\* A byte less.
LEMMA CountGet ==
  ASSUME APipe!Parameters, PipeCounters, APipe!Count > 0,
         nread' = (nread + 1) % WORD, nwrite' = nwrite
  PROVE  /\ PipeCounters'
         /\ APipe!Count' = APipe!Count - 1
<1>1. nread' = IF nread = WORD - 1 THEN 0 ELSE nread + 1
  BY Sizes, NextIs DEF PipeCounters
<1>2. PipeCounters'
  BY <1>1, Sizes DEF PipeCounters
<1>3. /\ nread' <= nwrite' => APipe!Count' = nwrite' - nread'
      /\ nwrite' < nread' => APipe!Count' = nwrite' + WORD - nread'
  BY <1>2, Sizes, ApartIs DEF PipeCounters, APipe!Count, Apart
<1> QED BY <1>1, <1>2, <1>3, CountIs, Sizes DEF PipeCounters

----------------------------------------------------------------------------
(* The inductive invariant *)

LEMMA PipeFirst ==
  ASSUME APipe!Parameters
  PROVE  APipe!Init => PipeInv
<1> SUFFICES ASSUME APipe!Init PROVE PipeInv
  OBVIOUS
<1>1. PipeCounters /\ APipe!Count = 0
  <2>1. PipeCounters
    BY Sizes DEF APipe!Init, PipeCounters
  <2> QED BY <2>1, CountIs DEF APipe!Init
<1>2. APipe!TypeOK
  BY <1>1, Sizes DEF APipe!Init, APipe!TypeOK, PipeCounters, APipe!Parameters
<1>3. IsFiniteSet({First})
  BY FS_Singleton
<1> QED BY <1>2, <1>3
       DEF APipe!Init, PipeInv, PipeLockInv, PipeEndsInv, PipeLoopInv, PipeSleepInv, Holding, Writing, Reading,
           APipe!Parameters

\* Every variable keeps its type, and the counters stay within PIPESIZE of each other.
LEMMA PipeTypeStep ==
  ASSUME APipe!Parameters
  PROVE  APipe!TypeOK /\ PipeLoopInv /\ [APipe!Next]_(APipe!vars) => APipe!TypeOK'
<1> SUFFICES ASSUME APipe!TypeOK, PipeLoopInv, [APipe!Next]_(APipe!vars) PROVE APipe!TypeOK'
  OBVIOUS
<1> USE DEF APipe!TypeOK, APipe!pipe, APipe!Goto
<1>0. ASSUME UNCHANGED <<nread, nwrite>> PROVE APipe!Count' <= PIPESIZE
  BY <1>0 DEF APipe!Count
<1>1. CASE UNCHANGED APipe!vars
  BY <1>1, <1>0 DEF APipe!vars
<1>2. ASSUME NEW p \in Procs, NEW n \in 0 .. MaxBytes, APipe!Write(p, n) \/ APipe!Read(p, n)
      PROVE  APipe!TypeOK'
  BY <1>2, <1>0 DEF APipe!Write, APipe!Read
<1>3. ASSUME NEW p \in Procs, APipe!WriteStep(p) PROVE APipe!TypeOK'
  <2>1. CASE APipe!WriteLock(p)
    BY <2>1, <1>0 DEF APipe!WriteLock
  <2>2. CASE APipe!WriteDone(p)
    BY <2>2, <1>0 DEF APipe!WriteDone, APipe!WakeReaders, APipe!Woken
  <2>3. CASE APipe!WriteRefused(p)
    BY <2>3, <1>0, Sizes DEF APipe!WriteRefused, APipe!Parameters
  <2>4. CASE APipe!WriteTest(p)
    BY <2>4, <1>0 DEF APipe!WriteTest
  <2>5. CASE APipe!WriteFull(p)
    BY <2>5, <1>0 DEF APipe!WriteFull, APipe!WakeReaders, APipe!Woken
  <2>6. CASE APipe!WriteFault(p)
    BY <2>6, <1>0 DEF APipe!WriteFault, APipe!WakeReaders, APipe!Woken, APipe!Parameters
  <2>7. ASSUME NEW x \in Bytes, APipe!WriteByte(p, x) PROVE APipe!TypeOK'
    <3>1. PipeCounters' /\ APipe!Count' <= PIPESIZE
      <4>1. PipeCounters /\ APipe!Count # PIPESIZE
        BY <2>7, FullIs DEF APipe!WriteByte, PipeCounters
      <4>2. APipe!Count < PIPESIZE
        BY <4>1, CountIs, Sizes
      <4>3. PipeCounters' /\ APipe!Count' = APipe!Count + 1
        BY <2>7, <4>1, <4>2, CountPut DEF APipe!WriteByte
      <4> QED BY <4>1, <4>2, <4>3, CountIs, Sizes
    <3>2. nwrite % PIPESIZE \in 0 .. PIPESIZE - 1
      <4>1. nwrite \in Nat
        BY Sizes
      <4> QED BY <4>1, Sizes, DivMod
    <3>3. left'[p] \in 0 .. MaxBytes
      BY <2>7 DEF APipe!WriteByte, PipeLoopInv, APipe!Parameters
    <3> QED BY <2>7, <3>1, <3>2, <3>3 DEF APipe!WriteByte, PipeCounters
  <2> QED BY <1>3, <2>1, <2>2, <2>3, <2>4, <2>5, <2>6, <2>7 DEF APipe!WriteStep
<1>4. ASSUME NEW p \in Procs, APipe!ReadStep(p) PROVE APipe!TypeOK'
  <2>1. CASE APipe!ReadLock(p)
    BY <2>1, <1>0 DEF APipe!ReadLock
  <2>2. CASE APipe!ReadRefused(p)
    BY <2>2, <1>0 DEF APipe!ReadRefused, APipe!Parameters
  <2>3. CASE APipe!ReadTest(p)
    BY <2>3, <1>0 DEF APipe!ReadTest
  <2>4. CASE APipe!ReadSleep(p)
    BY <2>4, <1>0 DEF APipe!ReadSleep
  <2>5. CASE APipe!ReadDone(p)
    BY <2>5, <1>0 DEF APipe!ReadDone, APipe!WakeWriters, APipe!Woken, APipe!Parameters
  <2>6. ASSUME NEW ok \in BOOLEAN, APipe!ReadByte(p, ok) PROVE APipe!TypeOK'
    <3>1. PipeCounters' /\ APipe!Count' <= PIPESIZE
      <4>1. PipeCounters /\ APipe!Count # 0
        BY <2>6, FullIs DEF APipe!ReadByte, PipeCounters
      <4>2. APipe!Count > 0
        BY <4>1, CountIs, Sizes
      <4>3. PipeCounters' /\ APipe!Count' = APipe!Count - 1
        BY <2>6, <4>1, <4>2, CountGet DEF APipe!ReadByte
      <4> QED BY <4>1, <4>2, <4>3, CountIs, Sizes
    <3>2. left' \in [Procs -> 0 .. MaxBytes]
      BY <2>6 DEF APipe!ReadByte, APipe!Parameters
    <3> QED BY <2>6, <3>1, <3>2 DEF APipe!ReadByte, PipeCounters
  <2> QED BY <1>4, <2>1, <2>2, <2>3, <2>4, <2>5, <2>6 DEF APipe!ReadStep
<1>5. ASSUME NEW p \in Procs, NEW q \in Procs, APipe!Inherit(p, q) PROVE APipe!TypeOK'
  BY <1>5, <1>0 DEF APipe!Inherit
<1>6. ASSUME NEW p \in Procs, APipe!Close(p) PROVE APipe!TypeOK'
  BY <1>6, <1>0 DEF APipe!Close, APipe!CloseRead, APipe!CloseWrite
<1>7. ASSUME NEW p \in Procs, APipe!PipeClose(p) PROVE APipe!TypeOK'
  BY <1>7, <1>0
     DEF APipe!PipeClose, APipe!PipeCloseRead, APipe!PipeCloseWrite, APipe!WakeReaders, APipe!WakeWriters, APipe!Woken
<1>8. ASSUME NEW p \in Procs, APipe!Kill(p) PROVE APipe!TypeOK'
  BY <1>8, <1>0 DEF APipe!Kill
<1> QED BY <1>1, <1>2, <1>3, <1>4, <1>5, <1>6, <1>7, <1>8 DEF APipe!Next

\* The lock is taken and given away as a process enters and leaves a loop.
LEMMA PipeLockStep ==
  ASSUME APipe!Parameters
  PROVE  APipe!TypeOK /\ PipeLockInv /\ [APipe!Next]_(APipe!vars) => PipeLockInv'
<1> SUFFICES ASSUME APipe!TypeOK, PipeLockInv, [APipe!Next]_(APipe!vars) PROVE PipeLockInv'
  OBVIOUS
<1> USE DEF APipe!TypeOK, PipeLockInv, Holding, APipe!Goto
<1>0. \A p \in Procs : p # Nobody
  BY DEF APipe!Parameters
<1>1. CASE UNCHANGED APipe!vars
  BY <1>1 DEF APipe!vars
<1>2. ASSUME NEW p \in Procs, NEW n \in 0 .. MaxBytes, APipe!Write(p, n) \/ APipe!Read(p, n)
      PROVE  PipeLockInv'
  BY <1>2 DEF APipe!Write, APipe!Read
<1>3. ASSUME NEW p \in Procs, APipe!WriteStep(p) PROVE PipeLockInv'
  <2>1. CASE APipe!WriteLock(p) \/ APipe!WriteTest(p) \/ (\E x \in Bytes : APipe!WriteByte(p, x))
    BY <2>1, <1>0 DEF APipe!WriteLock, APipe!WriteTest, APipe!WriteByte
  <2>2. CASE APipe!WriteRefused(p)
    BY <2>2, <1>0 DEF APipe!WriteRefused
  <2>3. CASE APipe!WriteDone(p) \/ APipe!WriteFull(p) \/ APipe!WriteFault(p)
    BY <2>3, <1>0 DEF APipe!WriteDone, APipe!WriteFull, APipe!WriteFault, APipe!WakeReaders, APipe!Woken
  <2> QED BY <1>3, <2>1, <2>2, <2>3 DEF APipe!WriteStep
<1>4. ASSUME NEW p \in Procs, APipe!ReadStep(p) PROVE PipeLockInv'
  <2>1. CASE APipe!ReadLock(p) \/ APipe!ReadTest(p) \/ (\E ok \in BOOLEAN : APipe!ReadByte(p, ok))
    BY <2>1, <1>0 DEF APipe!ReadLock, APipe!ReadTest, APipe!ReadByte
  <2>2. CASE APipe!ReadRefused(p) \/ APipe!ReadSleep(p)
    BY <2>2, <1>0 DEF APipe!ReadRefused, APipe!ReadSleep
  <2>3. CASE APipe!ReadDone(p)
    BY <2>3, <1>0 DEF APipe!ReadDone, APipe!WakeWriters, APipe!Woken
  <2> QED BY <1>4, <2>1, <2>2, <2>3 DEF APipe!ReadStep
<1>5. ASSUME NEW p \in Procs, NEW q \in Procs, APipe!Inherit(p, q) PROVE PipeLockInv'
  BY <1>5 DEF APipe!Inherit
<1>6. ASSUME NEW p \in Procs, APipe!Close(p) PROVE PipeLockInv'
  BY <1>6 DEF APipe!Close, APipe!CloseRead, APipe!CloseWrite
<1>7. ASSUME NEW p \in Procs, APipe!PipeClose(p) PROVE PipeLockInv'
  BY <1>7
     DEF APipe!PipeClose, APipe!PipeCloseRead, APipe!PipeCloseWrite, APipe!WakeReaders, APipe!WakeWriters, APipe!Woken
<1>8. ASSUME NEW p \in Procs, APipe!Kill(p) PROVE PipeLockInv'
  BY <1>8 DEF APipe!Kill
<1> QED BY <1>1, <1>2, <1>3, <1>4, <1>5, <1>6, <1>7, <1>8 DEF APipe!Next

\* The ends are counted right, whoever inherits and closes them.
LEMMA PipeEndsStep ==
  ASSUME APipe!Parameters
  PROVE  APipe!TypeOK /\ PipeEndsInv /\ [APipe!Next]_(APipe!vars) => PipeEndsInv'
<1> SUFFICES ASSUME APipe!TypeOK, PipeEndsInv, [APipe!Next]_(APipe!vars) PROVE PipeEndsInv'
  OBVIOUS
<1> USE DEF APipe!TypeOK, PipeEndsInv, Writing, Reading, APipe!pipe, APipe!Goto
<1>1. CASE UNCHANGED APipe!vars
  BY <1>1 DEF APipe!vars
<1>2. ASSUME NEW p \in Procs, NEW n \in 0 .. MaxBytes, APipe!Write(p, n) \/ APipe!Read(p, n)
      PROVE  PipeEndsInv'
  BY <1>2 DEF APipe!Write, APipe!Read
<1>3. ASSUME NEW p \in Procs, APipe!WriteStep(p) PROVE PipeEndsInv'
  <2>1. CASE APipe!WriteLock(p) \/ APipe!WriteTest(p) \/ (\E x \in Bytes : APipe!WriteByte(p, x))
    BY <2>1 DEF APipe!WriteLock, APipe!WriteTest, APipe!WriteByte
  <2>2. CASE APipe!WriteRefused(p)
    BY <2>2 DEF APipe!WriteRefused
  <2>3. CASE APipe!WriteDone(p) \/ APipe!WriteFull(p) \/ APipe!WriteFault(p)
    BY <2>3 DEF APipe!WriteDone, APipe!WriteFull, APipe!WriteFault, APipe!WakeReaders, APipe!Woken
  <2> QED BY <1>3, <2>1, <2>2, <2>3 DEF APipe!WriteStep
<1>4. ASSUME NEW p \in Procs, APipe!ReadStep(p) PROVE PipeEndsInv'
  <2>1. CASE APipe!ReadLock(p) \/ APipe!ReadTest(p) \/ (\E ok \in BOOLEAN : APipe!ReadByte(p, ok))
    BY <2>1 DEF APipe!ReadLock, APipe!ReadTest, APipe!ReadByte
  <2>2. CASE APipe!ReadRefused(p) \/ APipe!ReadSleep(p)
    BY <2>2 DEF APipe!ReadRefused, APipe!ReadSleep
  <2>3. CASE APipe!ReadDone(p)
    BY <2>3 DEF APipe!ReadDone, APipe!WakeWriters, APipe!Woken
  <2> QED BY <1>4, <2>1, <2>2, <2>3 DEF APipe!ReadStep
<1>5. ASSUME NEW p \in Procs, NEW q \in Procs, APipe!Inherit(p, q) PROVE PipeEndsInv'
  <2>1. IsFiniteSet(rd \cup {q}) /\ IsFiniteSet(wr \cup {q})
    BY FS_AddElement
  <2> QED BY <1>5, <2>1 DEF APipe!Inherit
<1>6. ASSUME NEW p \in Procs, APipe!Close(p) PROVE PipeEndsInv'
  <2>1. CASE APipe!CloseRead(p)
    <3>1. IsFiniteSet(rd \ {p})
      BY FS_RemoveElement
    <3>2. APipe!LastOf(rd) => rd \ {p} = {}
      <4>1. APipe!Cardinality(rd) = Cardinality(rd)
        BY DEF APipe!Cardinality, Cardinality
      <4> QED BY <2>1, <4>1, FS_Singleton DEF APipe!LastOf, APipe!CloseRead
    <3> QED BY <2>1, <3>1, <3>2 DEF APipe!CloseRead
  <2>2. CASE APipe!CloseWrite(p)
    <3>1. IsFiniteSet(wr \ {p})
      BY FS_RemoveElement
    <3>2. APipe!LastOf(wr) => wr \ {p} = {}
      <4>1. APipe!Cardinality(wr) = Cardinality(wr)
        BY DEF APipe!Cardinality, Cardinality
      <4> QED BY <2>2, <4>1, FS_Singleton DEF APipe!LastOf, APipe!CloseWrite
    <3> QED BY <2>2, <3>1, <3>2 DEF APipe!CloseWrite
  <2> QED BY <1>6, <2>1, <2>2 DEF APipe!Close
<1>7. ASSUME NEW p \in Procs, APipe!PipeClose(p) PROVE PipeEndsInv'
  BY <1>7
     DEF APipe!PipeClose, APipe!PipeCloseRead, APipe!PipeCloseWrite, APipe!WakeReaders, APipe!WakeWriters, APipe!Woken
<1>8. ASSUME NEW p \in Procs, APipe!Kill(p) PROVE PipeEndsInv'
  BY <1>8 DEF APipe!Kill
<1> QED BY <1>1, <1>2, <1>3, <1>4, <1>5, <1>6, <1>7, <1>8 DEF APipe!Next

\* Nobody but the holder of the lock changes what a loop relies on.
LEMMA PipeLoopStep ==
  ASSUME APipe!Parameters
  PROVE  APipe!TypeOK /\ PipeLockInv /\ PipeLoopInv /\ [APipe!Next]_(APipe!vars) => PipeLoopInv'
<1> SUFFICES ASSUME APipe!TypeOK, PipeLockInv, PipeLoopInv, [APipe!Next]_(APipe!vars) PROVE PipeLoopInv'
  OBVIOUS
<1> USE DEF APipe!TypeOK, PipeLockInv, Holding, PipeLoopInv, APipe!MustWait, APipe!Empty, APipe!pipe, APipe!Goto
<1>0. \A p \in Procs : p # Nobody
  BY DEF APipe!Parameters
<1>1. CASE UNCHANGED APipe!vars
  BY <1>1 DEF APipe!vars
<1>2. ASSUME NEW p \in Procs, NEW n \in 0 .. MaxBytes, APipe!Write(p, n) \/ APipe!Read(p, n)
      PROVE  PipeLoopInv'
  BY <1>2 DEF APipe!Write, APipe!Read
<1>3. ASSUME NEW p \in Procs, APipe!WriteStep(p) PROVE PipeLoopInv'
  <2>1. CASE APipe!WriteLock(p) \/ APipe!WriteTest(p)
    BY <2>1 DEF APipe!WriteLock, APipe!WriteTest
  <2>2. ASSUME NEW x \in Bytes, APipe!WriteByte(p, x) PROVE PipeLoopInv'
    BY <2>2 DEF APipe!WriteByte
  <2>3. CASE APipe!WriteRefused(p)
    BY <2>3 DEF APipe!WriteRefused
  <2>4. CASE APipe!WriteDone(p) \/ APipe!WriteFull(p) \/ APipe!WriteFault(p)
    BY <2>4 DEF APipe!WriteDone, APipe!WriteFull, APipe!WriteFault, APipe!WakeReaders, APipe!Woken
  <2> QED BY <1>3, <2>1, <2>2, <2>3, <2>4 DEF APipe!WriteStep
<1>4. ASSUME NEW p \in Procs, APipe!ReadStep(p) PROVE PipeLoopInv'
  <2>1. CASE APipe!ReadLock(p) \/ APipe!ReadTest(p)
    BY <2>1 DEF APipe!ReadLock, APipe!ReadTest
  <2>2. ASSUME NEW ok \in BOOLEAN, APipe!ReadByte(p, ok) PROVE PipeLoopInv'
    BY <2>2 DEF APipe!ReadByte
  <2>3. CASE APipe!ReadRefused(p) \/ APipe!ReadSleep(p)
    BY <2>3 DEF APipe!ReadRefused, APipe!ReadSleep
  <2>4. CASE APipe!ReadDone(p)
    BY <2>4 DEF APipe!ReadDone, APipe!WakeWriters, APipe!Woken
  <2> QED BY <1>4, <2>1, <2>2, <2>3, <2>4 DEF APipe!ReadStep
<1>5. ASSUME NEW p \in Procs, NEW q \in Procs, APipe!Inherit(p, q) PROVE PipeLoopInv'
  BY <1>5 DEF APipe!Inherit
<1>6. ASSUME NEW p \in Procs, APipe!Close(p) PROVE PipeLoopInv'
  BY <1>6 DEF APipe!Close, APipe!CloseRead, APipe!CloseWrite
<1>7. ASSUME NEW p \in Procs, APipe!PipeClose(p) PROVE PipeLoopInv'
  BY <1>7, <1>0
     DEF APipe!PipeClose, APipe!PipeCloseRead, APipe!PipeCloseWrite, APipe!WakeReaders, APipe!WakeWriters, APipe!Woken
<1>8. ASSUME NEW p \in Procs, APipe!Kill(p) PROVE PipeLoopInv'
  BY <1>8 DEF APipe!Kill
<1> QED BY <1>1, <1>2, <1>3, <1>4, <1>5, <1>6, <1>7, <1>8 DEF APipe!Next

\* Whoever makes the reason for a sleep go away wakes the sleepers before the lock
\* is free again.
LEMMA PipeSleepStep ==
  ASSUME APipe!Parameters
  PROVE  PipeInv /\ [APipe!Next]_(APipe!vars) => PipeSleepInv'
<1> SUFFICES ASSUME PipeInv, [APipe!Next]_(APipe!vars), \A p \in Procs : ~killed'[p]
             PROVE  PipeSleepInv'
  BY DEF PipeSleepInv
<1>0. \A p \in Procs : ~killed[p]
  <2>1. APipe!TypeOK
    BY DEF PipeInv
  <2> SUFFICES ASSUME NEW q \in Procs, killed[q] PROVE FALSE
    OBVIOUS
  <2>2. killed' = killed \/ \E p \in Procs : APipe!Kill(p)
    BY DEF APipe!Next, APipe!vars, APipe!pipe, APipe!Write, APipe!Read, APipe!WriteStep, APipe!ReadStep, APipe!WriteLock, APipe!WriteDone,
           APipe!WriteRefused, APipe!WriteTest, APipe!WriteFull, APipe!WriteFault, APipe!WriteByte, APipe!ReadLock,
           APipe!ReadRefused, APipe!ReadTest, APipe!ReadSleep, APipe!ReadDone, APipe!ReadByte, APipe!Inherit, APipe!Close,
           APipe!CloseRead, APipe!CloseWrite, APipe!PipeClose, APipe!PipeCloseRead, APipe!PipeCloseWrite
  <2> QED BY <2>1, <2>2 DEF APipe!Kill, APipe!TypeOK
<1> USE DEF PipeInv, APipe!TypeOK, PipeLockInv, Holding, PipeSleepInv, APipe!Empty, APipe!Full, APipe!pipe, APipe!Goto
<1>1. CASE UNCHANGED APipe!vars
  BY <1>0, <1>1 DEF APipe!vars
<1>2. ASSUME NEW p \in Procs, NEW n \in 0 .. MaxBytes, APipe!Write(p, n) \/ APipe!Read(p, n)
      PROVE  PipeSleepInv'
  BY <1>0, <1>2 DEF APipe!Write, APipe!Read
<1>3. ASSUME NEW p \in Procs, APipe!WriteStep(p) PROVE PipeSleepInv'
  <2>1. CASE APipe!WriteLock(p) \/ APipe!WriteTest(p)
    BY <1>0, <2>1 DEF APipe!WriteLock, APipe!WriteTest
  <2>2. ASSUME NEW x \in Bytes, APipe!WriteByte(p, x) PROVE PipeSleepInv'
    BY <1>0, <2>2 DEF APipe!WriteByte
  <2>3. CASE APipe!WriteRefused(p)
    BY <1>0, <2>3 DEF APipe!WriteRefused, PipeEndsInv, Reading
  <2>4. CASE APipe!WriteDone(p) \/ APipe!WriteFault(p)
    BY <1>0, <2>4 DEF APipe!WriteDone, APipe!WriteFault, APipe!WakeReaders, APipe!Woken
  <2>5. CASE APipe!WriteFull(p)
    BY <1>0, <2>5 DEF APipe!WriteFull, APipe!WakeReaders, APipe!Woken, PipeLoopInv
  <2> QED BY <1>3, <2>1, <2>2, <2>3, <2>4, <2>5 DEF APipe!WriteStep
<1>4. ASSUME NEW p \in Procs, APipe!ReadStep(p) PROVE PipeSleepInv'
  <2>1. CASE APipe!ReadLock(p) \/ APipe!ReadTest(p)
    BY <1>0, <2>1 DEF APipe!ReadLock, APipe!ReadTest
  <2>2. ASSUME NEW ok \in BOOLEAN, APipe!ReadByte(p, ok) PROVE PipeSleepInv'
    BY <1>0, <2>2 DEF APipe!ReadByte
  <2>3. CASE APipe!ReadRefused(p)
    BY <1>0, <2>3 DEF APipe!ReadRefused
  <2>4. CASE APipe!ReadSleep(p)
    BY <1>0, <2>4 DEF APipe!ReadSleep, PipeLoopInv, APipe!MustWait
  <2>5. CASE APipe!ReadDone(p)
    BY <1>0, <2>5 DEF APipe!ReadDone, APipe!WakeWriters, APipe!Woken
  <2> QED BY <1>4, <2>1, <2>2, <2>3, <2>4, <2>5 DEF APipe!ReadStep
<1>5. ASSUME NEW p \in Procs, NEW q \in Procs, APipe!Inherit(p, q) PROVE PipeSleepInv'
  BY <1>0, <1>5 DEF APipe!Inherit
<1>6. ASSUME NEW p \in Procs, APipe!Close(p) PROVE PipeSleepInv'
  BY <1>0, <1>6 DEF APipe!Close, APipe!CloseRead, APipe!CloseWrite
<1>7. ASSUME NEW p \in Procs, APipe!PipeClose(p) PROVE PipeSleepInv'
  BY <1>0, <1>7
     DEF APipe!PipeClose, APipe!PipeCloseRead, APipe!PipeCloseWrite, APipe!WakeReaders, APipe!WakeWriters, APipe!Woken
<1>8. ASSUME NEW p \in Procs, APipe!Kill(p) PROVE PipeSleepInv'
  BY <1>8 DEF APipe!Kill
<1> QED BY <1>1, <1>2, <1>3, <1>4, <1>5, <1>6, <1>7, <1>8 DEF APipe!Next

LEMMA PipeNext ==
  ASSUME APipe!Parameters
  PROVE  PipeInv /\ [APipe!Next]_(APipe!vars) => PipeInv'
BY PipeTypeStep, PipeLockStep, PipeEndsStep, PipeLoopStep, PipeSleepStep DEF PipeInv

\* A call finds its own end open, and nobody sleeps for what is there.
LEMMA PipeInvSafe ==
  ASSUME APipe!Parameters
  PROVE  PipeInv => APipe!TypeOK /\ APipe!OpenWhileUsed /\ APipe!NoLostWakeup
<1> SUFFICES ASSUME PipeInv PROVE APipe!TypeOK /\ APipe!OpenWhileUsed /\ APipe!NoLostWakeup
  OBVIOUS
<1>1. APipe!OpenWhileUsed
  BY DEF PipeInv, PipeEndsInv, APipe!OpenWhileUsed, Writing, Reading
<1>2. APipe!NoLostWakeup
  BY DEF PipeInv, PipeSleepInv, PipeLockInv, APipe!NoLostWakeup, Holding, APipe!Parameters
<1> QED BY <1>1, <1>2 DEF PipeInv

----------------------------------------------------------------------------
(* The ring is a bounded queue *)

\* The place of the k-th byte that is inside.
Slot(k) == (nread + k - 1) % PIPESIZE

Ring == [k \in 1 .. APipe!Count |-> data[Slot(k)]]

LEMMA RingIsSeq ==
  ASSUME APipe!Parameters, APipe!TypeOK
  PROVE  Ring \in Seq(Bytes) /\ Len(Ring) = APipe!Count
<1>1. APipe!Count \in Nat
  BY Sizes, CountIs DEF APipe!TypeOK, PipeCounters
<1>2. \A k \in 1 .. APipe!Count : Slot(k) \in 0 .. PIPESIZE - 1
  <2> SUFFICES ASSUME NEW k \in 1 .. APipe!Count PROVE Slot(k) \in 0 .. PIPESIZE - 1
    OBVIOUS
  <2>1. nread + k - 1 \in Nat
    BY <1>1, Sizes DEF APipe!TypeOK
  <2> QED BY <2>1, Sizes, DivMod DEF Slot
<1> QED BY <1>1, <1>2 DEF Ring, APipe!TypeOK

\* A counter that wraps is at the same place of the ring.
LEMMA WordTurn ==
  ASSUME APipe!Parameters, NEW x \in Nat
  PROVE  (x + WORD) % PIPESIZE = x % PIPESIZE
<1>1. WORD = (PIPESIZE * (WORD \div PIPESIZE)) + (WORD % PIPESIZE)
  BY Sizes, DivMod
<1>2. WORD \div PIPESIZE \in Nat /\ WORD % PIPESIZE = 0
  BY Sizes, DivMod DEF APipe!Parameters
<1>3. PIPESIZE * (WORD \div PIPESIZE) \in Nat
  BY <1>2, Sizes
<1>4. WORD = PIPESIZE * (WORD \div PIPESIZE)
  BY <1>1, <1>2, <1>3
<1>5. (x + (PIPESIZE * (WORD \div PIPESIZE))) % PIPESIZE = x % PIPESIZE
  BY <1>2, Sizes, ModMultiple
<1> QED BY <1>4, <1>5

\* The next byte to be written goes behind the last, and on top of none.
LEMMA SlotPut ==
  ASSUME APipe!Parameters, APipe!TypeOK, APipe!Count < PIPESIZE
  PROVE  /\ nwrite % PIPESIZE = Slot(APipe!Count + 1)
         /\ \A k \in 1 .. APipe!Count : Slot(k) # Slot(APipe!Count + 1)
<1>1. PipeCounters /\ APipe!Count \in Nat /\ nread \in Nat /\ nwrite \in Nat
  BY Sizes, CountIs DEF APipe!TypeOK, PipeCounters
<1>2. nwrite % PIPESIZE = Slot(APipe!Count + 1)
  <2>1. CASE nread <= nwrite
    <3>1. nread + (APipe!Count + 1) - 1 = nwrite
      BY <1>1, <2>1, CountIs
    <3> QED BY <3>1 DEF Slot
  <2>2. CASE nwrite < nread
    <3>1. nread + (APipe!Count + 1) - 1 = nwrite + WORD
      BY <1>1, <2>2, Sizes, CountIs
    <3>2. (nwrite + WORD) % PIPESIZE = nwrite % PIPESIZE
      BY <1>1, WordTurn
    <3> QED BY <3>1, <3>2 DEF Slot
  <2> QED BY <1>1, <2>1, <2>2
<1>3. ASSUME NEW k \in 1 .. APipe!Count PROVE Slot(k) # Slot(APipe!Count + 1)
  <2>1. nread + k - 1 \in Nat /\ APipe!Count + 1 - k \in 1 .. PIPESIZE - 1
    BY <1>1, Sizes
  <2>2. (nread + k - 1) + (APipe!Count + 1 - k) = nread + (APipe!Count + 1) - 1
    BY <1>1
  <2>3. ((nread + k - 1) + (APipe!Count + 1 - k)) % PIPESIZE # (nread + k - 1) % PIPESIZE
    BY <2>1, Sizes, ModApart
  <2> QED BY <2>2, <2>3 DEF Slot
<1> QED BY <1>2, <1>3

\* The ring is read from the front.
LEMMA SlotGet ==
  ASSUME APipe!Parameters, APipe!TypeOK, nread' = (nread + 1) % WORD, NEW k \in Nat \ {0}
  PROVE  Slot(k)' = Slot(k + 1)
<1>1. nread \in Nat /\ nread \in 0 .. WORD - 1 /\ nread + k \in Nat
  BY Sizes DEF APipe!TypeOK
<1>2. CASE nread # WORD - 1
  <2>1. nread' = nread + 1
    BY <1>1, <1>2, Sizes, NextIs
  <2>2. (nread + 1) + k - 1 = nread + (k + 1) - 1
    BY <1>1
  <2> QED BY <2>1, <2>2 DEF Slot
<1>3. CASE nread = WORD - 1
  <2>1. nread' = 0
    BY <1>1, <1>3, Sizes, NextIs
  <2>2. nread + (k + 1) - 1 = (k - 1) + WORD /\ 0 + k - 1 = k - 1 /\ k - 1 \in Nat
    BY <1>3, Sizes
  <2>3. ((k - 1) + WORD) % PIPESIZE = (k - 1) % PIPESIZE
    BY <2>2, WordTurn
  <2> QED BY <2>1, <2>2, <2>3 DEF Slot
<1> QED BY <1>2, <1>3

\* The ring starts empty.
LEMMA RingInit ==
  ASSUME APipe!Parameters
  PROVE  APipe!Init => Ring = <<>>
<1> SUFFICES ASSUME APipe!Init PROVE Ring = <<>>
  OBVIOUS
<1>1. APipe!Count = 0
  <2>1. PipeCounters
    BY Sizes DEF APipe!Init, PipeCounters
  <2> QED BY <2>1, CountIs DEF APipe!Init
<1> QED BY <1>1 DEF Ring

\* A byte written goes to the end of the queue.
LEMMA RingPut ==
  ASSUME APipe!Parameters, PipeInv, NEW p \in Procs, NEW x \in Bytes, APipe!WriteByte(p, x)
  PROVE  /\ Len(Ring) < PIPESIZE
         /\ Ring' = Append(Ring, x)
<1>1. APipe!TypeOK /\ APipe!TypeOK'
  BY PipeNext DEF PipeInv, APipe!Next, APipe!WriteStep
<1>2. PipeCounters /\ APipe!Count # PIPESIZE
  BY <1>1, FullIs DEF APipe!WriteByte, APipe!TypeOK, PipeCounters
<1>3. APipe!Count < PIPESIZE /\ APipe!Count \in Nat
  BY <1>1, <1>2, CountIs, Sizes DEF APipe!TypeOK
<1>4. APipe!Count' = APipe!Count + 1
  BY <1>2, <1>3, CountPut DEF APipe!WriteByte
<1>5. Ring \in Seq(Bytes) /\ Len(Ring) = APipe!Count
  BY <1>1, RingIsSeq
<1>6. Ring' = [k \in 1 .. APipe!Count + 1 |-> data'[Slot(k)]]
  BY <1>4 DEF Ring, Slot, APipe!WriteByte
<1>7. \A k \in 1 .. APipe!Count + 1 : data'[Slot(k)] = IF k <= APipe!Count THEN Ring[k] ELSE x
  <2> SUFFICES ASSUME NEW k \in 1 .. APipe!Count + 1
               PROVE  data'[Slot(k)] = IF k <= APipe!Count THEN Ring[k] ELSE x
    OBVIOUS
  <2>1. Slot(k) \in 0 .. PIPESIZE - 1
    <3>1. nread + k - 1 \in Nat
      BY <1>1, <1>3, Sizes DEF APipe!TypeOK
    <3> QED BY <3>1, Sizes, DivMod DEF Slot
  <2>2. k # APipe!Count + 1 => k \in 1 .. APipe!Count
    BY <1>3
  <2> QED BY <1>1, <1>3, <2>1, <2>2, SlotPut DEF APipe!WriteByte, APipe!TypeOK, Ring
<1>8. Ring' \in Seq(Bytes) /\ Len(Ring') = APipe!Count + 1
  <2>1. \A k \in 1 .. APipe!Count : Ring[k] \in Bytes
    BY <1>5
  <2>2. \A k \in 1 .. APipe!Count + 1 : data'[Slot(k)] \in Bytes
    BY <2>1, <1>3, <1>7
  <2> QED BY <2>2, <1>3, <1>6
<1>9. \A k \in 1 .. APipe!Count + 1 : Append(Ring, x)[k] = IF k <= APipe!Count THEN Ring[k] ELSE x
  BY <1>3, <1>5, AppendProperties
<1>10. Append(Ring, x) \in Seq(Bytes) /\ Len(Append(Ring, x)) = APipe!Count + 1
  BY <1>5, AppendProperties
<1>11. \A k \in 1 .. APipe!Count + 1 : Ring'[k] = Append(Ring, x)[k]
  BY <1>6, <1>7, <1>9
<1> QED BY <1>3, <1>5, <1>8, <1>10, <1>11, SeqEqual

\* A byte read comes from the front of the queue.
LEMMA RingGet ==
  ASSUME APipe!Parameters, PipeInv, NEW p \in Procs, NEW ok \in BOOLEAN, APipe!ReadByte(p, ok)
  PROVE  /\ Ring # <<>>
         /\ Ring' = Tail(Ring)
<1>1. APipe!TypeOK /\ APipe!TypeOK'
  BY PipeNext DEF PipeInv, APipe!Next, APipe!ReadStep
<1>2. PipeCounters /\ APipe!Count # 0
  BY <1>1, FullIs DEF APipe!ReadByte, APipe!TypeOK, PipeCounters
<1>3. APipe!Count > 0 /\ APipe!Count \in Nat
  BY <1>1, <1>2, CountIs, Sizes DEF APipe!TypeOK
<1>4. APipe!Count' = APipe!Count - 1
  BY <1>2, <1>3, CountGet DEF APipe!ReadByte
<1>5. Ring \in Seq(Bytes) /\ Len(Ring) = APipe!Count
  BY <1>1, RingIsSeq
<1>6. Ring' = [k \in 1 .. APipe!Count - 1 |-> data[Slot(k + 1)]]
  <2>1. \A k \in 1 .. APipe!Count - 1 : Slot(k)' = Slot(k + 1)
    BY <1>1, <1>3, SlotGet DEF APipe!ReadByte
  <2> QED BY <2>1, <1>4 DEF Ring, APipe!ReadByte, Slot
<1>7. \A k \in 1 .. APipe!Count - 1 : data[Slot(k + 1)] = Ring[k + 1]
  BY <1>3 DEF Ring
<1>8. Ring' = [k \in 1 .. APipe!Count - 1 |-> Ring[k + 1]]
  BY <1>6, <1>7
<1>9. Ring # <<>>
  BY <1>3, <1>5
<1>10. /\ Tail(Ring) \in Seq(Bytes) /\ Len(Tail(Ring)) = APipe!Count - 1
       /\ \A k \in 1 .. APipe!Count - 1 : Tail(Ring)[k] = Ring[k + 1]
  BY <1>5, <1>9, HeadTailProperties
<1>11. Ring' \in Seq(Bytes) /\ Len(Ring') = APipe!Count - 1
  <2>1. \A k \in 1 .. APipe!Count - 1 : Ring[k + 1] \in Bytes
    BY <1>3, <1>5
  <2>2. APipe!Count - 1 \in Nat
    BY <1>3
  <2> QED BY <2>1, <2>2, <1>8
<1>12. \A k \in 1 .. APipe!Count - 1 : Ring'[k] = Tail(Ring)[k]
  BY <1>8, <1>10
<1> QED BY <1>9, <1>10, <1>11, <1>12, SeqEqual

LEMMA QueueInit ==
  ASSUME APipe!Parameters
  PROVE  APipe!Init => APipe!Queue!Init
BY RingInit DEF APipe!Init, APipe!Queue!Init, Ring, Slot

\* A byte written is put into the queue, a byte read is taken out, pipeclose() closes
\* an end, and nothing else can be seen.
LEMMA QueueStep ==
  ASSUME APipe!Parameters
  PROVE  PipeInv /\ [APipe!Next]_(APipe!vars) => [APipe!Queue!Next]_(APipe!Queue!vars)
<1> SUFFICES ASSUME PipeInv, [APipe!Next]_(APipe!vars) PROVE [APipe!Queue!Next]_(APipe!Queue!vars)
  OBVIOUS
<1>0. ASSUME UNCHANGED APipe!pipe PROVE UNCHANGED APipe!Queue!vars
  BY <1>0 DEF APipe!pipe, APipe!Queue!vars, APipe!Count
<1>1. CASE UNCHANGED APipe!vars
  BY <1>0, <1>1 DEF APipe!vars
<1>2. ASSUME NEW p \in Procs, NEW n \in 0 .. MaxBytes, APipe!Write(p, n) \/ APipe!Read(p, n)
      PROVE  UNCHANGED APipe!Queue!vars
  BY <1>0, <1>2 DEF APipe!Write, APipe!Read
<1>3. ASSUME NEW p \in Procs, APipe!WriteStep(p) PROVE [APipe!Queue!Next]_(APipe!Queue!vars)
  <2>1. ASSUME NEW x \in Bytes, APipe!WriteByte(p, x) PROVE APipe!Queue!Put(x)
    <3>1. readopen /\ writeopen
      BY <2>1 DEF APipe!WriteByte, PipeInv, PipeEndsInv, PipeLoopInv, Writing
    <3> QED BY <2>1, <3>1, RingPut DEF APipe!Queue!Put, Ring, Slot, APipe!WriteByte
  <2>2. CASE ~ \E x \in Bytes : APipe!WriteByte(p, x)
    BY <1>0, <1>3, <2>2
       DEF APipe!WriteStep, APipe!WriteLock, APipe!WriteDone, APipe!WriteRefused, APipe!WriteTest, APipe!WriteFull, APipe!WriteFault
  <2> QED BY <2>1, <2>2 DEF APipe!Queue!Next
<1>4. ASSUME NEW p \in Procs, APipe!ReadStep(p) PROVE [APipe!Queue!Next]_(APipe!Queue!vars)
  <2>1. ASSUME NEW ok \in BOOLEAN, APipe!ReadByte(p, ok) PROVE APipe!Queue!Get
    <3>1. readopen
      BY <2>1 DEF APipe!ReadByte, PipeInv, PipeEndsInv, Reading
    <3> QED BY <2>1, <3>1, RingGet DEF APipe!Queue!Get, Ring, Slot, APipe!ReadByte
  <2>2. CASE ~ \E ok \in BOOLEAN : APipe!ReadByte(p, ok)
    BY <1>0, <1>4, <2>2
       DEF APipe!ReadStep, APipe!ReadLock, APipe!ReadRefused, APipe!ReadTest, APipe!ReadSleep, APipe!ReadDone
  <2> QED BY <2>1, <2>2 DEF APipe!Queue!Next
<1>5. ASSUME NEW p \in Procs, NEW q \in Procs, APipe!Inherit(p, q) PROVE UNCHANGED APipe!Queue!vars
  BY <1>0, <1>5 DEF APipe!Inherit
<1>6. ASSUME NEW p \in Procs, APipe!Close(p) PROVE UNCHANGED APipe!Queue!vars
  BY <1>0, <1>6 DEF APipe!Close, APipe!CloseRead, APipe!CloseWrite
<1>7. ASSUME NEW p \in Procs, APipe!PipeClose(p) PROVE [APipe!Queue!Next]_(APipe!Queue!vars)
  <2>1. CASE APipe!PipeCloseRead(p)
    <3>1. APipe!Count' = APipe!Count /\ UNCHANGED <<data, nread, writeopen>> /\ readopen' = FALSE
      BY <2>1 DEF APipe!PipeCloseRead, APipe!Count
    <3>2. CASE readopen
      BY <3>1, <3>2 DEF APipe!Queue!Next, APipe!Queue!CloseRead
    <3>3. CASE ~readopen
      BY <3>1, <3>3 DEF PipeInv, APipe!TypeOK, APipe!Queue!vars
    <3> QED BY <3>2, <3>3
  <2>2. CASE APipe!PipeCloseWrite(p)
    <3>1. APipe!Count' = APipe!Count /\ UNCHANGED <<data, nread, readopen>> /\ writeopen' = FALSE
      BY <2>2 DEF APipe!PipeCloseWrite, APipe!Count
    <3>2. CASE writeopen
      BY <3>1, <3>2 DEF APipe!Queue!Next, APipe!Queue!CloseWrite
    <3>3. CASE ~writeopen
      BY <3>1, <3>3 DEF PipeInv, APipe!TypeOK, APipe!Queue!vars
    <3> QED BY <3>2, <3>3
  <2> QED BY <1>7, <2>1, <2>2 DEF APipe!PipeClose
<1>8. ASSUME NEW p \in Procs, APipe!Kill(p) PROVE UNCHANGED APipe!Queue!vars
  BY <1>0, <1>8 DEF APipe!Kill
<1> QED BY <1>1, <1>2, <1>3, <1>4, <1>5, <1>6, <1>7, <1>8 DEF APipe!Next

----------------------------------------------------------------------------

\* A pipe by itself: the calls find their ends open, nobody sleeps for what is
\* there (pipe.c:58-130).
THEOREM PipeCorrect ==
  ASSUME APipe!Parameters
  PROVE  APipe!Spec => [](APipe!TypeOK /\ APipe!OpenWhileUsed /\ APipe!NoLostWakeup)
<1>1. APipe!Init => PipeInv
  BY PipeFirst
<1>2. PipeInv /\ [APipe!Next]_(APipe!vars) => PipeInv'
  BY PipeNext
<1>3. PipeInv => APipe!TypeOK /\ APipe!OpenWhileUsed /\ APipe!NoLostWakeup
  BY PipeInvSafe
<1> QED BY <1>1, <1>2, <1>3, PTL DEF APipe!Spec

\* The ring of the pipe, with its wrapping counters, is a bounded queue of PIPESIZE
\* bytes (pipe.c:76-130).
THEOREM PipeIsQueue ==
  ASSUME APipe!Parameters
  PROVE  APipe!Spec => APipe!QueueSpec
<1>1. APipe!Init => PipeInv /\ APipe!Queue!Init
  BY PipeFirst, QueueInit
<1>2. PipeInv /\ [APipe!Next]_(APipe!vars) => PipeInv'
  BY PipeNext
<1>3. PipeInv /\ [APipe!Next]_(APipe!vars) => [APipe!Queue!Next]_(APipe!Queue!vars)
  BY QueueStep
<1> QED BY <1>1, <1>2, <1>3, PTL DEF APipe!Spec, APipe!QueueSpec, APipe!Queue!Spec

----------------------------------------------------------------------------
(* The pipe of an endpoint *)

\* A step of Endpoints is one of the pipe, or none.
LEMMA PipeSteps == [Next]_vars => [APipe!Next]_(APipe!vars)
<1> SUFFICES ASSUME [Next]_vars PROVE [APipe!Next]_(APipe!vars)
  OBVIOUS
<1>1. CASE RunPipe
  BY <1>1 DEF RunPipe
<1>2. CASE ~RunPipe
  <2>1. UNCHANGED pipeVars
    BY <1>2 DEF Next, vars, RunInput, RunOutput, RunClock, OnlyInput, OnlyOutput, OnlyClock
  <2> QED BY <2>1 DEF pipeVars, APipe!vars, APipe!pipe
<1> QED BY <1>1, <1>2

LEMMA PipeInit == Init => PipeInv
BY EndpointsAssumption, PipeFirst DEF Init

LEMMA PipeStep == PipeInv /\ [Next]_vars => PipeInv'
BY EndpointsAssumption, PipeSteps, PipeNext

LEMMA PipeSafe == PipeInv => OpenWhileUsed /\ APipe!NoLostWakeup
<1>1. PipeInv => APipe!OpenWhileUsed /\ APipe!NoLostWakeup
  BY EndpointsAssumption, PipeInvSafe
<1> QED BY <1>1 DEF OpenWhileUsed

\* The page of the pipe, which pipeclose() frees when both ends are closed, is not
\* in use by a call, for any number of processes (pipe.c:58-74).
THEOREM OpenWhileUsedCorrect == Spec => []OpenWhileUsed
BY PipeInit, PipeStep, PipeSafe, PTL DEF Spec

\* The ring of the pipe, with its wrapping counters, is a bounded queue of any size
\* (pipe.c:76-130).
THEOREM QueueCorrect == Spec => QueueSpec
<1>1. Init => APipe!Queue!Init
  BY EndpointsAssumption, QueueInit DEF Init
<1>2. PipeInv /\ [Next]_vars => [APipe!Queue!Next]_(APipe!Queue!vars)
  BY EndpointsAssumption, PipeSteps, QueueStep
<1> QED BY <1>1, <1>2, PipeInit, PipeStep, PTL
        DEF Spec, QueueSpec, APipe!QueueSpec, APipe!Queue!Spec

----------------------------------------------------------------------------
(* Console output *)

\* The harts that have seen the chip idle and are about to write THR, and the holder
\* of the lock if it is one more.
AtThr == {h \in Printers : sync[h] = "thr"}
HolderAtThr == IF \E p \in Output!Senders : sender[p] = "thr" THEN 1 ELSE 0

OutputInv ==
  /\ Output!TypeOK
  /\ \A p \in Output!Senders : sender[p] \in {"start", "thr"} <=> txlock = p
  /\ \A p \in Procs : sender[p] # "idle" => unsent[p] > 0
  /\ Output!SleepsWhileFull
  \* Each that writes THR has seen the chip empty once: what it holds came from others.
  /\ fifo + Cardinality(AtThr) + HolderAtThr <= Cardinality(Printers) + 1

LEMMA OutputParameters ==
  /\ Handler \notin Procs /\ Nobody \notin Output!Senders /\ KillSet \subseteq Procs
  /\ UART_TX_BUF_SIZE \in Nat \ {0}
  /\ IsFiniteSet(Printers) /\ FIFO \in Nat
  /\ Cardinality(Printers) \in Nat /\ Cardinality(Printers) < FIFO
  /\ MaxN \in Nat \ {0} /\ MaxPrints \in Nat
<1>1. Output!Cardinality(Printers) = Cardinality(Printers)
  BY DEF Output!Cardinality, Cardinality
<1>2. Output!IsFiniteSet(Printers) <=> IsFiniteSet(Printers)
  BY DEF Output!IsFiniteSet, IsFiniteSet
<1> QED BY <1>1, <1>2, EndpointsAssumption, FS_CardinalityType
        DEF Output!Parameters, Output!Senders

LEMMA OutputSteps == [Next]_vars => Output!Next \/ UNCHANGED outputVars
BY DEF Next, vars, RunPipe, RunInput, RunOutput, RunClock, OnlyPipe, OnlyInput, OnlyClock

\* At most every printer is at THR.
LEMMA AtThrCount ==
  /\ IsFiniteSet(AtThr)
  /\ Cardinality(AtThr) \in Nat
  /\ Cardinality(AtThr) <= Cardinality(Printers)
BY OutputParameters, FS_Subset, FS_CardinalityType DEF AtThr

LEMMA OutputInit == Init => OutputInv
<1> SUFFICES ASSUME Init PROVE OutputInv
  OBVIOUS
<1>1. AtThr = {}
  BY DEF Init, Output!Init, AtThr
<1>2. HolderAtThr = 0
  BY DEF Init, Output!Init, HolderAtThr
<1>3. Cardinality(AtThr) = 0
  BY <1>1, FS_EmptySet
<1>4. Output!TypeOK
  <2>1. Output!Init
    BY DEF Init
  <2>2. /\ tx \in 0 .. UART_TX_BUF_SIZE /\ unsent \in [Procs -> 0 .. MaxN]
        /\ prints \in [Printers -> 0 .. MaxPrints]
    BY <2>1, OutputParameters DEF Output!Init
  <2> QED BY <2>1, <2>2 DEF Output!Init, Output!TypeOK, Output!Senders
<1>5. fifo + Cardinality(AtThr) + HolderAtThr <= Cardinality(Printers) + 1
  BY <1>2, <1>3, OutputParameters DEF Init, Output!Init
<1> QED BY <1>4, <1>5, OutputParameters
        DEF Init, OutputInv, Output!Init, Output!Senders, Output!SleepsWhileFull

\* Who shares the lock and the ring keeps them in order.
LEMMA OutputRingStep ==
  ASSUME OutputInv, Output!Next
  PROVE  /\ Output!TypeOK'
         /\ \A p \in Output!Senders : sender'[p] \in {"start", "thr"} <=> txlock' = p
         /\ \A p \in Procs : sender'[p] # "idle" => unsent'[p] > 0
         /\ Output!SleepsWhileFull'
<1> DEFINE Kept == /\ Output!TypeOK
                   /\ \A p \in Output!Senders :
                        sender[p] \in {"start", "thr"} <=> txlock = p
                   /\ \A p \in Procs : sender[p] # "idle" => unsent[p] > 0
                   /\ Output!SleepsWhileFull
<1> SUFFICES Kept'
  OBVIOUS
<1> USE OutputParameters
    DEF OutputInv, Output!TypeOK, Output!SleepsWhileFull, Output!Full, Output!Senders,
        Output!Goto, Output!callVars, Output!syncVars
<1>1. ASSUME NEW p \in Procs, NEW n \in 1 .. MaxN, Output!Write(p, n) PROVE Kept'
  BY <1>1 DEF Output!Write
<1>2. ASSUME NEW p \in Output!Senders, Output!Start(p) PROVE Kept'
  <2>1. CASE Output!StartByte(p)
    <3>1. Output!TypeOK'
      BY <2>1 DEF Output!StartByte, Output!Woken
    <3>2. \A q \in Output!Senders : sender'[q] = IF q = p THEN "thr"
                                     ELSE IF sender[q] = "asleep" THEN "put" ELSE sender[q]
      BY <2>1 DEF Output!StartByte, Output!Woken
    <3> QED BY <2>1, <3>1, <3>2 DEF Output!StartByte
  <2>2. CASE Output!StartThr(p)
    BY <2>2 DEF Output!StartThr
  <2>3. CASE Output!StartReturn(p)
    BY <2>3 DEF Output!StartReturn
  <2> QED BY <1>2, <2>1, <2>2, <2>3 DEF Output!Start
<1>3. ASSUME NEW p \in Procs, Output!Consolewrite(p) PROVE Kept'
  <2>1. CASE Output!Copyin(p)
    BY <2>1 DEF Output!Copyin
  <2>2. CASE Output!PutFull(p)
    BY <2>2 DEF Output!PutFull
  <2>3. CASE Output!Put(p)
    BY <2>3 DEF Output!Put
  <2> QED BY <1>2, <1>3, <2>1, <2>2, <2>3 DEF Output!Consolewrite
<1>4. ASSUME NEW p \in Procs, Output!Kill(p) PROVE Kept'
  BY <1>4 DEF Output!Kill
<1>5. ASSUME NEW h \in Printers, Output!PutSync(h) \/ Output!UartputcSync(h) PROVE Kept'
  BY <1>5 DEF Output!PutSync, Output!UartputcSync, Output!SyncIdle, Output!SyncThr
<1>6. CASE Output!Uartintr
  BY <1>2, <1>6 DEF Output!Uartintr, Output!Interrupt, Output!IntrLock
<1>7. CASE Output!Receive
  BY <1>7 DEF Output!Receive
<1>8. CASE Output!Transmit
  BY <1>8 DEF Output!Transmit
<1> HIDE DEF Kept
<1> QED BY <1>1, <1>3, <1>4, <1>5, <1>6, <1>7, <1>8 DEF Output!Next

\* What is in the chip, or about to be, is no more than one byte of each.
LEMMA OutputChipStep ==
  ASSUME OutputInv, Output!Next
  PROVE  fifo' + Cardinality(AtThr)' + HolderAtThr' <= Cardinality(Printers) + 1
<1> DEFINE Chip == fifo + Cardinality(AtThr) + HolderAtThr <= Cardinality(Printers) + 1
<1> SUFFICES Chip'
  OBVIOUS
<1>0. /\ fifo \in Nat /\ fifo' \in Nat
      /\ IsFiniteSet(AtThr) /\ Cardinality(AtThr) \in Nat /\ Cardinality(AtThr)' \in Nat
      /\ Cardinality(AtThr)' <= Cardinality(Printers)
      /\ HolderAtThr \in {0, 1} /\ HolderAtThr' \in {0, 1}
      /\ Cardinality(Printers) \in Nat
      /\ Chip
  <2>1. Cardinality(AtThr)' \in Nat /\ Cardinality(AtThr)' <= Cardinality(Printers)
    BY OutputParameters, FS_Subset, FS_CardinalityType DEF AtThr
  <2> QED BY <2>1, AtThrCount, OutputParameters, OutputRingStep
          DEF OutputInv, Output!TypeOK, HolderAtThr
<1>1. ASSUME fifo' = fifo, AtThr' = AtThr, HolderAtThr' = HolderAtThr PROVE Chip'
  BY <1>0, <1>1
<1>2. ASSUME NEW p \in Output!Senders, Output!Start(p) PROVE Chip'
  <2>1. CASE Output!StartByte(p)
    BY <1>0, <2>1 DEF Output!StartByte, Output!TxIdle
  <2>2. CASE Output!StartThr(p)
    <3>1. HolderAtThr = 1
      BY <2>2 DEF Output!StartThr, HolderAtThr
    <3>2. HolderAtThr' = 0
      BY <2>2 DEF Output!StartThr, Output!Goto, HolderAtThr, OutputInv, Output!TypeOK
    <3>3. AtThr' = AtThr /\ fifo' = fifo + 1
      BY <2>2 DEF Output!StartThr, AtThr, Output!syncVars
    <3> QED BY <1>0, <3>1, <3>2, <3>3
  <2>3. CASE Output!StartReturn(p)
    <3>1. HolderAtThr' = HolderAtThr
      BY <2>3 DEF Output!StartReturn, Output!Goto, HolderAtThr, OutputInv, Output!TypeOK
    <3> QED BY <1>1, <2>3, <3>1 DEF Output!StartReturn, AtThr, Output!syncVars
  <2> QED BY <1>2, <2>1, <2>2, <2>3 DEF Output!Start
<1>3. ASSUME NEW p \in Procs,
             \/ \E n \in 1 .. MaxN : Output!Write(p, n)
             \/ Output!Copyin(p) \/ Output!PutFull(p) \/ Output!Put(p) \/ Output!Kill(p)
      PROVE  Chip'
  <2>1. HolderAtThr' = HolderAtThr
    BY <1>3
       DEF Output!Write, Output!Copyin, Output!PutFull, Output!Put, Output!Kill,
           Output!Goto, Output!Senders, HolderAtThr, OutputInv, Output!TypeOK
  <2> QED BY <1>1, <1>3, <2>1
          DEF Output!Write, Output!Copyin, Output!PutFull, Output!Put, Output!Kill,
              AtThr, Output!syncVars
<1>4. CASE Output!Interrupt \/ Output!IntrLock \/ Output!Receive
  <2>1. HolderAtThr' = HolderAtThr
    BY <1>4
       DEF Output!Interrupt, Output!IntrLock, Output!Receive, Output!Goto,
           Output!Senders, HolderAtThr, OutputInv, Output!TypeOK
  <2> QED BY <1>1, <1>4, <2>1
          DEF Output!Interrupt, Output!IntrLock, Output!Receive, AtThr, Output!syncVars
<1>5. ASSUME NEW h \in Printers, Output!PutSync(h) PROVE Chip'
  BY <1>1, <1>5
     DEF Output!PutSync, AtThr, HolderAtThr, Output!callVars, OutputInv, Output!TypeOK
<1>6. ASSUME NEW h \in Printers, Output!SyncIdle(h) PROVE Chip'
  BY <1>0, <1>6 DEF Output!SyncIdle, Output!TxIdle
<1>7. ASSUME NEW h \in Printers, Output!SyncThr(h) PROVE Chip'
  <2>1. AtThr' = AtThr \ {h} /\ h \in AtThr
    BY <1>7 DEF Output!SyncThr, AtThr, OutputInv, Output!TypeOK
  <2>2. Cardinality(AtThr)' = Cardinality(AtThr) - 1
    BY <1>0, <2>1, FS_RemoveElement
  <2>3. HolderAtThr' = HolderAtThr /\ fifo' = fifo + 1
    BY <1>7 DEF Output!SyncThr, Output!callVars, HolderAtThr
  <2> QED BY <1>0, <2>2, <2>3
<1>8. CASE Output!Transmit
  <2>1. AtThr' = AtThr /\ HolderAtThr' = HolderAtThr /\ fifo' = 0
    BY <1>8 DEF Output!Transmit, Output!callVars, Output!syncVars, AtThr, HolderAtThr
  <2> QED BY <1>0, <2>1
<1>9. Handler \in Output!Senders /\ Procs \subseteq Output!Senders
  BY DEF Output!Senders
<1> HIDE DEF Chip
<1> QED BY <1>2, <1>3, <1>4, <1>5, <1>6, <1>7, <1>8, <1>9
        DEF Output!Next, Output!Consolewrite, Output!Uartintr, Output!UartputcSync

LEMMA OutputStep == OutputInv /\ [Next]_vars => OutputInv'
<1> SUFFICES ASSUME OutputInv, Output!Next \/ UNCHANGED outputVars PROVE OutputInv'
  BY OutputSteps
<1>1. CASE Output!Next
  BY <1>1, OutputRingStep, OutputChipStep DEF OutputInv
<1>2. CASE UNCHANGED outputVars
  BY <1>2
     DEF outputVars, OutputInv, AtThr, HolderAtThr, Output!TypeOK,
         Output!SleepsWhileFull, Output!Full
<1> QED BY <1>1, <1>2

LEMMA OutputSafe == OutputInv => NoOverrun
BY AtThrCount, OutputParameters
   DEF OutputInv, Output!TypeOK, HolderAtThr, NoOverrun, Output!NoOverrun

\* No byte is lost in the chip as long as it has room for one of each hart and one
\* more, though writers of THR that share no lock see it idle together
\* (uart.c:125-128, 146-159).
THEOREM NoOverrunCorrect == Spec => []NoOverrun
BY OutputInit, OutputStep, OutputSafe, PTL DEF Spec

----------------------------------------------------------------------------
(* The clock *)

\* The ticks from the beginning of the behaviour to time t.
Since(t) == Timer!Minus(t, BootTicks)

TimerType ==
  /\ ticks \in 0 .. TICKWORD - 1
  /\ clk \in 0 .. NPROC + 1
  /\ pstate \in [Timer!Slots -> {"UNUSED", "RUNNABLE", "RUNNING", "SLEEPING", "ZOMBIE"}]
  /\ born \in [Timer!Slots -> 0 .. TICKWORD - 1]
  /\ ran \in [Timer!Slots -> 0 .. TICKWORD - 1]
  /\ ended \in [Timer!Slots -> 0 .. TICKWORD - 1]
  /\ ticks0 \in [Timer!Slots -> 0 .. TICKWORD - 1]
  /\ length \in [Timer!Slots -> Nat]
  /\ sleeper \in Timer!Slots \cup {Timer!NoSlot}
  /\ dying \in [Timer!Slots -> BOOLEAN]

\* Who is about to sleep has tickslock, so its time is not over yet.
DozeInv ==
  sleeper # Timer!NoSlot =>
    clk = 0 /\ pstate[sleeper] = "RUNNING" /\ length[sleeper] > 0 /\ Timer!TooShort(sleeper)

\* Process p, in state s, has run for no more than the ticks of its life, and for one
\* more if it began when the tick had been counted and its slot not been looked at.
LifeOK(p, now, at, s, b, n, end) ==
  /\ s # "UNUSED" => Since(b) <= Since(now)
  /\ s \in {"RUNNABLE", "RUNNING", "SLEEPING"} =>
       n <= Since(now) - Since(b) + (IF at \in 1 .. p THEN 0 ELSE 1)
  /\ s = "ZOMBIE" => /\ Since(b) <= Since(end) /\ Since(end) <= Since(now)
                     /\ n <= Since(end) - Since(b) + 1

LivesInv ==
  /\ Since(ticks) <= MaxTicks
  /\ \A p \in Timer!Slots : LifeOK(p, ticks, clk, pstate[p], born[p], ran[p], ended[p])

TimerInv == TimerType /\ DozeInv /\ LivesInv /\ Timer!SleepsInTime

LEMMA TimerParameters ==
  /\ NPROC \in Nat \ {0} /\ Timer!Slots = 1 .. NPROC
  /\ TICKWORD \in Nat \ {0} /\ TICKWORD > 2 /\ BootTicks \in 0 .. TICKWORD - 1
  /\ MaxTicks \in Nat /\ 2 * MaxTicks < TICKWORD
  /\ MaxSleep \in 0 .. TICKWORD - 1
BY EndpointsAssumption DEF Timer!Parameters, Timer!Slots

LEMMA TimerSteps == [Next]_vars => Timer!Next \/ UNCHANGED clockVars
BY DEF Next, vars, RunPipe, RunInput, RunOutput, RunClock, OnlyPipe, OnlyInput, OnlyOutput

\* Times since the beginning are as far apart as the times themselves.
LEMMA SinceMinus ==
  ASSUME NEW a \in 0 .. TICKWORD - 1, NEW b \in 0 .. TICKWORD - 1
  PROVE  /\ Since(a) \in 0 .. TICKWORD - 1
         /\ Since(b) <= Since(a) => Timer!Minus(a, b) = Since(a) - Since(b)
<1>1. ASSUME NEW x \in 0 .. TICKWORD - 1
      PROVE  /\ Since(x) \in 0 .. TICKWORD - 1
             /\ BootTicks <= x => Since(x) = x - BootTicks
             /\ x < BootTicks => Since(x) = x - BootTicks + TICKWORD
  BY TimerParameters, MinusIs DEF Since, Timer!Minus
<1>2. /\ b <= a => Timer!Minus(a, b) = a - b
      /\ a < b => Timer!Minus(a, b) = a - b + TICKWORD
  BY TimerParameters, MinusIs DEF Timer!Minus
<1>3. TICKWORD \in Nat /\ BootTicks \in 0 .. TICKWORD - 1
  BY TimerParameters
<1> QED BY <1>1, <1>2, <1>3

\* A tick more.
LEMMA SinceTick ==
  ASSUME NEW a \in 0 .. TICKWORD - 1, Since(a) < MaxTicks
  PROVE  /\ (a + 1) % TICKWORD \in 0 .. TICKWORD - 1
         /\ Since((a + 1) % TICKWORD) = Since(a) + 1
<1>1. (a + 1) % TICKWORD = IF a = TICKWORD - 1 THEN 0 ELSE a + 1
  BY TimerParameters, NextIs
<1>2. (a + 1) % TICKWORD \in 0 .. TICKWORD - 1
  BY <1>1, TimerParameters
<1>3. /\ BootTicks <= a => Since(a) = a - BootTicks
      /\ a < BootTicks => Since(a) = a - BootTicks + TICKWORD
  BY TimerParameters, MinusIs DEF Since, Timer!Minus
<1>4. LET c == (a + 1) % TICKWORD
      IN  /\ BootTicks <= c => Since(c) = c - BootTicks
          /\ c < BootTicks => Since(c) = c - BootTicks + TICKWORD
  BY <1>2, TimerParameters, MinusIs DEF Since, Timer!Minus
<1> QED BY <1>1, <1>2, <1>3, <1>4, TimerParameters

LEMMA TimerInit == Init => TimerInv
<1> SUFFICES ASSUME Timer!Init PROVE TimerInv
  BY DEF Init
<1>1. Since(BootTicks) = 0
  BY TimerParameters, MinusIs DEF Since, Timer!Minus
<1>2. TimerType
  BY TimerParameters DEF Timer!Init, TimerType
<1>3. ticks = BootTicks /\ \A p \in Timer!Slots : pstate[p] = "UNUSED"
  BY DEF Timer!Init
<1> QED BY <1>1, <1>2, <1>3, TimerParameters
        DEF TimerInv, DozeInv, LivesInv, LifeOK, Timer!SleepsInTime, Timer!Init

LEMMA TimerTypeStep ==
  ASSUME TimerInv, Timer!Next
  PROVE  TimerType'
<1> USE DEF TimerInv, TimerType, Timer!timeVars, Timer!sleepVars, Timer!Become
<1>1. /\ 0 \in 0 .. TICKWORD - 1
      /\ \A a \in 0 .. TICKWORD - 1 : (a + 1) % TICKWORD \in 0 .. TICKWORD - 1
  BY TimerParameters, NextIs
<1>2. CASE Timer!Tick
  <2>1. 1 \in 0 .. NPROC + 1
    BY TimerParameters
  <2> QED BY <1>1, <1>2, <2>1 DEF Timer!Tick
<1>3. CASE Timer!UpdateTime
  <2>1. clk + 1 \in 0 .. NPROC + 1
    BY <1>3, TimerParameters DEF Timer!UpdateTime
  <2>2. ran' \in [Timer!Slots -> 0 .. TICKWORD - 1]
    BY <1>1, <1>3 DEF Timer!UpdateTime
  <2> QED BY <1>3, <2>1, <2>2 DEF Timer!UpdateTime
<1>4. CASE Timer!TickDone
  <2>1. 0 \in 0 .. NPROC + 1
    BY TimerParameters
  <2> QED BY <1>4, <2>1 DEF Timer!TickDone
<1>5. ASSUME NEW p \in Timer!Slots, Timer!Process(p) PROVE TimerType'
  <2>1. CASE Timer!Allocproc(p)
    BY <1>1, <2>1 DEF Timer!Allocproc
  <2>2. CASE Timer!Run(p) \/ Timer!Yield(p)
    BY <2>2 DEF Timer!Run, Timer!Yield
  <2>3. CASE Timer!Exit(p)
    BY <2>3 DEF Timer!Exit
  <2>4. CASE Timer!Waitx(p)
    BY <1>1, <2>4 DEF Timer!Waitx
  <2>5. CASE Timer!Kill(p)
    BY <2>5 DEF Timer!Kill
  <2>6. ASSUME NEW n \in Timer!Lengths, Timer!SysSleep(p, n) PROVE TimerType'
    <3>1. n \in Nat
      BY TimerParameters DEF Timer!Lengths
    <3> QED BY <2>6, <3>1 DEF Timer!SysSleep
  <2>7. CASE Timer!Sleep(p) \/ Timer!SleepAgain(p)
    BY <1>1, <2>7 DEF Timer!Sleep, Timer!SleepAgain
  <2> QED BY <1>5, <2>1, <2>2, <2>3, <2>4, <2>5, <2>6, <2>7 DEF Timer!Process
<1> QED BY <1>2, <1>3, <1>4, <1>5 DEF Timer!Next, Timer!ClockIntr

\* Nobody else changes what the process has found out that has tickslock.
LEMMA TimerDozeStep ==
  ASSUME TimerInv, Timer!Next
  PROVE  DozeInv'
<1>0. /\ DozeInv
      /\ pstate \in [Timer!Slots -> {"UNUSED", "RUNNABLE", "RUNNING", "SLEEPING", "ZOMBIE"}]
      /\ ticks0 \in [Timer!Slots -> 0 .. TICKWORD - 1]
      /\ length \in [Timer!Slots -> Nat]
      /\ sleeper \in Timer!Slots \cup {Timer!NoSlot}
      /\ ticks \in 0 .. TICKWORD - 1
      /\ Timer!NoSlot \notin Timer!Slots
  BY TimerParameters DEF TimerInv, TimerType, Timer!NoSlot
<1> USE <1>0 DEF DozeInv, Timer!TooShort, Timer!Minus, Timer!timeVars, Timer!sleepVars,
                 Timer!Become, Timer!Unlocked
<1>1. CASE Timer!ClockIntr
  <2>1. sleeper = Timer!NoSlot
    BY <1>1, TimerParameters
       DEF Timer!ClockIntr, Timer!Tick, Timer!UpdateTime, Timer!TickDone
  <2>2. UNCHANGED sleeper
    BY <1>1 DEF Timer!ClockIntr, Timer!Tick, Timer!UpdateTime, Timer!TickDone
  <2> QED BY <2>1, <2>2
<1>2. ASSUME NEW p \in Timer!Slots, Timer!Process(p) PROVE DozeInv'
  <2>1. CASE Timer!Allocproc(p) \/ Timer!Run(p) \/ Timer!Yield(p) \/ Timer!Exit(p)
    BY <2>1 DEF Timer!Allocproc, Timer!Run, Timer!Yield, Timer!Exit
  <2>2. CASE Timer!Waitx(p) \/ Timer!Kill(p)
    BY <2>2 DEF Timer!Waitx, Timer!Kill
  <2>3. ASSUME NEW n \in Timer!Lengths, Timer!SysSleep(p, n) PROVE DozeInv'
    <3>1. (ticks - ticks) % TICKWORD = 0 /\ n > 0
      BY TimerParameters, MinusIs DEF Timer!Lengths
    <3> QED BY <2>3, <3>1 DEF Timer!SysSleep
  <2>4. CASE Timer!Sleep(p) \/ Timer!SleepAgain(p)
    BY <2>4 DEF Timer!Sleep, Timer!SleepAgain
  <2> QED BY <1>2, <2>1, <2>2, <2>3, <2>4 DEF Timer!Process
<1> QED BY <1>1, <1>2 DEF Timer!Next

\* Every tick wakes all who sleep, and they look at the clock again.
LEMMA TimerSleepStep ==
  ASSUME TimerInv, Timer!Next
  PROVE  Timer!SleepsInTime'
<1>0. /\ Timer!SleepsInTime /\ DozeInv
      /\ pstate \in [Timer!Slots -> {"UNUSED", "RUNNABLE", "RUNNING", "SLEEPING", "ZOMBIE"}]
      /\ ticks0 \in [Timer!Slots -> 0 .. TICKWORD - 1]
      /\ length \in [Timer!Slots -> Nat]
      /\ dying \in [Timer!Slots -> BOOLEAN]
      /\ ticks \in 0 .. TICKWORD - 1
  BY DEF TimerInv, TimerType
<1> USE <1>0 DEF Timer!SleepsInTime, Timer!timeVars, Timer!sleepVars, Timer!Become
<1>1. CASE Timer!Tick
  BY <1>1 DEF Timer!Tick
<1>2. CASE Timer!UpdateTime
  <2>1. clk' # 0
    BY <1>2, TimerParameters DEF Timer!UpdateTime
  <2> QED BY <2>1
<1>3. CASE Timer!TickDone
  BY <1>3 DEF Timer!TickDone
<1>4. ASSUME NEW p \in Timer!Slots, Timer!Process(p) PROVE Timer!SleepsInTime'
  <2>1. CASE Timer!Allocproc(p) \/ Timer!Run(p) \/ Timer!Yield(p) \/ Timer!Exit(p)
    BY <2>1 DEF Timer!Allocproc, Timer!Run, Timer!Yield, Timer!Exit
  <2>2. CASE Timer!Waitx(p)
    BY <2>2 DEF Timer!Waitx
  <2>3. CASE Timer!Kill(p)
    BY <2>3 DEF Timer!Kill
  <2>4. ASSUME NEW n \in Timer!Lengths, Timer!SysSleep(p, n) PROVE Timer!SleepsInTime'
    BY <2>4, TimerParameters DEF Timer!SysSleep
  <2>5. CASE Timer!Sleep(p)
    BY <2>5, TimerParameters DEF Timer!Sleep, DozeInv, Timer!TooShort, Timer!Minus, Timer!NoSlot
  <2>6. CASE Timer!SleepAgain(p)
    BY <2>6, TimerParameters DEF Timer!SleepAgain
  <2> QED BY <1>4, <2>1, <2>2, <2>3, <2>4, <2>5, <2>6 DEF Timer!Process
<1> QED BY <1>1, <1>2, <1>3, <1>4 DEF Timer!Next, Timer!ClockIntr

\* One look of update_time() for every tick.
LEMMA TimerLivesStep ==
  ASSUME TimerInv, Timer!Next
  PROVE  LivesInv'
<1>0. /\ Since(ticks) <= MaxTicks
      /\ \A p \in Timer!Slots : LifeOK(p, ticks, clk, pstate[p], born[p], ran[p], ended[p])
  BY DEF TimerInv, LivesInv
<1>1. SUFFICES /\ Since(ticks') <= MaxTicks
               /\ \A p \in Timer!Slots :
                    LifeOK(p, ticks', clk', pstate'[p], born'[p], ran'[p], ended'[p])
  BY DEF LivesInv
<1>2. /\ \A p \in Timer!Slots : p \in Nat /\ 1 <= p /\ p <= NPROC
      /\ NPROC \in Nat /\ MaxTicks \in Nat /\ TICKWORD \in Nat /\ MaxTicks + 1 < TICKWORD
  BY TimerParameters
<1>3. \A a \in 0 .. TICKWORD - 1 : Since(a) \in Nat
  BY TimerParameters, SinceMinus
<1>4. /\ ticks \in 0 .. TICKWORD - 1 /\ clk \in 0 .. NPROC + 1
      /\ pstate \in [Timer!Slots -> {"UNUSED", "RUNNABLE", "RUNNING", "SLEEPING", "ZOMBIE"}]
      /\ born \in [Timer!Slots -> 0 .. TICKWORD - 1]
      /\ ran \in [Timer!Slots -> 0 .. TICKWORD - 1]
      /\ ended \in [Timer!Slots -> 0 .. TICKWORD - 1]
  BY DEF TimerInv, TimerType
<1> USE DEF Timer!timeVars, Timer!sleepVars, Timer!Become
<1>5. CASE Timer!Tick
  <2>1. Since(ticks') = Since(ticks) + 1 /\ Since(ticks) < MaxTicks
    BY <1>4, <1>5, SinceTick DEF Timer!Tick, Since
  <2>2. UNCHANGED <<pstate, born, ran, ended>> /\ clk = 0 /\ clk' = 1
    BY <1>5 DEF Timer!Tick, Timer!Unlocked
  <2> QED BY <1>0, <1>2, <1>3, <1>4, <2>1, <2>2 DEF LifeOK
<1>6. CASE Timer!UpdateTime
  <2>1. UNCHANGED <<ticks, pstate, born, ended>> /\ clk' = clk + 1 /\ clk \in Timer!Slots
    BY <1>6 DEF Timer!UpdateTime
  <2>2. ASSUME NEW p \in Timer!Slots, p # clk PROVE ran'[p] = ran[p]
    BY <1>4, <1>6, <2>2 DEF Timer!UpdateTime
  <2>3. pstate[clk] # "RUNNING" => ran'[clk] = ran[clk]
    BY <1>4, <1>6, <2>1 DEF Timer!UpdateTime
  <2>4. ASSUME pstate[clk] = "RUNNING" PROVE ran'[clk] = ran[clk] + 1
    <3>1. ran[clk] <= Since(ticks)
      BY <1>0, <1>2, <1>3, <1>4, <2>1, <2>4 DEF LifeOK
    <3>2. ran[clk] \in 0 .. TICKWORD - 1 /\ ran[clk] # TICKWORD - 1
      <4>1. ran[clk] \in 0 .. TICKWORD - 1 /\ Since(ticks) \in Nat
        BY <1>3, <1>4, <2>1
      <4> QED BY <1>0, <1>2, <3>1, <4>1
    <3>3. (ran[clk] + 1) % TICKWORD = ran[clk] + 1
      BY <3>2, TimerParameters, NextIs
    <3> QED BY <1>4, <1>6, <2>1, <2>4, <3>3 DEF Timer!UpdateTime
  <2>5. ASSUME NEW p \in Timer!Slots
        PROVE  LifeOK(p, ticks', clk', pstate'[p], born'[p], ran'[p], ended'[p])
    <3>1. /\ Since(ticks) \in Nat /\ Since(born[p]) \in Nat /\ Since(ended[p]) \in Nat
          /\ ran[p] \in Nat /\ clk \in Nat /\ 1 <= clk /\ p \in Nat
      <4>1. /\ born[p] \in 0 .. TICKWORD - 1 /\ ended[p] \in 0 .. TICKWORD - 1
            /\ ran[p] \in 0 .. TICKWORD - 1
        BY <1>4
      <4>2. Since(ticks) \in Nat /\ Since(born[p]) \in Nat /\ Since(ended[p]) \in Nat
        BY <1>3, <1>4, <4>1
      <4> QED BY <1>2, <2>1, <4>1, <4>2
    <3>2. LifeOK(p, ticks, clk, pstate[p], born[p], ran[p], ended[p])
      BY <1>0
    <3>3. CASE p = clk
      BY <2>1, <2>3, <2>4, <3>1, <3>2, <3>3 DEF LifeOK
    <3>4. CASE p # clk
      <4>1. clk \in 1 .. p <=> clk + 1 \in 1 .. p
        BY <2>1, <3>1, <3>4
      <4> QED BY <2>1, <2>2, <3>1, <3>2, <3>4, <4>1 DEF LifeOK
    <3> QED BY <3>3, <3>4
  <2> QED BY <1>0, <2>1, <2>5
<1>7. CASE Timer!TickDone
  <2>1. UNCHANGED <<ticks, born, ran, ended>> /\ clk = NPROC + 1 /\ clk' = 0
    BY <1>7 DEF Timer!TickDone
  <2>2. \A p \in Timer!Slots :
          \/ pstate'[p] = pstate[p]
          \/ pstate[p] = "SLEEPING" /\ pstate'[p] = "RUNNABLE"
    BY <1>7 DEF Timer!TickDone
  <2> QED BY <1>0, <1>2, <1>3, <1>4, <2>1, <2>2 DEF LifeOK
<1>8. ASSUME NEW p \in Timer!Slots, Timer!Process(p) PROVE LivesInv'
  <2>1. UNCHANGED <<ticks, clk>>
    BY <1>8
       DEF Timer!Process, Timer!Allocproc, Timer!Run, Timer!Yield, Timer!Exit, Timer!Waitx,
           Timer!Kill, Timer!SysSleep, Timer!Sleep, Timer!SleepAgain
  <2>2. \A q \in Timer!Slots : q # p =>
          /\ pstate'[q] = pstate[q] /\ born'[q] = born[q]
          /\ ran'[q] = ran[q] /\ ended'[q] = ended[q]
    BY <1>4, <1>8
       DEF Timer!Process, Timer!Allocproc, Timer!Run, Timer!Yield, Timer!Exit, Timer!Waitx,
           Timer!Kill, Timer!SysSleep, Timer!Sleep, Timer!SleepAgain
  <2> DEFINE Alive(s) == s \in {"RUNNABLE", "RUNNING", "SLEEPING"}
  <2>3. \/ pstate'[p] = "UNUSED"
        \/ Alive(pstate'[p]) /\ born'[p] = ticks /\ ran'[p] = 0
        \/ Alive(pstate[p]) /\ Alive(pstate'[p]) /\ born'[p] = born[p] /\ ran'[p] = ran[p]
        \/ /\ Alive(pstate[p]) /\ pstate'[p] = "ZOMBIE"
           /\ born'[p] = born[p] /\ ran'[p] = ran[p] /\ ended'[p] = ticks
    <3>1. sleeper = p => pstate[p] = "RUNNING"
      BY TimerParameters DEF TimerInv, DozeInv, Timer!NoSlot
    <3> QED BY <1>4, <1>8, <3>1
       DEF Timer!Process, Timer!Allocproc, Timer!Run, Timer!Yield, Timer!Exit, Timer!Waitx,
           Timer!Kill, Timer!SysSleep, Timer!Sleep, Timer!SleepAgain
  <2>4. ASSUME NEW q \in Timer!Slots
        PROVE  LifeOK(q, ticks', clk', pstate'[q], born'[q], ran'[q], ended'[q])
    <3>1. CASE q # p
      BY <1>0, <2>1, <2>2, <3>1
    <3>2. CASE q = p
      <4>1. Since(ticks) \in Nat /\ Since(born[p]) \in Nat /\ ran[p] \in Nat
        BY <1>3, <1>4, TimerParameters, SMTT(30)
      <4>2. LifeOK(p, ticks, clk, pstate[p], born[p], ran[p], ended[p])
        BY <1>0
      <4> QED BY <2>1, <2>3, <3>2, <4>1, <4>2 DEF LifeOK
    <3> QED BY <3>1, <3>2
  <2> QED BY <1>0, <2>1, <2>4 DEF LivesInv
<1> QED BY <1>5, <1>6, <1>7, <1>8 DEF Timer!Next, Timer!ClockIntr, LivesInv

LEMMA TimerStep == TimerInv /\ [Next]_vars => TimerInv'
<1> SUFFICES ASSUME TimerInv, Timer!Next \/ UNCHANGED clockVars PROVE TimerInv'
  BY TimerSteps
<1>1. CASE Timer!Next
  BY <1>1, TimerTypeStep, TimerDozeStep, TimerLivesStep, TimerSleepStep DEF TimerInv
<1>2. CASE UNCHANGED clockVars
  BY <1>2
     DEF clockVars, TimerInv, TimerType, DozeInv, LivesInv, LifeOK, Since, Timer!Minus,
         Timer!TooShort, Timer!SleepsInTime
<1> QED BY <1>1, <1>2

\* What waitx() subtracts is a number between -1 and half a turn of the clock.
LEMMA TimerSafe == TimerInv => TimesAddUp
<1> SUFFICES ASSUME TimerInv, NEW p \in Timer!Slots, pstate[p] = "ZOMBIE"
             PROVE  Timer!Waited(p) >= -1
  BY DEF TimesAddUp, Timer!TimesAddUp
<1> DEFINE life == Since(ended[p]) - Since(born[p])
           d == Timer!Minus(life, ran[p])
<1>1. /\ born[p] \in 0 .. TICKWORD - 1 /\ ended[p] \in 0 .. TICKWORD - 1
      /\ ran[p] \in 0 .. TICKWORD - 1 /\ ticks \in 0 .. TICKWORD - 1
      /\ Since(born[p]) <= Since(ended[p]) /\ Since(ended[p]) <= Since(ticks)
      /\ Since(ticks) <= MaxTicks
      /\ ran[p] <= life + 1
  BY DEF TimerInv, TimerType, LivesInv, LifeOK
<1>2. /\ Since(ended[p]) \in Nat /\ Since(born[p]) \in Nat /\ Since(ticks) \in Nat
      /\ Timer!Minus(ended[p], born[p]) = life
  <2>1. \A x \in 0 .. TICKWORD - 1 : Since(x) \in Nat
    BY SinceMinus, TimerParameters
  <2>2. Timer!Minus(ended[p], born[p]) = life
    BY <1>1, SinceMinus
  <2> QED BY <1>1, <2>1, <2>2
<1>3. life \in 0 .. MaxTicks /\ life \in 0 .. TICKWORD - 1
  BY <1>1, <1>2, TimerParameters
<1>4. Timer!Waited(p) = IF 2 * d < TICKWORD THEN d ELSE d - TICKWORD
  BY <1>2 DEF Timer!Waited
<1> HIDE DEF life
<1>5. /\ ran[p] <= life => d = life - ran[p]
      /\ life < ran[p] => d = life - ran[p] + TICKWORD
  BY <1>1, <1>3, MinusIs, TimerParameters DEF Timer!Minus
<1> HIDE DEF d
<1> QED BY <1>1, <1>3, <1>4, <1>5, TimerParameters

\* The run time waitx() subtracts is no longer than the life of the process, but for
\* the tick update_time() is counting, for any number of slots and any interleaving of
\* its loop with allocproc() and exit() (proc.c:160, 417, 505, 542).
THEOREM TimesAddUpCorrect == Spec => []TimesAddUp
BY TimerInit, TimerStep, TimerSafe, PTL DEF Spec

----------------------------------------------------------------------------
(* Console input *)

\* Between the counters: what is handed over, and all there is.
Given == Apart(r, w, UINT)
Stocked == Apart(r, e, UINT)

InputType ==
  /\ buf \in [0 .. INPUT_BUF - 1 -> Input!Stored]
  /\ r \in 0 .. UINT - 1 /\ w \in 0 .. UINT - 1 /\ e \in 0 .. UINT - 1
  /\ conslock \in Procs \cup {Nobody}
  /\ reader \in [Procs -> {"user", "lock", "loop", "sleep", "asleep"}]
  /\ unread \in [Procs -> 0 .. MaxN] /\ target \in [Procs -> 0 .. MaxN]
  /\ hit \in [Procs -> BOOLEAN]

\* The counters follow each other, less than a turn apart, and a full buffer is handed
\* over.
CountersInv ==
  /\ Given <= Stocked /\ Stocked <= INPUT_BUF
  /\ Stocked = INPUT_BUF => r # w

\* The lock is with the one inside the loop, and who sleeps, or is about to, has seen
\* that nothing was handed over.
ReadersInv ==
  \A p \in Procs :
    /\ reader[p] \in {"loop", "sleep"} <=> conslock = p
    /\ reader[p] \in {"sleep", "asleep"} => r = w

\* The line that is being edited has no end.
LineInv ==
  \A k \in 1 .. Apart(w, e, UINT) :
    buf[Place(w, k, INPUT_BUF)] \notin {Newline, Eof}

InputInv == InputType /\ CountersInv /\ ReadersInv /\ LineInv

LEMMA InputParameters ==
  /\ Nobody \notin Procs /\ KillSet \subseteq Procs
  /\ INPUT_BUF \in Nat \ {0}
  /\ UINT \in Nat \ {0} /\ UINT > INPUT_BUF + 1 /\ UINT % INPUT_BUF = 0
  /\ MaxN \in Nat \ {0}
BY EndpointsAssumption DEF Input!Parameters

LEMMA InputSteps == [Next]_vars => Input!Next \/ UNCHANGED inputVars
BY DEF Next, vars, RunPipe, RunInput, RunOutput, RunClock, OnlyPipe, OnlyOutput, OnlyClock

\* The differences of the code are these.
LEMMA MinusApart ==
  ASSUME NEW a, NEW b
  PROVE  Input!Minus(b, a) = Apart(a, b, UINT)
BY DEF Input!Minus, Apart

LEMMA CountersType ==
  ASSUME InputType
  PROVE  /\ Given \in Nat /\ Stocked \in Nat
         /\ r = w <=> Given = 0
         /\ Given <= Stocked => Apart(w, e, UINT) = Stocked - Given
<1>1. UINT \in Nat \ {0} /\ r \in 0 .. UINT - 1 /\ w \in 0 .. UINT - 1 /\ e \in 0 .. UINT - 1
  BY InputParameters DEF InputType
<1>2. /\ Given \in 0 .. UINT - 1 /\ Stocked \in 0 .. UINT - 1
      /\ r <= w => Given = w - r
      /\ w < r => Given = w + UINT - r
  BY <1>1, ApartIs DEF Given, Stocked
<1>3. Given <= Stocked => Apart(w, e, UINT) = Stocked - Given
  BY <1>1, ApartBetween DEF Given, Stocked
<1> QED BY <1>1, <1>2, <1>3

\* Before the next character is stored.
LEMMA OneMore ==
  ASSUME InputType, Stocked < INPUT_BUF
  PROVE  Input!Minus(e + 1, r) = Stocked + 1
<1>1. UINT \in Nat \ {0} /\ r \in 0 .. UINT - 1 /\ e \in 0 .. UINT - 1
  BY InputParameters DEF InputType
<1>2. /\ Stocked \in 0 .. UINT - 1
      /\ r <= e => Stocked = e - r
      /\ e < r => Stocked = e + UINT - r
  BY <1>1, ApartIs DEF Stocked
<1>3. CASE r <= e
  <2>1. e + 1 + UINT - r \in UINT .. 2 * UINT - 1 /\ e + 1 + UINT - r - UINT = Stocked + 1
    BY <1>1, <1>2, <1>3, InputParameters
  <2>2. (e + 1 + UINT - r) % UINT = e + 1 + UINT - r - UINT
    BY <1>1, <2>1, ModWrap
  <2> QED BY <2>1, <2>2 DEF Input!Minus
<1>4. CASE e < r
  <2>1. e + 1 + UINT - r \in 0 .. UINT - 1 /\ e + 1 + UINT - r = Stocked + 1
    BY <1>1, <1>2, <1>4, InputParameters
  <2> QED BY <1>1, <2>1, ModSmall DEF Input!Minus
<1> QED BY <1>1, <1>3, <1>4

LEMMA InputInit == Init => InputInv
<1> SUFFICES ASSUME Input!Init PROVE InputInv
  BY DEF Init
<1>1. InputType
  BY InputParameters DEF Input!Init, InputType, Input!Stored
<1>2. Given = 0 /\ Stocked = 0 /\ Apart(w, e, UINT) = 0
  BY InputParameters, ApartIs DEF Input!Init, Given, Stocked
<1> QED BY <1>1, <1>2, InputParameters
        DEF Input!Init, InputInv, CountersInv, ReadersInv, LineInv

\* What a move of the counters leaves true.
RingInv == /\ buf \in [0 .. INPUT_BUF - 1 -> Input!Stored]
           /\ r \in 0 .. UINT - 1 /\ w \in 0 .. UINT - 1 /\ e \in 0 .. UINT - 1
           /\ CountersInv
           /\ LineInv

\* A character is taken.
LEMMA TakeMove ==
  ASSUME InputInv, r # w, r' = (r + 1) % UINT, UNCHANGED <<buf, w, e>>
  PROVE  /\ RingInv'
         /\ Given' = Given - 1 /\ Stocked' = Stocked - 1
<1>1. UINT \in Nat \ {0} /\ r \in 0 .. UINT - 1 /\ w \in 0 .. UINT - 1 /\ e \in 0 .. UINT - 1
  BY InputParameters DEF InputInv, InputType
<1>2. /\ Given \in Nat /\ Stocked \in Nat /\ Given > 0
      /\ Given <= Stocked /\ Stocked <= INPUT_BUF
  BY CountersType DEF InputInv, CountersInv
<1>3. r # e
  <2>1. r = e => Stocked = 0
    BY <1>1, ApartIs DEF Stocked
  <2> QED BY <1>2, <2>1
<1>4. r' \in 0 .. UINT - 1 /\ Given' = Given - 1 /\ Stocked' = Stocked - 1
  BY <1>1, <1>3, ApartLess DEF Given, Stocked
<1>5. CountersInv'
  BY <1>2, <1>4, InputParameters DEF CountersInv
<1> QED BY <1>4, <1>5 DEF RingInv, InputInv, InputType, LineInv

\* A character is stored, and the line is handed over if it ends.
LEMMA StoreMove ==
  ASSUME InputInv, NEW k \in Input!Stored, Input!Store(k)
  PROVE  /\ RingInv'
         /\ Stocked < INPUT_BUF
         /\ Input!LineEnds(k) <=> k \in {Newline, Eof} \/ Stocked + 1 = INPUT_BUF
         /\ Stocked' = Stocked + 1
         /\ IF Input!LineEnds(k) THEN Given' = Stocked + 1 ELSE Given' = Given
         /\ Place(r, Stocked + 1, INPUT_BUF) \in 0 .. INPUT_BUF - 1
         /\ buf' = [buf EXCEPT ![Place(r, Stocked + 1, INPUT_BUF)] = k]
<1>1. /\ UINT \in Nat \ {0} /\ r \in 0 .. UINT - 1 /\ w \in 0 .. UINT - 1 /\ e \in 0 .. UINT - 1
      /\ INPUT_BUF \in Nat \ {0} /\ UINT > INPUT_BUF + 1 /\ UINT % INPUT_BUF = 0
  BY InputParameters DEF InputInv, InputType
<1>2. /\ Given \in Nat /\ Stocked \in Nat /\ Given <= Stocked /\ Stocked <= INPUT_BUF
      /\ Apart(w, e, UINT) = Stocked - Given
  BY CountersType DEF InputInv, CountersInv
<1>3. Stocked < INPUT_BUF
  BY MinusApart DEF Input!Store, Stocked
<1>4. Input!LineEnds(k) <=> k \in {Newline, Eof} \/ Stocked + 1 = INPUT_BUF
  BY <1>3, OneMore DEF Input!LineEnds, InputInv
<1>5. e' \in 0 .. UINT - 1 /\ Stocked' = Stocked + 1
  BY <1>1, <1>2, <1>3, ApartNext DEF Input!Store, Stocked
<1>6. /\ Input!LineEnds(k) => w' = e' /\ Given' = Stocked + 1
      /\ ~Input!LineEnds(k) => w' = w /\ Given' = Given
  BY <1>5 DEF Input!Store, Given, Stocked
<1>7. Input!Slot(e) = Place(r, Stocked + 1, INPUT_BUF)
  <2>1. Place(e, 1, INPUT_BUF) = Place(r, Stocked + 1, INPUT_BUF)
    BY <1>1, PlaceFrom DEF Stocked
  <2>2. e + 1 - 1 = e
    BY <1>1
  <2> QED BY <2>1, <2>2 DEF Place, Input!Slot
<1>8. Place(r, Stocked + 1, INPUT_BUF) \in 0 .. INPUT_BUF - 1
  BY <1>1, <1>2, PlaceType
<1>9. buf' = [buf EXCEPT ![Place(r, Stocked + 1, INPUT_BUF)] = k]
  BY <1>7 DEF Input!Store
<1>10. CountersInv'
  <2>1. Given' <= Stocked' /\ Stocked' <= INPUT_BUF
    BY <1>2, <1>3, <1>5, <1>6, <1>1
  <2>2. Stocked' = INPUT_BUF => r' # w'
    <3>1. Stocked' = INPUT_BUF => w' = e'
      BY <1>4, <1>5, <1>6
    <3>2. r' = e' => Stocked' = 0
      BY <1>1, <1>5, ApartIs DEF Stocked, Input!Store
    <3> QED BY <1>1, <3>1, <3>2
  <2> QED BY <2>1, <2>2 DEF CountersInv
<1>11. LineInv'
  <2>1. CASE Input!LineEnds(k)
    <3>1. Apart(w, e, UINT)' = 0
      BY <1>1, <1>5, <1>6, <2>1, ApartIs
    <3> QED BY <3>1 DEF LineInv
  <2>2. CASE ~Input!LineEnds(k)
    <3>1. w' = w /\ Apart(w, e, UINT)' = Apart(w, e, UINT) + 1
      <4>1. Apart(w, e, UINT) < UINT - 1
        BY <1>1, <1>2, <1>3
      <4> QED BY <1>1, <1>6, <2>2, <4>1, ApartNext DEF Input!Store
    <3> SUFFICES ASSUME NEW i \in 1 .. Apart(w, e, UINT) + 1
                 PROVE  buf'[Place(w, i, INPUT_BUF)] \notin {Newline, Eof}
      BY <3>1 DEF LineInv
    <3>2. Place(w, i, INPUT_BUF) = Place(r, Given + i, INPUT_BUF)
      BY <1>1, <1>2, PlaceFrom DEF Given
    <3>3. CASE i = Apart(w, e, UINT) + 1
      <4>1. Given + i = Stocked + 1
        BY <1>2, <3>3
      <4> QED BY <1>4, <1>8, <1>9, <2>2, <3>2, <4>1 DEF InputInv, InputType
    <3>4. CASE i # Apart(w, e, UINT) + 1
      <4>1. i \in 1 .. Apart(w, e, UINT)
        BY <1>2, <3>4
      <4>2. Given + i \in 1 .. INPUT_BUF /\ Stocked + 1 \in 1 .. INPUT_BUF
            /\ Given + i # Stocked + 1
        BY <1>1, <1>2, <1>3, <4>1
      <4>3. Place(r, Given + i, INPUT_BUF) # Place(r, Stocked + 1, INPUT_BUF)
        BY <1>1, <4>2, PlaceApart
      <4>4. buf'[Place(w, i, INPUT_BUF)] = buf[Place(w, i, INPUT_BUF)]
        <5>1. Place(w, i, INPUT_BUF) \in 0 .. INPUT_BUF - 1
          BY <1>1, <1>2, <4>1, PlaceType
        <5> QED BY <1>9, <3>2, <4>3, <5>1 DEF InputInv, InputType
      <4> QED BY <4>1, <4>4 DEF InputInv, LineInv
    <3> QED BY <3>3, <3>4
  <2> QED BY <2>1, <2>2
<1>12. /\ buf' \in [0 .. INPUT_BUF - 1 -> Input!Stored]
       /\ r' = r /\ w' \in 0 .. UINT - 1
  BY <1>1, <1>5, <1>6, <1>8, <1>9, ZenonT(60) DEF Input!Store, InputInv, InputType
<1> QED BY <1>1, <1>3, <1>4, <1>5, <1>6, <1>8, <1>9, <1>10, <1>11, <1>12 DEF RingInv

\* Characters of the line that is being edited are erased.
LEMMA EraseMove ==
  ASSUME InputInv, NEW n \in 1 .. Apart(w, e, UINT), e' = Input!Minus(e, n),
         UNCHANGED <<buf, r, w>>
  PROVE  /\ RingInv'
         /\ Given' = Given
         /\ Apart(w, e, UINT)' = Apart(w, e, UINT) - n
<1>1. UINT \in Nat \ {0} /\ r \in 0 .. UINT - 1 /\ w \in 0 .. UINT - 1 /\ e \in 0 .. UINT - 1
  BY InputParameters DEF InputInv, InputType
<1>2. /\ Given \in Nat /\ Stocked \in Nat /\ Given <= Stocked /\ Stocked <= INPUT_BUF
      /\ Apart(w, e, UINT) = Stocked - Given
  BY CountersType DEF InputInv, CountersInv
<1>3. n \in 0 .. Apart(w, e, UINT) /\ n \in 0 .. Apart(r, e, UINT) /\ n > 0
  BY <1>2 DEF Stocked
<1>4. e' \in 0 .. UINT - 1 /\ Apart(w, e, UINT)' = Apart(w, e, UINT) - n
  BY <1>1, <1>3, ApartBack DEF Input!Minus
<1>5. Stocked' = Stocked - n
  BY <1>1, <1>3, ApartBack DEF Stocked, Input!Minus
<1>6. Given' = Given
  BY DEF Given
<1>7. CountersInv'
  BY <1>2, <1>3, <1>5, <1>6, InputParameters DEF CountersInv
<1>8. LineInv'
  <2>1. \A k \in 1 .. Apart(w, e, UINT) - n : k \in 1 .. Apart(w, e, UINT)
    BY <1>2, <1>3
  <2> QED BY <1>4, <2>1 DEF LineInv, InputInv
<1> QED BY <1>1, <1>4, <1>6, <1>7, <1>8 DEF RingInv, InputInv, InputType

\* What a step that leaves the ring alone has to show.
LEMMA RingKept ==
  ASSUME InputInv, UNCHANGED <<buf, r, w, e>>
  PROVE  RingInv'
BY DEF RingInv, InputInv, InputType, CountersInv, LineInv, Given, Stocked, Apart, Place

CallsInv ==
  /\ conslock \in Procs \cup {Nobody}
  /\ reader \in [Procs -> {"user", "lock", "loop", "sleep", "asleep"}]
  /\ unread \in [Procs -> 0 .. MaxN] /\ target \in [Procs -> 0 .. MaxN]
  /\ hit \in [Procs -> BOOLEAN]
  /\ ReadersInv

LEMMA InputParts ==
  /\ InputInv <=> RingInv /\ CallsInv
  /\ InputInv' <=> RingInv' /\ CallsInv'
BY DEF InputInv, InputType, RingInv, CallsInv

\* The calls: everybody keeps the lock while inside.
LEMMA CallsStep ==
  ASSUME InputInv, NEW p \in Procs,
         (\E n \in 1 .. MaxN : Input!Read(p, n)) \/ Input!Inside(p) \/ Input!Kill(p)
  PROVE  CallsInv'
<1> USE InputParameters DEF Input!Goto, Input!Return, Input!cons, Input!MustWait
<1>0. CallsInv
  BY InputParts
<1>1. ASSUME NEW n \in 1 .. MaxN, Input!Read(p, n) PROVE CallsInv'
  BY <1>0, <1>1 DEF Input!Read, CallsInv, ReadersInv
<1>2. CASE Input!Lock(p)
  BY <1>0, <1>2 DEF Input!Lock, CallsInv, ReadersInv
<1>3. CASE Input!Killed(p)
  BY <1>0, <1>3 DEF Input!Killed, CallsInv, ReadersInv
<1>4. CASE Input!TestKilled(p)
  BY <1>0, <1>4 DEF Input!TestKilled, CallsInv, ReadersInv
<1>5. CASE Input!Sleep(p)
  BY <1>0, <1>5 DEF Input!Sleep, CallsInv, ReadersInv
<1>6. CASE Input!TakeEof(p)
  BY <1>0, <1>6 DEF Input!TakeEof, CallsInv, ReadersInv
<1>7. ASSUME NEW ok \in BOOLEAN, Input!TakeByte(p, ok) PROVE CallsInv'
  <2>1. r # w /\ reader[p] = "loop" /\ UNCHANGED <<w, hit>>
    BY <1>7 DEF Input!TakeByte
  <2>2. \A q \in Procs : reader[q] \notin {"sleep", "asleep"}
    BY <1>0, <2>1 DEF CallsInv, ReadersInv
  <2>3. CASE UNCHANGED <<conslock, reader, target>> /\ unread' = [unread EXCEPT ![p] = @ - 1]
             /\ unread[p] > 1
    BY <1>0, <2>1, <2>2, <2>3 DEF CallsInv, ReadersInv
  <2>4. CASE Input!Return(p)
    BY <1>0, <2>1, <2>2, <2>4 DEF CallsInv, ReadersInv
  <2> QED BY <1>7, <2>3, <2>4 DEF Input!TakeByte
<1>8. CASE Input!Kill(p)
  BY <1>0, <1>8 DEF Input!Kill, CallsInv, ReadersInv
<1> HIDE DEF Input!Goto, Input!Return, Input!cons, Input!MustWait
<1> QED BY <1>1, <1>2, <1>3, <1>4, <1>5, <1>6, <1>7, <1>8 DEF Input!Inside

\* The interrupt handler wakes everybody when it hands over a line.
LEMMA CallsIntr ==
  ASSUME InputInv, NEW k \in Input!Stored,
         Input!Store(k) \/ Input!EraseOne \/ Input!EraseLine
  PROVE  CallsInv'
<1>0. CallsInv
  BY InputParts
<1>1. CASE Input!Store(k) /\ Input!LineEnds(k)
  BY <1>0, <1>1, InputParameters DEF Input!Store, Input!Woken, CallsInv, ReadersInv
<1>2. CASE UNCHANGED <<r, w, conslock, reader, unread, target, hit>>
  BY <1>0, <1>2 DEF CallsInv, ReadersInv
<1> QED BY <1>1, <1>2 DEF Input!Store, Input!EraseOne, Input!EraseLine

\* What the handler erases is in the line that is being edited, which has no newline
\* in it: ^U erases all of it.
LEMMA EraseAmount ==
  ASSUME InputInv, Input!EraseOne \/ Input!EraseLine
  PROVE  \E n \in 1 .. Apart(w, e, UINT) :
           /\ e' = Input!Minus(e, n)
           /\ n \in {1, Apart(w, e, UINT)}
           /\ UNCHANGED <<buf, r, w>>
<1>1. UINT \in Nat \ {0} /\ w \in 0 .. UINT - 1 /\ e \in 0 .. UINT - 1
  BY InputParameters DEF InputInv, InputType
<1>2. /\ Apart(w, e, UINT) \in 0 .. UINT - 1
      /\ w # e => Apart(w, e, UINT) # 0
  <2>1. /\ Apart(w, e, UINT) \in 0 .. UINT - 1
        /\ w <= e => Apart(w, e, UINT) = e - w
        /\ e < w => Apart(w, e, UINT) = e + UINT - w
    BY <1>1, ApartIs
  <2> QED BY <1>1, <2>1
<1>3. CASE Input!EraseOne
  <2>1. Apart(w, e, UINT) # 0
    BY <1>2, <1>3 DEF Input!EraseOne, Input!Editable
  <2> QED BY <1>2, <1>3, <2>1 DEF Input!EraseOne
<1>4. CASE Input!EraseLine
  <2>1. PICK n \in 1 .. Apart(w, e, UINT) :
          /\ n = Apart(w, e, UINT) \/ buf[Input!Slot(Input!Minus(e, n + 1))] = Newline
          /\ e' = Input!Minus(e, n)
    BY <1>4, MinusApart DEF Input!EraseLine
  <2>2. ASSUME n # Apart(w, e, UINT) PROVE FALSE
    <3> DEFINE c == (e + UINT - (n + 1)) % UINT
    <3>1. n + 1 \in 0 .. Apart(w, e, UINT)
      BY <1>2, <2>2
    <3>2. c \in 0 .. UINT - 1 /\ Apart(w, c, UINT) = Apart(w, e, UINT) - (n + 1)
      BY <1>1, <3>1, ApartBack
    <3>3. Place(c, 1, INPUT_BUF) = Place(w, Apart(w, c, UINT) + 1, INPUT_BUF)
      <4> HIDE DEF c
      <4> QED BY <1>1, <3>2, InputParameters, PlaceFrom
    <3>4. Input!Slot(Input!Minus(e, n + 1)) = Place(c, 1, INPUT_BUF)
      <4>1. c + 1 - 1 = c
        BY <3>2
      <4> QED BY <4>1 DEF Place, Input!Slot, Input!Minus
    <3>5. Apart(w, c, UINT) + 1 \in 1 .. Apart(w, e, UINT)
      BY <1>2, <3>1, <3>2
    <3> QED BY <2>1, <2>2, <3>3, <3>4, <3>5 DEF InputInv, LineInv
  <2> QED BY <1>4, <2>1, <2>2 DEF Input!EraseLine
<1> QED BY <1>3, <1>4

LEMMA InputStep == InputInv /\ [Next]_vars => InputInv'
<1> SUFFICES ASSUME InputInv, Input!Next \/ UNCHANGED inputVars PROVE InputInv'
  BY InputSteps
<1>1. ASSUME NEW p \in Procs,
             (\E n \in 1 .. MaxN : Input!Read(p, n)) \/ Input!Inside(p) \/ Input!Kill(p)
      PROVE  RingInv'
  <2>1. CASE UNCHANGED <<buf, r, w, e>>
    BY <2>1, RingKept
  <2>2. CASE r # w /\ r' = (r + 1) % UINT /\ UNCHANGED <<buf, w, e>>
    BY <2>2, TakeMove
  <2> QED BY <1>1, <2>1, <2>2
          DEF Input!Read, Input!Inside, Input!Lock, Input!Killed, Input!TestKilled,
              Input!Sleep, Input!TakeEof, Input!TakeByte, Input!Kill, Input!cons,
              Input!MustWait
<1>2. ASSUME NEW k \in Input!Stored, Input!Store(k) PROVE InputInv'
  BY <1>2, StoreMove, CallsIntr, InputParts
<1>3. CASE Input!EraseOne \/ Input!EraseLine
  <2>1. RingInv'
    BY <1>3, EraseAmount, EraseMove
  <2>2. Newline \in Input!Stored
    BY DEF Input!Stored
  <2> QED BY <1>3, <2>1, <2>2, CallsIntr, InputParts
<1>4. CASE UNCHANGED inputVars
  BY <1>4, RingKept, InputParts DEF inputVars, CallsInv, ReadersInv
<1>5. ASSUME NEW k \in Input!Stored \cup {Backspace, KillLine}, Input!ConsoleIntr(k)
      PROVE  InputInv'
  BY <1>2, <1>3, <1>5 DEF Input!ConsoleIntr
<1>6. ASSUME NEW p \in Procs,
             (\E n \in 1 .. MaxN : Input!Read(p, n)) \/ Input!Inside(p) \/ Input!Kill(p)
      PROVE  InputInv'
  BY <1>1, <1>6, CallsStep, InputParts
<1> QED BY <1>4, <1>5, <1>6 DEF Input!Next

LEMMA InputSafe == InputInv => Input!NobodySleepsOnALine /\ Input!NeverStuck
BY MinusApart
   DEF InputInv, CountersInv, ReadersInv, Input!NobodySleepsOnALine, Input!NeverStuck, Stocked

\* Nobody sleeps in vain, however many they are and whatever the sizes of the rings
\* and the widths of the counters: not at the pipe for bytes or room that are there,
\* unless somebody is killed; not at the console for a line while there is one, nor
\* for room in the output ring while it is not full; not for ticks that have passed
\* (pipe.c:85-112; console.c:91-97, 168-172; uart.c:97-100, 153-157; sysproc.c:105-116).
THEOREM NobodySleepsInVainCorrect == Spec => []NobodySleepsInVain
<1> DEFINE All == PipeInv /\ InputInv /\ OutputInv /\ TimerInv
<1>1. Init => All
  BY PipeInit, InputInit, OutputInit, TimerInit
<1>2. All /\ [Next]_vars => All'
  BY PipeStep, InputStep, OutputStep, TimerStep
<1>3. All => NobodySleepsInVain
  BY PipeSafe, InputSafe DEF OutputInv, TimerInv, NobodySleepsInVain
<1> QED BY <1>1, <1>2, <1>3, PTL DEF Spec

----------------------------------------------------------------------------
(* The console as a queue of lines *)

\* What is handed over, and the line that is being edited.
Committed == [k \in 1 .. Given |-> buf[Place(r, k, INPUT_BUF)]]
Editing == [k \in 1 .. Apart(w, e, UINT) |-> buf[Place(w, k, INPUT_BUF)]]

LEMMA SameLines ==
  /\ Input!Between(r, w) = Committed /\ Input!Between(r, w)' = Committed'
  /\ Input!Between(w, e) = Editing /\ Input!Between(w, e)' = Editing'
BY MinusApart DEF Input!Between, Input!Slot, Committed, Editing, Place, Given

\* They are sequences of characters, and places of the ring counted from r.
LinesAre ==
  /\ Committed \in Seq(Input!Stored) /\ Editing \in Seq(Input!Stored)
  /\ Len(Committed) = Given /\ Len(Editing) = Apart(w, e, UINT)
  /\ Given \in Nat /\ Stocked \in Nat
  /\ Given <= Stocked /\ Apart(w, e, UINT) = Stocked - Given
  /\ \A k \in 1 .. Stocked :
       /\ Place(r, k, INPUT_BUF) \in 0 .. INPUT_BUF - 1
       /\ k <= Given => buf[Place(r, k, INPUT_BUF)] = Committed[k]
       /\ k > Given => buf[Place(r, k, INPUT_BUF)] = Editing[k - Given]

LEMMA LinesType == InputInv => LinesAre
<1> SUFFICES ASSUME InputInv PROVE LinesAre
  OBVIOUS
<1>1. /\ UINT \in Nat \ {0} /\ r \in 0 .. UINT - 1 /\ w \in 0 .. UINT - 1 /\ e \in 0 .. UINT - 1
      /\ INPUT_BUF \in Nat \ {0} /\ UINT % INPUT_BUF = 0
      /\ buf \in [0 .. INPUT_BUF - 1 -> Input!Stored]
  BY InputParameters DEF InputInv, InputType
<1>2. /\ Given \in Nat /\ Stocked \in Nat /\ Given <= Stocked
      /\ Apart(w, e, UINT) = Stocked - Given
  BY CountersType DEF InputInv, CountersInv
<1>3. \A k \in 1 .. Stocked : Place(r, k, INPUT_BUF) \in 0 .. INPUT_BUF - 1
  BY <1>1, <1>2, PlaceType, SMTT(30)
<1>4. \A k \in 1 .. Apart(w, e, UINT) :
        Place(w, k, INPUT_BUF) = Place(r, Given + k, INPUT_BUF)
  BY <1>1, <1>2, PlaceFrom DEF Given
<1>5. Committed \in [1 .. Given -> Input!Stored] /\ Committed \in Seq(Input!Stored)
  BY <1>1, <1>2, <1>3 DEF Committed
<1>6. \A k \in 1 .. Apart(w, e, UINT) : Place(w, k, INPUT_BUF) \in 0 .. INPUT_BUF - 1
  BY <1>1, <1>2, PlaceType, SMTT(30)
<1>7. Editing \in [1 .. Apart(w, e, UINT) -> Input!Stored] /\ Editing \in Seq(Input!Stored)
  BY <1>1, <1>2, <1>6 DEF Editing
<1>8. ASSUME NEW k \in 1 .. Stocked
      PROVE  /\ k <= Given => buf[Place(r, k, INPUT_BUF)] = Committed[k]
             /\ k > Given => buf[Place(r, k, INPUT_BUF)] = Editing[k - Given]
  <2>1. CASE k <= Given
    BY <1>2, <2>1 DEF Committed
  <2>2. CASE k > Given
    <3>1. k - Given \in 1 .. Apart(w, e, UINT) /\ Given + (k - Given) = k
      BY <1>2, <2>2
    <3> QED BY <1>2, <1>4, <2>2, <3>1 DEF Editing
  <2> QED BY <2>1, <2>2
<1>9. Len(Committed) = Given /\ Len(Editing) = Apart(w, e, UINT)
  BY <1>2 DEF Committed, Editing
<1> QED BY <1>2, <1>3, <1>5, <1>7, <1>8, <1>9 DEF LinesAre

LEMMA LinesInit == Init => Input!Lines!Init
<1> SUFFICES ASSUME Init PROVE Committed = <<>> /\ Editing = <<>>
  BY SameLines DEF Input!Lines!Init
<1>1. Given = 0 /\ Apart(w, e, UINT) = 0
  BY InputParameters, ApartIs DEF Init, Input!Init, Given
<1>2. LinesAre
  BY InputInit, LinesType
<1> QED BY <1>1, <1>2, EmptySeq DEF LinesAre

\* A character that is taken is the first of what is handed over.
LEMMA LinesTake ==
  ASSUME InputInv, InputInv', r # w, r' = (r + 1) % UINT, UNCHANGED <<buf, w, e>>
  PROVE  Input!Lines!Take
<1>1. UINT \in Nat \ {0} /\ r \in 0 .. UINT - 1 /\ r' \in 0 .. UINT - 1
  BY InputParameters DEF InputInv, InputType
<1>2. LinesAre /\ LinesAre'
  BY LinesType, PTL
<1>3. Given' = Given - 1 /\ Given > 0
  BY <1>2, TakeMove, CountersType DEF InputInv, LinesAre
<1>4. Apart(r, r', UINT) = 1
  <2>1. r' = IF r = UINT - 1 THEN 0 ELSE r + 1
    BY <1>1, NextIs
  <2>2. UINT > 1
    BY InputParameters
  <2>3. /\ r <= r' => Apart(r, r', UINT) = r' - r
        /\ r' < r => Apart(r, r', UINT) = r' + UINT - r
    BY <1>1, ApartIs
  <2> QED BY <1>1, <2>1, <2>2, <2>3
<1>5. \A k \in 1 .. Given - 1 : Place(r', k, INPUT_BUF) = Place(r, k + 1, INPUT_BUF)
  <2> SUFFICES ASSUME NEW k \in 1 .. Given - 1
               PROVE  Place(r', k, INPUT_BUF) = Place(r, k + 1, INPUT_BUF)
    OBVIOUS
  <2>1. Place(r', k, INPUT_BUF) = Place(r, Apart(r, r', UINT) + k, INPUT_BUF)
    BY <1>1, <1>2, InputParameters, PlaceFrom, SMTT(30) DEF LinesAre
  <2>2. Apart(r, r', UINT) + k = k + 1
    BY <1>2, <1>4 DEF LinesAre
  <2> QED BY <2>1, <2>2
<1>6. Committed # <<>>
  BY <1>2, <1>3 DEF LinesAre
<1>7. Committed' = Tail(Committed)
  <2>1. /\ Tail(Committed) \in Seq(Input!Stored) /\ Len(Tail(Committed)) = Given - 1
        /\ \A k \in 1 .. Given - 1 : Tail(Committed)[k] = Committed[k + 1]
    BY <1>2, <1>6, HeadTailProperties DEF LinesAre
  <2>2. \A k \in 1 .. Given - 1 : Committed'[k] = Committed[k + 1]
    BY <1>2, <1>3, <1>5 DEF Committed, LinesAre
  <2>3. Committed' \in Seq(Input!Stored) /\ Len(Committed') = Given - 1
    BY <1>2, <1>3 DEF LinesAre
  <2> QED BY <2>1, <2>2, <2>3, SeqEqual
<1>8. Editing' = Editing
  BY DEF Editing
<1> QED BY <1>6, <1>7, <1>8, SameLines DEF Input!Lines!Take

\* A character that is typed goes to the end of the line, which is handed over if it
\* ends.
LEMMA LinesStore ==
  ASSUME InputInv, InputInv', NEW k \in Input!Stored, Input!Store(k)
  PROVE  Input!Lines!Type(k)
<1>0. LinesAre /\ LinesAre'
  BY LinesType, PTL
<1>1. /\ Committed \in Seq(Input!Stored) /\ Len(Committed) = Given
      /\ Editing \in Seq(Input!Stored) /\ Len(Editing) = Stocked - Given
      /\ Apart(w, e, UINT) = Stocked - Given
      /\ Committed' \in Seq(Input!Stored) /\ Len(Committed') = Given'
      /\ Editing' \in Seq(Input!Stored) /\ Len(Editing') = Stocked' - Given'
  BY <1>0 DEF LinesAre
<1>2. /\ Stocked < INPUT_BUF /\ Stocked' = Stocked + 1
      /\ Input!LineEnds(k) <=> k \in {Newline, Eof} \/ Stocked + 1 = INPUT_BUF
      /\ IF Input!LineEnds(k) THEN Given' = Stocked + 1 ELSE Given' = Given
      /\ Place(r, Stocked + 1, INPUT_BUF) \in 0 .. INPUT_BUF - 1
      /\ buf' = [buf EXCEPT ![Place(r, Stocked + 1, INPUT_BUF)] = k]
      /\ r' = r
  BY StoreMove DEF Input!Store
<1>3. /\ buf \in [0 .. INPUT_BUF - 1 -> Input!Stored]
      /\ INPUT_BUF \in Nat \ {0} /\ r \in Nat
      /\ Stocked \in Nat /\ Given \in Nat /\ Given <= Stocked
  BY <1>0, InputParameters DEF InputInv, InputType, LinesAre
\* All there is, in order, with the new one at the end.
<1>4. ASSUME NEW i \in 1 .. Stocked + 1
      PROVE  /\ i = Stocked + 1 => buf'[Place(r, i, INPUT_BUF)] = k
             /\ i <= Given => buf'[Place(r, i, INPUT_BUF)] = Committed[i]
             /\ i > Given /\ i # Stocked + 1 =>
                  buf'[Place(r, i, INPUT_BUF)] = Editing[i - Given]
  <2>1. CASE i = Stocked + 1
    BY <1>2, <1>3, <2>1
  <2>2. CASE i # Stocked + 1
    <3>1. i \in 1 .. Stocked /\ i \in 1 .. INPUT_BUF /\ Stocked + 1 \in 1 .. INPUT_BUF
      BY <1>2, <1>3, <2>2
    <3>2. Place(r, i, INPUT_BUF) # Place(r, Stocked + 1, INPUT_BUF)
      BY <1>3, <2>2, <3>1, PlaceApart
    <3>3. Place(r, i, INPUT_BUF) \in 0 .. INPUT_BUF - 1
      BY <1>0, <3>1 DEF LinesAre
    <3>4. buf'[Place(r, i, INPUT_BUF)] = buf[Place(r, i, INPUT_BUF)]
      BY <1>2, <1>3, <3>2, <3>3
    <3> QED BY <1>0, <2>2, <3>1, <3>4 DEF LinesAre
  <2> QED BY <2>1, <2>2
<1>5. /\ Append(Editing, k) \in Seq(Input!Stored)
      /\ Len(Append(Editing, k)) = Stocked - Given + 1
      /\ \A i \in 1 .. Stocked - Given : Append(Editing, k)[i] = Editing[i]
      /\ Append(Editing, k)[Stocked - Given + 1] = k
  BY <1>1, AppendProperties
<1>6. /\ \A i \in 1 .. Given' : Committed'[i] = buf'[Place(r, i, INPUT_BUF)]
      /\ \A i \in 1 .. Stocked' - Given' : Editing'[i] = buf'[Place(r, Given' + i, INPUT_BUF)]
  <2>1. /\ Given' \in Nat /\ Stocked' \in Nat /\ Given' <= Stocked'
        /\ \A i \in 1 .. Stocked' :
             /\ i <= Given' => buf'[Place(r, i, INPUT_BUF)] = Committed'[i]
             /\ i > Given' => buf'[Place(r, i, INPUT_BUF)] = Editing'[i - Given']
    BY <1>0, <1>2 DEF LinesAre
  <2>2. ASSUME NEW i \in 1 .. Given' PROVE Committed'[i] = buf'[Place(r, i, INPUT_BUF)]
    <3>1. i \in 1 .. Stocked' /\ i <= Given'
      BY <2>1
    <3> QED BY <2>1, <3>1
  <2>3. ASSUME NEW i \in 1 .. Stocked' - Given'
        PROVE  Editing'[i] = buf'[Place(r, Given' + i, INPUT_BUF)]
    <3>1. Given' + i \in 1 .. Stocked' /\ Given' + i > Given' /\ Given' + i - Given' = i
      BY <2>1
    <3> QED BY <2>1, <3>1
  <2> QED BY <2>2, <2>3
<1>7. /\ Len(Committed) + Len(Editing) < INPUT_BUF
      /\ Input!LineEnds(k) <=>
           k \in {Newline, Eof} \/ Len(Committed) + Len(Editing) + 1 = INPUT_BUF
  <2>1. Len(Committed) + Len(Editing) = Stocked
    BY <1>1, <1>3
  <2> QED BY <1>2, <2>1
<1>8. CASE Input!LineEnds(k)
  <2>1. /\ Committed \o Append(Editing, k) \in Seq(Input!Stored)
        /\ Len(Committed \o Append(Editing, k)) = Stocked + 1
        /\ \A i \in 1 .. Stocked + 1 : (Committed \o Append(Editing, k))[i] =
             IF i <= Given THEN Committed[i] ELSE Append(Editing, k)[i - Given]
    <3>1. Len(Committed) + Len(Append(Editing, k)) = Stocked + 1
      BY <1>1, <1>3, <1>5
    <3> DEFINE line == Append(Editing, k)
    <3> HIDE DEF line
    <3>2. line \in Seq(Input!Stored) /\ Committed \in Seq(Input!Stored)
      BY <1>1, <1>5 DEF line
    <3>3. /\ Committed \o line \in Seq(Input!Stored)
          /\ Len(Committed \o line) = Len(Committed) + Len(line)
          /\ \A i \in 1 .. Len(Committed) + Len(line) : (Committed \o line)[i] =
               IF i <= Len(Committed) THEN Committed[i] ELSE line[i - Len(Committed)]
      BY <3>2, ConcatProperties
    <3> QED BY <1>1, <3>1, <3>3 DEF line
  <2>2. \A i \in 1 .. Stocked + 1 :
          Committed'[i] = (Committed \o Append(Editing, k))[i]
    <3> SUFFICES ASSUME NEW i \in 1 .. Stocked + 1
                 PROVE  Committed'[i] = (Committed \o Append(Editing, k))[i]
      OBVIOUS
    <3>1. Committed'[i] = buf'[Place(r, i, INPUT_BUF)]
      BY <1>2, <1>6, <1>8
    <3>2. CASE i <= Given
      BY <1>3, <1>4, <2>1, <3>1, <3>2
    <3>3. CASE i > Given
      <4>1. i - Given \in 1 .. Stocked - Given + 1
        BY <1>3, <3>3
      <4> QED BY <1>3, <1>4, <1>5, <2>1, <3>1, <3>3, <4>1
    <3>4. i <= Given \/ i > Given
      BY <1>3
    <3> QED BY <3>2, <3>3, <3>4
  <2>3. Committed' = Committed \o Append(Editing, k)
    BY <1>1, <1>2, <1>8, <2>1, <2>2, SeqEqual
  <2>4. Editing' = <<>>
    BY <1>1, <1>2, <1>3, <1>8, EmptySeq
  <2> QED BY <1>8, <1>7, <2>3, <2>4, SameLines DEF Input!Lines!Type, Input!Lines!Ends
<1>9. CASE ~Input!LineEnds(k)
  <2>1. Committed' = Committed
    <3>1. \A i \in 1 .. Given : Committed'[i] = Committed[i]
      BY <1>2, <1>3, <1>4, <1>6, <1>9
    <3> QED BY <1>1, <1>2, <1>9, <3>1, SeqEqual
  <2>2. Editing' = Append(Editing, k)
    <3>1. \A i \in 1 .. Stocked - Given + 1 : Editing'[i] = Append(Editing, k)[i]
      <4> SUFFICES ASSUME NEW i \in 1 .. Stocked - Given + 1
                   PROVE  Editing'[i] = Append(Editing, k)[i]
        OBVIOUS
      <4>1. Editing'[i] = buf'[Place(r, Given + i, INPUT_BUF)]
        BY <1>2, <1>3, <1>6, <1>9
      <4>2. Given + i \in 1 .. Stocked + 1 /\ Given + i > Given /\ Given + i - Given = i
        BY <1>3
      <4> QED BY <1>3, <1>4, <1>5, <4>1, <4>2, SMTT(30)
    <3>2. Len(Editing') = Len(Append(Editing, k))
      BY <1>1, <1>2, <1>3, <1>5, <1>9
    <3>3. Len(Editing') = Stocked - Given + 1
      BY <1>5, <3>2
    <3> QED BY <1>1, <1>5, <3>1, <3>2, <3>3, SeqEqual
  <2> QED BY <1>9, <1>7, <2>1, <2>2, SameLines DEF Input!Lines!Type, Input!Lines!Ends
<1> QED BY <1>8, <1>9

\* A character that is erased was the last of the line; ^U leaves nothing of it.
LEMMA LinesErase ==
  ASSUME InputInv, InputInv', Input!EraseOne \/ Input!EraseLine
  PROVE  Input!Lines!Erase \/ Input!Lines!EraseAll
<1>1. LinesAre /\ LinesAre'
  BY LinesType, PTL
<1>2. PICK n \in 1 .. Apart(w, e, UINT) :
        /\ n \in {1, Apart(w, e, UINT)}
        /\ Apart(w, e, UINT)' = Apart(w, e, UINT) - n
        /\ UNCHANGED <<buf, r, w>>
  BY EraseAmount, EraseMove
<1>3. Committed' = Committed
  BY <1>2 DEF Committed, Given
<1>4. Apart(w, e, UINT) \in Nat
  BY <1>1 DEF LinesAre
<1>5. /\ Editing' \in Seq(Input!Stored) /\ Len(Editing') = Apart(w, e, UINT) - n
      /\ \A i \in 1 .. Apart(w, e, UINT) - n : Editing'[i] = Editing[i]
  <2>1. Editing' \in Seq(Input!Stored) /\ Len(Editing') = Apart(w, e, UINT) - n
    BY <1>1, <1>2 DEF LinesAre
  <2>2. \A i \in 1 .. Apart(w, e, UINT) - n : i \in 1 .. Apart(w, e, UINT)
    BY <1>4
  <2> QED BY <1>2, <2>1, <2>2 DEF Editing
<1>6. CASE n = Apart(w, e, UINT)
  <2>1. Editing' = <<>>
    BY <1>4, <1>5, <1>6, EmptySeq
  <2> QED BY <1>3, <2>1, SameLines DEF Input!Lines!EraseAll
<1>7. CASE n = 1
  <2>1. Editing # <<>>
    BY <1>1, <1>4 DEF LinesAre
  <2>2. \A i \in 1 .. Apart(w, e, UINT) - 1 : Editing[i] \in Input!Stored
    BY <1>1, <1>4 DEF LinesAre
  <2>3. /\ SubSeq(Editing, 1, Apart(w, e, UINT) - 1) \in Seq(Input!Stored)
        /\ Len(SubSeq(Editing, 1, Apart(w, e, UINT) - 1)) = Apart(w, e, UINT) - 1
        /\ \A i \in 1 .. Apart(w, e, UINT) - 1 :
             SubSeq(Editing, 1, Apart(w, e, UINT) - 1)[i] = Editing[i]
    <3>1. Apart(w, e, UINT) - 1 \in Int /\ Apart(w, e, UINT) - 1 >= 0
      BY <1>4
    <3>2. /\ SubSeq(Editing, 1, Apart(w, e, UINT) - 1) \in Seq(Input!Stored)
          /\ Len(SubSeq(Editing, 1, Apart(w, e, UINT) - 1)) =
               IF 1 <= Apart(w, e, UINT) - 1 THEN Apart(w, e, UINT) - 1 - 1 + 1 ELSE 0
          /\ \A i \in 1 .. Apart(w, e, UINT) - 1 - 1 + 1 :
               SubSeq(Editing, 1, Apart(w, e, UINT) - 1)[i] = Editing[1 + i - 1]
      BY <2>2, <3>1, SubSeqProperties
    <3> QED BY <3>1, <3>2
  <2>4. Editing' = SubSeq(Editing, 1, Apart(w, e, UINT) - 1)
    BY <1>5, <1>7, <2>3, SeqEqual
  <2>5. Editing' = Input!Lines!Front(Editing)
    BY <1>1, <2>4 DEF Input!Lines!Front, LinesAre
  <2> QED BY <1>3, <2>1, <2>5, SameLines DEF Input!Lines!Erase
<1> QED BY <1>2, <1>6, <1>7

\* The rest is not seen.
LEMMA LinesStep == InputInv /\ InputInv' /\ [Next]_vars => [Input!Lines!Next]_(Input!Lines!vars)
<1> SUFFICES ASSUME InputInv, InputInv', Input!Next \/ UNCHANGED inputVars
             PROVE  [Input!Lines!Next]_(Input!Lines!vars)
  BY InputSteps
<1>1. ASSUME UNCHANGED <<buf, r, w, e>> PROVE UNCHANGED Input!Lines!vars
  BY <1>1, SameLines DEF Input!Lines!vars, Committed, Editing, Given
<1>2. CASE UNCHANGED inputVars
  BY <1>1, <1>2 DEF inputVars
<1>3. ASSUME NEW p \in Procs,
             (\E n \in 1 .. MaxN : Input!Read(p, n)) \/ Input!Inside(p) \/ Input!Kill(p)
      PROVE  [Input!Lines!Next]_(Input!Lines!vars)
  <2>1. CASE UNCHANGED <<buf, r, w, e>>
    BY <1>1, <2>1
  <2>2. CASE r # w /\ r' = (r + 1) % UINT /\ UNCHANGED <<buf, w, e>>
    BY <2>2, LinesTake DEF Input!Lines!Next
  <2> QED BY <1>3, <2>1, <2>2
          DEF Input!Read, Input!Inside, Input!Lock, Input!Killed, Input!TestKilled,
              Input!Sleep, Input!TakeEof, Input!TakeByte, Input!Kill, Input!cons,
              Input!MustWait
<1>4. ASSUME NEW k \in Input!Stored \cup {Backspace, KillLine}, Input!ConsoleIntr(k)
      PROVE  Input!Lines!Next
  <2>1. CASE Input!EraseOne \/ Input!EraseLine
    BY <2>1, LinesErase DEF Input!Lines!Next
  <2>2. CASE k \in Input!Stored /\ Input!Store(k)
    BY <2>2, LinesStore DEF Input!Lines!Next
  <2> QED BY <1>4, <2>1, <2>2 DEF Input!ConsoleIntr
<1> QED BY <1>2, <1>3, <1>4 DEF Input!Next

\* The console, whatever the size of its buffer, is a queue of lines that cannot be
\* changed any more, and the line being edited (console.c:79-179).
THEOREM LineCorrect == Spec => LineSpec
BY LinesInit, LinesStep, InputInit, InputStep, PTL
   DEF Spec, LineSpec, Input!LineSpec, Input!Lines!Spec
=============================================================================
