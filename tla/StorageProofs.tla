---------------------------- MODULE StorageProofs -----------------------------
(***************************************************************************)
(* The layers of Storage, for any number of processes and blocks: the      *)
(* descriptors and rings of the disk driver; the buffer cache, which is a  *)
(* store of blocks; the inodes and the directory, with their counts of     *)
(* links and references; the log, whose calls fit into a log area of any   *)
(* size and which, crashes and recoveries included, makes the disk atomic. *)
(***************************************************************************)
EXTENDS Storage, Sequences, Numbers, FiniteSetTheorems, SequenceTheorems

----------------------------------------------------------------------------
(* Three free descriptors *)

LEMMA TwoElements ==
  ASSUME NEW a, NEW b, a # b
  PROVE  IsFiniteSet({a, b}) /\ Cardinality({a, b}) = 2
<1>1. IsFiniteSet({a}) /\ Cardinality({a}) = 1
  BY FS_Singleton
<1>2. IsFiniteSet({a} \cup {b}) /\ Cardinality({a} \cup {b}) = 2
  BY <1>1, FS_AddElement
<1>3. {a} \cup {b} = {a, b}
  OBVIOUS
<1> QED BY <1>2, <1>3

LEMMA ThreeElements ==
  ASSUME NEW a, NEW b, NEW c, a # b, a # c, b # c
  PROVE  Cardinality({a, b, c}) = 3
<1>1. Cardinality({a, b} \cup {c}) = 3
  <2>1. IsFiniteSet({a, b}) /\ Cardinality({a, b}) = 2 /\ c \notin {a, b}
    BY TwoElements
  <2> QED BY <2>1, FS_AddElement
<1>2. {a, b} \cup {c} = {a, b, c}
  OBVIOUS
<1> QED BY <1>1, <1>2

\* The n-th element of a set of descriptors that has three, for n up to three, is the
\* one with n - 1 below it.
LEMMA NthOfThree ==
  ASSUME NEW S, S \subseteq Nat, IsFiniteSet(S), Cardinality(S) >= 3
  PROVE  \E a, b, c \in S :
           /\ Cardinality({j \in S : j < a}) = 0
           /\ Cardinality({j \in S : j < b}) = 1
           /\ Cardinality({j \in S : j < c}) = 2
<1>1. PICK a \in S : \A y \in S : a <= y
  <2>1. S # {}
    BY FS_EmptySet
  <2> QED BY <2>1, LeastIn
<1>2. IsFiniteSet(S \ {a}) /\ Cardinality(S \ {a}) = Cardinality(S) - 1
  BY FS_RemoveElement
<1>3. Cardinality(S) \in Nat
  BY FS_CardinalityType
<1>4. PICK b \in S \ {a} : \A y \in S \ {a} : b <= y
  <2>1. S \ {a} # {}
    BY <1>2, <1>3, FS_EmptySet
  <2> QED BY <2>1, LeastIn
<1>5. PICK c \in (S \ {a}) \ {b} : \A y \in (S \ {a}) \ {b} : c <= y
  <2>1. Cardinality((S \ {a}) \ {b}) = Cardinality(S) - 2
    <3>1. Cardinality((S \ {a}) \ {b}) = Cardinality(S \ {a}) - 1
      BY <1>2, <1>4, FS_RemoveElement
    <3> QED BY <1>2, <1>3, <3>1
  <2>2. (S \ {a}) \ {b} # {}
    BY <1>3, <2>1, FS_EmptySet
  <2> QED BY <2>2, LeastIn
<1>6. a \in Nat /\ b \in Nat /\ c \in Nat
  BY <1>1, <1>4, <1>5
<1>7. a < b /\ b < c
  BY <1>1, <1>4, <1>5, <1>6
<1>8. {j \in S : j < a} = {}
  <2>1. \A j \in S : ~ (j < a)
    BY <1>1, <1>6
  <2> QED BY <2>1
<1>9. {j \in S : j < b} = {a}
  <2>1. \A j \in S : j < b <=> j = a
    BY <1>4, <1>6, <1>7
  <2> QED BY <1>1, <2>1
<1>10. {j \in S : j < c} = {a, b}
  <2>1. \A j \in S : j < c <=> j = a \/ j = b
    BY <1>5, <1>6, <1>7
  <2> QED BY <1>1, <1>4, <2>1
<1>11. Cardinality({a, b}) = 2
  BY <1>6, <1>7, TwoElements
<1>12. /\ Cardinality({j \in S : j < a}) = 0
       /\ Cardinality({j \in S : j < b}) = 1
       /\ Cardinality({j \in S : j < c}) = 2
  BY <1>8, <1>9, <1>10, <1>11, FS_EmptySet, FS_Singleton
<1> QED BY <1>1, <1>4, <1>5, <1>12

----------------------------------------------------------------------------
(* The disk driver *)

Waiting == {p \in Callers : stage[p] \in {"iosleep", "wait"}}

Second(p) == desc[head[p]].next
Third(p) == desc[Second(p)].next

\* The request of a process that waits: a command, its buffer, its status byte.
ChainOf(p) ==
  /\ head[p] \in Disk!Descs /\ Second(p) \in Disk!Descs /\ Third(p) \in Disk!Descs
  /\ head[p] # Second(p) /\ head[p] # Third(p) /\ Second(p) # Third(p)
  /\ desc[Second(p)].addr = p /\ desc[Third(p)].addr = head[p]
  /\ info[head[p]].b = p

\* Each descriptor is free or in one of the chains.
ChainsInv ==
  /\ \A p \in Waiting : ChainOf(p)
  /\ \A p, q \in Waiting : p # q => Disk!Chain(head[p]) \cap Disk!Chain(head[q]) = {}
  /\ \A d \in Disk!Descs : d \in free <=> \A p \in Waiting : d \notin Disk!Chain(head[p])

\* A request is with the device, or in the used ring, or done; where it is not with
\* the device, buffer and block agree.
RingsInv ==
  /\ \A h \in avail : \E p \in Waiting : head[p] = h /\ bdisk[p] = 1
  /\ \A t \in 1 .. Len(queue) :
       /\ queue[t] \notin avail
       /\ info[queue[t]].status = 0
       /\ \E p \in Waiting : head[p] = queue[t] /\ bdisk[p] = 1
  /\ \A p \in Waiting : head[p] \notin avail => buffer[p] = block[p]

DiskInv == Disk!TypeOK /\ ChainsInv /\ RingsInv


LEMMA DiskParameters ==
  /\ NUM \in Nat /\ NUM > 2 /\ Nobody \notin Callers
  /\ NUM \notin Disk!Descs /\ Disk!Descs \subseteq Nat /\ IsFiniteSet(Disk!Descs)
<1>1. NUM \in Nat /\ NUM > 2 /\ Nobody \notin Callers
  BY StorageAssumption DEF Disk!Parameters
<1>2. Disk!Descs = 0 .. NUM - 1
  BY DEF Disk!Descs
<1>3. IsFiniteSet(0 .. NUM - 1)
  BY <1>1, FS_Interval
<1> QED BY <1>1, <1>2, <1>3

\* alloc3_desc() finds three descriptors where there are three.
LEMMA AllocThree ==
  ASSUME Disk!TypeOK, Disk!Cardinality(free) >= 3
  PROVE  /\ Disk!NthFree(1) \in free /\ Disk!NthFree(2) \in free /\ Disk!NthFree(3) \in free
         /\ Disk!NthFree(1) # Disk!NthFree(2) /\ Disk!NthFree(1) # Disk!NthFree(3)
         /\ Disk!NthFree(2) # Disk!NthFree(3)
<1>1. \A S : Disk!Cardinality(S) = Cardinality(S)
  BY DEF Disk!Cardinality, Cardinality
<1>2. free \subseteq Disk!Descs
  BY DEF Disk!TypeOK
<1>3. free \subseteq Nat /\ IsFiniteSet(free) /\ Cardinality(free) >= 3
  BY <1>1, <1>2, DiskParameters, FS_Subset
<1>4. PICK a, b, c \in free :
        /\ Cardinality({j \in free : j < a}) = 0
        /\ Cardinality({j \in free : j < b}) = 1
        /\ Cardinality({j \in free : j < c}) = 2
  BY <1>3, NthOfThree
<1>5. \A n : Disk!NthFree(n) =
               CHOOSE i \in free : Cardinality({j \in free : j < i}) = n - 1
  BY <1>1 DEF Disk!NthFree
<1>6. /\ Disk!NthFree(1) \in free
      /\ Cardinality({j \in free : j < Disk!NthFree(1)}) = 0
  <2>1. Cardinality({j \in free : j < a}) = 1 - 1
    BY <1>4
  <2>2. Disk!NthFree(1) = CHOOSE i \in free : Cardinality({j \in free : j < i}) = 1 - 1
    BY <1>5
  <2> QED BY <2>1, <2>2
<1>7. /\ Disk!NthFree(2) \in free
      /\ Cardinality({j \in free : j < Disk!NthFree(2)}) = 1
  <2>1. Cardinality({j \in free : j < b}) = 2 - 1
    BY <1>4
  <2>2. Disk!NthFree(2) = CHOOSE i \in free : Cardinality({j \in free : j < i}) = 2 - 1
    BY <1>5
  <2>3. /\ Disk!NthFree(2) \in free
        /\ Cardinality({j \in free : j < Disk!NthFree(2)}) = 2 - 1
    BY <2>1, <2>2, Zenon
  <2> QED BY <2>3
<1>8. /\ Disk!NthFree(3) \in free
      /\ Cardinality({j \in free : j < Disk!NthFree(3)}) = 2
  <2>1. Cardinality({j \in free : j < c}) = 3 - 1
    BY <1>4
  <2>2. Disk!NthFree(3) = CHOOSE i \in free : Cardinality({j \in free : j < i}) = 3 - 1
    BY <1>5
  <2> QED BY <2>1, <2>2
<1> QED BY <1>6, <1>7, <1>8

\* Who waits does so in its own chain, and the chains have nothing in common.
LEMMA ChainIs ==
  ASSUME ChainsInv
  PROVE  /\ \A p : Disk!Chain(head[p]) = {head[p], Second(p), Third(p)}
         /\ \A p, q \in Waiting : head[p] = head[q] => p = q
BY DEF ChainsInv, Disk!Chain, Second, Third

LEMMA ChainsSame ==
  ASSUME ChainsInv, UNCHANGED <<desc, head, free>>, Waiting' = Waiting,
         \A p \in Waiting : info'[head[p]].b = info[head[p]].b
  PROVE  ChainsInv'
<1>1. \A p : Second(p)' = Second(p) /\ Third(p)' = Third(p)
  BY DEF Second, Third
<1>2. \A p : Disk!Chain(head[p])' = Disk!Chain(head[p])
  BY DEF Disk!Chain
<1>3. \A p \in Waiting' : ChainOf(p)'
  BY <1>1 DEF ChainsInv, ChainOf
<1> QED BY <1>2, <1>3 DEF ChainsInv

\* Steps between waking and sleeping, and the acknowledgement.
LEMMA Quiet ==
  ASSUME DiskInv, Waiting' = Waiting,
         UNCHANGED <<desc, head, free, info, avail, queue, bdisk, block>>,
         \A p \in Waiting : buffer'[p] = buffer[p]
  PROVE  ChainsInv' /\ RingsInv'
<1>1. ChainsInv'
  BY ChainsSame DEF DiskInv
<1> QED BY <1>1 DEF DiskInv, RingsInv

Stages == {"idle", "read", "write", "rsleep", "wsleep", "iosleep", "wait"}

LEMMA DiskQuiet ==
  ASSUME DiskInv, NEW p \in Callers,
         \/ \E op \in {"read", "write"}, v \in Vals : Disk!Enter(p, op, v)
         \/ Disk!AllocFails(p) \/ Disk!Kill(p) \/ Disk!SleepAgain(p)
         \/ Disk!Acknowledge
  PROVE  DiskInv'
<1>1. stage \in [Callers -> Stages]
  BY DEF DiskInv, Disk!TypeOK, Stages
<1>2. CASE \E op \in {"read", "write"}, v \in Vals : Disk!Enter(p, op, v)
  <2>1. PICK op \in {"read", "write"}, v \in Vals : Disk!Enter(p, op, v)
    BY <1>2
  <2>2. /\ stage[p] = "idle" /\ stage' = [stage EXCEPT ![p] = op]
        /\ buffer' = [buffer EXCEPT ![p] = v]
        /\ UNCHANGED <<free, desc, info, avail, queue, irq, handling, bdisk, block, head>>
    BY <2>1 DEF Disk!Enter, Disk!descVars, Disk!ringVars
  <2>3. Disk!TypeOK'
    BY <2>2 DEF DiskInv, Disk!TypeOK
  <2>4. Waiting' = Waiting /\ p \notin Waiting
    BY <1>1, <2>2 DEF Waiting
  <2>5. \A q \in Waiting : buffer'[q] = buffer[q]
    BY <2>2, <2>4 DEF DiskInv, Disk!TypeOK
  <2> QED BY <2>2, <2>3, <2>4, <2>5, Quiet DEF DiskInv
<1>3. CASE Disk!AllocFails(p) \/ Disk!Kill(p) \/ Disk!SleepAgain(p)
  <2>1. UNCHANGED <<free, desc, info, avail, queue, irq, handling, bdisk, block, buffer, head>>
    BY <1>3 DEF Disk!AllocFails, Disk!Kill, Disk!SleepAgain, Disk!descVars, Disk!ringVars
  <2>2. stage' \in [Callers -> Stages] /\ Waiting' = Waiting
    <3>1. CASE Disk!AllocFails(p)
      BY <1>1, <3>1 DEF Disk!AllocFails, Waiting, Stages
    <3>2. CASE Disk!Kill(p)
      BY <1>1, <3>2 DEF Disk!Kill, Waiting, Stages
    <3>3. CASE Disk!SleepAgain(p)
      BY <1>1, <3>3 DEF Disk!SleepAgain, Waiting, Stages
    <3> QED BY <1>3, <3>1, <3>2, <3>3
  <2>3. Disk!TypeOK'
    BY <2>1, <2>2 DEF DiskInv, Disk!TypeOK, Stages
  <2> QED BY <2>1, <2>2, <2>3, Quiet DEF DiskInv
<1>4. CASE Disk!Acknowledge
  <2>1. /\ UNCHANGED <<free, desc, info, avail, queue, bdisk, block, buffer, head, stage>>
        /\ irq' = FALSE /\ handling' = TRUE
    BY <1>4 DEF Disk!Acknowledge, Disk!descVars
  <2>2. Disk!TypeOK' /\ Waiting' = Waiting
    BY <2>1 DEF DiskInv, Disk!TypeOK, Waiting
  <2> QED BY <2>1, <2>2, Quiet DEF DiskInv
<1> QED BY <1>2, <1>3, <1>4


\* A chain is put together of three free descriptors.
LEMMA DiskSubmit ==
  ASSUME DiskInv, NEW p \in Callers, Disk!Submit(p)
  PROVE  DiskInv'
<1> DEFINE i == Disk!NthFree(1)
           j == Disk!NthFree(2)
           k == Disk!NthFree(3)
<1>1. /\ i \in free /\ j \in free /\ k \in free /\ i # j /\ i # k /\ j # k
      /\ free \subseteq Disk!Descs
  BY AllocThree DEF Disk!Submit, DiskInv, Disk!TypeOK
<1>2. /\ stage[p] \in {"read", "write"}
      /\ free' = free \ {i, j, k}
      /\ desc' = [desc EXCEPT ![i] = [op |-> Disk!Type(p), addr |-> i, next |-> j],
                              ![j] = [op |-> "none", addr |-> p, next |-> k],
                              ![k] = [op |-> "none", addr |-> i, next |-> Disk!NoDesc]]
      /\ info' = [info EXCEPT ![i] = [b |-> p, status |-> 255]]
      /\ bdisk' = [bdisk EXCEPT ![p] = 1]
      /\ avail' = avail \cup {i}
      /\ stage' = [stage EXCEPT ![p] = "iosleep"]
      /\ head' = [head EXCEPT ![p] = i]
      /\ UNCHANGED <<queue, irq, handling, buffer, block>>
  BY DEF Disk!Submit
<1> HIDE DEF i, j, k
<1>3. /\ desc \in [Disk!Descs -> [op : {"IN", "OUT", "none"},
                                 addr : Callers \cup Disk!Descs \cup {Nobody},
                                 next : Disk!Descs \cup {Disk!NoDesc}]]
      /\ info \in [Disk!Descs -> [b : Callers \cup {Nobody}, status : {0, 255}]]
      /\ bdisk \in [Callers -> {0, 1}]
      /\ head \in [Callers -> Disk!Descs \cup {Disk!NoDesc}]
      /\ stage \in [Callers -> Stages]
      /\ avail \in SUBSET Disk!Descs
  BY DEF DiskInv, Disk!TypeOK, Stages
<1>4. Disk!TypeOK'
  <2>1. /\ free' \in SUBSET Disk!Descs /\ avail' \in SUBSET Disk!Descs
        /\ bdisk' \in [Callers -> {0, 1}]
        /\ head' \in [Callers -> Disk!Descs \cup {Disk!NoDesc}]
        /\ stage' \in [Callers -> Stages]
    BY <1>1, <1>2, <1>3 DEF Stages
  <2>2. info' \in [Disk!Descs -> [b : Callers \cup {Nobody}, status : {0, 255}]]
    BY <1>1, <1>2, <1>3
  <2>3. desc' \in [Disk!Descs -> [op : {"IN", "OUT", "none"},
                                 addr : Callers \cup Disk!Descs \cup {Nobody},
                                 next : Disk!Descs \cup {Disk!NoDesc}]]
    BY <1>1, <1>2, <1>3 DEF Disk!Type
  <2> QED BY <1>2, <2>1, <2>2, <2>3 DEF DiskInv, Disk!TypeOK, Stages
<1>5. Waiting' = Waiting \cup {p} /\ p \notin Waiting
  BY <1>2, <1>3 DEF Waiting
<1>6. ASSUME NEW q \in Waiting
      PROVE  /\ q # p /\ q \in Callers /\ head[q] \in Disk!Descs
             /\ head[q] \notin {i, j, k} /\ Second(q) \notin {i, j, k}
             /\ Third(q) \notin {i, j, k}
             /\ head'[q] = head[q] /\ Second(q)' = Second(q) /\ Third(q)' = Third(q)
  <2>1. /\ q # p /\ q \in Callers
        /\ head[q] \in Disk!Descs /\ Second(q) \in Disk!Descs /\ Third(q) \in Disk!Descs
    BY <1>5 DEF Waiting, DiskInv, ChainsInv, ChainOf
  <2>2. head[q] \notin {i, j, k} /\ Second(q) \notin {i, j, k} /\ Third(q) \notin {i, j, k}
    BY <1>1, ChainIs, ZenonT(60) DEF DiskInv, ChainsInv
  <2>3. head'[q] = head[q]
    BY <1>2, <1>3, <2>1
  <2>4. Second(q)' = Second(q)
    BY <1>2, <1>3, <2>1, <2>2, <2>3 DEF Second
  <2>5. Third(q)' = Third(q)
    BY <1>2, <1>3, <2>1, <2>2, <2>4 DEF Third
  <2> QED BY <2>1, <2>2, <2>3, <2>4, <2>5
<1>7. head'[p] = i /\ Second(p)' = j /\ Third(p)' = k
  <2>1. head'[p] = i
    BY <1>2, <1>3
  <2>2. Second(p)' = j
    BY <1>1, <1>2, <1>3, <2>1 DEF Second
  <2>3. Third(p)' = k
    BY <1>1, <1>2, <1>3, <2>2 DEF Third
  <2> QED BY <2>1, <2>2, <2>3
<1>8. /\ Disk!Chain(head[p])' = {i, j, k}
      /\ \A q \in Waiting : Disk!Chain(head[q])' = Disk!Chain(head[q])
  BY <1>6, <1>7 DEF Disk!Chain, Second, Third
<1>9. ChainsInv'
  <2>1. ASSUME NEW q \in Waiting' PROVE ChainOf(q)'
    <3>1. CASE q = p
      BY <1>1, <1>2, <1>3, <1>7, <3>1 DEF ChainOf
    <3>2. CASE q # p
      <4>1. ChainOf(q) /\ q \in Waiting
        BY <1>5, <3>2 DEF DiskInv, ChainsInv
      <4>2. /\ desc'[Second(q)] = desc[Second(q)] /\ desc'[Third(q)] = desc[Third(q)]
            /\ info'[head[q]] = info[head[q]]
        BY <1>2, <1>3, <1>6, <4>1 DEF ChainOf
      <4> QED BY <1>6, <4>1, <4>2 DEF ChainOf
    <3> QED BY <3>1, <3>2
  <2>2. \A q \in Waiting : Disk!Chain(head[q]) \cap {i, j, k} = {}
    BY <1>6, ChainIs DEF DiskInv
  <2>3. \A q, r \in Waiting' : q # r => Disk!Chain(head[q])' \cap Disk!Chain(head[r])' = {}
    BY <1>5, <1>8, <2>2 DEF DiskInv, ChainsInv
  <2>4. \A d \in Disk!Descs :
          d \in free' <=> \A q \in Waiting' : d \notin Disk!Chain(head[q])'
    BY <1>2, <1>5, <1>8 DEF DiskInv, ChainsInv
  <2> QED BY <2>1, <2>3, <2>4 DEF ChainsInv
<1>10. \A q \in Waiting : bdisk'[q] = bdisk[q]
  BY <1>2, <1>3, <1>6
<1>11. bdisk'[p] = 1
  BY <1>2, <1>3
<1>12. i \notin avail /\ \A t \in 1 .. Len(queue) : queue[t] # i
  BY <1>6 DEF DiskInv, RingsInv
<1>13. RingsInv'
  <2>1. \A h \in avail' : \E q \in Waiting' : head'[q] = h /\ bdisk'[q] = 1
    BY <1>2, <1>5, <1>6, <1>7, <1>10, <1>11 DEF DiskInv, RingsInv
  <2>2. \A t \in 1 .. Len(queue) :
          /\ queue[t] \notin avail'
          /\ info'[queue[t]].status = 0
          /\ \E q \in Waiting' : head'[q] = queue[t] /\ bdisk'[q] = 1
    <3>1. ASSUME NEW t \in 1 .. Len(queue)
          PROVE  /\ queue[t] \notin avail'
                 /\ info'[queue[t]].status = 0
                 /\ \E q \in Waiting' : head'[q] = queue[t] /\ bdisk'[q] = 1
      <4>1. PICK q \in Waiting : head[q] = queue[t] /\ bdisk[q] = 1
        BY <3>1 DEF DiskInv, RingsInv
      <4>2. queue[t] \notin avail /\ info[queue[t]].status = 0
        BY <3>1 DEF DiskInv, RingsInv
      <4>3. info'[queue[t]] = info[queue[t]]
        BY <1>2, <1>3, <1>6, <1>12, <3>1, <4>1
      <4> QED BY <1>2, <1>5, <1>6, <1>10, <1>12, <3>1, <4>1, <4>2, <4>3
    <3> QED BY <3>1
  <2>3. \A q \in Waiting' : head'[q] \notin avail' => buffer'[q] = block'[q]
    BY <1>2, <1>5, <1>6, <1>7 DEF DiskInv, RingsInv
  <2> QED BY <1>2, <2>1, <2>2, <2>3 DEF RingsInv
<1> QED BY <1>4, <1>9, <1>13 DEF DiskInv

\* A chain is freed, and no other.
LEMMA DiskFinish ==
  ASSUME DiskInv, NEW p \in Callers, Disk!Finish(p)
  PROVE  DiskInv'
<1> DEFINE C == Disk!Chain(head[p])
<1>1. /\ stage[p] = "wait" /\ bdisk[p] = 0
      /\ info' = [info EXCEPT ![head[p]].b = Nobody]
      /\ free' = free \cup C
      /\ desc' = [d \in Disk!Descs |-> IF d \in C THEN Disk!Cleared ELSE desc[d]]
      /\ stage' = [q \in Callers |-> CASE q = p -> "idle"
                                       [] stage[q] = "rsleep" -> "read"
                                       [] stage[q] = "wsleep" -> "write"
                                       [] OTHER -> stage[q]]
      /\ head' = [head EXCEPT ![p] = Disk!NoDesc]
      /\ UNCHANGED <<avail, queue, irq, handling, bdisk, buffer, block>>
  BY DEF Disk!Finish, Disk!ringVars
<1>2. /\ desc \in [Disk!Descs -> [op : {"IN", "OUT", "none"},
                                 addr : Callers \cup Disk!Descs \cup {Nobody},
                                 next : Disk!Descs \cup {Disk!NoDesc}]]
      /\ info \in [Disk!Descs -> [b : Callers \cup {Nobody}, status : {0, 255}]]
      /\ head \in [Callers -> Disk!Descs \cup {Disk!NoDesc}]
      /\ stage \in [Callers -> Stages]
      /\ free \in SUBSET Disk!Descs
  BY DEF DiskInv, Disk!TypeOK, Stages
<1>3. p \in Waiting /\ ChainOf(p) /\ C = {head[p], Second(p), Third(p)}
  BY <1>1, ChainIs DEF Waiting, DiskInv, ChainsInv
<1>4. C \subseteq Disk!Descs /\ head[p] \in C
  BY <1>3 DEF ChainOf
<1> HIDE DEF C
<1>5. Waiting' = Waiting \ {p}
  BY <1>1, <1>2 DEF Waiting, Stages
<1>6. Disk!TypeOK'
  <2>1. free' \in SUBSET Disk!Descs /\ head' \in [Callers -> Disk!Descs \cup {Disk!NoDesc}]
    BY <1>1, <1>2, <1>4
  <2>2. stage' \in [Callers -> Stages]
    BY <1>1, <1>2 DEF Stages
  <2>3. info' \in [Disk!Descs -> [b : Callers \cup {Nobody}, status : {0, 255}]]
    BY <1>1, <1>2, <1>4
  <2>4. desc' \in [Disk!Descs -> [op : {"IN", "OUT", "none"},
                                 addr : Callers \cup Disk!Descs \cup {Nobody},
                                 next : Disk!Descs \cup {Disk!NoDesc}]]
    BY <1>1, <1>2 DEF Disk!Cleared
  <2> QED BY <1>1, <2>1, <2>2, <2>3, <2>4 DEF DiskInv, Disk!TypeOK, Stages
<1>7. ASSUME NEW q \in Waiting, q # p
      PROVE  /\ ChainOf(q) /\ q \in Callers
             /\ head[q] \notin C /\ Second(q) \notin C /\ Third(q) \notin C
             /\ head'[q] = head[q] /\ Second(q)' = Second(q) /\ Third(q)' = Third(q)
             /\ Disk!Chain(head[q])' = Disk!Chain(head[q])
             /\ info'[head[q]] = info[head[q]]
  <2>1. ChainOf(q) /\ q \in Callers
    BY DEF DiskInv, ChainsInv, Waiting
  <2>2. head[q] \notin C /\ Second(q) \notin C /\ Third(q) \notin C
    <3>1. Disk!Chain(head[q]) \cap C = {}
      BY <1>3, <1>7 DEF C, DiskInv, ChainsInv
    <3> QED BY <3>1, ChainIs DEF DiskInv
  <2>3. head'[q] = head[q]
    BY <1>1, <1>2, <1>7, <2>1
  <2>4. Second(q)' = Second(q)
    BY <1>1, <2>1, <2>2, <2>3 DEF Second, ChainOf
  <2>5. Third(q)' = Third(q)
    BY <1>1, <2>1, <2>2, <2>4 DEF Third, ChainOf
  <2>6. Disk!Chain(head[q])' = Disk!Chain(head[q])
    BY <2>3, <2>4, <2>5 DEF Disk!Chain, Second, Third
  <2>7. info'[head[q]] = info[head[q]]
    BY <1>1, <1>2, <1>4, <2>1, <2>2 DEF ChainOf
  <2> QED BY <2>1, <2>2, <2>3, <2>4, <2>5, <2>6, <2>7
<1>8. ChainsInv'
  <2>1. ASSUME NEW q \in Waiting' PROVE ChainOf(q)'
    <3>1. q \in Waiting /\ q # p
      BY <1>5
    <3>2. desc'[Second(q)] = desc[Second(q)] /\ desc'[Third(q)] = desc[Third(q)]
      BY <1>1, <1>7, <3>1 DEF ChainOf
    <3> QED BY <1>7, <3>1, <3>2 DEF ChainOf
  <2>2. \A q, r \in Waiting' : q # r => Disk!Chain(head[q])' \cap Disk!Chain(head[r])' = {}
    BY <1>5, <1>7 DEF DiskInv, ChainsInv
  <2>3. \A d \in Disk!Descs :
          d \in free' <=> \A q \in Waiting' : d \notin Disk!Chain(head[q])'
    <3>1. \A d \in Disk!Descs :
            d \in free <=> \A q \in Waiting : d \notin Disk!Chain(head[q])
      BY DEF DiskInv, ChainsInv
    <3>2. \A q \in Waiting : q # p => Disk!Chain(head[q]) \cap C = {}
      BY <1>3 DEF C, DiskInv, ChainsInv
    <3> QED BY <1>1, <1>3, <1>5, <1>7, <3>1, <3>2 DEF C
  <2> QED BY <2>1, <2>2, <2>3 DEF ChainsInv
<1>9. ASSUME NEW q \in Waiting, bdisk[q] = 1
      PROVE  q \in Waiting' /\ q # p /\ head'[q] = head[q] /\ info'[head[q]] = info[head[q]]
  BY <1>1, <1>5, <1>7, <1>9
<1>10. RingsInv'
  <2>1. \A h \in avail' : \E q \in Waiting' : head'[q] = h /\ bdisk'[q] = 1
    BY <1>1, <1>9 DEF DiskInv, RingsInv
  <2>2. \A t \in 1 .. Len(queue) :
          /\ queue[t] \notin avail'
          /\ info'[queue[t]].status = 0
          /\ \E q \in Waiting' : head'[q] = queue[t] /\ bdisk'[q] = 1
    BY <1>1, <1>9 DEF DiskInv, RingsInv
  <2>3. \A q \in Waiting' : head'[q] \notin avail' => buffer'[q] = block'[q]
    BY <1>1, <1>5, <1>7 DEF DiskInv, RingsInv
  <2> QED BY <1>1, <2>1, <2>2, <2>3 DEF RingsInv
<1> QED BY <1>6, <1>8, <1>10 DEF DiskInv


\* The device does what the chain asks for.
LEMMA DiskComplete ==
  ASSUME DiskInv, NEW h \in Disk!Descs, Disk!Complete(h)
  PROVE  DiskInv'
<1>1. PICK p \in Waiting : head[p] = h /\ bdisk[p] = 1
  BY DEF Disk!Complete, DiskInv, RingsInv
<1>2. ChainOf(p) /\ p \in Callers
  BY DEF DiskInv, ChainsInv, Waiting
<1>3. desc[desc[h].next].addr = p /\ desc[desc[desc[h].next].next].addr = h
  BY <1>1, <1>2 DEF ChainOf, Second, Third
<1>4. /\ h \in avail
      /\ info' = [info EXCEPT ![h].status = 0]
      /\ avail' = avail \ {h} /\ queue' = Append(queue, h) /\ irq' = TRUE
      /\ UNCHANGED <<free, desc, handling, bdisk, stage, head>>
      /\ \/ block' = [block EXCEPT ![p] = buffer[p]] /\ UNCHANGED buffer
         \/ buffer' = [buffer EXCEPT ![p] = block[p]] /\ UNCHANGED block
  BY <1>3 DEF Disk!Complete
<1>5. /\ info \in [Disk!Descs -> [b : Callers \cup {Nobody}, status : {0, 255}]]
      /\ block \in [Callers -> Vals] /\ buffer \in [Callers -> Vals]
      /\ queue \in Seq(Disk!Descs) /\ avail \in SUBSET Disk!Descs
  BY DEF DiskInv, Disk!TypeOK
<1>6. Disk!TypeOK'
  <2>1. info' \in [Disk!Descs -> [b : Callers \cup {Nobody}, status : {0, 255}]]
    BY <1>4, <1>5, SMTT(30)
  <2>2. /\ block' \in [Callers -> Vals] /\ buffer' \in [Callers -> Vals]
        /\ queue' \in Seq(Disk!Descs) /\ avail' \in SUBSET Disk!Descs
    BY <1>2, <1>4, <1>5
  <2> QED BY <1>4, <2>1, <2>2 DEF DiskInv, Disk!TypeOK
<1>7. Waiting' = Waiting
  BY <1>4 DEF Waiting
<1>8. \A d \in Disk!Descs : /\ info'[d].b = info[d].b
                            /\ info'[d].status = IF d = h THEN 0 ELSE info[d].status
  BY <1>4, <1>5
<1>9. ChainsInv'
  <2>1. \A q \in Waiting : info'[head[q]].b = info[head[q]].b
    BY <1>8 DEF DiskInv, ChainsInv, ChainOf
  <2> QED BY <1>4, <1>7, <2>1, ChainsSame DEF DiskInv
<1>10. RingsInv'
  <2>1. \A g \in avail' : \E q \in Waiting' : head'[q] = g /\ bdisk'[q] = 1
    BY <1>4, <1>7 DEF DiskInv, RingsInv
  <2>2. ASSUME NEW t \in 1 .. Len(queue')
        PROVE  /\ queue'[t] \notin avail'
               /\ info'[queue'[t]].status = 0
               /\ \E q \in Waiting' : head'[q] = queue'[t] /\ bdisk'[q] = 1
    <3>1. CASE t = Len(queue) + 1
      <4>1. queue'[t] = h
        BY <1>4, <1>5, <3>1
      <4> QED BY <1>1, <1>4, <1>7, <1>8, <4>1
    <3>2. CASE t # Len(queue) + 1
      <4>1. t \in 1 .. Len(queue) /\ queue'[t] = queue[t] /\ queue[t] \in Disk!Descs
        BY <1>4, <1>5, <3>2
      <4>2. /\ queue[t] \notin avail /\ info[queue[t]].status = 0
            /\ \E q \in Waiting : head[q] = queue[t] /\ bdisk[q] = 1
        BY <4>1 DEF DiskInv, RingsInv
      <4> QED BY <1>4, <1>7, <1>8, <4>1, <4>2
    <3> QED BY <3>1, <3>2
  <2>3. ASSUME NEW q \in Waiting', head'[q] \notin avail' PROVE buffer'[q] = block'[q]
    <3>1. q \in Waiting /\ q \in Callers /\ head'[q] = head[q]
      BY <1>4, <1>7 DEF Waiting
    <3>2. CASE q = p
      BY <1>2, <1>4, <1>5, <3>2
    <3>3. CASE q # p
      <4>1. head[q] # h
        BY <1>1, <3>1, <3>3, ChainIs DEF DiskInv
      <4>2. buffer[q] = block[q]
        BY <1>4, <2>3, <3>1, <4>1 DEF DiskInv, RingsInv
      <4> QED BY <1>2, <1>4, <1>5, <3>1, <3>3, <4>2
    <3> QED BY <3>2, <3>3
  <2> QED BY <2>1, <2>2, <2>3 DEF RingsInv
<1> QED BY <1>6, <1>9, <1>10 DEF DiskInv

\* The interrupt handler gives the buffers back whose requests are done.
LEMMA DiskHandle ==
  ASSUME DiskInv, Disk!HandleUsed
  PROVE  DiskInv'
<1> DEFINE done == {info[h].b : h \in Disk!ToSet(queue)}
<1>1. /\ handling' = FALSE /\ queue' = <<>>
      /\ bdisk' = [p \in Callers |-> IF p \in done THEN 0 ELSE bdisk[p]]
      /\ stage' = [p \in Callers |-> IF p \in done /\ stage[p] = "iosleep"
                                     THEN "wait" ELSE stage[p]]
      /\ UNCHANGED <<free, desc, info, avail, irq, buffer, block, head>>
  BY DEF Disk!HandleUsed, Disk!descVars
<1>2. /\ queue \in Seq(Disk!Descs) /\ bdisk \in [Callers -> {0, 1}]
      /\ stage \in [Callers -> Stages]
  BY DEF DiskInv, Disk!TypeOK, Stages
<1>3. ASSUME NEW q \in Waiting, head[q] \in avail PROVE q \notin done
  <2>1. SUFFICES ASSUME q \in done PROVE FALSE
    OBVIOUS
  <2>2. PICK t \in 1 .. Len(queue) : info[queue[t]].b = q
    BY <1>2, <2>1 DEF Disk!ToSet
  <2>3. PICK r \in Waiting : head[r] = queue[t]
    BY <2>2 DEF DiskInv, RingsInv
  <2>4. r = q
    BY <2>2, <2>3 DEF DiskInv, ChainsInv, ChainOf
  <2> QED BY <1>3, <2>2, <2>3, <2>4 DEF DiskInv, RingsInv
<1> HIDE DEF done
<1>4. Disk!TypeOK'
  <2>1. bdisk' \in [Callers -> {0, 1}] /\ stage' \in [Callers -> Stages]
    BY <1>1, <1>2 DEF Stages
  <2>2. queue' \in Seq(Disk!Descs)
    BY <1>1
  <2> QED BY <1>1, <2>1, <2>2 DEF DiskInv, Disk!TypeOK, Stages
<1>5. Waiting' = Waiting
  BY <1>1, <1>2 DEF Waiting
<1>6. ChainsInv'
  BY <1>1, <1>5, ChainsSame DEF DiskInv
<1>7. RingsInv'
  <2>1. ASSUME NEW h \in avail' PROVE \E q \in Waiting' : head'[q] = h /\ bdisk'[q] = 1
    <3>1. PICK q \in Waiting : head[q] = h /\ bdisk[q] = 1
      BY <1>1, <2>1 DEF DiskInv, RingsInv
    <3>2. q \notin done /\ q \in Callers
      BY <1>1, <1>3, <2>1, <3>1 DEF Waiting
    <3> QED BY <1>1, <1>5, <3>1, <3>2
  <2>2. Len(queue') = 0
    BY <1>1
  <2>3. \A q \in Waiting' : head'[q] \notin avail' => buffer'[q] = block'[q]
    BY <1>1, <1>5 DEF DiskInv, RingsInv
  <2> QED BY <2>1, <2>2, <2>3 DEF RingsInv
<1> QED BY <1>4, <1>6, <1>7 DEF DiskInv

LEMMA DiskInit == Init => DiskInv
<1> SUFFICES ASSUME Init PROVE DiskInv
  OBVIOUS
<1>1. Disk!Init
  BY DEF Init
<1>2. Waiting = {} /\ avail = {} /\ queue = <<>> /\ free = Disk!Descs
  BY <1>1 DEF Disk!Init, Waiting
<1>3. Disk!TypeOK
  <2>1. block \in [Callers -> Vals] /\ buffer = block
    BY <1>1 DEF Disk!Init
  <2>2. /\ desc = [i \in Disk!Descs |-> Disk!Cleared]
        /\ info = [i \in Disk!Descs |-> [b |-> Nobody, status |-> 0]]
        /\ irq = FALSE /\ handling = FALSE
    BY <1>1 DEF Disk!Init
  <2>3. /\ bdisk \in [Callers -> {0, 1}] /\ stage \in [Callers -> Stages]
        /\ head \in [Callers -> Disk!Descs \cup {Disk!NoDesc}]
    BY <1>1 DEF Disk!Init, Stages
  <2>4. /\ desc \in [Disk!Descs -> [op : {"IN", "OUT", "none"},
                                  addr : Callers \cup Disk!Descs \cup {Nobody},
                                  next : Disk!Descs \cup {Disk!NoDesc}]]
        /\ info \in [Disk!Descs -> [b : Callers \cup {Nobody}, status : {0, 255}]]
    BY <2>2 DEF Disk!Cleared
  <2>5. queue \in Seq(Disk!Descs)
    BY <1>2
  <2> QED BY <1>2, <2>1, <2>2, <2>3, <2>4, <2>5 DEF Disk!TypeOK, Stages
<1>4. Len(queue) = 0
  BY <1>2
<1> QED BY <1>2, <1>3, <1>4 DEF DiskInv, ChainsInv, RingsInv

LEMMA DiskNext == DiskInv /\ Disk!Next => DiskInv'
<1> SUFFICES ASSUME DiskInv, Disk!Next PROVE DiskInv'
  OBVIOUS
<1>1. PICK p \in Callers : TRUE
  BY StorageAssumption DEF Disk!Parameters
<1>2. CASE Disk!Acknowledge
  BY <1>1, <1>2, DiskQuiet
<1>3. CASE Disk!Device
  BY <1>3, DiskComplete DEF Disk!Device
<1>4. CASE \E q \in Callers : \/ \E op \in {"read", "write"}, v \in Vals : Disk!Enter(q, op, v)
                             \/ Disk!Inside(q) \/ Disk!Kill(q)
  BY <1>4, DiskQuiet, DiskSubmit, DiskFinish DEF Disk!Inside
<1> QED BY <1>2, <1>3, <1>4, DiskHandle DEF Disk!Next, Disk!Interrupt

LEMMA DiskSame == DiskInv /\ UNCHANGED diskVars => DiskInv'
<1> SUFFICES ASSUME DiskInv, UNCHANGED diskVars PROVE DiskInv'
  OBVIOUS
<1>1. UNCHANGED <<free, desc, info, avail, queue, irq, handling, bdisk, buffer, block,
                  stage, head>>
  BY DEF diskVars
<1>2. Disk!TypeOK' /\ Waiting' = Waiting
  BY <1>1 DEF DiskInv, Disk!TypeOK, Waiting
<1> QED BY <1>1, <1>2, Quiet DEF DiskInv

LEMMA DiskSteps == [Next]_vars => Disk!Next \/ UNCHANGED diskVars
BY DEF Next, RunLog, RunCache, RunInodes, RunDisk, OnlyLog, OnlyCache, OnlyInodes, vars

LEMMA DiskStep == DiskInv /\ [Next]_vars => DiskInv'
BY DiskNext, DiskSame, DiskSteps

LEMMA DiskSafe == DiskInv => RequestsKnown
<1> SUFFICES ASSUME DiskInv PROVE RequestsKnown
  OBVIOUS
<1>1. \A p \in Waiting : Disk!Cardinality(Disk!Chain(head[p])) = 3
  <2>1. \A S : Disk!Cardinality(S) = Cardinality(S)
    BY DEF Disk!Cardinality, Cardinality
  <2>2. ASSUME NEW p \in Waiting PROVE Cardinality({head[p], Second(p), Third(p)}) = 3
    <3>1. ChainOf(p)
      BY DEF DiskInv, ChainsInv
    <3>2. head[p] # Second(p) /\ head[p] # Third(p) /\ Second(p) # Third(p)
      BY <3>1 DEF ChainOf
    <3> QED BY <3>2, ThreeElements
  <2> QED BY <2>1, <2>2, ChainIs DEF DiskInv
<1>2. free = Disk!Descs \ UNION {Disk!Chain(head[p]) : p \in Waiting}
  <2>1. free \subseteq Disk!Descs
    BY DEF DiskInv, Disk!TypeOK
  <2> QED BY <2>1 DEF DiskInv, ChainsInv
<1>3. Disk!OneChainEach
  BY <1>1, <1>2 DEF Disk!OneChainEach, Waiting, DiskInv, ChainsInv
<1>4. Disk!KnownCompletion
  <2>1. ASSUME NEW h \in Disk!ToSet(queue) PROVE \E t \in 1 .. Len(queue) : queue[t] = h
    BY <2>1 DEF Disk!ToSet, DiskInv, Disk!TypeOK
  <2>2. ASSUME NEW t \in 1 .. Len(queue)
        PROVE  /\ info[queue[t]].status = 0
               /\ \E p \in Callers : /\ info[queue[t]].b = p /\ head[p] = queue[t]
                                     /\ bdisk[p] = 1
    <3>1. PICK p \in Waiting : head[p] = queue[t] /\ bdisk[p] = 1
      BY <2>2 DEF DiskInv, RingsInv
    <3>2. info[queue[t]].b = p /\ p \in Callers
      BY <3>1 DEF DiskInv, ChainsInv, ChainOf, Waiting
    <3> QED BY <2>2, <3>1, <3>2 DEF DiskInv, RingsInv
  <2> QED BY <2>1, <2>2 DEF Disk!KnownCompletion
<1> QED BY <1>3, <1>4 DEF RequestsKnown, Disk!RequestsKnown

\* With any number of descriptors and processes, no descriptor is given out twice or
\* leaks, and the interrupt handler meets only requests that succeeded and that a
\* process waits for (virtio_disk.c:143-201, 276-309).
THEOREM RequestsKnownCorrect == Spec => []RequestsKnown
BY DiskInit, DiskStep, DiskSafe, PTL DEF Spec

\* When virtio_disk_rw() returns the device has done what was asked, out of order,
\* after spurious wakeups and with many completions in one interrupt
\* (virtio_disk.c:271-274).
THEOREM DoneOnReturnCorrect == Spec => DoneOnReturn
<1>1. ASSUME DiskInv, [Next]_vars, NEW p \in Callers, stage[p] = "wait", stage'[p] = "idle"
      PROVE  buffer[p] = block[p]
  <2>1. stage \in [Callers -> Stages] /\ p \in Waiting
    BY <1>1 DEF DiskInv, Disk!TypeOK, Stages, Waiting
  <2>2. Disk!Finish(p)
    <3>1. Disk!Next
      BY <1>1, DiskSteps DEF diskVars
    <3>2. ASSUME NEW q \in Callers, Disk!Finish(q) PROVE q = p
      BY <1>1, <2>1, <3>2 DEF Disk!Finish
    <3>3. ~ \E q \in Callers : \/ \E op \in {"read", "write"}, v \in Vals : Disk!Enter(q, op, v)
                               \/ Disk!Submit(q) \/ Disk!Kill(q) \/ Disk!SleepAgain(q)
      BY <1>1, <2>1 DEF Disk!Enter, Disk!Submit, Disk!Kill, Disk!SleepAgain
    <3>4. ~ \E q \in Callers : Disk!AllocFails(q)
      BY <1>1, <2>1 DEF Disk!AllocFails
    <3>5. ~ Disk!Device /\ ~ Disk!Interrupt
      BY <1>1, <2>1
         DEF Disk!Device, Disk!Complete, Disk!Interrupt, Disk!Acknowledge, Disk!HandleUsed
    <3> QED BY <3>1, <3>2, <3>3, <3>4, <3>5 DEF Disk!Next, Disk!Inside
  <2>3. bdisk[p] = 0
    BY <2>2 DEF Disk!Finish
  <2>4. head[p] \notin avail
    <3>1. SUFFICES ASSUME head[p] \in avail PROVE FALSE
      OBVIOUS
    <3>2. PICK q \in Waiting : head[q] = head[p] /\ bdisk[q] = 1
      BY <1>1, <3>1 DEF DiskInv, RingsInv
    <3> QED BY <1>1, <2>1, <2>3, <3>2, ChainIs DEF DiskInv
  <2> QED BY <1>1, <2>1, <2>4 DEF DiskInv, RingsInv
<1>2. DiskInv /\ [Next]_vars =>
        [\A p \in Callers :
           stage[p] = "wait" /\ stage'[p] = "idle" => buffer[p] = block[p]]_(Disk!vars)
  BY <1>1
<1> QED BY <1>2, DiskInit, DiskStep, PTL DEF Spec, DoneOnReturn, Disk!DoneOnReturn


----------------------------------------------------------------------------
(* The buffer cache *)

BufType ==
  /\ disk \in [Buffered -> Vals]
  /\ blockno \in [Caching!Bufs -> Buffered \cup {Absent}]
  /\ bvalid \in [Caching!Bufs -> BOOLEAN]
  /\ refcnt \in [Caching!Bufs -> Nat]
  /\ data \in [Caching!Bufs -> Vals \cup {Absent}]
  /\ buflock \in [Caching!Bufs -> Procs \cup {Nobody}]
  /\ pinned \in SUBSET Changing
  /\ at \in [Procs -> {"idle", "lock", "held", "brelse"}]
  /\ want \in [Procs -> Buffered \cup {Absent}]
  /\ mine \in [Procs -> Nat]

\* The processes that bget() has given buffer b.
Users(b) == {p \in Procs : at[p] # "idle" /\ mine[p] = b}

\* What bcache.lock protects: a block is in one buffer at most, and in one if it is
\* pinned; a buffer has a reference for each process that has it and one if its block
\* is pinned.
TableInv ==
  /\ \A n \in pinned : \E b \in Caching!Bufs : blockno[b] = n
  /\ \A b, c \in Caching!Bufs : blockno[b] = blockno[c] /\ blockno[b] # Absent => b = c
  /\ \A b \in Caching!Bufs :
       /\ IsFiniteSet(Users(b))
       /\ refcnt[b] = Cardinality(Users(b)) + (IF blockno[b] \in pinned THEN 1 ELSE 0)
  /\ \A p \in Procs : at[p] # "idle" =>
       mine[p] \in Caching!Bufs /\ want[p] \in Buffered /\ blockno[mine[p]] = want[p]

\* What the sleep locks protect: the contents, which are those of the block on the
\* disk unless the block is pinned.
ContentsInv ==
  /\ \A p \in Procs : at[p] = "held" => buflock[mine[p]] = p /\ bvalid[mine[p]]
  /\ \A b \in Caching!Bufs : bvalid[b] =>
       /\ blockno[b] \in Buffered /\ data[b] \in Vals
       /\ blockno[b] \notin pinned => data[b] = disk[blockno[b]]

CacheInv == BufType /\ TableInv /\ ContentsInv

LEMMA CacheParameters ==
  /\ Changing \subseteq Buffered /\ Nobody \notin Procs
  /\ Absent \notin Buffered /\ Absent \notin Vals
  /\ Vals # {} /\ 1 \in Nat
BY StorageAssumption DEF Caching!Parameters, Disk!Parameters


\* Who has a buffer is counted in it.
LEMMA UsersCounted ==
  ASSUME CacheInv
  PROVE  /\ \A b \in Caching!Bufs : Cardinality(Users(b)) \in Nat
         /\ \A b \in Caching!Bufs : refcnt[b] = 0 => Users(b) = {} /\ blockno[b] \notin pinned
         /\ \A p \in Procs : at[p] # "idle" =>
              /\ p \in Users(mine[p]) /\ Cardinality(Users(mine[p])) > 0
              /\ refcnt[mine[p]] > 0
<1>1. \A b \in Caching!Bufs : Cardinality(Users(b)) \in Nat
  BY FS_CardinalityType DEF CacheInv, TableInv
<1>2. ASSUME NEW b \in Caching!Bufs, refcnt[b] = 0
      PROVE  Users(b) = {} /\ blockno[b] \notin pinned
  <2>1. /\ IsFiniteSet(Users(b)) /\ Cardinality(Users(b)) \in Nat
        /\ refcnt[b] = Cardinality(Users(b)) + (IF blockno[b] \in pinned THEN 1 ELSE 0)
    BY <1>1 DEF CacheInv, TableInv
  <2>2. Cardinality(Users(b)) = 0 /\ blockno[b] \notin pinned
    BY <1>2, <2>1
  <2> QED BY <2>1, <2>2, FS_EmptySet
<1>3. ASSUME NEW p \in Procs, at[p] # "idle"
      PROVE  /\ p \in Users(mine[p]) /\ Cardinality(Users(mine[p])) > 0
             /\ refcnt[mine[p]] > 0
  <2>1. mine[p] \in Caching!Bufs /\ p \in Users(mine[p])
    BY <1>3 DEF CacheInv, TableInv, Users
  <2>2. /\ IsFiniteSet(Users(mine[p])) /\ Cardinality(Users(mine[p])) \in Nat
        /\ refcnt[mine[p]] = Cardinality(Users(mine[p]))
                               + (IF blockno[mine[p]] \in pinned THEN 1 ELSE 0)
    BY <1>1, <2>1 DEF CacheInv, TableInv
  <2>3. Cardinality(Users(mine[p])) # 0
    BY <2>1, <2>2, FS_EmptySet
  <2> QED BY <2>1, <2>2, <2>3
<1> QED BY <1>1, <1>2, <1>3

LEMMA Holder ==
  ASSUME CacheInv, NEW p \in Procs, at[p] # "idle"
  PROVE  /\ mine[p] \in Caching!Bufs /\ want[p] \in Buffered /\ blockno[mine[p]] = want[p]
         /\ at[p] = "held" => buflock[mine[p]] = p /\ bvalid[mine[p]]
BY DEF CacheInv, TableInv, ContentsInv

\* bget() gives a buffer that has the block, or one that nobody refers to.
LEMMA CacheBget ==
  ASSUME CacheInv, NEW p \in Procs, NEW n \in Buffered, NEW b \in Caching!Bufs,
         /\ at[p] = "idle" /\ at' = [at EXCEPT ![p] = "lock"]
         /\ want' = [want EXCEPT ![p] = n] /\ mine' = [mine EXCEPT ![p] = b]
         /\ UNCHANGED <<disk, buflock, pinned>>,
         \/ blockno[b] = n /\ Caching!BgetHit(b)
         \/ (\A c \in Caching!Bufs : blockno[c] # n) /\ refcnt[b] = 0 /\ Caching!BgetMiss(b, n)
  PROVE  CacheInv' /\ blockno'[b] = n
<1>1. BufType
  BY DEF CacheInv
<1>2. at' \in [Procs -> {"idle", "lock", "held", "brelse"}]
  BY <1>1 DEF BufType
<1>3. /\ want' \in [Procs -> Buffered \cup {Absent}] /\ mine' \in [Procs -> Nat]
  BY <1>1 DEF BufType, Caching!Bufs
<1>4. /\ Users(b)' = Users(b) \cup {p} /\ p \notin Users(b)
      /\ \A c \in Caching!Bufs : c # b => Users(c)' = Users(c)
  BY <1>1 DEF BufType, Users
<1>5. /\ IsFiniteSet(Users(b)) /\ Cardinality(Users(b)) \in Nat
      /\ IsFiniteSet(Users(b)') /\ Cardinality(Users(b)') = Cardinality(Users(b)) + 1
  <2>1. IsFiniteSet(Users(b)) /\ Cardinality(Users(b)) \in Nat
    BY UsersCounted DEF CacheInv, TableInv
  <2> QED BY <1>4, <2>1, FS_AddElement
<1>6. \A q \in Procs : at'[q] # "idle" => q = p \/ (q # p /\ at'[q] = at[q] /\ want'[q] = want[q]
                                                        /\ mine'[q] = mine[q])
  BY <1>1 DEF BufType
<1>7. at'[p] = "lock" /\ want'[p] = n /\ mine'[p] = b
  BY <1>1 DEF BufType
<1>8. CASE blockno[b] = n /\ Caching!BgetHit(b)
  <2>1. /\ refcnt' = [refcnt EXCEPT ![b] = @ + 1]
        /\ UNCHANGED <<blockno, bvalid, data, buflock>>
    BY <1>8 DEF Caching!BgetHit
  <2>2. BufType'
    BY <1>1, <1>2, <1>3, <2>1 DEF BufType
  <2>3. \A c \in Caching!Bufs :
          /\ IsFiniteSet(Users(c)')
          /\ refcnt'[c] = Cardinality(Users(c)') + (IF blockno'[c] \in pinned' THEN 1 ELSE 0)
    <3>1. ASSUME NEW c \in Caching!Bufs, c # b
          PROVE  refcnt'[c] = refcnt[c] /\ Users(c)' = Users(c)
      BY <1>1, <1>4, <2>1, <3>1 DEF BufType
    <3>2. refcnt'[b] = refcnt[b] + 1
      BY <1>1, <2>1 DEF BufType
    <3>3. refcnt[b] = Cardinality(Users(b)) + (IF blockno[b] \in pinned THEN 1 ELSE 0)
      BY DEF CacheInv, TableInv
    <3>4. refcnt'[b] = Cardinality(Users(b)') + (IF blockno[b] \in pinned THEN 1 ELSE 0)
      BY <1>5, <3>2, <3>3
    <3> QED BY <1>5, <2>1, <3>1, <3>4 DEF CacheInv, TableInv
  <2>4. TableInv'
    BY <1>6, <1>7, <1>8, <2>1, <2>3 DEF CacheInv, TableInv
  <2>5. ContentsInv'
    BY <1>6, <1>7, <2>1 DEF CacheInv, ContentsInv
  <2> QED BY <1>8, <2>1, <2>2, <2>4, <2>5 DEF CacheInv
<1>9. CASE (\A c \in Caching!Bufs : blockno[c] # n) /\ refcnt[b] = 0 /\ Caching!BgetMiss(b, n)
  <2>1. /\ blockno' = [blockno EXCEPT ![b] = n] /\ bvalid' = [bvalid EXCEPT ![b] = FALSE]
        /\ refcnt' = [refcnt EXCEPT ![b] = 1] /\ data' = [data EXCEPT ![b] = Absent]
    BY <1>9 DEF Caching!BgetMiss
  <2>2. BufType'
    <3>1. /\ blockno' \in [Caching!Bufs -> Buffered \cup {Absent}]
          /\ bvalid' \in [Caching!Bufs -> BOOLEAN] /\ refcnt' \in [Caching!Bufs -> Nat]
          /\ data' \in [Caching!Bufs -> Vals \cup {Absent}]
      BY <1>1, <2>1 DEF BufType
    <3> QED BY <1>1, <1>2, <1>3, <3>1 DEF BufType
  <2>3. Users(b) = {} /\ Cardinality(Users(b)') = 1
    <3>1. Users(b) = {}
      BY <1>9, UsersCounted
    <3> QED BY <1>5, <3>1, FS_EmptySet
  <2>4. n \notin pinned /\ blockno[b] \notin pinned
    <3>1. n \notin pinned
      BY <1>9 DEF CacheInv, TableInv
    <3> QED BY <1>9, <3>1, UsersCounted
  <2>5. \A c \in Caching!Bufs :
          /\ IsFiniteSet(Users(c)')
          /\ refcnt'[c] = Cardinality(Users(c)') + (IF blockno'[c] \in pinned' THEN 1 ELSE 0)
    <3>1. ASSUME NEW c \in Caching!Bufs, c # b
          PROVE  /\ refcnt'[c] = refcnt[c] /\ blockno'[c] = blockno[c]
                 /\ Users(c)' = Users(c)
      BY <1>1, <1>4, <2>1, <3>1 DEF BufType
    <3>2. refcnt'[b] = 1 /\ blockno'[b] = n
      BY <1>1, <2>1 DEF BufType
    <3>3. 1 + 0 = 1
      OBVIOUS
    <3> QED BY <1>5, <2>3, <2>4, <3>1, <3>2, <3>3 DEF CacheInv, TableInv
  <2>6. \A c, d \in Caching!Bufs : blockno'[c] = blockno'[d] /\ blockno'[c] # Absent => c = d
    BY <1>1, <1>9, <2>1 DEF CacheInv, TableInv, BufType
  <2>7. \A m \in pinned' : \E c \in Caching!Bufs : blockno'[c] = m
    <3>1. ASSUME NEW m \in pinned PROVE \E c \in Caching!Bufs : blockno'[c] = m
      <4>1. PICK c \in Caching!Bufs : blockno[c] = m
        BY DEF CacheInv, TableInv
      <4> QED BY <1>1, <2>1, <2>4, <4>1 DEF BufType
    <3> QED BY <3>1
  <2>8. ASSUME NEW q \in Procs, at'[q] # "idle", q # p
        PROVE  /\ at'[q] = at[q] /\ mine'[q] = mine[q] /\ mine[q] # b
               /\ mine[q] \in Caching!Bufs /\ want'[q] = want[q] /\ want[q] \in Buffered
               /\ blockno'[mine[q]] = want[q]
    <3>1. at'[q] = at[q] /\ mine'[q] = mine[q] /\ want'[q] = want[q]
      BY <1>6, <2>8
    <3>2. mine[q] # b
      BY <1>9, <2>8, <3>1, UsersCounted
    <3> QED BY <1>1, <2>1, <2>8, <3>1, <3>2, Holder DEF BufType
  <2>9. TableInv'
    <3>1. blockno'[b] = n
      BY <1>1, <2>1 DEF BufType
    <3>2. \A q \in Procs : at'[q] # "idle" =>
            /\ mine'[q] \in Caching!Bufs /\ want'[q] \in Buffered
            /\ blockno'[mine'[q]] = want'[q]
      BY <1>7, <2>8, <3>1
    <3> QED BY <2>5, <2>6, <2>7, <3>2 DEF TableInv
  <2>10. ContentsInv'
    <3>1. \A q \in Procs : at'[q] = "held" => buflock'[mine'[q]] = q /\ bvalid'[mine'[q]]
      <4>1. ASSUME NEW q \in Procs, at'[q] = "held"
            PROVE  buflock'[mine'[q]] = q /\ bvalid'[mine'[q]]
        <5>1. q # p
          BY <1>7, <4>1
        <5>2. /\ at[q] = "held" /\ mine'[q] = mine[q] /\ mine[q] # b
              /\ mine[q] \in Caching!Bufs
          BY <2>8, <4>1, <5>1
        <5> QED BY <1>1, <2>1, <5>2, Holder DEF BufType
      <4> QED BY <4>1
    <3>2. \A c \in Caching!Bufs : bvalid'[c] =>
            /\ blockno'[c] \in Buffered /\ data'[c] \in Vals
            /\ blockno'[c] \notin pinned' => data'[c] = disk'[blockno'[c]]
      BY <1>1, <2>1 DEF CacheInv, ContentsInv, BufType
    <3> QED BY <3>1, <3>2 DEF ContentsInv
  <2> QED BY <1>1, <2>1, <2>2, <2>9, <2>10 DEF CacheInv, BufType
<1> QED BY <1>8, <1>9


\* A process that has a buffer changes no count but that of its own block's pin.
LEMMA UsersSame ==
  ASSUME CacheInv, NEW p \in Procs, at[p] # "idle", NEW there \in {"lock", "held", "brelse"},
         at' = [at EXCEPT ![p] = there] \/ UNCHANGED at, UNCHANGED mine
  PROVE  \A b \in Caching!Bufs : Users(b)' = Users(b)
<1>1. at \in [Procs -> {"idle", "lock", "held", "brelse"}]
  BY DEF CacheInv, BufType
<1>2. \A q \in Procs : at'[q] # "idle" <=> at[q] # "idle"
  BY <1>1
<1> QED BY <1>2 DEF Users

\* acquiresleep(), and the read from the disk.
LEMMA CacheRead ==
  ASSUME CacheInv, NEW p \in Procs, Caching!BreadReturn(p)
  PROVE  CacheInv'
<1> DEFINE b == mine[p]
<1>1. BufType
  BY DEF CacheInv
<1>2. /\ at[p] = "lock" /\ at' = [at EXCEPT ![p] = "held"]
      /\ buflock[b] = Nobody /\ buflock' = [buflock EXCEPT ![b] = p]
      /\ data' = [data EXCEPT ![b] = IF bvalid[b] THEN @ ELSE disk[blockno[b]]]
      /\ bvalid' = [bvalid EXCEPT ![b] = TRUE]
      /\ UNCHANGED <<disk, blockno, refcnt, pinned, want, mine>>
  BY DEF Caching!BreadReturn, Caching!Goto
<1>3. b \in Caching!Bufs /\ blockno[b] \in Buffered
  BY <1>2, Holder
<1> HIDE DEF b
<1>4. data'[b] = IF bvalid[b] THEN data[b] ELSE disk[blockno[b]]
  BY <1>1, <1>2, <1>3 DEF BufType
<1>5. BufType'
  <2>1. /\ at' \in [Procs -> {"idle", "lock", "held", "brelse"}]
        /\ buflock' \in [Caching!Bufs -> Procs \cup {Nobody}]
        /\ bvalid' \in [Caching!Bufs -> BOOLEAN]
    BY <1>1, <1>2 DEF BufType
  <2>2. data' \in [Caching!Bufs -> Vals \cup {Absent}]
    BY <1>1, <1>2, <1>3 DEF BufType
  <2> QED BY <1>1, <1>2, <2>1, <2>2 DEF BufType
<1>6. \A q \in Procs : q # p => at'[q] = at[q]
  BY <1>1, <1>2 DEF BufType
<1>7. TableInv'
  <2>1. \A c \in Caching!Bufs : Users(c)' = Users(c)
    BY <1>2, UsersSame
  <2>2. \A q \in Procs : at'[q] # "idle" => at[q] # "idle"
    BY <1>2, <1>6
  <2> QED BY <1>2, <2>1, <2>2 DEF CacheInv, TableInv
<1>8. ContentsInv'
  <2>1. ASSUME NEW q \in Procs, at'[q] = "held"
        PROVE  buflock'[mine[q]] = q /\ bvalid'[mine[q]]
    <3>1. CASE q = p
      BY <1>1, <1>2, <1>3, <3>1 DEF b, BufType
    <3>2. CASE q # p
      <4>1. /\ mine[q] \in Caching!Bufs /\ buflock[mine[q]] = q /\ bvalid[mine[q]]
        BY <1>6, <2>1, <3>2, Holder
      <4>2. mine[q] # b
        BY <1>2, <4>1, CacheParameters
      <4> QED BY <1>1, <1>2, <4>1, <4>2 DEF BufType
    <3> QED BY <3>1, <3>2
  <2>2. ASSUME NEW c \in Caching!Bufs, bvalid'[c]
        PROVE  /\ blockno[c] \in Buffered /\ data'[c] \in Vals
               /\ blockno[c] \notin pinned => data'[c] = disk[blockno[c]]
    <3>1. CASE c = b /\ ~bvalid[b]
      BY <1>1, <1>3, <1>4, <3>1 DEF BufType
    <3>2. CASE c # b \/ bvalid[b]
      <4>1. bvalid[c] /\ data'[c] = data[c]
        BY <1>1, <1>2, <1>4, <2>2, <3>2 DEF BufType
      <4> QED BY <4>1 DEF CacheInv, ContentsInv
    <3> QED BY <3>1, <3>2
  <2> QED BY <1>2, <2>1, <2>2 DEF ContentsInv
<1> QED BY <1>5, <1>7, <1>8 DEF CacheInv

\* The holder changes the contents: to the disk, or pinned.
LEMMA CacheChange ==
  ASSUME CacheInv, NEW p \in Procs, NEW b \in Caching!Bufs, NEW v \in Vals,
         Caching!Bwrite(p, b, v) \/ Caching!Bpin(p, b, v)
  PROVE  CacheInv'
<1>1. BufType
  BY DEF CacheInv
<1>2. /\ at[p] = "held" /\ mine[p] = b /\ want[p] \in Changing /\ blockno[b] = want[p]
      /\ data' = [data EXCEPT ![b] = v]
      /\ UNCHANGED <<blockno, bvalid, buflock, at, want, mine>>
  BY Holder DEF Caching!Bwrite, Caching!Bpin, Caching!Holding
<1>3. data' \in [Caching!Bufs -> Vals \cup {Absent}] /\ want[p] \in Buffered
  BY <1>1, <1>2, CacheParameters DEF BufType
<1>4. \A c \in Caching!Bufs : Users(c)' = Users(c)
  BY <1>2 DEF Users
<1>5. ASSUME NEW c \in Caching!Bufs, c # b, bvalid[c]
      PROVE  data'[c] = data[c] /\ blockno[c] # want[p]
  BY <1>1, <1>2, <1>5, CacheParameters DEF BufType, CacheInv, TableInv, ContentsInv
<1>6. data'[b] = v
  BY <1>1, <1>2 DEF BufType
<1>7. CASE Caching!Bwrite(p, b, v)
  <2>1. /\ disk' = [disk EXCEPT ![want[p]] = v] /\ UNCHANGED <<refcnt, pinned>>
    BY <1>2, <1>7 DEF Caching!Bwrite
  <2>2. BufType'
    BY <1>1, <1>2, <1>3, <2>1 DEF BufType
  <2>3. TableInv'
    BY <1>2, <1>4, <2>1 DEF CacheInv, TableInv
  <2>4. ContentsInv'
    <3>1. ASSUME NEW c \in Caching!Bufs, bvalid[c]
          PROVE  /\ blockno[c] \in Buffered /\ data'[c] \in Vals
                 /\ blockno[c] \notin pinned => data'[c] = disk'[blockno[c]]
      <4>1. CASE c = b
        BY <1>1, <1>2, <1>3, <1>6, <2>1, <4>1 DEF BufType
      <4>2. CASE c # b
        <5>1. data'[c] = data[c] /\ blockno[c] # want[p]
          BY <1>5, <3>1, <4>2
        <5>2. blockno[c] \in Buffered /\ disk'[blockno[c]] = disk[blockno[c]]
          BY <1>1, <2>1, <3>1, <5>1 DEF BufType, CacheInv, ContentsInv
        <5> QED BY <3>1, <5>1, <5>2 DEF CacheInv, ContentsInv
      <4> QED BY <4>1, <4>2
    <3> QED BY <1>2, <2>1, <3>1 DEF CacheInv, ContentsInv
  <2> QED BY <2>2, <2>3, <2>4 DEF CacheInv
<1>8. CASE Caching!Bpin(p, b, v)
  <2>1. /\ refcnt' = [refcnt EXCEPT ![b] = IF want[p] \in pinned THEN @ ELSE @ + 1]
        /\ pinned' = pinned \cup {want[p]} /\ UNCHANGED disk
    BY <1>8 DEF Caching!Bpin
  <2>2. BufType'
    <3>1. refcnt' \in [Caching!Bufs -> Nat] /\ pinned' \in SUBSET Changing
      BY <1>1, <1>2, <2>1 DEF BufType
    <3> QED BY <1>1, <1>2, <1>3, <2>1, <3>1 DEF BufType
  <2>3. ASSUME NEW c \in Caching!Bufs
        PROVE  refcnt'[c] = Cardinality(Users(c)) + (IF blockno[c] \in pinned' THEN 1 ELSE 0)
    <3>1. /\ refcnt[c] = Cardinality(Users(c)) + (IF blockno[c] \in pinned THEN 1 ELSE 0)
          /\ Cardinality(Users(c)) \in Nat
      BY UsersCounted DEF CacheInv, TableInv
    <3>2. CASE c = b
      <4>1. refcnt'[c] = IF want[p] \in pinned THEN refcnt[c] ELSE refcnt[c] + 1
        BY <1>1, <2>1, <3>2 DEF BufType
      <4>2. blockno[c] = want[p] /\ blockno[c] \in pinned'
        BY <1>2, <2>1, <3>2
      <4> QED BY <3>1, <4>1, <4>2
    <3>3. CASE c # b
      <4>1. refcnt'[c] = refcnt[c]
        BY <1>1, <2>1, <3>3 DEF BufType
      <4>2. blockno[c] # want[p]
        BY <1>2, <1>3, <3>3, CacheParameters DEF CacheInv, TableInv
      <4> QED BY <2>1, <3>1, <4>1, <4>2
    <3> QED BY <3>2, <3>3
  <2>4. TableInv'
    <3>1. \A n \in pinned' : \E c \in Caching!Bufs : blockno[c] = n
      BY <1>2, <2>1 DEF CacheInv, TableInv
    <3> QED BY <1>2, <1>4, <2>3, <3>1 DEF CacheInv, TableInv
  <2>5. ContentsInv'
    <3>1. ASSUME NEW c \in Caching!Bufs, bvalid[c]
          PROVE  /\ blockno[c] \in Buffered /\ data'[c] \in Vals
                 /\ blockno[c] \notin pinned' => data'[c] = disk[blockno[c]]
      <4>1. CASE c = b
        BY <1>2, <1>3, <1>6, <2>1, <4>1
      <4>2. CASE c # b
        BY <1>5, <2>1, <3>1, <4>2 DEF CacheInv, ContentsInv
      <4> QED BY <4>1, <4>2
    <3> QED BY <1>2, <2>1, <3>1 DEF CacheInv, ContentsInv
  <2> QED BY <2>2, <2>4, <2>5 DEF CacheInv
<1> QED BY <1>7, <1>8

\* install_trans() writes the block and lets go of it.
LEMMA CacheBunpin ==
  ASSUME CacheInv, NEW p \in Procs, NEW b \in Caching!Bufs, Caching!Bunpin(p, b)
  PROVE  CacheInv'
<1>1. BufType
  BY DEF CacheInv
<1>2. /\ at[p] = "held" /\ mine[p] = b /\ blockno[b] = want[p] /\ want[p] \in Buffered
      /\ bvalid[b] /\ want[p] \in pinned
      /\ disk' = [disk EXCEPT ![want[p]] = data[b]]
      /\ refcnt' = [refcnt EXCEPT ![b] = @ - 1] /\ pinned' = pinned \ {want[p]}
      /\ UNCHANGED <<blockno, bvalid, data, buflock, at, want, mine>>
  BY Holder DEF Caching!Bunpin, Caching!Holding
<1>3. /\ data[b] \in Vals /\ refcnt[b] > 0
  BY <1>2, UsersCounted DEF CacheInv, ContentsInv
<1>4. BufType'
  <2>1. refcnt' \in [Caching!Bufs -> Nat] /\ pinned' \in SUBSET Changing
    BY <1>1, <1>2, <1>3 DEF BufType
  <2>2. disk' \in [Buffered -> Vals]
    BY <1>1, <1>2, <1>3 DEF BufType
  <2> QED BY <1>1, <1>2, <2>1, <2>2 DEF BufType
<1>5. \A c \in Caching!Bufs : Users(c)' = Users(c)
  BY <1>2 DEF Users
<1>6. \A c \in Caching!Bufs : c # b => blockno[c] # want[p]
  BY <1>2, CacheParameters DEF CacheInv, TableInv
<1>7. ASSUME NEW c \in Caching!Bufs
      PROVE  refcnt'[c] = Cardinality(Users(c)) + (IF blockno[c] \in pinned' THEN 1 ELSE 0)
  <2>1. /\ refcnt[c] = Cardinality(Users(c)) + (IF blockno[c] \in pinned THEN 1 ELSE 0)
        /\ Cardinality(Users(c)) \in Nat
    BY UsersCounted DEF CacheInv, TableInv
  <2>2. CASE c = b
    <3>1. refcnt'[c] = refcnt[c] - 1
      BY <1>1, <1>2, <2>2 DEF BufType
    <3>2. blockno[c] \in pinned /\ blockno[c] \notin pinned'
      BY <1>2, <2>2
    <3> QED BY <2>1, <3>1, <3>2
  <2>3. CASE c # b
    <3>1. refcnt'[c] = refcnt[c]
      BY <1>1, <1>2, <2>3 DEF BufType
    <3> QED BY <1>2, <1>6, <2>1, <2>3, <3>1
  <2> QED BY <2>2, <2>3
<1>8. TableInv'
  BY <1>2, <1>5, <1>7 DEF CacheInv, TableInv
<1>9. ContentsInv'
  <2>1. ASSUME NEW c \in Caching!Bufs, bvalid[c]
        PROVE  /\ blockno[c] \in Buffered /\ data[c] \in Vals
               /\ blockno[c] \notin pinned' => data[c] = disk'[blockno[c]]
    <3>1. blockno[c] \in Buffered /\ data[c] \in Vals
      BY <2>1 DEF CacheInv, ContentsInv
    <3>2. CASE c = b
      BY <1>1, <1>2, <3>1, <3>2 DEF BufType
    <3>3. CASE c # b
      <4>1. blockno[c] # want[p] /\ disk'[blockno[c]] = disk[blockno[c]]
        BY <1>1, <1>2, <1>6, <3>1, <3>3 DEF BufType
      <4> QED BY <1>2, <2>1, <3>1, <4>1 DEF CacheInv, ContentsInv
    <3> QED BY <3>2, <3>3
  <2> QED BY <1>2, <2>1 DEF CacheInv, ContentsInv
<1> QED BY <1>4, <1>8, <1>9 DEF CacheInv

LEMMA CacheReleaseSleep ==
  ASSUME CacheInv, NEW p \in Procs, Caching!ReleaseSleep(p)
  PROVE  CacheInv'
<1>1. BufType
  BY DEF CacheInv
<1>2. /\ at[p] = "held" /\ at' = [at EXCEPT ![p] = "brelse"]
      /\ buflock' = [buflock EXCEPT ![mine[p]] = Nobody]
      /\ UNCHANGED <<disk, blockno, bvalid, refcnt, data, pinned, want, mine>>
  BY DEF Caching!ReleaseSleep, Caching!Goto
<1>3. mine[p] \in Caching!Bufs /\ buflock[mine[p]] = p
  BY <1>2, Holder
<1>4. BufType'
  <2>1. /\ at' \in [Procs -> {"idle", "lock", "held", "brelse"}]
        /\ buflock' \in [Caching!Bufs -> Procs \cup {Nobody}]
    BY <1>1, <1>2 DEF BufType
  <2> QED BY <1>1, <1>2, <2>1 DEF BufType
<1>5. \A q \in Procs : at'[q] = IF q = p THEN "brelse" ELSE at[q]
  BY <1>1, <1>2 DEF BufType
<1>6. TableInv'
  <2>1. \A c \in Caching!Bufs : Users(c)' = Users(c)
    BY <1>2, UsersSame
  <2>2. \A q \in Procs : at'[q] # "idle" => at[q] # "idle"
    BY <1>2, <1>5
  <2> QED BY <1>2, <2>1, <2>2 DEF CacheInv, TableInv
<1>7. ContentsInv'
  <2>1. ASSUME NEW q \in Procs, at'[q] = "held"
        PROVE  buflock'[mine[q]] = q /\ bvalid[mine[q]]
    <3>1. /\ q # p /\ mine[q] \in Caching!Bufs /\ buflock[mine[q]] = q /\ bvalid[mine[q]]
      BY <1>5, <2>1, Holder
    <3>2. mine[q] # mine[p]
      BY <1>3, <3>1
    <3> QED BY <1>1, <1>2, <3>1, <3>2 DEF BufType
  <2> QED BY <1>2, <2>1 DEF CacheInv, ContentsInv
<1> QED BY <1>4, <1>6, <1>7 DEF CacheInv

LEMMA CacheBrelse ==
  ASSUME CacheInv, NEW p \in Procs, Caching!Brelse(p)
  PROVE  CacheInv'
<1>1. BufType
  BY DEF CacheInv
<1>2. /\ at[p] = "brelse" /\ at' = [at EXCEPT ![p] = "idle"]
      /\ refcnt' = [refcnt EXCEPT ![mine[p]] = @ - 1]
      /\ want' = [want EXCEPT ![p] = Absent] /\ mine' = [mine EXCEPT ![p] = 1]
      /\ UNCHANGED <<disk, blockno, bvalid, data, buflock, pinned>>
  BY DEF Caching!Brelse, Caching!Goto
<1>3. PICK b \in Caching!Bufs : b = mine[p] /\ refcnt[b] > 0 /\ p \in Users(b)
  BY <1>2, Holder, UsersCounted
<1>4. BufType'
  <2>1. /\ at' \in [Procs -> {"idle", "lock", "held", "brelse"}]
        /\ want' \in [Procs -> Buffered \cup {Absent}] /\ mine' \in [Procs -> Nat]
    BY <1>1, <1>2 DEF BufType
  <2>2. refcnt' \in [Caching!Bufs -> Nat]
    BY <1>1, <1>2, <1>3 DEF BufType
  <2> QED BY <1>1, <1>2, <2>1, <2>2 DEF BufType
<1>5. ASSUME NEW q \in Procs
      PROVE  IF q = p THEN at'[q] = "idle"
             ELSE at'[q] = at[q] /\ want'[q] = want[q] /\ mine'[q] = mine[q]
  BY <1>1, <1>2 DEF BufType
<1>6. /\ Users(b)' = Users(b) \ {p}
      /\ \A c \in Caching!Bufs : c # b => Users(c)' = Users(c)
  <2>1. \A c : Users(c)' = Users(c) \ {p}
    BY <1>5 DEF Users
  <2>2. \A c : p \in Users(c) => c = b
    BY <1>3 DEF Users
  <2> QED BY <2>1, <2>2
<1>7. /\ IsFiniteSet(Users(b)') /\ Cardinality(Users(b)') = Cardinality(Users(b)) - 1
      /\ Cardinality(Users(b)) \in Nat
  <2>1. IsFiniteSet(Users(b)) /\ Cardinality(Users(b)) \in Nat
    BY <1>3, UsersCounted DEF CacheInv, TableInv
  <2> QED BY <1>3, <1>6, <2>1, FS_RemoveElement
<1>8. ASSUME NEW c \in Caching!Bufs
      PROVE  /\ IsFiniteSet(Users(c)')
             /\ refcnt'[c] = Cardinality(Users(c)') + (IF blockno[c] \in pinned THEN 1 ELSE 0)
  <2>1. refcnt[c] = Cardinality(Users(c)) + (IF blockno[c] \in pinned THEN 1 ELSE 0)
    BY DEF CacheInv, TableInv
  <2>2. CASE c = b
    <3>1. refcnt'[c] = refcnt[c] - 1
      BY <1>1, <1>2, <1>3, <2>2 DEF BufType
    <3> QED BY <1>7, <2>1, <2>2, <3>1
  <2>3. CASE c # b
    <3>1. refcnt'[c] = refcnt[c]
      BY <1>1, <1>2, <1>3, <2>3 DEF BufType
    <3> QED BY <1>6, <2>1, <2>3, <3>1 DEF CacheInv, TableInv
  <2> QED BY <2>2, <2>3
<1>9. TableInv'
  <2>1. \A q \in Procs : at'[q] # "idle" =>
          mine'[q] \in Caching!Bufs /\ want'[q] \in Buffered /\ blockno[mine'[q]] = want'[q]
    BY <1>5, Holder
  <2> QED BY <1>2, <1>8, <2>1 DEF CacheInv, TableInv
<1>10. ContentsInv'
  <2>1. \A q \in Procs : at'[q] = "held" => buflock[mine'[q]] = q /\ bvalid[mine'[q]]
    BY <1>5, Holder
  <2> QED BY <1>2, <2>1 DEF CacheInv, ContentsInv
<1> QED BY <1>4, <1>9, <1>10 DEF CacheInv


LEMMA CacheInit == Init => CacheInv
<1> SUFFICES ASSUME Init PROVE CacheInv
  OBVIOUS
<1>1. Caching!Init
  BY DEF Init
<1>2. /\ blockno = [b \in Caching!Bufs |-> Absent] /\ bvalid = [b \in Caching!Bufs |-> FALSE]
      /\ refcnt = [b \in Caching!Bufs |-> 0] /\ pinned = {}
      /\ \A p \in Procs : at[p] = "idle"
  BY <1>1 DEF Caching!Init
<1>3. disk \in [Buffered -> Vals]
  <2>1. (CHOOSE v \in Vals : TRUE) \in Vals
    BY CacheParameters
  <2> QED BY <1>1, <2>1 DEF Caching!Init
<1>4. BufType
  BY <1>1, <1>2, <1>3 DEF Caching!Init, BufType
<1>5. \A b : Users(b) = {}
  BY <1>2 DEF Users
<1>6. TableInv
  BY <1>2, <1>5, FS_EmptySet DEF TableInv
<1>7. ContentsInv
  BY <1>2 DEF ContentsInv
<1> QED BY <1>4, <1>6, <1>7 DEF CacheInv

\* bget() in one of its two ways.
LEMMA BgetHow ==
  ASSUME CacheInv, NEW p \in Procs, NEW n \in Buffered, Caching!Bget(p, n)
  PROVE  /\ at[p] = "idle" /\ at' = [at EXCEPT ![p] = "lock"]
         /\ want' = [want EXCEPT ![p] = n]
         /\ UNCHANGED <<disk, buflock, pinned>>
         /\ \E b \in Caching!Bufs :
              /\ mine' = [mine EXCEPT ![p] = b]
              /\ \/ blockno[b] = n /\ Caching!BgetHit(b)
                 \/ (\A c \in Caching!Bufs : blockno[c] # n) /\ refcnt[b] = 0 /\ Caching!BgetMiss(b, n)
<1>1. PICK b \in Caching!Bufs :
        /\ IF Caching!Cached(n) # {} THEN b \in Caching!Cached(n) /\ Caching!BgetHit(b)
                                     ELSE Caching!Recycle(b) /\ Caching!BgetMiss(b, n)
        /\ mine' = [mine EXCEPT ![p] = b]
  BY DEF Caching!Bget
<1>2. \/ blockno[b] = n /\ Caching!BgetHit(b)
      \/ (\A c \in Caching!Bufs : blockno[c] # n) /\ refcnt[b] = 0 /\ Caching!BgetMiss(b, n)
  BY <1>1 DEF Caching!Cached, Caching!Recycle
<1>3. UNCHANGED buflock
  BY <1>2 DEF Caching!BgetHit, Caching!BgetMiss
<1> QED BY <1>1, <1>2, <1>3 DEF Caching!Bget, Caching!Goto

\* A panic leaves the buffers as they are.
LEMMA Panics ==
  ASSUME Caching!Panic \/ (\E p \in Procs, n \in Buffered : Caching!NoBuffers(p, n))
  PROVE  UNCHANGED <<disk, blockno, bvalid, refcnt, data, buflock, pinned, at, want, mine>>
BY DEF Caching!Panic, Caching!NoBuffers, Caching!vars, Caching!bufVars

LEMMA CacheSame ==
  CacheInv /\ UNCHANGED <<disk, blockno, bvalid, refcnt, data, buflock, pinned, at, want, mine>>
    => CacheInv'
BY DEF CacheInv, BufType, TableInv, ContentsInv, Users, Caching!Bufs

LEMMA CacheNext == CacheInv /\ Caching!Next => CacheInv'
<1> SUFFICES ASSUME CacheInv, Caching!Next PROVE CacheInv'
  OBVIOUS
<1>1. ASSUME NEW p \in Procs, NEW n \in Buffered, Caching!Bget(p, n) PROVE CacheInv'
  BY <1>1, BgetHow, CacheBget
<1>2. CASE Caching!Panic \/ \E p \in Procs, n \in Buffered : Caching!NoBuffers(p, n)
  BY <1>2, Panics, CacheSame
<1> QED BY <1>1, <1>2, CacheRead, CacheChange, CacheBunpin, CacheReleaseSleep, CacheBrelse
        DEF Caching!Next, Caching!Process

LEMMA CacheSteps == [Next]_vars => Caching!Next \/ UNCHANGED bioVars
BY DEF Next, RunLog, RunCache, RunInodes, RunDisk, OnlyLog, OnlyDisk, OnlyInodes, vars

LEMMA CacheStep == CacheInv /\ [Next]_vars => CacheInv'
BY CacheNext, CacheSame, CacheSteps DEF bioVars

----------------------------------------------------------------------------
(* The buffer cache as a store of blocks *)

\* What the store has, in terms of the cache.
Contents == [n \in Buffered |-> Caching!Newest(n)]
Holders == [n \in Buffered |-> {p \in Procs : Caching!Holds(p, n)}]
Seen == [p \in Procs |-> IF \E n \in Buffered : Caching!Holds(p, n)
                         THEN data[mine[p]] ELSE Absent]

\* Where the newest contents of a block are.
LEMMA NewestIs ==
  CacheInv =>
    \A n \in Buffered :
      /\ \A b \in Caching!Bufs : blockno[b] = n /\ bvalid[b] => Caching!Newest(n) = data[b]
      /\ (\A b \in Caching!Bufs : blockno[b] = n => ~ bvalid[b]) => Caching!Newest(n) = disk[n]
<1> SUFFICES ASSUME CacheInv, NEW n \in Buffered
             PROVE  /\ \A b \in Caching!Bufs :
                         blockno[b] = n /\ bvalid[b] => Caching!Newest(n) = data[b]
                    /\ (\A b \in Caching!Bufs : blockno[b] = n => ~ bvalid[b])
                         => Caching!Newest(n) = disk[n]
  OBVIOUS
<1> DEFINE bs == {b \in Caching!Cached(n) : bvalid[b]}
<1>1. Caching!Newest(n) = IF bs = {} THEN disk[n] ELSE data[CHOOSE b \in bs : TRUE]
  BY DEF Caching!Newest
<1>2. \A b : b \in bs <=> b \in Caching!Bufs /\ blockno[b] = n /\ bvalid[b]
  BY DEF Caching!Cached
<1> HIDE DEF bs
<1>3. \A b, c \in bs : b = c
  BY <1>2, CacheParameters DEF CacheInv, TableInv
<1>4. ASSUME NEW b \in bs PROVE data[CHOOSE c \in bs : TRUE] = data[b]
  <2>1. (CHOOSE c \in bs : TRUE) \in bs
    OBVIOUS
  <2> QED BY <1>3, <2>1
<1> QED BY <1>1, <1>2, <1>4

\* Block n in buffer b is unpinned: on the disk there is the same.
LEMMA NewestClean ==
  CacheInv =>
    \A b \in Caching!Bufs :
      blockno[b] \in Buffered /\ blockno[b] \notin pinned
        => Caching!Newest(blockno[b]) = disk[blockno[b]]
<1> SUFFICES ASSUME CacheInv, NEW b \in Caching!Bufs,
                    blockno[b] \in Buffered, blockno[b] \notin pinned
             PROVE  Caching!Newest(blockno[b]) = disk[blockno[b]]
  OBVIOUS
<1>1. CASE bvalid[b]
  BY <1>1, NewestIs DEF CacheInv, ContentsInv
<1>2. CASE ~ bvalid[b]
  BY <1>2, NewestIs, CacheParameters DEF CacheInv, TableInv
<1> QED BY <1>1, <1>2

\* Who holds what does not change with a step that leaves at and want alone where a
\* process holds a block, and nobody new comes to hold one.
LEMMA HoldsSame ==
  ASSUME CacheInv,
         \A p \in Procs : at[p] = "held" <=> at'[p] = "held",
         \A p \in Procs : at[p] = "held" => /\ want'[p] = want[p] /\ mine'[p] = mine[p]
                                            /\ data'[mine[p]] = data[mine[p]]
  PROVE  Holders' = Holders /\ Seen' = Seen
<1>1. \A p \in Procs : \A n \in Buffered : Caching!Holds(p, n)' <=> Caching!Holds(p, n)
  BY DEF Caching!Holds
<1>2. Holders' = Holders
  BY <1>1 DEF Holders
<1>3. ASSUME NEW p \in Procs
      PROVE  (IF \E n \in Buffered : Caching!Holds(p, n)' THEN data'[mine'[p]] ELSE Absent)
               = (IF \E n \in Buffered : Caching!Holds(p, n) THEN data[mine[p]] ELSE Absent)
  BY <1>1 DEF Caching!Holds
<1> QED BY <1>2, <1>3 DEF Seen

LEMMA StoreVars ==
  /\ Caching!Store!vars = <<Contents, Holders, Seen>>
  /\ UNCHANGED <<Contents, Holders, Seen>> => UNCHANGED Caching!Store!vars
BY DEF Caching!Store!vars, Contents, Holders, Seen

LEMMA StoreInit == Init => Caching!Store!Init
<1> SUFFICES ASSUME Init, CacheInv PROVE Caching!Store!Init
  BY CacheInit
<1>1. /\ \A p \in Procs : at[p] = "idle"
      /\ bvalid = [b \in Caching!Bufs |-> FALSE] /\ disk \in [Buffered -> Vals]
  BY DEF Init, Caching!Init, CacheInv, BufType
<1>2. \A n \in Buffered : Caching!Newest(n) = disk[n]
  BY <1>1, NewestIs
<1>3. Contents \in [Buffered -> Vals]
  BY <1>1, <1>2 DEF Contents
<1>4. \A p \in Procs : \A n \in Buffered : ~ Caching!Holds(p, n)
  BY <1>1 DEF Caching!Holds
<1>5. Holders = [n \in Buffered |-> {}] /\ Seen = [p \in Procs |-> Absent]
  BY <1>4 DEF Holders, Seen
<1> QED BY <1>3, <1>5 DEF Caching!Store!Init, Contents, Holders, Seen


LEMMA NewestNext ==
  ASSUME CacheInv'
  PROVE  \A n \in Buffered :
           /\ \A b \in Caching!Bufs :
                blockno'[b] = n /\ bvalid'[b] => Caching!Newest(n)' = data'[b]
           /\ (\A b \in Caching!Bufs : blockno'[b] = n => ~ bvalid'[b])
                => Caching!Newest(n)' = disk'[n]
<1>1. (\A n \in Buffered :
         /\ \A b \in Caching!Bufs : blockno[b] = n /\ bvalid[b] => Caching!Newest(n) = data[b]
         /\ (\A b \in Caching!Bufs : blockno[b] = n => ~ bvalid[b])
              => Caching!Newest(n) = disk[n])'
  BY NewestIs, PTL
<1> QED BY <1>1

LEMMA NewestSame ==
  ASSUME CacheInv, CacheInv', NEW n \in Buffered,
         \A c \in Caching!Bufs :
           blockno'[c] = n /\ bvalid'[c] <=> blockno[c] = n /\ bvalid[c],
         \A c \in Caching!Bufs : blockno[c] = n /\ bvalid[c] => data'[c] = data[c],
         (\A c \in Caching!Bufs : blockno[c] = n => ~ bvalid[c]) => disk'[n] = disk[n]
  PROVE  Caching!Newest(n)' = Caching!Newest(n)
<1>1. CASE \E c \in Caching!Bufs : blockno[c] = n /\ bvalid[c]
  BY <1>1, NewestIs, NewestNext
<1>2. CASE \A c \in Caching!Bufs : blockno[c] = n => ~ bvalid[c]
  BY <1>2, NewestIs, NewestNext
<1> QED BY <1>1, <1>2

\* Recycling a buffer loses nothing: what was in it is on the disk.
LEMMA StoreBget ==
  ASSUME CacheInv, CacheInv', NEW p \in Procs, NEW n \in Buffered, Caching!Bget(p, n)
  PROVE  UNCHANGED <<Contents, Holders, Seen>>
<1>1. BufType
  BY DEF CacheInv
<1>2. /\ at[p] = "idle" /\ at' = [at EXCEPT ![p] = "lock"]
      /\ want' = [want EXCEPT ![p] = n] /\ UNCHANGED <<disk, buflock, pinned>>
  BY BgetHow
<1>3. PICK b \in Caching!Bufs :
        /\ mine' = [mine EXCEPT ![p] = b]
        /\ \/ blockno[b] = n /\ Caching!BgetHit(b)
           \/ (\A c \in Caching!Bufs : blockno[c] # n) /\ refcnt[b] = 0 /\ Caching!BgetMiss(b, n)
  BY BgetHow
<1>4. ASSUME NEW q \in Procs, at[q] = "held"
      PROVE  /\ want'[q] = want[q] /\ mine'[q] = mine[q] /\ data'[mine[q]] = data[mine[q]]
  <2>1. q # p
    BY <1>2, <1>4
  <2>2. mine[q] \in Caching!Bufs /\ refcnt[mine[q]] > 0
    BY <1>4, Holder, UsersCounted
  <2>3. data'[mine[q]] = data[mine[q]]
    BY <1>1, <1>3, <2>2 DEF BufType, Caching!BgetHit, Caching!BgetMiss
  <2> QED BY <1>1, <1>2, <1>3, <2>1, <2>3 DEF BufType
<1>5. \A q \in Procs : at[q] = "held" <=> at'[q] = "held"
  BY <1>1, <1>2 DEF BufType
<1>6. Holders' = Holders /\ Seen' = Seen
  BY <1>4, <1>5, HoldsSame
<1>7. CASE blockno[b] = n /\ Caching!BgetHit(b)
  <2>1. UNCHANGED <<blockno, bvalid, data, disk>>
    BY <1>2, <1>7 DEF Caching!BgetHit
  <2>2. \A m \in Buffered : Caching!Newest(m)' = Caching!Newest(m)
    BY <2>1, NewestSame
  <2> QED BY <1>6, <2>2 DEF Contents
<1>8. CASE (\A c \in Caching!Bufs : blockno[c] # n) /\ refcnt[b] = 0 /\ Caching!BgetMiss(b, n)
  <2>1. \A c \in Caching!Bufs :
          IF c = b THEN blockno'[c] = n /\ ~ bvalid'[c]
          ELSE blockno'[c] = blockno[c] /\ bvalid'[c] = bvalid[c] /\ data'[c] = data[c]
    BY <1>1, <1>8 DEF Caching!BgetMiss, BufType
  <2>2. ASSUME NEW m \in Buffered PROVE Caching!Newest(m)' = Caching!Newest(m)
    <3>1. CASE blockno[b] = m
      <4>1. Caching!Newest(m) = disk[m]
        BY <1>8, <3>1, UsersCounted, NewestClean
      <4>2. \A c \in Caching!Bufs : c # b => blockno[c] # m
        BY <3>1, CacheParameters DEF CacheInv, TableInv
      <4>3. Caching!Newest(m)' = disk'[m]
        BY <2>1, <4>2, NewestNext
      <4> QED BY <1>2, <4>1, <4>3
    <3>2. CASE blockno[b] # m
      <4>1. \A c \in Caching!Bufs :
              blockno'[c] = m /\ bvalid'[c] <=> blockno[c] = m /\ bvalid[c]
        BY <2>1, <3>2
      <4>2. \A c \in Caching!Bufs : blockno[c] = m /\ bvalid[c] => data'[c] = data[c]
        BY <2>1, <3>2
      <4> QED BY <1>2, <4>1, <4>2, NewestSame
    <3> QED BY <3>1, <3>2
  <2> QED BY <1>6, <2>2 DEF Contents
<1> QED BY <1>3, <1>7, <1>8

LEMMA StoreRead ==
  ASSUME CacheInv, CacheInv', NEW p \in Procs, Caching!BreadReturn(p)
  PROVE  \E n \in Buffered : Caching!Store!Get(p, n)
<1>1. BufType
  BY DEF CacheInv
<1>2. PICK b \in Caching!Bufs : b = mine[p]
  BY Holder DEF Caching!BreadReturn, Caching!Goto
<1>3. /\ at[p] = "lock" /\ at' = [at EXCEPT ![p] = "held"] /\ buflock[b] = Nobody
      /\ data' = [data EXCEPT ![b] = IF bvalid[b] THEN @ ELSE disk[blockno[b]]]
      /\ bvalid' = [bvalid EXCEPT ![b] = TRUE]
      /\ UNCHANGED <<disk, blockno, want, mine>>
  BY <1>2 DEF Caching!BreadReturn, Caching!Goto
<1>4. PICK n \in Buffered : n = want[p] /\ n = blockno[b]
  BY <1>2, <1>3, Holder
<1>5. \A c \in Caching!Bufs :
        /\ bvalid'[c] = (bvalid[c] \/ c = b)
        /\ data'[c] = IF c = b /\ ~ bvalid[b] THEN disk[n] ELSE data[c]
  BY <1>1, <1>3, <1>4 DEF BufType
<1>6. \A c \in Caching!Bufs : blockno[c] = n => c = b
  BY <1>4, CacheParameters DEF CacheInv, TableInv
<1>7. ASSUME NEW m \in Buffered PROVE Caching!Newest(m)' = Caching!Newest(m)
  <2>1. CASE m = n /\ ~ bvalid[b]
    <3>1. Caching!Newest(n) = disk[n]
      BY <1>6, <2>1, NewestIs
    <3>2. Caching!Newest(n)' = disk[n]
      <4>1. blockno'[b] = n /\ bvalid'[b] /\ data'[b] = disk[n]
        BY <1>3, <1>4, <1>5, <2>1
      <4> QED BY <4>1, NewestNext
    <3> QED BY <2>1, <3>1, <3>2
  <2>2. CASE m # n \/ bvalid[b]
    <3>1. \A c \in Caching!Bufs :
            blockno'[c] = m /\ bvalid'[c] <=> blockno[c] = m /\ bvalid[c]
      BY <1>3, <1>4, <1>5, <2>2
    <3>2. \A c \in Caching!Bufs : blockno[c] = m /\ bvalid[c] => data'[c] = data[c]
      BY <1>5
    <3> QED BY <1>3, <3>1, <3>2, NewestSame
  <2> QED BY <2>1, <2>2
<1>8. data'[b] = Caching!Newest(n)
  BY <1>3, <1>4, <1>5, <1>7, NewestNext
<1>9. \A q \in Procs : at[q] = "held" => mine[q] # b /\ want[q] # n
  BY <1>3, <1>6, Holder, CacheParameters
<1>10. \A q \in Procs : at'[q] = IF q = p THEN "held" ELSE at[q]
  BY <1>1, <1>3 DEF BufType
<1>11. \A q \in Procs : \A m \in Buffered :
         Caching!Holds(q, m)' <=> (q = p /\ m = n) \/ Caching!Holds(q, m)
  BY <1>3, <1>4, <1>10 DEF Caching!Holds
<1>12. Holders[n] = {} /\ Holders' = [Holders EXCEPT ![n] = {p}]
  <2>1. \A q \in Procs : ~ Caching!Holds(q, n)
    BY <1>9 DEF Caching!Holds
  <2>2. \A m \in Buffered : {q \in Procs : Caching!Holds(q, m)'}
          = IF m = n THEN {p} ELSE {q \in Procs : Caching!Holds(q, m)}
    BY <1>11, <2>1
  <2> QED BY <2>1, <2>2 DEF Holders
<1>13. Seen' = [Seen EXCEPT ![p] = Contents[n]]
  <2>1. ASSUME NEW q \in Procs
        PROVE  (IF \E m \in Buffered : Caching!Holds(q, m)' THEN data'[mine'[q]] ELSE Absent)
                 = IF q = p THEN Contents[n] ELSE Seen[q]
    <3>1. CASE q = p
      BY <1>2, <1>3, <1>8, <1>11, <3>1 DEF Contents
    <3>2. CASE q # p
      <4>1. \A m \in Buffered : Caching!Holds(q, m)' <=> Caching!Holds(q, m)
        BY <1>11, <3>2
      <4>2. ASSUME NEW m \in Buffered, Caching!Holds(q, m) PROVE data'[mine[q]] = data[mine[q]]
        <5>1. at[q] = "held"
          BY <4>2 DEF Caching!Holds
        <5> QED BY <1>5, <1>9, <5>1, Holder
      <4> QED BY <1>3, <3>2, <4>1, <4>2 DEF Seen
    <3> QED BY <3>1, <3>2
  <2> QED BY <2>1 DEF Seen
<1>14. Contents' = Contents
  BY <1>7 DEF Contents
<1> QED BY <1>12, <1>13, <1>14 DEF Caching!Store!Get, Contents, Holders, Seen

\* The holder's contents are the block's.
LEMMA StoreChange ==
  ASSUME CacheInv, CacheInv', NEW p \in Procs, NEW b \in Caching!Bufs, NEW v \in Vals,
         Caching!Bwrite(p, b, v) \/ Caching!Bpin(p, b, v)
  PROVE  \E n \in Buffered : Caching!Store!Change(p, n, v)
<1>1. BufType
  BY DEF CacheInv
<1>2. /\ at[p] = "held" /\ mine[p] = b /\ bvalid[b]
      /\ data' = [data EXCEPT ![b] = v]
      /\ UNCHANGED <<blockno, bvalid, buflock, at, want, mine>>
  BY Holder DEF Caching!Bwrite, Caching!Bpin, Caching!Holding
<1>3. PICK n \in Buffered : n = want[p] /\ n = blockno[b]
  BY <1>2, Holder
<1>4. \A m \in Buffered : m # n => disk'[m] = disk[m]
  BY <1>1, <1>2, <1>3 DEF Caching!Bwrite, Caching!Bpin, BufType
<1>5. \A c \in Caching!Bufs : data'[c] = IF c = b THEN v ELSE data[c]
  BY <1>1, <1>2 DEF BufType
<1>6. Caching!Newest(n)' = v
  BY <1>2, <1>3, <1>5, NewestNext
<1>7. ASSUME NEW m \in Buffered, m # n PROVE Caching!Newest(m)' = Caching!Newest(m)
  BY <1>2, <1>3, <1>4, <1>5, <1>7, NewestSame
<1>8. Contents' = [Contents EXCEPT ![n] = v]
  <2>1. \A m \in Buffered : Caching!Newest(m)' = IF m = n THEN v ELSE Caching!Newest(m)
    BY <1>6, <1>7
  <2> QED BY <2>1 DEF Contents
<1>9. \A q \in Procs : \A m \in Buffered : Caching!Holds(q, m)' <=> Caching!Holds(q, m)
  BY <1>2 DEF Caching!Holds
<1>10. \A q \in Procs : at[q] = "held" /\ q # p => mine[q] # b /\ want[q] # n
  <2>1. ASSUME NEW q \in Procs, at[q] = "held", q # p PROVE mine[q] # b /\ want[q] # n
    <3>1. buflock[mine[q]] = q /\ buflock[b] = p /\ mine[q] \in Caching!Bufs
      BY <1>2, <2>1, Holder
    <3>2. mine[q] # b
      BY <2>1, <3>1
    <3> QED BY <1>3, <2>1, <3>1, <3>2, Holder, CacheParameters DEF CacheInv, TableInv
  <2> QED BY <2>1
<1>11. Holders' = Holders /\ Holders[n] = {p}
  <2>1. \A q \in Procs : Caching!Holds(q, n) <=> q = p
    BY <1>2, <1>3, <1>10 DEF Caching!Holds
  <2> QED BY <1>9, <2>1 DEF Holders
<1>12. Seen' = [Seen EXCEPT ![p] = v]
  <2>1. ASSUME NEW q \in Procs
        PROVE  (IF \E m \in Buffered : Caching!Holds(q, m)' THEN data'[mine'[q]] ELSE Absent)
                 = IF q = p THEN v ELSE Seen[q]
    <3>1. CASE q = p
      <4>1. Caching!Holds(q, n)'
        BY <1>2, <1>3, <3>1 DEF Caching!Holds
      <4> QED BY <1>2, <1>5, <3>1, <4>1
    <3>2. CASE q # p
      <4>1. ASSUME NEW m \in Buffered, Caching!Holds(q, m) PROVE data'[mine[q]] = data[mine[q]]
        <5>1. at[q] = "held"
          BY <4>1 DEF Caching!Holds
        <5> QED BY <1>5, <1>10, <3>2, <5>1, Holder
      <4> QED BY <1>2, <1>9, <3>2, <4>1 DEF Seen
    <3> QED BY <3>1, <3>2
  <2> QED BY <2>1 DEF Seen
<1> QED BY <1>8, <1>11, <1>12 DEF Caching!Store!Change, Contents, Holders, Seen

LEMMA StoreBunpin ==
  ASSUME CacheInv, CacheInv', NEW p \in Procs, NEW b \in Caching!Bufs, Caching!Bunpin(p, b)
  PROVE  UNCHANGED <<Contents, Holders, Seen>>
<1>1. /\ at[p] = "held" /\ mine[p] = b /\ bvalid[b] /\ blockno[b] \in Buffered
      /\ disk' = [disk EXCEPT ![blockno[b]] = data[b]]
      /\ UNCHANGED <<blockno, bvalid, data, buflock, at, want, mine>>
  BY Holder DEF Caching!Bunpin, Caching!Holding
<1>2. ASSUME NEW m \in Buffered PROVE Caching!Newest(m)' = Caching!Newest(m)
  <2>1. (\A c \in Caching!Bufs : blockno[c] = m => ~ bvalid[c]) => disk'[m] = disk[m]
    BY <1>1 DEF CacheInv, BufType
  <2> QED BY <1>1, <2>1, NewestSame
<1>3. Holders' = Holders /\ Seen' = Seen
  BY <1>1, HoldsSame
<1> QED BY <1>2, <1>3 DEF Contents

LEMMA StoreRelease ==
  ASSUME CacheInv, CacheInv', NEW p \in Procs, Caching!ReleaseSleep(p)
  PROVE  \E n \in Buffered : Caching!Store!Put(p, n)
<1>1. BufType
  BY DEF CacheInv
<1>2. /\ at[p] = "held" /\ at' = [at EXCEPT ![p] = "brelse"]
      /\ UNCHANGED <<disk, blockno, bvalid, data, want, mine>>
  BY DEF Caching!ReleaseSleep, Caching!Goto
<1>3. PICK n \in Buffered : n = want[p] /\ n = blockno[mine[p]]
  BY <1>2, Holder
<1>4. \A q \in Procs : at'[q] = IF q = p THEN "brelse" ELSE at[q]
  BY <1>1, <1>2 DEF BufType
<1>5. \A q \in Procs : \A m \in Buffered :
        Caching!Holds(q, m)' <=> q # p /\ Caching!Holds(q, m)
  BY <1>2, <1>4 DEF Caching!Holds
<1>6. \A q \in Procs : \A m \in Buffered : Caching!Holds(q, m) /\ m = n => q = p
  <2>1. ASSUME NEW q \in Procs, Caching!Holds(q, n) PROVE q = p
    <3>1. /\ at[q] = "held" /\ want[q] = n
      BY <2>1 DEF Caching!Holds
    <3>2. /\ mine[q] \in Caching!Bufs /\ mine[p] \in Caching!Bufs
          /\ blockno[mine[q]] = n /\ buflock[mine[q]] = q /\ buflock[mine[p]] = p
      BY <1>2, <3>1, Holder
    <3>3. mine[q] = mine[p]
      BY <1>3, <3>2, CacheParameters DEF CacheInv, TableInv
    <3> QED BY <3>2, <3>3
  <2> QED BY <2>1
<1>7. Caching!Holds(p, n) /\ \A m \in Buffered : Caching!Holds(p, m) => m = n
  BY <1>2, <1>3 DEF Caching!Holds
<1>8. Holders[n] = {p} /\ Holders' = [Holders EXCEPT ![n] = {}]
  <2>1. \A m \in Buffered : {q \in Procs : Caching!Holds(q, m)'}
          = IF m = n THEN {} ELSE {q \in Procs : Caching!Holds(q, m)}
    BY <1>5, <1>6, <1>7
  <2> QED BY <1>6, <1>7, <2>1 DEF Holders
<1>9. Seen' = [Seen EXCEPT ![p] = Absent]
  <2>1. ASSUME NEW q \in Procs
        PROVE  (IF \E m \in Buffered : Caching!Holds(q, m)' THEN data'[mine'[q]] ELSE Absent)
                 = IF q = p THEN Absent ELSE Seen[q]
    BY <1>2, <1>5 DEF Seen
  <2> QED BY <2>1 DEF Seen
<1>10. Contents' = Contents
  <2>1. \A m \in Buffered : Caching!Newest(m)' = Caching!Newest(m)
    BY <1>2, NewestSame
  <2> QED BY <2>1 DEF Contents
<1> QED BY <1>8, <1>9, <1>10 DEF Caching!Store!Put, Contents, Holders, Seen

LEMMA StoreBrelse ==
  ASSUME CacheInv, CacheInv', NEW p \in Procs, Caching!Brelse(p)
  PROVE  UNCHANGED <<Contents, Holders, Seen>>
<1>1. BufType
  BY DEF CacheInv
<1>2. /\ at[p] = "brelse" /\ at' = [at EXCEPT ![p] = "idle"]
      /\ want' = [want EXCEPT ![p] = Absent] /\ mine' = [mine EXCEPT ![p] = 1]
      /\ UNCHANGED <<disk, blockno, bvalid, data>>
  BY DEF Caching!Brelse, Caching!Goto
<1>3. \A q \in Procs : at[q] = "held" =>
        want'[q] = want[q] /\ mine'[q] = mine[q] /\ data'[mine[q]] = data[mine[q]]
  BY <1>1, <1>2 DEF BufType
<1>4. \A q \in Procs : at[q] = "held" <=> at'[q] = "held"
  BY <1>1, <1>2 DEF BufType
<1>5. Holders' = Holders /\ Seen' = Seen
  BY <1>3, <1>4, HoldsSame
<1>6. \A m \in Buffered : Caching!Newest(m)' = Caching!Newest(m)
  BY <1>2, NewestSame
<1> QED BY <1>5, <1>6 DEF Contents

LEMMA StoreStep ==
  ASSUME CacheInv, CacheInv', [Next]_vars
  PROVE  [Caching!Store!Next]_(Caching!Store!vars)
<1>1. CASE UNCHANGED <<disk, blockno, bvalid, data, at, want, mine>>
  <2>1. UNCHANGED <<disk, blockno, bvalid, data, at, want, mine>>
    BY <1>1
  <2>2. \A m \in Buffered : Caching!Newest(m)' = Caching!Newest(m)
    BY <2>1, NewestSame
  <2>3. Holders' = Holders /\ Seen' = Seen
    BY <2>1, HoldsSame
  <2> QED BY <2>2, <2>3, StoreVars DEF Contents
<1>2. CASE Caching!Next
  <2>0. CASE Caching!Panic \/ \E p \in Procs, n \in Buffered : Caching!NoBuffers(p, n)
    BY <1>1, <2>0, Panics
  <2> SUFFICES ASSUME ~ \E p \in Procs, n \in Buffered : Caching!NoBuffers(p, n), ~ Caching!Panic
               PROVE  [Caching!Store!Next]_(Caching!Store!vars)
    BY <2>0
  <2>1. PICK p \in Procs :
          \/ \E n \in Buffered : Caching!Bget(p, n)
          \/ Caching!BreadReturn(p)
          \/ \E b \in Caching!Bufs : \/ Caching!Bunpin(p, b)
                                     \/ \E v \in Vals : \/ Caching!Bwrite(p, b, v)
                                                        \/ Caching!Bpin(p, b, v)
          \/ Caching!ReleaseSleep(p)
          \/ Caching!Brelse(p)
    BY <1>2 DEF Caching!Next, Caching!Process
  <2>2. CASE UNCHANGED <<Contents, Holders, Seen>>
    BY <2>2, StoreVars
  <2>3. CASE \E n \in Buffered : Caching!Store!Get(p, n) \/ Caching!Store!Put(p, n)
    BY <2>3 DEF Caching!Store!Next
  <2>4. CASE \E n \in Buffered, v \in Vals : Caching!Store!Change(p, n, v)
    BY <2>4 DEF Caching!Store!Next
  <2> QED BY <2>1, <2>2, <2>3, <2>4, StoreBget, StoreRead, StoreChange, StoreBunpin,
             StoreRelease, StoreBrelse
<1> QED BY <1>1, <1>2, CacheSteps DEF bioVars

\* A cache of any number of buffers for any number of processes, with too few buffers
\* for them and a panic or not, is a store of blocks: one process at a time has a
\* block, and sees what the last one left in it, from the cache or from the disk
\* (bio.c:58-137; sleeplock.c:21-42).
THEOREM StoreSpecCorrect == Spec => StoreSpec
<1>1. CacheInv /\ CacheInv' /\ [Next]_vars => [Caching!Store!Next]_(Caching!Store!vars)
  BY StoreStep
<1> QED BY <1>1, StoreInit, CacheInit, CacheStep, PTL
        DEF Spec, StoreSpec, Caching!StoreSpec, Caching!Store!Spec


----------------------------------------------------------------------------
(* Inodes and the directory *)

Inode == [used : BOOLEAN, nlink : Nat]

Points == {"idle", "dir", "look", "ialloc", "iget", "ilock", "have", "enter", "open", "iput",
           "free", "invalid", "put", "drop", "dir2", "link", "bad", "undo"}

TreeType ==
  /\ dinode \in [Inums -> Inode] /\ ip \in [Inums -> Inode]
  /\ dir \in [Names -> Inums \cup {0}]
  /\ dirlock \in Procs \cup {Nobody}
  /\ ref \in [Inums -> Nat] /\ valid \in [Inums -> BOOLEAN]
  /\ lock \in [Inums -> Procs \cup {Nobody}]
  /\ panic = FALSE
  /\ point \in [Procs -> Points]
  /\ call \in [Procs -> Inodes!Calls \cup {Inodes!NoCall}]
  /\ ino \in [Procs -> Inums \cup {0}]
  /\ fresh \in [Procs -> BOOLEAN]

\* What a process has at the points of its call.
HasIno(p) == point[p] \notin {"idle", "dir", "look", "ialloc"}
Creates(p) == point[p] \in {"ialloc", "iget", "enter"} \/ (fresh[p] /\ point[p] \in {"ilock", "have"})
Unlinks(p) == call[p].op = "unlink" /\ point[p] \in {"ilock", "have"}
HasDir(p) == point[p] \in {"look", "link"} \/ Creates(p) \/ Unlinks(p)
HasLock(p) == point[p] \in {"have", "enter", "drop", "undo", "free", "invalid"}

\* Where a process is tells what it has asked for and what it has locked.
PointOf(p) ==
  /\ HasIno(p) <=> ino[p] \in Inums
  /\ point[p] # "idle" => call[p] \in Inodes!Calls
  /\ point[p] \in {"dir2", "link", "bad", "undo"} => call[p].op = "link"
  /\ fresh[p] \/ Creates(p) => call[p].op = "open"
  /\ fresh[p] => HasIno(p)
  /\ point[p] \in {"iget", "enter"} => fresh[p]
  /\ HasDir(p) => dirlock = p
  /\ Creates(p) => dir[call[p].name] = 0
  /\ Unlinks(p) => dir[call[p].name] = ino[p]
  /\ HasLock(p) => lock[ino[p]] = p /\ valid[ino[p]]

NamesOf(i) == {n \in Names : dir[n] = i}
RefsTo(i) == {p \in Procs : ino[p] = i /\ point[p] # "iget"}
PendingOf(i) ==
  {p \in Procs : ino[p] = i /\ point[p] \in {"enter", "dir2", "link", "bad", "undo", "drop"}}

\* Links and references are counted.
CountOf(i) ==
  /\ IsFiniteSet(NamesOf(i)) /\ IsFiniteSet(RefsTo(i)) /\ IsFiniteSet(PendingOf(i))
  /\ ref[i] = Cardinality(RefsTo(i))
  /\ dinode[i].used => dinode[i].nlink = Cardinality(NamesOf(i)) + Cardinality(PendingOf(i))

\* An inode that a process has and has not freed is allocated; one it creates has no
\* other process yet but those that freed it before, one it frees has none.
OwnOf(p) ==
  ino[p] \in Inums =>
    /\ point[p] \notin {"invalid", "put"} => dinode[ino[p]].used
    /\ fresh[p] /\ point[p] \in {"iget", "ilock", "have"} =>
         /\ NamesOf(ino[p]) = {}
         /\ \A q \in Procs : q # p /\ ino[q] = ino[p] => point[q] \in {"invalid", "put"}
    /\ point[p] = "free" =>
         /\ dinode[ino[p]].nlink = 0 /\ NamesOf(ino[p]) = {}
         /\ \A q \in Procs : q # p => ino[q] # ino[p]

\* A name leads to an allocated inode, and a valid copy is that of one, until iput()
\* has freed it.
CopyOf(i) ==
  /\ NamesOf(i) # {} => dinode[i].used
  /\ ref[i] = 0 => ~ valid[i]
  /\ valid[i] /\ (\A p \in Procs : ino[p] = i => point[p] # "invalid")
       => ip[i] = dinode[i] /\ dinode[i].used

TreeInv ==
  /\ TreeType
  /\ \A p \in Procs : PointOf(p) /\ OwnOf(p)
  /\ \A i \in Inums : CountOf(i) /\ CopyOf(i)

LEMMA TreeParameters == Nobody \notin Procs /\ Inums \subseteq Nat /\ 0 \notin Inums
BY StorageAssumption DEF Inodes!Parameters, Disk!Parameters

----------------------------------------------------------------------------
(* What a step of one process leaves to the others *)

Others(p) ==
  \A q \in Procs : q # p =>
    point'[q] = point[q] /\ call'[q] = call[q] /\ ino'[q] = ino[q] /\ fresh'[q] = fresh[q]

\* No lock that another process has changes, no name while another has the directory,
\* and no copy becomes invalid that another has locked.
LEMMA PointStep ==
  ASSUME TreeInv, TreeType', NEW p \in Procs, Others(p), PointOf(p)',
         \A q \in Procs : q # p /\ dirlock = q => dirlock' = q,
         dir' = dir \/ dirlock = p,
         \A i \in Inums : \A q \in Procs : q # p /\ lock[i] = q => lock'[i] = q,
         \A i \in Inums : \A q \in RefsTo(i) : q # p /\ lock[i] = q /\ valid[i] => valid'[i]
  PROVE  \A q \in Procs : PointOf(q)'
<1> SUFFICES ASSUME NEW q \in Procs, q # p PROVE PointOf(q)'
  OBVIOUS
<1>1. PointOf(q)
  BY DEF TreeInv
<1>2. point'[q] = point[q] /\ call'[q] = call[q] /\ ino'[q] = ino[q] /\ fresh'[q] = fresh[q]
  BY DEF Others
<1>3. /\ HasIno(q)' <=> HasIno(q)
      /\ Creates(q)' <=> Creates(q)
      /\ Unlinks(q)' <=> Unlinks(q)
      /\ HasDir(q)' <=> HasDir(q)
      /\ HasLock(q)' <=> HasLock(q)
  BY <1>2 DEF HasIno, Creates, Unlinks, HasDir, HasLock
<1>4. HasDir(q) => dirlock' = q /\ dir' = dir
  BY <1>1 DEF PointOf
<1>5. HasLock(q) => lock'[ino[q]] = q /\ valid'[ino[q]]
  <2>1. HasLock(q) => ino[q] \in Inums /\ q \in RefsTo(ino[q])
    BY <1>1 DEF PointOf, HasIno, HasLock, RefsTo
  <2> QED BY <1>1, <2>1 DEF PointOf
<1>6. Creates(q) \/ Unlinks(q) => HasDir(q)
  BY DEF HasDir
<1> QED BY <1>1, <1>2, <1>3, <1>4, <1>5, <1>6 DEF PointOf

\* What p does to an inode harms no other process that creates or frees one.
LEMMA OwnStep ==
  ASSUME TreeInv, NEW p \in Procs, Others(p), OwnOf(p)',
         \A i \in Inums : dinode'[i] # dinode[i] =>
           i = ino'[p] /\ (dinode'[i].used \/ (point[p] = "free" /\ ino[p] = i)),
         \A i \in Inums : NamesOf(i) = {} =>
           NamesOf(i)' = {} \/ (i = ino[p] /\ point[p] \notin {"invalid", "put"}),
         ino'[p] \in Inums =>
           \/ ino'[p] = ino[p] /\ (point[p] \in {"invalid", "put"} => point'[p] \in {"invalid", "put"})
           \/ NamesOf(ino'[p]) # {} \/ ~ dinode[ino'[p]].used
  PROVE  \A q \in Procs : OwnOf(q)'
<1> SUFFICES ASSUME NEW q \in Procs, q # p, ino'[q] \in Inums PROVE OwnOf(q)'
  BY DEF OwnOf
<1>1. OwnOf(q) /\ OwnOf(p)
  BY DEF TreeInv
<1>2. point'[q] = point[q] /\ ino'[q] = ino[q] /\ fresh'[q] = fresh[q]
  BY DEF Others
<1>3. PICK i \in Inums : i = ino[q]
  BY <1>2
<1>4. \A r \in Procs : r # p => ino'[r] = ino[r] /\ point'[r] = point[r]
  BY DEF Others
<1>5. CASE fresh[q] /\ point[q] \in {"iget", "ilock", "have"}
  <2>1. /\ NamesOf(i) = {} /\ dinode[i].used
        /\ \A r \in Procs : r # q /\ ino[r] = i => point[r] \in {"invalid", "put"}
    BY <1>1, <1>3, <1>5 DEF OwnOf
  <2>2. ino'[p] = i => ino[p] = i /\ point'[p] \in {"invalid", "put"}
    BY <2>1
  <2>3. NamesOf(i)' = {}
    BY <2>1
  <2>4. dinode'[i].used
    BY <2>1, <2>2
  <2>5. \A r \in Procs : r # q /\ ino'[r] = i => point'[r] \in {"invalid", "put"}
    BY <1>4, <2>1, <2>2
  <2>6. NamesOf(ino[q])' = NamesOf(i)'
    BY <1>2, <1>3 DEF NamesOf
  <2> QED BY <1>2, <1>3, <1>5, <2>3, <2>4, <2>5, <2>6 DEF OwnOf
<1>6. CASE point[q] = "free"
  <2>1. /\ NamesOf(i) = {} /\ dinode[i].used /\ dinode[i].nlink = 0
        /\ \A r \in Procs : r # q => ino[r] # i
    BY <1>1, <1>3, <1>6 DEF OwnOf
  <2>2. ino'[p] # i
    BY <2>1
  <2>3. NamesOf(i)' = {} /\ dinode'[i] = dinode[i]
    BY <2>1, <2>2
  <2>4. \A r \in Procs : r # q => ino'[r] # i
    BY <1>4, <2>1, <2>2
  <2>5. NamesOf(ino[q])' = NamesOf(i)'
    BY <1>2, <1>3 DEF NamesOf
  <2> QED BY <1>2, <1>3, <1>6, <2>1, <2>3, <2>4, <2>5 DEF OwnOf
<1>7. CASE ~ (fresh[q] /\ point[q] \in {"iget", "ilock", "have"}) /\ point[q] # "free"
  <2>1. point[q] \notin {"invalid", "put"} => dinode'[i].used
    <3>1. SUFFICES ASSUME point[q] \notin {"invalid", "put"} PROVE dinode'[i].used
      OBVIOUS
    <3>2. dinode[i].used
      BY <1>1, <1>3, <3>1 DEF OwnOf
    <3>3. CASE point[p] = "free" /\ ino[p] = i
      BY <1>1, <1>3, <3>3 DEF OwnOf
    <3>4. CASE ~ (point[p] = "free" /\ ino[p] = i)
      BY <3>2, <3>4
    <3> QED BY <3>3, <3>4
  <2> QED BY <1>2, <1>3, <1>7, <2>1 DEF OwnOf
<1> QED BY <1>5, <1>6, <1>7


\* What p, and the name n, count for inode i.
RefBy(p, i) == IF ino[p] = i /\ point[p] # "iget" THEN 1 ELSE 0
PendingBy(p, i) ==
  IF ino[p] = i /\ point[p] \in {"enter", "dir2", "link", "bad", "undo", "drop"} THEN 1 ELSE 0
NameBy(n, i) == IF n \in Names /\ dir[n] = i THEN 1 ELSE 0

\* How a step of p, which changes at most the name n, changes what is counted.
LEMMA Counted ==
  ASSUME TreeInv, NEW p \in Procs, Others(p), NEW i \in Inums,
         NEW n, \A m \in Names : m # n => dir'[m] = dir[m]
  PROVE  /\ IsFiniteSet(NamesOf(i)') /\ IsFiniteSet(RefsTo(i)') /\ IsFiniteSet(PendingOf(i)')
         /\ Cardinality(RefsTo(i)) \in Nat /\ Cardinality(RefsTo(i)') \in Nat
         /\ Cardinality(RefsTo(i)') + RefBy(p, i) = Cardinality(RefsTo(i)) + RefBy(p, i)'
         /\ Cardinality(PendingOf(i)) \in Nat /\ Cardinality(PendingOf(i)') \in Nat
         /\ Cardinality(PendingOf(i)') + PendingBy(p, i)
              = Cardinality(PendingOf(i)) + PendingBy(p, i)'
         /\ Cardinality(NamesOf(i)) \in Nat /\ Cardinality(NamesOf(i)') \in Nat
         /\ Cardinality(NamesOf(i)') + NameBy(n, i)
              = Cardinality(NamesOf(i)) + (IF n \in Names /\ dir'[n] = i THEN 1 ELSE 0)
<1>1. IsFiniteSet(NamesOf(i)) /\ IsFiniteSet(RefsTo(i)) /\ IsFiniteSet(PendingOf(i))
  BY DEF TreeInv, CountOf
<1>2. /\ \A q : q # p => (q \in RefsTo(i) <=> q \in RefsTo(i)')
      /\ \A q : q # p => (q \in PendingOf(i) <=> q \in PendingOf(i)')
  BY DEF RefsTo, PendingOf, Others
<1>3. /\ RefBy(p, i) = IF p \in RefsTo(i) THEN 1 ELSE 0
      /\ RefBy(p, i)' = IF p \in RefsTo(i)' THEN 1 ELSE 0
      /\ PendingBy(p, i) = IF p \in PendingOf(i) THEN 1 ELSE 0
      /\ PendingBy(p, i)' = IF p \in PendingOf(i)' THEN 1 ELSE 0
  BY DEF RefBy, PendingBy, RefsTo, PendingOf
<1>4. \A m : m # n => (m \in NamesOf(i) <=> m \in NamesOf(i)')
  BY DEF NamesOf
<1>5. /\ NameBy(n, i) = IF n \in NamesOf(i) THEN 1 ELSE 0
      /\ (IF n \in Names /\ dir'[n] = i THEN 1 ELSE 0) = IF n \in NamesOf(i)' THEN 1 ELSE 0
  BY DEF NameBy, NamesOf
<1>6. /\ IsFiniteSet(RefsTo(i)') /\ Cardinality(RefsTo(i)) \in Nat
      /\ Cardinality(RefsTo(i)') \in Nat
      /\ Cardinality(RefsTo(i)') + (IF p \in RefsTo(i) THEN 1 ELSE 0)
           = Cardinality(RefsTo(i)) + (IF p \in RefsTo(i)' THEN 1 ELSE 0)
  BY <1>1, <1>2, SetCount
<1>7. /\ IsFiniteSet(PendingOf(i)') /\ Cardinality(PendingOf(i)) \in Nat
      /\ Cardinality(PendingOf(i)') \in Nat
      /\ Cardinality(PendingOf(i)') + (IF p \in PendingOf(i) THEN 1 ELSE 0)
           = Cardinality(PendingOf(i)) + (IF p \in PendingOf(i)' THEN 1 ELSE 0)
  BY <1>1, <1>2, SetCount
<1>8. /\ IsFiniteSet(NamesOf(i)') /\ Cardinality(NamesOf(i)) \in Nat
      /\ Cardinality(NamesOf(i)') \in Nat
      /\ Cardinality(NamesOf(i)') + (IF n \in NamesOf(i) THEN 1 ELSE 0)
           = Cardinality(NamesOf(i)) + (IF n \in NamesOf(i)' THEN 1 ELSE 0)
  <2>1. IsFiniteSet(NamesOf(i))
    BY <1>1
  <2> HIDE DEF NamesOf
  <2> QED BY <1>4, <2>1, SetCount
<1> QED BY <1>3, <1>5, <1>6, <1>7, <1>8

\* The counts stay right where links and references change as what is counted does.
LEMMA CountStep ==
  ASSUME TreeInv, NEW p \in Procs, Others(p), NEW i \in Inums,
         NEW n, \A m \in Names : m # n => dir'[m] = dir[m],
         ref'[i] \in Nat, ref'[i] + RefBy(p, i) = ref[i] + RefBy(p, i)',
         dinode'[i].used =>
           /\ dinode[i].used /\ dinode[i].nlink \in Nat /\ dinode'[i].nlink \in Nat
           /\ dinode'[i].nlink + NameBy(n, i) + PendingBy(p, i)
                = dinode[i].nlink + (IF n \in Names /\ dir'[n] = i THEN 1 ELSE 0)
                    + PendingBy(p, i)'
  PROVE  CountOf(i)'
<1> DEFINE rs == Cardinality(RefsTo(i))
           ps == Cardinality(PendingOf(i))
           ns == Cardinality(NamesOf(i))
           new == IF n \in Names /\ dir'[n] = i THEN 1 ELSE 0
<1>1. /\ ref[i] = rs
      /\ dinode[i].used => dinode[i].nlink = ns + ps
  BY DEF TreeInv, CountOf
<1>2. /\ IsFiniteSet(NamesOf(i)') /\ IsFiniteSet(RefsTo(i)') /\ IsFiniteSet(PendingOf(i)')
      /\ rs \in Nat /\ rs' \in Nat /\ rs' + RefBy(p, i) = rs + RefBy(p, i)'
      /\ ps \in Nat /\ ps' \in Nat /\ ps' + PendingBy(p, i) = ps + PendingBy(p, i)'
      /\ ns \in Nat /\ ns' \in Nat /\ ns' + NameBy(n, i) = ns + new
  BY Counted
<1>3. /\ RefBy(p, i) \in Nat /\ RefBy(p, i)' \in Nat
      /\ PendingBy(p, i) \in Nat /\ PendingBy(p, i)' \in Nat
      /\ NameBy(n, i) \in Nat /\ new \in Nat
  BY DEF RefBy, PendingBy, NameBy
<1>4. dinode'[i].used =>
        /\ dinode[i].used /\ dinode[i].nlink \in Nat /\ dinode'[i].nlink \in Nat
        /\ dinode'[i].nlink + NameBy(n, i) + PendingBy(p, i)
             = dinode[i].nlink + new + PendingBy(p, i)'
  OBVIOUS
<1> HIDE DEF rs, ps, ns, new
<1>5. ref'[i] = rs'
  <2>1. PICK x \in Nat : x = rs
    BY <1>2
  <2>2. PICK x1 \in Nat : x1 = rs'
    BY <1>2
  <2>3. PICK a, a1 \in Nat : a = RefBy(p, i) /\ a1 = RefBy(p, i)'
    BY <1>3
  <2>4. PICK z \in Nat : z = ref'[i]
    OBVIOUS
  <2>5. x1 + a = x + a1 /\ z + a = x + a1
    BY <1>1, <1>2, <2>1, <2>2, <2>3, <2>4
  <2>6. z = x1
    BY <2>5
  <2> QED BY <2>2, <2>4, <2>6
<1>6. ASSUME dinode'[i].used PROVE dinode'[i].nlink = ns' + ps'
  <2>1. /\ dinode[i].nlink = ns + ps
        /\ dinode'[i].nlink \in Nat
        /\ dinode'[i].nlink + NameBy(n, i) + PendingBy(p, i)
             = dinode[i].nlink + new + PendingBy(p, i)'
    BY <1>1, <1>4, <1>6
  <2>2. dinode'[i].nlink + NameBy(n, i) + PendingBy(p, i)
          = ns + ps + new + PendingBy(p, i)'
    BY <2>1
  <2>3. PICK x \in Nat : x = ns
    BY <1>2
  <2>4. PICK y \in Nat : y = ps
    BY <1>2
  <2>5. PICK x1 \in Nat : x1 = ns'
    BY <1>2
  <2>6. PICK y1 \in Nat : y1 = ps'
    BY <1>2
  <2>7. PICK a, a1, b, b1 \in Nat :
          /\ a = PendingBy(p, i) /\ a1 = PendingBy(p, i)'
          /\ b = NameBy(n, i) /\ b1 = new
    BY <1>3
  <2>8. PICK z \in Nat : z = dinode'[i].nlink
    BY <2>1
  <2>9. x1 + b = x + b1 /\ y1 + a = y + a1 /\ z + b + a = x + y + b1 + a1
    BY <1>2, <2>2, <2>3, <2>4, <2>5, <2>6, <2>7, <2>8
  <2>10. z = x1 + y1
    BY <2>9
  <2> QED BY <2>5, <2>6, <2>8, <2>10
<1> QED BY <1>2, <1>5, <1>6 DEF CountOf, rs, ps, ns

LEMMA CopySame ==
  ASSUME TreeInv, NEW p \in Procs, Others(p), NEW i \in Inums,
         dinode'[i] = dinode[i], ip'[i] = ip[i], valid'[i] => valid[i],
         ref'[i] = 0 => ~ valid'[i],
         NamesOf(i)' # {} => dinode[i].used,
         valid'[i] /\ ino[p] = i /\ point[p] = "invalid"
           => ino'[p] = i /\ point'[p] = "invalid"
  PROVE  CopyOf(i)'
<1>1. CopyOf(i)
  BY DEF TreeInv
<1>2. valid'[i] /\ (\A q \in Procs : ino'[q] = i => point'[q] # "invalid")
        => \A q \in Procs : ino[q] = i => point[q] # "invalid"
  BY DEF Others
<1> QED BY <1>1, <1>2 DEF CopyOf

\* A step at which the process keeps what it has, and only locks change.
LEMMA TreeMove ==
  ASSUME TreeInv, TreeType', NEW p \in Procs, Others(p), PointOf(p)', OwnOf(p)',
         UNCHANGED <<dinode, dir, ref, valid, ip>>, ino'[p] = ino[p],
         \A q \in Procs : q # p /\ dirlock = q => dirlock' = q,
         \A i \in Inums : \A q \in Procs : q # p /\ lock[i] = q => lock'[i] = q,
         point[p] \notin {"iget", "invalid", "put"}, point'[p] # "iget",
         \A i \in Inums : PendingBy(p, i)' = PendingBy(p, i)
  PROVE  TreeInv'
<1>1. \A q \in Procs : PointOf(q)'
  BY PointStep
<1>2. \A i \in Inums : NamesOf(i)' = NamesOf(i)
  BY DEF NamesOf
<1>3. \A q \in Procs : OwnOf(q)'
  BY <1>2, OwnStep
<1>4. ASSUME NEW i \in Inums PROVE CountOf(i)'
  <2>1. RefBy(p, i)' = RefBy(p, i)
    BY DEF RefBy
  <2>2. ref[i] \in Nat /\ dinode[i].nlink \in Nat
    BY DEF TreeInv, TreeType, Inode
  <2>3. /\ RefBy(p, i) \in Nat /\ PendingBy(p, i) \in Nat
    BY DEF RefBy, PendingBy
  <2>4. /\ NameBy(0, i) \in Nat
        /\ NameBy(0, i) = IF 0 \in Names /\ dir'[0] = i THEN 1 ELSE 0
    BY DEF NameBy
  <2> QED BY <2>1, <2>2, <2>3, <2>4, CountStep
<1>5. ASSUME NEW i \in Inums PROVE CopyOf(i)'
  <2>1. CopyOf(i)
    BY DEF TreeInv
  <2> QED BY <1>2, <2>1, CopySame DEF CopyOf
<1> QED BY <1>1, <1>3, <1>4, <1>5 DEF TreeInv


----------------------------------------------------------------------------
(* The steps of the calls *)

LEMMA CallIs ==
  \A c \in Inodes!Calls :
    c.name \in Names /\ c.op \in {"open", "unlink", "link"} /\ (c.op = "link" => c.new \in Names)
BY DEF Inodes!Calls

\* What a step of p from one point to the next says of the others.
LEMMA Moves ==
  ASSUME TreeInv, NEW p \in Procs, NEW here, NEW there \in Points, Inodes!Goto(p, here, there)
  PROVE  /\ point[p] = here /\ point'[p] = there /\ point' \in [Procs -> Points]
         /\ UNCHANGED <<call, ino, fresh>> => Others(p)
         /\ Inodes!Idle(p) => /\ Others(p) /\ ino'[p] = 0 /\ fresh'[p] = FALSE
                              /\ ino' \in [Procs -> Inums \cup {0}]
                              /\ fresh' \in [Procs -> BOOLEAN]
                              /\ call' \in [Procs -> Inodes!Calls \cup {Inodes!NoCall}]
<1>1. /\ point \in [Procs -> Points] /\ ino \in [Procs -> Inums \cup {0}]
      /\ fresh \in [Procs -> BOOLEAN]
      /\ call \in [Procs -> Inodes!Calls \cup {Inodes!NoCall}]
  BY DEF TreeInv, TreeType
<1>2. point[p] = here /\ point' = [point EXCEPT ![p] = there]
  BY DEF Inodes!Goto
<1>3. UNCHANGED <<call, ino, fresh>> => Others(p)
  BY <1>1, <1>2 DEF Others
<1>4. ASSUME Inodes!Idle(p)
      PROVE  /\ Others(p) /\ ino'[p] = 0 /\ fresh'[p] = FALSE
             /\ ino' \in [Procs -> Inums \cup {0}]
             /\ fresh' \in [Procs -> BOOLEAN]
             /\ call' \in [Procs -> Inodes!Calls \cup {Inodes!NoCall}]
  <2>1. /\ ino' = [ino EXCEPT ![p] = 0] /\ fresh' = [fresh EXCEPT ![p] = FALSE]
        /\ call' = [call EXCEPT ![p] = Inodes!NoCall]
    BY <1>4 DEF Inodes!Idle, Inodes!NoIno
  <2> QED BY <1>1, <1>2, <2>1 DEF Others
<1> QED BY <1>1, <1>2, <1>3, <1>4

LEMMA StepCall ==
  ASSUME TreeInv, NEW p \in Procs, Inodes!Call(p)
  PROVE  TreeInv'
<1>1. /\ point[p] = "idle" /\ point'[p] = "dir" /\ point' \in [Procs -> Points]
      /\ UNCHANGED <<dinode, dir, dirlock, ref, valid, ip, lock, panic, ino, fresh>>
  BY Moves DEF Inodes!Call, Inodes!tableVars, Points
<1>2. PICK c \in Inodes!Calls : call' = [call EXCEPT ![p] = c]
  BY DEF Inodes!Call
<1>3. TreeType'
  BY <1>1, <1>2 DEF TreeInv, TreeType
<1>4. Others(p) /\ call'[p] = c
  <2>1. point' = [point EXCEPT ![p] = "dir"]
    BY DEF Inodes!Call, Inodes!Goto
  <2> QED BY <1>1, <1>2, <2>1 DEF Others, TreeInv, TreeType
<1>5. PointOf(p) /\ OwnOf(p)
  BY DEF TreeInv
<1>6. PointOf(p)' /\ OwnOf(p)'
  BY <1>1, <1>2, <1>4, <1>5
     DEF PointOf, OwnOf, HasIno, Creates, Unlinks, HasDir, HasLock
<1>7. \A i \in Inums : PendingBy(p, i)' = PendingBy(p, i)
  BY <1>1 DEF PendingBy
<1> QED BY <1>1, <1>3, <1>4, <1>6, <1>7, TreeMove

LEMMA StepLockDir ==
  ASSUME TreeInv, NEW p \in Procs, Inodes!LockDir(p)
  PROVE  TreeInv'
<1>1. /\ \/ point[p] = "dir" /\ point'[p] = "look"
         \/ point[p] = "dir2" /\ point'[p] = "link"
      /\ point' \in [Procs -> Points]
      /\ dirlock = Nobody /\ dirlock' = p
      /\ UNCHANGED <<dinode, dir, ref, valid, ip, lock, panic, call, ino, fresh>>
  BY Moves DEF Inodes!LockDir, Inodes!tableVars, Points
<1>2. TreeType'
  BY <1>1 DEF TreeInv, TreeType
<1>3. Others(p)
  BY <1>1, Moves DEF Inodes!LockDir, Points
<1>4. PointOf(p) /\ OwnOf(p)
  BY DEF TreeInv
<1>5. PointOf(p)' /\ OwnOf(p)'
  BY <1>1, <1>4 DEF PointOf, OwnOf, HasIno, Creates, Unlinks, HasDir, HasLock
<1>6. \A i \in Inums : PendingBy(p, i)' = PendingBy(p, i)
  <2>1. point[p] = "dir" => ino[p] \notin Inums
    BY <1>4 DEF PointOf, HasIno
  <2> QED BY <1>1, <2>1 DEF PendingBy
<1> QED BY <1>1, <1>2, <1>3, <1>5, <1>6, TreeMove, TreeParameters

LEMMA StepLookCreate ==
  ASSUME TreeInv, NEW p \in Procs, Inodes!LookCreate(p)
  PROVE  TreeInv'
<1>1. /\ point[p] = "look" /\ point'[p] = "ialloc" /\ point' \in [Procs -> Points]
      /\ Others(p) /\ call[p].op = "open" /\ dir[call[p].name] = 0
      /\ UNCHANGED <<dinode, dir, dirlock, ref, valid, ip, lock, panic, call, ino, fresh>>
  BY Moves DEF Inodes!LookCreate, Inodes!tableVars, Inodes!Found, Inodes!NoIno, Points
<1>2. TreeType'
  BY <1>1 DEF TreeInv, TreeType
<1>3. PointOf(p) /\ OwnOf(p)
  BY DEF TreeInv
<1>4. PointOf(p)' /\ OwnOf(p)'
  BY <1>1, <1>3 DEF PointOf, OwnOf, HasIno, Creates, Unlinks, HasDir, HasLock
<1>5. \A i \in Inums : PendingBy(p, i)' = PendingBy(p, i)
  BY <1>1 DEF PendingBy
<1> QED BY <1>1, <1>2, <1>4, <1>5, TreeMove

LEMMA StepLookFails ==
  ASSUME TreeInv, NEW p \in Procs, Inodes!LookFails(p)
  PROVE  TreeInv'
<1>1. /\ point[p] = "look" /\ point'[p] = "idle" /\ point' \in [Procs -> Points]
      /\ Others(p) /\ ino'[p] = 0 /\ fresh'[p] = FALSE /\ dirlock' = Nobody
      /\ ino' \in [Procs -> Inums \cup {0}] /\ fresh' \in [Procs -> BOOLEAN]
      /\ call' \in [Procs -> Inodes!Calls \cup {Inodes!NoCall}]
      /\ UNCHANGED <<dinode, dir, ref, valid, ip, lock, panic>>
  BY Moves DEF Inodes!LookFails, Inodes!tableVars, Points
<1>2. TreeType'
  BY <1>1 DEF TreeInv, TreeType
<1>3. PointOf(p) /\ OwnOf(p)
  BY DEF TreeInv
<1>4. PointOf(p)' /\ OwnOf(p)'
  BY <1>1, TreeParameters DEF PointOf, OwnOf, HasIno, Creates, Unlinks, HasDir, HasLock
<1>5. ino'[p] = ino[p] /\ dirlock = p
  BY <1>1, <1>3 DEF PointOf, HasIno, HasDir, TreeInv, TreeType
<1>6. \A i \in Inums : PendingBy(p, i)' = PendingBy(p, i)
  BY <1>1 DEF PendingBy
<1> QED BY <1>1, <1>2, <1>4, <1>5, <1>6, TreeMove

LEMMA StepOpenFound ==
  ASSUME TreeInv, NEW p \in Procs, Inodes!OpenFound(p)
  PROVE  TreeInv'
<1>1. /\ point[p] = "have" /\ point'[p] = "open" /\ point' \in [Procs -> Points]
      /\ Others(p) /\ call[p].op = "open" /\ ~ fresh[p]
      /\ lock' = [lock EXCEPT ![ino[p]] = Nobody]
      /\ UNCHANGED <<dinode, dir, dirlock, ref, valid, ip, panic, call, ino, fresh>>
  BY Moves DEF Inodes!OpenFound, Points
<1>2. TreeType'
  BY <1>1 DEF TreeInv, TreeType
<1>3. PointOf(p) /\ OwnOf(p)
  BY DEF TreeInv
<1>4. PointOf(p)' /\ OwnOf(p)'
  BY <1>1, <1>3 DEF PointOf, OwnOf, HasIno, Creates, Unlinks, HasDir, HasLock
<1>5. \A i \in Inums : \A q \in Procs : q # p /\ lock[i] = q => lock'[i] = q
  <2>1. lock[ino[p]] = p
    BY <1>1, <1>3 DEF PointOf, HasLock
  <2> QED BY <1>1, <2>1 DEF TreeInv, TreeType
<1>6. \A i \in Inums : PendingBy(p, i)' = PendingBy(p, i)
  BY <1>1 DEF PendingBy
<1> QED BY <1>1, <1>2, <1>4, <1>5, <1>6, TreeMove

LEMMA StepClose ==
  ASSUME TreeInv, NEW p \in Procs, Inodes!Close(p)
  PROVE  TreeInv'
<1>1. /\ point[p] = "open" /\ point'[p] = "iput" /\ point' \in [Procs -> Points] /\ Others(p)
      /\ UNCHANGED <<dinode, dir, dirlock, ref, valid, ip, lock, panic, call, ino, fresh>>
  BY Moves DEF Inodes!Close, Inodes!tableVars, Points
<1>2. TreeType'
  BY <1>1 DEF TreeInv, TreeType
<1>3. PointOf(p) /\ OwnOf(p)
  BY DEF TreeInv
<1>4. PointOf(p)' /\ OwnOf(p)'
  BY <1>1, <1>3 DEF PointOf, OwnOf, HasIno, Creates, Unlinks, HasDir, HasLock
<1>5. \A i \in Inums : PendingBy(p, i)' = PendingBy(p, i)
  BY <1>1 DEF PendingBy
<1> QED BY <1>1, <1>2, <1>4, <1>5, TreeMove

LEMMA StepLinkFails ==
  ASSUME TreeInv, NEW p \in Procs, Inodes!LinkFails(p)
  PROVE  TreeInv'
<1>1. /\ point[p] = "link" /\ point'[p] = "bad" /\ point' \in [Procs -> Points] /\ Others(p)
      /\ dirlock' = Nobody
      /\ UNCHANGED <<dinode, dir, ref, valid, ip, lock, panic, call, ino, fresh>>
  BY Moves DEF Inodes!LinkFails, Inodes!tableVars, Points
<1>2. TreeType'
  BY <1>1 DEF TreeInv, TreeType
<1>3. PointOf(p) /\ OwnOf(p)
  BY DEF TreeInv
<1>4. PointOf(p)' /\ OwnOf(p)'
  BY <1>1, <1>3 DEF PointOf, OwnOf, HasIno, Creates, Unlinks, HasDir, HasLock
<1>5. dirlock = p
  BY <1>1, <1>3 DEF PointOf, HasDir
<1>6. \A i \in Inums : PendingBy(p, i)' = PendingBy(p, i)
  BY <1>1 DEF PendingBy
<1> QED BY <1>1, <1>2, <1>4, <1>5, <1>6, TreeMove

\* Where iput() has the last reference to an inode without links, nobody else has it.
LEMMA LastRefAlone ==
  ASSUME TreeInv, NEW p \in Procs, point[p] = "iput", Inodes!LastRef(ino[p])
  PROVE  /\ ino[p] \in Inums /\ valid[ino[p]]
         /\ dinode[ino[p]].nlink = 0 /\ NamesOf(ino[p]) = {}
         /\ \A q \in Procs : q # p => ino[q] # ino[p]
<1>1. PICK i \in Inums : i = ino[p]
  BY DEF TreeInv, PointOf, HasIno
<1>2. ref[i] = 1 /\ valid[i] /\ ip[i].nlink = 0
  BY <1>1 DEF Inodes!LastRef
<1>3. RefsTo(i) = {p}
  <2>1. IsFiniteSet(RefsTo(i)) /\ Cardinality(RefsTo(i)) = 1 /\ p \in RefsTo(i)
    BY <1>1, <1>2 DEF TreeInv, CountOf, RefsTo
  <2>2. PICK x : RefsTo(i) = {x}
    BY <2>1, FS_Singleton
  <2> QED BY <2>1, <2>2
<1>4. ASSUME NEW q \in Procs, q # p, ino[q] = i PROVE FALSE
  <2>1. point[q] = "iget"
    BY <1>3, <1>4 DEF RefsTo
  <2>2. fresh[q]
    BY <2>1 DEF TreeInv, PointOf
  <2>3. point[p] \in {"invalid", "put"}
    BY <1>1, <1>4, <2>1, <2>2 DEF TreeInv, OwnOf
  <2> QED BY <2>3
<1>5. ip[i] = dinode[i] /\ dinode[i].used
  <2>1. \A q \in Procs : ino[q] = i => point[q] # "invalid"
    BY <1>4
  <2> QED BY <1>2, <2>1 DEF TreeInv, CopyOf
<1>6. NamesOf(i) = {}
  <2>1. /\ IsFiniteSet(NamesOf(i)) /\ IsFiniteSet(PendingOf(i))
        /\ Cardinality(NamesOf(i)) + Cardinality(PendingOf(i)) = 0
    BY <1>2, <1>5 DEF TreeInv, CountOf
  <2>2. Cardinality(NamesOf(i)) \in Nat /\ Cardinality(PendingOf(i)) \in Nat
    BY <2>1, FS_CardinalityType
  <2>3. Cardinality(NamesOf(i)) = 0
    BY <2>1, <2>2
  <2> QED BY <2>1, <2>3, FS_EmptySet
<1> QED BY <1>1, <1>2, <1>4, <1>5, <1>6

LEMMA StepIputLast ==
  ASSUME TreeInv, NEW p \in Procs, Inodes!IputLast(p)
  PROVE  TreeInv'
<1>1. /\ point[p] = "iput" /\ point'[p] = "free" /\ point' \in [Procs -> Points] /\ Others(p)
      /\ lock[ino[p]] = Nobody /\ lock' = [lock EXCEPT ![ino[p]] = p]
      /\ UNCHANGED <<dinode, dir, dirlock, ref, valid, ip, panic, call, ino, fresh>>
      /\ Inodes!LastRef(ino[p])
  BY Moves DEF Inodes!IputLast, Points
<1>2. /\ ino[p] \in Inums /\ valid[ino[p]]
      /\ dinode[ino[p]].nlink = 0 /\ NamesOf(ino[p]) = {}
      /\ \A q \in Procs : q # p => ino[q] # ino[p]
  BY <1>1, LastRefAlone
<1>3. TreeType'
  BY <1>1 DEF TreeInv, TreeType
<1>4. PointOf(p) /\ OwnOf(p)
  BY DEF TreeInv
<1>5. PointOf(p)'
  <2>1. lock'[ino[p]] = p
    BY <1>1, <1>2 DEF TreeInv, TreeType
  <2> QED BY <1>1, <1>2, <1>4, <2>1 DEF PointOf, HasIno, Creates, Unlinks, HasDir, HasLock
<1>6. OwnOf(p)'
  <2>1. NamesOf(ino[p])' = {}
    BY <1>1, <1>2 DEF NamesOf
  <2> QED BY <1>1, <1>2, <1>4, <2>1 DEF OwnOf
<1>7. \A i \in Inums : \A q \in Procs : q # p /\ lock[i] = q => lock'[i] = q
  BY <1>1, TreeParameters DEF TreeInv, TreeType
<1>8. \A i \in Inums : PendingBy(p, i)' = PendingBy(p, i)
  BY <1>1 DEF PendingBy
<1> QED BY <1>1, <1>3, <1>5, <1>6, <1>7, <1>8, TreeMove

\* An inode that p has locked and not freed: its copy is the inode on the disk, and
\* nobody else is in between the steps that are made with the lock.
LEMMA LockedAlone ==
  ASSUME TreeInv, NEW p \in Procs, point[p] \in {"have", "enter", "drop", "undo"}
  PROVE  /\ ino[p] \in Inums /\ lock[ino[p]] = p /\ valid[ino[p]]
         /\ dinode[ino[p]].used /\ ip[ino[p]] = dinode[ino[p]]
         /\ \A q \in Procs : q # p /\ ino[q] = ino[p] => ~ HasLock(q)
<1>1. PointOf(p) /\ OwnOf(p)
  BY DEF TreeInv
<1>2. ino[p] \in Inums /\ lock[ino[p]] = p /\ valid[ino[p]] /\ dinode[ino[p]].used
  BY <1>1 DEF PointOf, OwnOf, HasIno, HasLock
<1>3. ASSUME NEW q \in Procs, q # p, ino[q] = ino[p] PROVE ~ HasLock(q)
  BY <1>2, <1>3 DEF TreeInv, PointOf
<1>4. \A q \in Procs : ino[q] = ino[p] => point[q] # "invalid"
  BY <1>3 DEF HasLock
<1> QED BY <1>2, <1>3, <1>4 DEF TreeInv, CopyOf

\* What has a link or a link to come is counted.
LEMMA LinkThere ==
  ASSUME TreeInv, NEW i \in Inums, dinode[i].used, NamesOf(i) # {} \/ PendingOf(i) # {}
  PROVE  dinode[i].nlink \in Nat /\ dinode[i].nlink >= 1
<1>1. /\ IsFiniteSet(NamesOf(i)) /\ IsFiniteSet(PendingOf(i))
      /\ dinode[i].nlink = Cardinality(NamesOf(i)) + Cardinality(PendingOf(i))
  BY DEF TreeInv, CountOf
<1>2. /\ Cardinality(NamesOf(i)) \in Nat /\ Cardinality(PendingOf(i)) \in Nat
      /\ (Cardinality(NamesOf(i)) = 0) <=> (NamesOf(i) = {})
      /\ (Cardinality(PendingOf(i)) = 0) <=> (PendingOf(i) = {})
  BY <1>1, FS_CardinalityType, FS_EmptySet
<1> QED BY <1>1, <1>2

\* A step that writes the number of links of an inode that p has locked.
LEMMA SetLinksStep ==
  ASSUME TreeInv, NEW p \in Procs, Others(p), point' \in [Procs -> Points],
         point[p] \in {"have", "drop", "undo"}, point'[p] \in {"enter", "dir2", "iput"},
         NEW m \in Nat, NEW o \in {p, Nobody}, Inodes!SetLinks(ino[p], m, o),
         UNCHANGED <<dir, dirlock, panic, call, ino, fresh>>,
         m + PendingBy(p, ino[p]) = ip[ino[p]].nlink + PendingBy(p, ino[p])',
         PointOf(p)'
  PROVE  TreeInv'
<1>1. PICK i \in Inums : i = ino[p]
  BY LockedAlone
<1>2. /\ lock[i] = p /\ valid[i] /\ dinode[i].used /\ ip[i] = dinode[i]
      /\ \A q \in Procs : q # p /\ ino[q] = i => ~ HasLock(q)
  BY <1>1, LockedAlone
<1>3. /\ dinode \in [Inums -> Inode] /\ ip \in [Inums -> Inode]
      /\ lock \in [Inums -> Procs \cup {Nobody}] /\ ref \in [Inums -> Nat]
  BY DEF TreeInv, TreeType
<1>4. /\ ip' = [ip EXCEPT ![i].nlink = m] /\ dinode' = [dinode EXCEPT ![i] = ip'[i]]
      /\ lock' = [lock EXCEPT ![i] = o] /\ UNCHANGED <<ref, valid>>
  BY <1>1 DEF Inodes!SetLinks
<1>5. /\ ip'[i] = dinode'[i] /\ dinode'[i] \in Inode
      /\ dinode'[i].used /\ dinode'[i].nlink = m
      /\ \A j \in Inums : j # i => dinode'[j] = dinode[j] /\ ip'[j] = ip[j]
      /\ ip' \in [Inums -> Inode] /\ dinode' \in [Inums -> Inode]
  BY <1>2, <1>3, <1>4 DEF Inode
<1>6. TreeType'
  BY <1>3, <1>4, <1>5 DEF TreeInv, TreeType
<1>7. \A j \in Inums : \A q \in Procs : q # p /\ lock[j] = q => lock'[j] = q
  BY <1>2, <1>3, <1>4
<1>8. \A q \in Procs : PointOf(q)'
  BY <1>4, <1>6, <1>7, PointStep
<1>9. \A j \in Inums : NamesOf(j)' = NamesOf(j)
  BY DEF NamesOf
<1>10. OwnOf(p)'
  BY <1>1, <1>5 DEF OwnOf
<1>11. \A q \in Procs : OwnOf(q)'
  BY <1>1, <1>5, <1>9, <1>10, OwnStep
<1>12. ASSUME NEW j \in Inums PROVE CountOf(j)'
  <2>1. RefBy(p, j)' = RefBy(p, j)
    BY DEF RefBy
  <2>2. ref[j] \in Nat /\ dinode[j].nlink \in Nat /\ dinode'[j].nlink \in Nat
    BY <1>3, <1>5 DEF Inode
  <2>3. /\ RefBy(p, j) \in Nat /\ PendingBy(p, j) \in Nat /\ PendingBy(p, j)' \in Nat
    BY DEF RefBy, PendingBy
  <2>4. /\ NameBy(0, j) \in Nat
        /\ NameBy(0, j) = IF 0 \in Names /\ dir'[0] = j THEN 1 ELSE 0
    BY DEF NameBy
  <2>5. /\ dinode[j].used <=> dinode'[j].used
        /\ dinode'[j].nlink + PendingBy(p, j) = dinode[j].nlink + PendingBy(p, j)'
    <3>1. CASE j = i
      BY <1>1, <1>2, <1>5, <3>1
    <3>2. CASE j # i
      <4>1. PendingBy(p, j)' = PendingBy(p, j)
        BY <1>1, <3>2 DEF PendingBy
      <4> QED BY <1>5, <3>2, <4>1
    <3> QED BY <3>1, <3>2
  <2>6. dinode'[j].used =>
          /\ dinode[j].used /\ dinode[j].nlink \in Nat /\ dinode'[j].nlink \in Nat
          /\ dinode'[j].nlink + NameBy(0, j) + PendingBy(p, j)
               = dinode[j].nlink + (IF 0 \in Names /\ dir'[0] = j THEN 1 ELSE 0)
                   + PendingBy(p, j)'
    <3> DEFINE nb == NameBy(0, j)
    <3>1. nb \in Nat /\ nb = IF 0 \in Names /\ dir'[0] = j THEN 1 ELSE 0
      BY <2>4
    <3> HIDE DEF nb
    <3>2. dinode'[j].nlink + nb + PendingBy(p, j) = dinode[j].nlink + nb + PendingBy(p, j)'
      BY <2>2, <2>3, <2>5, <3>1
    <3> QED BY <2>2, <2>5, <3>1, <3>2 DEF nb
  <2>7. ref'[j] \in Nat /\ ref'[j] + RefBy(p, j) = ref[j] + RefBy(p, j)'
    BY <1>4, <2>1, <2>2
  <2> QED BY <2>6, <2>7, CountStep
<1>13. ASSUME NEW j \in Inums PROVE CopyOf(j)'
  <2>1. CopyOf(j)
    BY DEF TreeInv
  <2>2. CASE j = i
    BY <1>2, <1>4, <1>5, <1>9, <2>1, <2>2 DEF CopyOf
  <2>3. CASE j # i
    BY <1>1, <1>4, <1>5, <1>9, <2>1, <2>3, CopySame DEF CopyOf
  <2> QED BY <2>2, <2>3
<1> QED BY <1>6, <1>8, <1>11, <1>12, <1>13 DEF TreeInv

LEMMA StepCreateInit ==
  ASSUME TreeInv, NEW p \in Procs, Inodes!CreateInit(p)
  PROVE  TreeInv'
<1>1. /\ point[p] = "have" /\ point'[p] = "enter" /\ point' \in [Procs -> Points] /\ Others(p)
      /\ call[p].op = "open" /\ fresh[p]
      /\ Inodes!SetLinks(ino[p], 1, p)
      /\ UNCHANGED <<dir, dirlock, panic, call, ino, fresh>>
  BY Moves DEF Inodes!CreateInit, Points
<1>2. /\ ino[p] \in Inums /\ lock[ino[p]] = p /\ valid[ino[p]]
      /\ dinode[ino[p]].used /\ ip[ino[p]] = dinode[ino[p]]
  BY <1>1, LockedAlone
<1>3. PointOf(p) /\ OwnOf(p)
  BY DEF TreeInv
<1>4. PointOf(p)'
  <2>1. lock'[ino[p]] = p /\ valid'[ino[p]]
    BY <1>1, <1>2 DEF Inodes!SetLinks, TreeInv, TreeType
  <2> QED BY <1>1, <1>2, <1>3, <2>1 DEF PointOf, HasIno, Creates, Unlinks, HasDir, HasLock
<1>5. ip[ino[p]].nlink = 0
  <2>1. NamesOf(ino[p]) = {} /\ PendingOf(ino[p]) = {}
    BY <1>1, <1>2, <1>3 DEF OwnOf, PendingOf
  <2>2. dinode[ino[p]].nlink = Cardinality(NamesOf(ino[p])) + Cardinality(PendingOf(ino[p]))
    BY <1>2 DEF TreeInv, CountOf
  <2>3. dinode[ino[p]].nlink = 0 + 0
    BY <2>1, <2>2, FS_EmptySet
  <2> QED BY <1>2, <2>3
<1>6. PendingBy(p, ino[p]) = 0 /\ PendingBy(p, ino[p])' = 1
  BY <1>1 DEF PendingBy
<1> QED BY <1>1, <1>4, <1>5, <1>6, SetLinksStep

LEMMA StepLink ==
  ASSUME TreeInv, NEW p \in Procs, Inodes!Link(p)
  PROVE  TreeInv'
<1>1. /\ point[p] = "have" /\ point'[p] = "dir2" /\ point' \in [Procs -> Points] /\ Others(p)
      /\ call[p].op = "link"
      /\ Inodes!SetLinks(ino[p], ip[ino[p]].nlink + 1, Nobody)
      /\ UNCHANGED <<dir, dirlock, panic, call, ino, fresh>>
  BY Moves DEF Inodes!Link, Points
<1>2. /\ ino[p] \in Inums
      /\ dinode[ino[p]].used /\ ip[ino[p]] = dinode[ino[p]]
  BY <1>1, LockedAlone
<1>3. PointOf(p)
  BY DEF TreeInv
<1>4. PointOf(p)'
  BY <1>1, <1>2, <1>3 DEF PointOf, HasIno, Creates, Unlinks, HasDir, HasLock
<1>5. ip[ino[p]].nlink \in Nat
  BY <1>2 DEF TreeInv, TreeType, Inode
<1>6. PendingBy(p, ino[p]) = 0 /\ PendingBy(p, ino[p])' = 1
  BY <1>1 DEF PendingBy
<1> QED BY <1>1, <1>4, <1>5, <1>6, SetLinksStep

LEMMA StepDrop ==
  ASSUME TreeInv, NEW p \in Procs, Inodes!UnlinkDrop(p) \/ Inodes!LinkUndo(p)
  PROVE  TreeInv'
<1>1. /\ point[p] \in {"drop", "undo"} /\ point'[p] = "iput" /\ point' \in [Procs -> Points]
      /\ Others(p)
      /\ Inodes!SetLinks(ino[p], ip[ino[p]].nlink - 1, Nobody)
      /\ UNCHANGED <<dir, dirlock, panic, call, ino, fresh>>
  BY Moves DEF Inodes!UnlinkDrop, Inodes!LinkUndo, Points
<1>2. /\ ino[p] \in Inums
      /\ dinode[ino[p]].used /\ ip[ino[p]] = dinode[ino[p]]
  BY <1>1, LockedAlone
<1>3. PointOf(p)
  BY DEF TreeInv
<1>4. PointOf(p)'
  BY <1>1, <1>2, <1>3 DEF PointOf, HasIno, Creates, Unlinks, HasDir, HasLock
<1>5. ip[ino[p]].nlink \in Nat /\ ip[ino[p]].nlink >= 1
  <2>1. p \in PendingOf(ino[p])
    BY <1>1 DEF PendingOf
  <2> QED BY <1>2, <2>1, LinkThere
<1>6. PendingBy(p, ino[p]) = 1 /\ PendingBy(p, ino[p])' = 0
  BY <1>1 DEF PendingBy
<1>7. ip[ino[p]].nlink - 1 \in Nat
  BY <1>5
<1>8. ip[ino[p]].nlink - 1 + PendingBy(p, ino[p]) = ip[ino[p]].nlink + PendingBy(p, ino[p])'
  BY <1>5, <1>6
<1> QED BY <1>1, <1>4, <1>7, <1>8, SetLinksStep

\* A step that enters or removes the name of an inode that p has, with the directory
\* locked: what it adds to the names it takes from the links to come, or the other way.
LEMMA EntryStep ==
  ASSUME TreeInv, TreeType', NEW p \in Procs, Others(p), PointOf(p)', dirlock = p,
         NEW n \in Names, NEW x \in Inums \cup {0}, dir' = [dir EXCEPT ![n] = x],
         UNCHANGED <<dinode, ref, valid, ip, ino, fresh>>,
         point[p] \in {"enter", "have", "link"}, point'[p] \in {"open", "drop", "iput"},
         x = ino[p] \/ x = 0, dir[n] = ino[p] \/ dir[n] = 0,
         \A i \in Inums : \A q \in Procs : q # p /\ lock[i] = q => lock'[i] = q,
         (IF dir[n] = ino[p] THEN 1 ELSE 0) + PendingBy(p, ino[p])
           = (IF x = ino[p] THEN 1 ELSE 0) + PendingBy(p, ino[p])'
  PROVE  TreeInv'
<1>1. PICK i \in Inums : i = ino[p]
  BY DEF TreeInv, PointOf, HasIno
<1>2. dir \in [Names -> Inums \cup {0}] /\ ref \in [Inums -> Nat] /\ dinode \in [Inums -> Inode]
  BY DEF TreeInv, TreeType
<1>3. /\ \A m \in Names : m # n => dir'[m] = dir[m]
      /\ dir'[n] = x
  BY <1>2
<1>4. dinode[i].used
  BY <1>1 DEF TreeInv, OwnOf
<1>5. \A q \in Procs : PointOf(q)'
  <2>1. \A q \in Procs : q # p /\ dirlock = q => dirlock' = q
    OBVIOUS
  <2>2. \A j \in Inums : \A q \in RefsTo(j) : q # p /\ lock[j] = q /\ valid[j] => valid'[j]
    OBVIOUS
  <2> QED BY <2>1, <2>2, PointStep
<1>6. \A j \in Inums : j # i => NamesOf(j)' = NamesOf(j)
  BY <1>1, <1>2, <1>3, TreeParameters DEF NamesOf
<1>7. OwnOf(p)'
  BY <1>1, <1>4 DEF OwnOf
<1>8. \A q \in Procs : OwnOf(q)'
  BY <1>1, <1>6, <1>7, OwnStep
<1>9. ASSUME NEW j \in Inums PROVE CountOf(j)'
  <2>1. RefBy(p, j)' = RefBy(p, j) /\ RefBy(p, j) \in Nat
    BY DEF RefBy
  <2>2. ref[j] \in Nat /\ dinode[j].nlink \in Nat
    BY <1>2 DEF Inode
  <2>3. /\ PendingBy(p, j) \in Nat /\ PendingBy(p, j)' \in Nat /\ NameBy(n, j) \in Nat
    BY DEF PendingBy, NameBy
  <2>4. NameBy(n, j) + PendingBy(p, j)
          = (IF n \in Names /\ dir'[n] = j THEN 1 ELSE 0) + PendingBy(p, j)'
    <3>1. CASE j = i
      BY <1>1, <1>3, <3>1 DEF NameBy
    <3>2. CASE j # i
      <4>1. PendingBy(p, j) = 0 /\ PendingBy(p, j)' = 0
        BY <1>1, <3>2 DEF PendingBy
      <4>2. dir[n] # j /\ dir'[n] # j
        BY <1>1, <1>3, <3>2, TreeParameters
      <4> QED BY <4>1, <4>2 DEF NameBy
    <3> QED BY <3>1, <3>2
  <2>5. dinode'[j].nlink + NameBy(n, j) + PendingBy(p, j)
          = dinode[j].nlink + (IF n \in Names /\ dir'[n] = j THEN 1 ELSE 0) + PendingBy(p, j)'
    <3> DEFINE new == IF n \in Names /\ dir'[n] = j THEN 1 ELSE 0
    <3>1. new \in Nat /\ NameBy(n, j) + PendingBy(p, j) = new + PendingBy(p, j)'
      BY <2>4
    <3>2. dinode'[j].nlink = dinode[j].nlink
      OBVIOUS
    <3> HIDE DEF new
    <3>3. dinode'[j].nlink + NameBy(n, j) + PendingBy(p, j)
            = dinode[j].nlink + new + PendingBy(p, j)'
      BY <2>2, <2>3, <3>1, <3>2
    <3> QED BY <3>3 DEF new
  <2>6. ref'[j] \in Nat /\ ref'[j] + RefBy(p, j) = ref[j] + RefBy(p, j)'
    BY <2>1, <2>2
  <2>7. dinode'[j].used =>
          /\ dinode[j].used /\ dinode[j].nlink \in Nat /\ dinode'[j].nlink \in Nat
          /\ dinode'[j].nlink + NameBy(n, j) + PendingBy(p, j)
               = dinode[j].nlink + (IF n \in Names /\ dir'[n] = j THEN 1 ELSE 0)
                   + PendingBy(p, j)'
    BY <2>2, <2>5
  <2> QED BY <1>3, <2>6, <2>7, CountStep
<1>10. ASSUME NEW j \in Inums PROVE CopyOf(j)'
  <2>1. CopyOf(j)
    BY DEF TreeInv
  <2>2. NamesOf(j)' # {} => dinode[j].used
    BY <1>4, <1>6, <2>1 DEF CopyOf
  <2> QED BY <2>1, <2>2, CopySame DEF CopyOf
<1> QED BY <1>5, <1>8, <1>9, <1>10 DEF TreeInv

LEMMA StepCreateEnter ==
  ASSUME TreeInv, NEW p \in Procs, Inodes!CreateEnter(p)
  PROVE  TreeInv'
<1>1. /\ point[p] = "enter" /\ point'[p] = "open" /\ point' \in [Procs -> Points] /\ Others(p)
      /\ dir' = [dir EXCEPT ![call[p].name] = ino[p]] /\ dirlock' = Nobody
      /\ lock' = [lock EXCEPT ![ino[p]] = Nobody]
      /\ UNCHANGED <<dinode, ref, valid, ip, panic, call, ino, fresh>>
  BY Moves DEF Inodes!CreateEnter, Points
<1>2. PointOf(p)
  BY DEF TreeInv
<1>3. /\ ino[p] \in Inums /\ dirlock = p /\ lock[ino[p]] = p
      /\ dir[call[p].name] = 0 /\ call[p].name \in Names
  BY <1>1, <1>2, CallIs DEF PointOf, HasIno, HasDir, HasLock, Creates
<1>4. TreeType'
  BY <1>1, <1>3 DEF TreeInv, TreeType
<1>5. PointOf(p)'
  BY <1>1, <1>2 DEF PointOf, HasIno, Creates, Unlinks, HasDir, HasLock
<1>6. \A i \in Inums : \A q \in Procs : q # p /\ lock[i] = q => lock'[i] = q
  BY <1>1, <1>3 DEF TreeInv, TreeType
<1>7. PendingBy(p, ino[p]) = 1 /\ PendingBy(p, ino[p])' = 0
  BY <1>1 DEF PendingBy
<1>8. dir[call[p].name] # ino[p]
  BY <1>3, TreeParameters
<1>9. (IF dir[call[p].name] = ino[p] THEN 1 ELSE 0) + PendingBy(p, ino[p])
        = (IF ino[p] = ino[p] THEN 1 ELSE 0) + PendingBy(p, ino[p])'
  BY <1>7, <1>8
<1>10. call[p].name \in Names /\ ino[p] \in Inums \cup {0} /\ dirlock = p
  BY <1>3
<1> QED BY <1>1, <1>3, <1>4, <1>5, <1>6, <1>9, <1>10, EntryStep

LEMMA StepLinkEnter ==
  ASSUME TreeInv, NEW p \in Procs, Inodes!LinkEnter(p)
  PROVE  TreeInv'
<1>1. /\ point[p] = "link" /\ point'[p] = "iput" /\ point' \in [Procs -> Points] /\ Others(p)
      /\ dir[call[p].new] = 0
      /\ dir' = [dir EXCEPT ![call[p].new] = ino[p]] /\ dirlock' = Nobody
      /\ UNCHANGED <<dinode, ref, valid, ip, lock, panic, call, ino, fresh>>
  BY Moves DEF Inodes!LinkEnter, Inodes!tableVars, Inodes!NoIno, Points
<1>2. PointOf(p)
  BY DEF TreeInv
<1>3. ino[p] \in Inums /\ dirlock = p /\ call[p].new \in Names
  BY <1>1, <1>2, CallIs DEF PointOf, HasIno, HasDir
<1>4. TreeType'
  BY <1>1, <1>3 DEF TreeInv, TreeType
<1>5. PointOf(p)'
  BY <1>1, <1>2 DEF PointOf, HasIno, Creates, Unlinks, HasDir, HasLock
<1>6. PendingBy(p, ino[p]) = 1 /\ PendingBy(p, ino[p])' = 0
  BY <1>1 DEF PendingBy
<1>7. dir[call[p].new] # ino[p]
  BY <1>1, <1>3, TreeParameters
<1>8. (IF dir[call[p].new] = ino[p] THEN 1 ELSE 0) + PendingBy(p, ino[p])
        = (IF ino[p] = ino[p] THEN 1 ELSE 0) + PendingBy(p, ino[p])'
  BY <1>6, <1>7
<1>9. \A i \in Inums : \A q \in Procs : q # p /\ lock[i] = q => lock'[i] = q
  BY <1>1
<1>10. call[p].new \in Names /\ ino[p] \in Inums \cup {0} /\ dirlock = p
  BY <1>3
<1> QED BY <1>1, <1>4, <1>5, <1>8, <1>9, <1>10, EntryStep

LEMMA StepUnlink ==
  ASSUME TreeInv, NEW p \in Procs, Inodes!Unlink(p)
  PROVE  TreeInv'
<1>1. /\ point[p] = "have" /\ point'[p] = "drop" /\ point' \in [Procs -> Points] /\ Others(p)
      /\ call[p].op = "unlink" /\ panic' = (ip[ino[p]].nlink < 1)
      /\ dir' = [dir EXCEPT ![call[p].name] = 0] /\ dirlock' = Nobody
      /\ UNCHANGED <<dinode, ref, valid, ip, lock, call, ino, fresh>>
  BY Moves DEF Inodes!Unlink, Inodes!tableVars, Inodes!NoIno, Points
<1>2. PointOf(p)
  BY DEF TreeInv
<1>3. /\ ino[p] \in Inums /\ dirlock = p /\ lock[ino[p]] = p /\ valid[ino[p]]
      /\ dir[call[p].name] = ino[p] /\ call[p].name \in Names
  BY <1>1, <1>2, CallIs DEF PointOf, HasIno, HasDir, HasLock, Unlinks
<1>4. panic' = FALSE
  <2>1. NamesOf(ino[p]) # {}
    BY <1>3 DEF NamesOf
  <2>2. ip[ino[p]] = dinode[ino[p]] /\ dinode[ino[p]].used
    BY <1>1, LockedAlone
  <2>3. ip[ino[p]].nlink \in Nat /\ ip[ino[p]].nlink >= 1
    BY <1>3, <2>1, <2>2, LinkThere
  <2>4. ~ (ip[ino[p]].nlink < 1)
    BY <2>3
  <2>5. (ip[ino[p]].nlink < 1) = FALSE
    BY <2>4
  <2>6. panic' = (ip[ino[p]].nlink < 1)
    BY <1>1
  <2> QED BY <2>5, <2>6
<1>5. TreeType'
  BY <1>1, <1>3, <1>4 DEF TreeInv, TreeType
<1>6. PointOf(p)'
  BY <1>1, <1>2, <1>3 DEF PointOf, HasIno, Creates, Unlinks, HasDir, HasLock
<1>7. PendingBy(p, ino[p]) = 0 /\ PendingBy(p, ino[p])' = 1
  BY <1>1 DEF PendingBy
<1>8. ino[p] # 0
  BY <1>3, TreeParameters
<1>9. (IF dir[call[p].name] = ino[p] THEN 1 ELSE 0) + PendingBy(p, ino[p])
        = (IF 0 = ino[p] THEN 1 ELSE 0) + PendingBy(p, ino[p])'
  BY <1>3, <1>7, <1>8
<1>10. \A i \in Inums : \A q \in Procs : q # p /\ lock[i] = q => lock'[i] = q
  BY <1>1
<1>11. /\ call[p].name \in Names /\ 0 \in Inums \cup {0} /\ dirlock = p
       /\ dir[call[p].name] = ino[p] \/ dir[call[p].name] = 0
  BY <1>3
<1> QED BY <1>1, <1>5, <1>6, <1>9, <1>10, <1>11, EntryStep

\* Whoever has a reference is counted.
LEMMA RefThere ==
  ASSUME TreeInv, NEW i \in Inums, NEW q \in RefsTo(i)
  PROVE  /\ ref[i] \in Nat /\ ref[i] >= 1
         /\ \A p \in RefsTo(i) : p # q => ref[i] >= 2
<1>1. IsFiniteSet(RefsTo(i)) /\ ref[i] = Cardinality(RefsTo(i))
  BY DEF TreeInv, CountOf
<1>2. ref[i] \in Nat /\ ref[i] # 0
  BY <1>1, FS_CardinalityType, FS_EmptySet
<1>3. ASSUME NEW p \in RefsTo(i), p # q PROVE ref[i] >= 2
  <2>1. IsFiniteSet(RefsTo(i) \ {q}) /\ Cardinality(RefsTo(i) \ {q}) = ref[i] - 1
    BY <1>1, FS_RemoveElement
  <2>2. RefsTo(i) \ {q} # {}
    BY <1>3
  <2>3. Cardinality(RefsTo(i) \ {q}) # 0
    BY <2>1, <2>2, FS_EmptySet
  <2> QED BY <1>2, <2>1, <2>3
<1> QED BY <1>2, <1>3

\* A step by which p gets a reference to an inode: one it has allocated, or one with a
\* name.
LEMMA IgetStep ==
  ASSUME TreeInv, NEW p \in Procs, Others(p), NEW i \in Inums, Inodes!Iget(i),
         point[p] \in {"iget", "look"}, point'[p] = "ilock", point' \in [Procs -> Points],
         ino' \in [Procs -> Inums \cup {0}], ino'[p] = i,
         \/ ino[p] = i /\ point[p] = "iget"
         \/ ino[p] \notin Inums /\ NamesOf(i) # {},
         dirlock' \in {dirlock, Nobody}, dirlock' = dirlock \/ dirlock = p,
         UNCHANGED <<dinode, dir, panic, call, fresh>>,
         PointOf(p)', OwnOf(p)'
  PROVE  TreeInv'
<1>1. /\ ref' = [ref EXCEPT ![i] = @ + 1]
      /\ valid' = [valid EXCEPT ![i] = @ /\ ref[i] > 0]
      /\ UNCHANGED <<ip, lock>>
  BY DEF Inodes!Iget
<1>2. ref \in [Inums -> Nat] /\ valid \in [Inums -> BOOLEAN]
  BY DEF TreeInv, TreeType
<1>3. /\ ref' \in [Inums -> Nat] /\ ref'[i] = ref[i] + 1
      /\ \A j \in Inums : j # i => ref'[j] = ref[j]
  BY <1>1, <1>2
<1>4. /\ valid' \in [Inums -> BOOLEAN] /\ (valid'[i] <=> valid[i] /\ ref[i] > 0)
      /\ \A j \in Inums : j # i => valid'[j] = valid[j]
  BY <1>1, <1>2
<1>5. TreeType'
  BY <1>1, <1>3, <1>4 DEF TreeInv, TreeType
<1>6. \A q \in Procs : PointOf(q)'
  <2>1. \A j \in Inums : \A q \in RefsTo(j) : q # p /\ lock[j] = q /\ valid[j] => valid'[j]
    <3>1. \A q \in RefsTo(i) : ref[i] > 0
      BY <1>2, RefThere
    <3> QED BY <1>4, <3>1
  <2> QED BY <1>1, <1>5, <2>1, PointStep, TreeParameters
<1>7. \A j \in Inums : NamesOf(j)' = NamesOf(j)
  BY DEF NamesOf
<1>8. \A q \in Procs : OwnOf(q)'
  BY <1>7, OwnStep
<1>9. ASSUME NEW j \in Inums PROVE CountOf(j)'
  <2>1. PendingBy(p, j) = 0 /\ PendingBy(p, j)' = 0
    BY DEF PendingBy
  <2>2. ref[j] \in Nat /\ dinode[j].nlink \in Nat
    BY <1>2 DEF TreeInv, TreeType, Inode
  <2>3. ref'[j] \in Nat /\ ref'[j] + RefBy(p, j) = ref[j] + RefBy(p, j)'
    <3>1. CASE j = i
      <4>1. RefBy(p, i) = 0 /\ RefBy(p, i)' = 1
        BY DEF RefBy
      <4> QED BY <1>3, <2>2, <3>1, <4>1
    <3>2. CASE j # i
      <4>1. RefBy(p, j) = 0 /\ RefBy(p, j)' = 0
        BY <3>2 DEF RefBy
      <4> QED BY <1>3, <2>2, <3>2, <4>1
    <3> QED BY <3>1, <3>2
  <2>4. /\ NameBy(0, j) \in Nat
        /\ NameBy(0, j) = IF 0 \in Names /\ dir'[0] = j THEN 1 ELSE 0
    BY DEF NameBy
  <2>5. dinode'[j].used =>
          /\ dinode[j].used /\ dinode[j].nlink \in Nat /\ dinode'[j].nlink \in Nat
          /\ dinode'[j].nlink + NameBy(0, j) + PendingBy(p, j)
               = dinode[j].nlink + (IF 0 \in Names /\ dir'[0] = j THEN 1 ELSE 0)
                   + PendingBy(p, j)'
    BY <2>1, <2>2, <2>4
  <2> QED BY <2>3, <2>5, CountStep
<1>10. ASSUME NEW j \in Inums PROVE CopyOf(j)'
  <2>1. CopyOf(j) /\ ref[j] \in Nat
    BY <1>2 DEF TreeInv
  <2>2. valid'[j] => valid[j]
    BY <1>4
  <2>3. ref'[j] = 0 => ~ valid'[j]
    BY <1>2, <1>3, <1>4, <2>1 DEF CopyOf
  <2> QED BY <1>1, <1>7, <2>1, <2>2, <2>3, CopySame DEF CopyOf
<1> QED BY <1>5, <1>6, <1>8, <1>9, <1>10 DEF TreeInv

LEMMA StepIallocReturn ==
  ASSUME TreeInv, NEW p \in Procs, Inodes!IallocReturn(p)
  PROVE  TreeInv'
<1>1. /\ point[p] = "iget" /\ point'[p] = "ilock" /\ point' \in [Procs -> Points] /\ Others(p)
      /\ Inodes!Iget(ino[p])
      /\ UNCHANGED <<dinode, dir, dirlock, panic, call, ino, fresh>>
  BY Moves DEF Inodes!IallocReturn, Points
<1>2. PointOf(p) /\ OwnOf(p) /\ ino \in [Procs -> Inums \cup {0}]
  BY DEF TreeInv, TreeType
<1>3. ino[p] \in Inums
  BY <1>1, <1>2 DEF PointOf, HasIno
<1>4. PointOf(p)'
  BY <1>1, <1>2 DEF PointOf, HasIno, Creates, Unlinks, HasDir, HasLock
<1>5. OwnOf(p)'
  <2>1. NamesOf(ino[p])' = NamesOf(ino[p])
    BY <1>1 DEF NamesOf
  <2>2. \A q \in Procs : q # p => ino'[q] = ino[q] /\ point'[q] = point[q]
    BY <1>1 DEF Others
  <2>3. fresh[p]
    BY <1>1, <1>2 DEF PointOf
  <2> QED BY <1>1, <1>2, <1>3, <2>1, <2>2, <2>3 DEF OwnOf
<1> QED BY <1>1, <1>2, <1>3, <1>4, <1>5, IgetStep

LEMMA StepLookFound ==
  ASSUME TreeInv, NEW p \in Procs, Inodes!LookFound(p)
  PROVE  TreeInv'
<1> DEFINE i == dir[call[p].name]
<1>1. /\ point[p] = "look" /\ point'[p] = "ilock" /\ point' \in [Procs -> Points]
      /\ i # 0 /\ Inodes!Iget(i) /\ ino' = [ino EXCEPT ![p] = i]
      /\ dirlock' = IF call[p].op = "unlink" THEN p ELSE Nobody
      /\ UNCHANGED <<dinode, dir, panic, call, fresh>>
  BY Moves DEF Inodes!LookFound, Inodes!Found, Inodes!NoIno, Points
<1>2. PointOf(p) /\ OwnOf(p) /\ ino \in [Procs -> Inums \cup {0}]
      /\ dir \in [Names -> Inums \cup {0}]
  BY DEF TreeInv, TreeType
<1>3. /\ ino[p] \notin Inums /\ ~ fresh[p] /\ dirlock = p /\ call[p] \in Inodes!Calls
  BY <1>1, <1>2 DEF PointOf, HasIno, HasDir
<1>4. call[p].name \in Names /\ i \in Inums
  BY <1>1, <1>2, <1>3, CallIs
<1>5. call[p].name \in NamesOf(i)
  BY <1>4 DEF NamesOf
<1> HIDE DEF i
<1>6. Others(p) /\ ino' \in [Procs -> Inums \cup {0}] /\ ino'[p] = i
  <2>1. point' = [point EXCEPT ![p] = "ilock"]
    BY DEF Inodes!LookFound, Inodes!Goto
  <2> QED BY <1>1, <1>2, <1>4, <2>1 DEF Others, TreeInv, TreeType
<1>7. PointOf(p)'
  BY <1>1, <1>2, <1>3, <1>4, <1>6
     DEF PointOf, HasIno, Creates, Unlinks, HasDir, HasLock, i
<1>8. OwnOf(p)'
  <2>1. dinode[i].used
    BY <1>4, <1>5 DEF TreeInv, CopyOf
  <2> QED BY <1>1, <1>3, <1>6, <2>1 DEF OwnOf
<1>9. dirlock' \in {dirlock, Nobody}
  BY <1>1, <1>3
<1> QED BY <1>1, <1>3, <1>4, <1>5, <1>6, <1>7, <1>8, <1>9, IgetStep

\* iput() gives a reference up, and the copy of the inode with the last one.
LEMMA StepPutRef ==
  ASSUME TreeInv, NEW p \in Procs, Inodes!Iput(p) \/ Inodes!IputReturn(p)
  PROVE  TreeInv'
<1>1. /\ point[p] \in {"iput", "put"} /\ point'[p] = "idle" /\ point' \in [Procs -> Points]
      /\ Inodes!PutRef(p) /\ UNCHANGED <<dinode, dir, dirlock, lock, panic>>
  BY Moves DEF Inodes!Iput, Inodes!IputReturn, Points
<1>2. /\ Others(p) /\ ino'[p] = 0 /\ fresh'[p] = FALSE
      /\ ino' \in [Procs -> Inums \cup {0}] /\ fresh' \in [Procs -> BOOLEAN]
      /\ call' \in [Procs -> Inodes!Calls \cup {Inodes!NoCall}]
  BY <1>1, Moves DEF Inodes!Iput, Inodes!IputReturn, Inodes!PutRef, Points
<1>3. PICK i \in Inums : i = ino[p]
  BY <1>1 DEF TreeInv, PointOf, HasIno
<1>4. /\ ref' = [ref EXCEPT ![i] = @ - 1]
      /\ valid' = [valid EXCEPT ![i] = @ /\ ref[i] > 1]
      /\ ip' = [ip EXCEPT ![i] = IF ref[i] > 1 THEN @ ELSE Inodes!Free]
  BY <1>1, <1>3 DEF Inodes!PutRef
<1>5. /\ ref \in [Inums -> Nat] /\ valid \in [Inums -> BOOLEAN] /\ ip \in [Inums -> Inode]
      /\ p \in RefsTo(i)
  BY <1>1, <1>3 DEF TreeInv, TreeType, RefsTo
<1>6. ref[i] \in Nat /\ ref[i] >= 1 /\ \A q \in RefsTo(i) : q # p => ref[i] >= 2
  BY <1>5, RefThere
<1>7. /\ ref' \in [Inums -> Nat] /\ ref'[i] = ref[i] - 1
      /\ \A j \in Inums : j # i => ref'[j] = ref[j]
  BY <1>4, <1>5, <1>6
<1>8. /\ valid' \in [Inums -> BOOLEAN] /\ (valid'[i] <=> valid[i] /\ ref[i] > 1)
      /\ \A j \in Inums : j # i => valid'[j] = valid[j]
  BY <1>4, <1>5
<1>9. /\ ip' \in [Inums -> Inode] /\ (ref[i] > 1 => ip'[i] = ip[i])
      /\ \A j \in Inums : j # i => ip'[j] = ip[j]
  BY <1>4, <1>5 DEF Inode, Inodes!Free
<1>10. TreeType'
  BY <1>1, <1>2, <1>7, <1>8, <1>9 DEF TreeInv, TreeType
<1>11. PointOf(p)' /\ OwnOf(p)'
  BY <1>1, <1>2, TreeParameters DEF PointOf, OwnOf, HasIno, Creates, Unlinks, HasDir, HasLock
<1>12. \A q \in Procs : PointOf(q)'
  <2>1. \A j \in Inums : \A q \in RefsTo(j) : q # p /\ lock[j] = q /\ valid[j] => valid'[j]
    <3>1. \A q \in RefsTo(i) : q # p => ref[i] > 1
      BY <1>6
    <3> QED BY <1>8, <3>1
  <2> QED BY <1>1, <1>2, <1>10, <1>11, <2>1, PointStep
<1>13. \A j \in Inums : NamesOf(j)' = NamesOf(j)
  BY <1>1 DEF NamesOf
<1>14. \A q \in Procs : OwnOf(q)'
  BY <1>1, <1>2, <1>11, <1>13, OwnStep, TreeParameters
<1>15. ASSUME NEW j \in Inums PROVE CountOf(j)'
  <2>1. PendingBy(p, j) = 0 /\ PendingBy(p, j)' = 0
    BY <1>1 DEF PendingBy
  <2>2. ref[j] \in Nat /\ dinode[j].nlink \in Nat
    BY <1>5 DEF TreeInv, TreeType, Inode
  <2>3. ref'[j] \in Nat /\ ref'[j] + RefBy(p, j) = ref[j] + RefBy(p, j)'
    <3>1. RefBy(p, j)' = 0
      BY <1>2, TreeParameters DEF RefBy
    <3>2. CASE j = i
      <4>1. RefBy(p, i) = 1
        BY <1>1, <1>3 DEF RefBy
      <4> QED BY <1>6, <1>7, <3>1, <3>2, <4>1
    <3>3. CASE j # i
      <4>1. RefBy(p, j) = 0
        BY <1>3, <3>3 DEF RefBy
      <4> QED BY <1>7, <2>2, <3>1, <3>3, <4>1
    <3> QED BY <3>2, <3>3
  <2>4. /\ NameBy(0, j) \in Nat
        /\ NameBy(0, j) = IF 0 \in Names /\ dir'[0] = j THEN 1 ELSE 0
    BY <1>1 DEF NameBy
  <2>5. dinode'[j].used =>
          /\ dinode[j].used /\ dinode[j].nlink \in Nat /\ dinode'[j].nlink \in Nat
          /\ dinode'[j].nlink + NameBy(0, j) + PendingBy(p, j)
               = dinode[j].nlink + (IF 0 \in Names /\ dir'[0] = j THEN 1 ELSE 0)
                   + PendingBy(p, j)'
    BY <1>1, <2>1, <2>2, <2>4
  <2> QED BY <1>1, <1>2, <2>3, <2>5, CountStep
<1>16. ASSUME NEW j \in Inums PROVE CopyOf(j)'
  <2>1. CopyOf(j) /\ ref[j] \in Nat
    BY <1>5 DEF TreeInv
  <2>2. CASE j = i /\ ref[i] = 1
    BY <1>1, <1>8, <1>13, <2>1, <2>2 DEF CopyOf
  <2>3. CASE j # i \/ ref[i] # 1
    <3>1. ip'[j] = ip[j] /\ (valid'[j] => valid[j])
      BY <1>6, <1>8, <1>9, <2>3
    <3>2. ref'[j] = 0 => ~ valid'[j]
      BY <1>6, <1>7, <1>8, <2>1, <2>3 DEF CopyOf
    <3> QED BY <1>1, <1>2, <1>13, <2>1, <3>1, <3>2, CopySame DEF CopyOf
  <2> QED BY <2>2, <2>3
<1> QED BY <1>10, <1>12, <1>14, <1>15, <1>16 DEF TreeInv

\* ilock() of an inode finds it allocated, and has its copy in memory.
LEMMA StepIlock ==
  ASSUME TreeInv, NEW p \in Procs, Inodes!Ilock(p)
  PROVE  TreeInv'
<1>1. /\ \/ point[p] = "ilock" /\ point'[p] = "have"
         \/ point[p] = "bad" /\ point'[p] = "undo"
      /\ point' \in [Procs -> Points] /\ Others(p)
      /\ UNCHANGED <<dinode, dir, dirlock, ref, call, ino, fresh>>
  BY Moves DEF Inodes!Ilock, Points
<1>2. PICK i \in Inums : i = ino[p]
  BY <1>1 DEF TreeInv, PointOf, HasIno
<1>3. /\ lock[i] = Nobody /\ lock' = [lock EXCEPT ![i] = p]
      /\ ip' = [ip EXCEPT ![i] = IF valid[i] THEN @ ELSE dinode[i]]
      /\ valid' = [valid EXCEPT ![i] = TRUE]
      /\ panic' = (~valid[i] /\ ~dinode[i].used)
  BY <1>2 DEF Inodes!Ilock
<1>4. PointOf(p) /\ OwnOf(p)
  BY DEF TreeInv
<1>5. dinode[i].used
  BY <1>1, <1>2, <1>4 DEF OwnOf
<1>6. panic' = FALSE
  <2>1. (~valid[i] /\ ~dinode[i].used) = FALSE
    BY <1>5
  <2> QED BY <1>3, <2>1
<1>7. /\ dinode \in [Inums -> Inode] /\ ip \in [Inums -> Inode]
      /\ lock \in [Inums -> Procs \cup {Nobody}] /\ valid \in [Inums -> BOOLEAN]
  BY DEF TreeInv, TreeType
<1>8. /\ ip' \in [Inums -> Inode] /\ ip'[i] = IF valid[i] THEN ip[i] ELSE dinode[i]
      /\ \A j \in Inums : j # i => ip'[j] = ip[j]
  BY <1>3, <1>7
<1>9. /\ valid' \in [Inums -> BOOLEAN] /\ valid'[i]
      /\ \A j \in Inums : j # i => valid'[j] = valid[j]
      /\ lock' \in [Inums -> Procs \cup {Nobody}] /\ lock'[i] = p
      /\ \A j \in Inums : j # i => lock'[j] = lock[j]
  BY <1>3, <1>7
<1>10. TreeType'
  BY <1>1, <1>6, <1>8, <1>9 DEF TreeInv, TreeType
<1>11. PointOf(p)'
  BY <1>1, <1>2, <1>4, <1>9 DEF PointOf, HasIno, Creates, Unlinks, HasDir, HasLock
<1>12. \A j \in Inums : NamesOf(j)' = NamesOf(j)
  BY <1>1 DEF NamesOf
<1>13. OwnOf(p)'
  <2>1. \A q \in Procs : q # p => ino'[q] = ino[q] /\ point'[q] = point[q]
    BY <1>1 DEF Others
  <2>2. NamesOf(ino[p])' = NamesOf(ino[p])
    BY <1>1 DEF NamesOf
  <2> QED BY <1>1, <1>2, <1>4, <2>1, <2>2 DEF OwnOf
<1>14. \A q \in Procs : PointOf(q)'
  <2>1. \A j \in Inums : \A q \in Procs : q # p /\ lock[j] = q => lock'[j] = q
    BY <1>3, <1>9, TreeParameters
  <2>2. \A j \in Inums : \A q \in RefsTo(j) : q # p /\ lock[j] = q /\ valid[j] => valid'[j]
    BY <1>9
  <2> QED BY <1>1, <1>10, <1>11, <2>1, <2>2, PointStep
<1>15. \A q \in Procs : OwnOf(q)'
  BY <1>1, <1>12, <1>13, OwnStep
<1>16. ASSUME NEW j \in Inums PROVE CountOf(j)'
  <2>1. /\ PendingBy(p, j)' = PendingBy(p, j) /\ PendingBy(p, j) \in Nat
        /\ RefBy(p, j)' = RefBy(p, j) /\ RefBy(p, j) \in Nat
    BY <1>1 DEF PendingBy, RefBy
  <2>2. ref[j] \in Nat /\ dinode[j].nlink \in Nat
    BY DEF TreeInv, TreeType, Inode
  <2>3. /\ NameBy(0, j) \in Nat
        /\ NameBy(0, j) = IF 0 \in Names /\ dir'[0] = j THEN 1 ELSE 0
    BY <1>1 DEF NameBy
  <2>4. dinode'[j].used =>
          /\ dinode[j].used /\ dinode[j].nlink \in Nat /\ dinode'[j].nlink \in Nat
          /\ dinode'[j].nlink + NameBy(0, j) + PendingBy(p, j)
               = dinode[j].nlink + (IF 0 \in Names /\ dir'[0] = j THEN 1 ELSE 0)
                   + PendingBy(p, j)'
    BY <1>1, <2>1, <2>2, <2>3
  <2> QED BY <1>1, <2>1, <2>2, <2>4, CountStep
<1>17. ASSUME NEW j \in Inums PROVE CopyOf(j)'
  <2>1. CopyOf(j)
    BY DEF TreeInv
  <2>2. CASE j = i
    <3>1. ref'[i] # 0
      <4>1. p \in RefsTo(i)
        BY <1>1, <1>2 DEF RefsTo
      <4>2. ref[i] \in Nat /\ ref[i] >= 1
        BY <4>1, RefThere
      <4> QED BY <1>1, <4>2
    <3>2. (\A q \in Procs : ino'[q] = i => point'[q] # "invalid")
            => \A q \in Procs : ino[q] = i => point[q] # "invalid"
      BY <1>1 DEF Others
    <3>3. (\A q \in Procs : ino'[q] = i => point'[q] # "invalid") => ip'[i] = dinode'[i]
      BY <1>1, <1>8, <2>1, <2>2, <3>2 DEF CopyOf
    <3> QED BY <1>1, <1>5, <1>12, <2>2, <3>1, <3>3 DEF CopyOf
  <2>3. CASE j # i
    BY <1>1, <1>2, <1>8, <1>9, <1>12, <2>1, <2>3, CopySame DEF CopyOf
  <2> QED BY <2>2, <2>3
<1> QED BY <1>10, <1>14, <1>15, <1>16, <1>17 DEF TreeInv

\* ialloc() takes an inode that nobody uses: those that still have it have freed it.
LEMMA StepIalloc ==
  ASSUME TreeInv, NEW p \in Procs, Inodes!Ialloc(p)
  PROVE  TreeInv'
<1>1. /\ point[p] = "ialloc" /\ point'[p] = "iget" /\ point' \in [Procs -> Points]
      /\ UNCHANGED <<dir, dirlock, ref, valid, ip, lock, panic, call>>
  BY Moves DEF Inodes!Ialloc, Inodes!tableVars, Points
<1>2. PICK i \in Inums :
        /\ ~ dinode[i].used
        /\ dinode' = [dinode EXCEPT ![i] = [used |-> TRUE, nlink |-> 0]]
        /\ ino' = [ino EXCEPT ![p] = i]
  BY DEF Inodes!Ialloc
<1>3. /\ dinode \in [Inums -> Inode] /\ ino \in [Procs -> Inums \cup {0}]
      /\ fresh \in [Procs -> BOOLEAN] /\ ref \in [Inums -> Nat]
  BY DEF TreeInv, TreeType
<1>4. /\ fresh' = [fresh EXCEPT ![p] = TRUE] /\ point' = [point EXCEPT ![p] = "iget"]
  BY DEF Inodes!Ialloc, Inodes!Goto
<1>5. /\ Others(p) /\ ino'[p] = i /\ fresh'[p] /\ ino' \in [Procs -> Inums \cup {0}]
      /\ fresh' \in [Procs -> BOOLEAN]
  BY <1>1, <1>2, <1>3, <1>4 DEF Others, TreeInv, TreeType
<1>6. /\ dinode' \in [Inums -> Inode] /\ dinode'[i].used /\ dinode'[i].nlink = 0
      /\ \A j \in Inums : j # i => dinode'[j] = dinode[j]
  BY <1>2, <1>3 DEF Inode
<1>7. TreeType'
  BY <1>1, <1>5, <1>6 DEF TreeInv, TreeType
<1>8. PointOf(p) /\ ino[p] \notin Inums
  BY <1>1 DEF TreeInv, PointOf, HasIno
<1>9. PointOf(p)'
  BY <1>1, <1>5, <1>8 DEF PointOf, HasIno, Creates, Unlinks, HasDir, HasLock
<1>10. \A j \in Inums : NamesOf(j)' = NamesOf(j)
  BY <1>1 DEF NamesOf
<1>11. NamesOf(i) = {} /\ \A q \in Procs : ino[q] = i => point[q] \in {"invalid", "put"}
  <2>1. NamesOf(i) = {}
    BY <1>2 DEF TreeInv, CopyOf
  <2>2. ASSUME NEW q \in Procs, ino[q] = i PROVE point[q] \in {"invalid", "put"}
    BY <1>2, <2>2 DEF TreeInv, OwnOf
  <2> QED BY <2>1, <2>2
<1>12. OwnOf(p)'
  <2>1. \A q \in Procs : q # p => ino'[q] = ino[q] /\ point'[q] = point[q]
    BY <1>5 DEF Others
  <2>2. NamesOf(ino[p])' = {}
    <3>1. \A n \in Names : dir'[n] # ino'[p]
      BY <1>1, <1>5, <1>11 DEF NamesOf
    <3> QED BY <3>1 DEF NamesOf
  <2> QED BY <1>1, <1>5, <1>6, <1>11, <2>1, <2>2 DEF OwnOf
<1>13. \A q \in Procs : PointOf(q)'
  BY <1>1, <1>5, <1>7, <1>9, PointStep
<1>14. \A q \in Procs : OwnOf(q)'
  BY <1>2, <1>5, <1>6, <1>10, <1>12, OwnStep
<1>15. ASSUME NEW j \in Inums PROVE CountOf(j)'
  <2>1. /\ RefBy(p, j) = 0 /\ RefBy(p, j)' = 0 /\ PendingBy(p, j) = 0 /\ PendingBy(p, j)' = 0
    BY <1>1, <1>8 DEF RefBy, PendingBy
  <2>2. ref[j] \in Nat /\ dinode[j].nlink \in Nat
    BY <1>3 DEF Inode
  <2>3. CASE j = i
    <3>1. /\ IsFiniteSet(NamesOf(i)') /\ IsFiniteSet(RefsTo(i)') /\ IsFiniteSet(PendingOf(i)')
          /\ Cardinality(RefsTo(i)) \in Nat /\ Cardinality(RefsTo(i)') \in Nat
          /\ Cardinality(RefsTo(i)') + RefBy(p, i) = Cardinality(RefsTo(i)) + RefBy(p, i)'
      BY <1>1, <1>5, Counted
    <3>2. ref'[i] = Cardinality(RefsTo(i)')
      <4>1. ref[i] = Cardinality(RefsTo(i))
        BY DEF TreeInv, CountOf
      <4> QED BY <1>1, <2>1, <2>3, <3>1, <4>1
    <3>3. NamesOf(i)' = {} /\ PendingOf(i)' = {}
      <4>1. \A q \in Procs : q # p => ino'[q] = ino[q] /\ point'[q] = point[q]
        BY <1>5 DEF Others
      <4>2. \A q \in Procs :
              ~ (ino'[q] = i /\ point'[q] \in {"enter", "dir2", "link", "bad", "undo", "drop"})
        BY <1>1, <1>11, <4>1
      <4> QED BY <1>10, <1>11, <4>2 DEF PendingOf
    <3>4. Cardinality(NamesOf(i)') = 0 /\ Cardinality(PendingOf(i)') = 0
      BY <3>3, FS_EmptySet
    <3>5. dinode'[i].nlink = Cardinality(NamesOf(i)') + Cardinality(PendingOf(i)')
      BY <1>6, <3>4
    <3> QED BY <2>3, <3>1, <3>2, <3>5 DEF CountOf
  <2>4. CASE j # i
    <3>1. /\ NameBy(0, j) \in Nat
          /\ NameBy(0, j) = IF 0 \in Names /\ dir'[0] = j THEN 1 ELSE 0
      BY <1>1 DEF NameBy
    <3>2. dinode'[j].used =>
            /\ dinode[j].used /\ dinode[j].nlink \in Nat /\ dinode'[j].nlink \in Nat
            /\ dinode'[j].nlink + NameBy(0, j) + PendingBy(p, j)
                 = dinode[j].nlink + (IF 0 \in Names /\ dir'[0] = j THEN 1 ELSE 0)
                     + PendingBy(p, j)'
      BY <1>6, <2>1, <2>2, <2>4, <3>1
    <3>3. ref'[j] \in Nat /\ ref'[j] + RefBy(p, j) = ref[j] + RefBy(p, j)'
      BY <1>1, <2>1, <2>2
    <3> QED BY <1>1, <1>5, <3>2, <3>3, CountStep
  <2> QED BY <2>3, <2>4
<1>16. ASSUME NEW j \in Inums PROVE CopyOf(j)'
  <2>1. CopyOf(j)
    BY DEF TreeInv
  <2>2. (\A q \in Procs : ino'[q] = j => point'[q] # "invalid")
          => \A q \in Procs : ino[q] = j => point[q] # "invalid"
    BY <1>1, <1>5 DEF Others
  <2>3. CASE j = i
    BY <1>1, <1>2, <1>10, <1>11, <2>1, <2>2, <2>3 DEF CopyOf
  <2>4. CASE j # i
    BY <1>1, <1>6, <1>10, <2>1, <2>2, <2>4 DEF CopyOf
  <2> QED BY <2>3, <2>4
<1> QED BY <1>7, <1>13, <1>14, <1>15, <1>16 DEF TreeInv

\* iput() has an inode without links to itself, and frees it.
LEMMA StepIputFree ==
  ASSUME TreeInv, NEW p \in Procs, Inodes!IputFree(p)
  PROVE  TreeInv'
<1>1. /\ point[p] = "free" /\ point'[p] = "invalid" /\ point' \in [Procs -> Points] /\ Others(p)
      /\ UNCHANGED <<dir, dirlock, ref, valid, lock, panic, call, ino, fresh>>
  BY Moves DEF Inodes!IputFree, Points
<1>2. PICK i \in Inums : i = ino[p]
  BY <1>1 DEF TreeInv, PointOf, HasIno
<1>3. /\ ip' = [ip EXCEPT ![i].used = FALSE] /\ dinode' = [dinode EXCEPT ![i] = ip'[i]]
  BY <1>2 DEF Inodes!IputFree
<1>4. dinode \in [Inums -> Inode] /\ ip \in [Inums -> Inode] /\ ref \in [Inums -> Nat]
  BY DEF TreeInv, TreeType
<1>5. /\ ip' \in [Inums -> Inode] /\ dinode' \in [Inums -> Inode] /\ ~ dinode'[i].used
      /\ \A j \in Inums : j # i => dinode'[j] = dinode[j] /\ ip'[j] = ip[j]
  BY <1>3, <1>4 DEF Inode
<1>6. TreeType'
  BY <1>1, <1>5 DEF TreeInv, TreeType
<1>7. PointOf(p) /\ OwnOf(p)
  BY DEF TreeInv
<1>8. PointOf(p)' /\ OwnOf(p)'
  BY <1>1, <1>7 DEF PointOf, OwnOf, HasIno, Creates, Unlinks, HasDir, HasLock
<1>9. \A j \in Inums : NamesOf(j)' = NamesOf(j)
  BY <1>1 DEF NamesOf
<1>10. \A q \in Procs : PointOf(q)'
  BY <1>1, <1>6, <1>8, PointStep
<1>11. \A q \in Procs : OwnOf(q)'
  BY <1>1, <1>2, <1>5, <1>8, <1>9, OwnStep
<1>12. ASSUME NEW j \in Inums PROVE CountOf(j)'
  <2>1. RefBy(p, j)' = RefBy(p, j) /\ RefBy(p, j) \in Nat
    BY <1>1 DEF RefBy
  <2>2. ref[j] \in Nat /\ dinode[j].nlink \in Nat
    BY <1>4 DEF Inode
  <2>3. /\ NameBy(0, j) \in Nat
        /\ NameBy(0, j) = IF 0 \in Names /\ dir'[0] = j THEN 1 ELSE 0
    BY <1>1 DEF NameBy
  <2>4. PendingBy(p, j) = 0 /\ PendingBy(p, j)' = 0
    BY <1>1 DEF PendingBy
  <2>5. dinode'[j].used =>
          /\ dinode[j].used /\ dinode[j].nlink \in Nat /\ dinode'[j].nlink \in Nat
          /\ dinode'[j].nlink + NameBy(0, j) + PendingBy(p, j)
               = dinode[j].nlink + (IF 0 \in Names /\ dir'[0] = j THEN 1 ELSE 0)
                   + PendingBy(p, j)'
    BY <1>5, <2>2, <2>3, <2>4
  <2> QED BY <1>1, <2>1, <2>2, <2>5, CountStep
<1>13. ASSUME NEW j \in Inums PROVE CopyOf(j)'
  <2>1. CopyOf(j)
    BY DEF TreeInv
  <2>2. CASE j = i
    <3>1. NamesOf(i) = {}
      BY <1>1, <1>2, <1>7 DEF OwnOf
    <3>2. ino'[p] = i /\ point'[p] = "invalid"
      BY <1>1, <1>2
    <3> QED BY <1>1, <1>9, <2>1, <2>2, <3>1, <3>2 DEF CopyOf
  <2>3. CASE j # i
    BY <1>1, <1>2, <1>5, <1>9, <2>1, <2>3, CopySame DEF CopyOf
  <2> QED BY <2>2, <2>3
<1> QED BY <1>6, <1>10, <1>11, <1>12, <1>13 DEF TreeInv

LEMMA StepIputInvalid ==
  ASSUME TreeInv, NEW p \in Procs, Inodes!IputInvalid(p)
  PROVE  TreeInv'
<1>1. /\ point[p] = "invalid" /\ point'[p] = "put" /\ point' \in [Procs -> Points] /\ Others(p)
      /\ UNCHANGED <<dinode, dir, dirlock, ref, ip, panic, call, ino, fresh>>
  BY Moves DEF Inodes!IputInvalid, Points
<1>2. PICK i \in Inums : i = ino[p]
  BY <1>1 DEF TreeInv, PointOf, HasIno
<1>3. valid' = [valid EXCEPT ![i] = FALSE] /\ lock' = [lock EXCEPT ![i] = Nobody]
  BY <1>2 DEF Inodes!IputInvalid
<1>4. /\ valid \in [Inums -> BOOLEAN] /\ lock \in [Inums -> Procs \cup {Nobody}]
      /\ PointOf(p) /\ OwnOf(p)
  BY DEF TreeInv, TreeType
<1>5. /\ valid' \in [Inums -> BOOLEAN] /\ ~ valid'[i]
      /\ lock' \in [Inums -> Procs \cup {Nobody}]
      /\ \A j \in Inums : j # i => valid'[j] = valid[j] /\ lock'[j] = lock[j]
  BY <1>3, <1>4
<1>6. TreeType'
  BY <1>1, <1>5 DEF TreeInv, TreeType
<1>7. PointOf(p)' /\ OwnOf(p)'
  BY <1>1, <1>4 DEF PointOf, OwnOf, HasIno, Creates, Unlinks, HasDir, HasLock
<1>8. \A j \in Inums : \A q \in Procs : q # p /\ lock[j] = q => lock'[j] = q /\ valid'[j] = valid[j]
  <2>1. lock[i] = p
    BY <1>1, <1>2, <1>4 DEF PointOf, HasLock
  <2> QED BY <1>5, <2>1
<1>9. \A j \in Inums : NamesOf(j)' = NamesOf(j)
  BY <1>1 DEF NamesOf
<1>10. \A q \in Procs : PointOf(q)'
  <2>1. \A j \in Inums : \A q \in Procs : q # p /\ lock[j] = q => lock'[j] = q
    BY <1>8
  <2>2. \A j \in Inums : \A q \in RefsTo(j) : q # p /\ lock[j] = q /\ valid[j] => valid'[j]
    BY <1>8 DEF RefsTo
  <2> QED BY <1>1, <1>6, <1>7, <2>1, <2>2, PointStep
<1>11. \A q \in Procs : OwnOf(q)'
  BY <1>1, <1>7, <1>9, OwnStep
<1>12. ASSUME NEW j \in Inums PROVE CountOf(j)'
  <2>1. RefBy(p, j)' = RefBy(p, j) /\ RefBy(p, j) \in Nat
    BY <1>1 DEF RefBy
  <2>2. ref[j] \in Nat /\ dinode[j].nlink \in Nat
    BY DEF TreeInv, TreeType, Inode
  <2>3. /\ NameBy(0, j) \in Nat
        /\ NameBy(0, j) = IF 0 \in Names /\ dir'[0] = j THEN 1 ELSE 0
    BY <1>1 DEF NameBy
  <2>4. PendingBy(p, j) = 0 /\ PendingBy(p, j)' = 0
    BY <1>1 DEF PendingBy
  <2>5. dinode'[j].used =>
          /\ dinode[j].used /\ dinode[j].nlink \in Nat /\ dinode'[j].nlink \in Nat
          /\ dinode'[j].nlink + NameBy(0, j) + PendingBy(p, j)
               = dinode[j].nlink + (IF 0 \in Names /\ dir'[0] = j THEN 1 ELSE 0)
                   + PendingBy(p, j)'
    BY <1>1, <2>2, <2>3, <2>4
  <2> QED BY <1>1, <2>1, <2>2, <2>5, CountStep
<1>13. ASSUME NEW j \in Inums PROVE CopyOf(j)'
  <2>1. CopyOf(j)
    BY DEF TreeInv
  <2>2. /\ valid'[j] => valid[j] /\ j # i
    BY <1>5
  <2>3. ref'[j] = 0 => ~ valid'[j]
    BY <1>1, <2>1, <2>2 DEF CopyOf
  <2> QED BY <1>1, <1>2, <1>9, <2>1, <2>2, <2>3, CopySame DEF CopyOf
<1> QED BY <1>6, <1>10, <1>11, <1>12, <1>13 DEF TreeInv

----------------------------------------------------------------------------
(* The inodes of a behaviour of Storage *)

LEMMA TreeInit == Init => TreeInv
<1> SUFFICES ASSUME Init PROVE TreeInv
  OBVIOUS
<1>1. /\ dinode = [i \in Inums |-> Inodes!Free] /\ dir = [n \in Names |-> 0]
      /\ dirlock = Nobody /\ ref = [i \in Inums |-> 0] /\ valid = [i \in Inums |-> FALSE]
      /\ ip = [i \in Inums |-> Inodes!Free] /\ lock = [i \in Inums |-> Nobody]
      /\ panic = FALSE /\ point = [p \in Procs |-> "idle"]
      /\ call = [p \in Procs |-> Inodes!NoCall] /\ ino = [p \in Procs |-> 0]
      /\ fresh = [p \in Procs |-> FALSE]
  BY DEF Init, Inodes!Init, Inodes!NoIno
<1>2. TreeType
  BY <1>1 DEF TreeType, Inode, Points, Inodes!Free
<1>3. \A p \in Procs : PointOf(p) /\ OwnOf(p)
  BY <1>1, TreeParameters DEF PointOf, OwnOf, HasIno, Creates, Unlinks, HasDir, HasLock
<1>4. ASSUME NEW i \in Inums PROVE CountOf(i) /\ CopyOf(i)
  <2>1. NamesOf(i) = {} /\ RefsTo(i) = {} /\ PendingOf(i) = {}
    BY <1>1, TreeParameters DEF NamesOf, RefsTo, PendingOf
  <2>2. IsFiniteSet({}) /\ Cardinality({}) = 0
    BY FS_EmptySet
  <2>3. ~ dinode[i].used /\ ref[i] = 0 /\ ~ valid[i]
    BY <1>1 DEF Inodes!Free
  <2> QED BY <2>1, <2>2, <2>3 DEF CountOf, CopyOf
<1> QED BY <1>2, <1>3, <1>4 DEF TreeInv

LEMMA TreeNext ==
  ASSUME TreeInv, Inodes!Next
  PROVE  TreeInv'
<1>1. PICK p \in Procs : Inodes!Call(p) \/ Inodes!Inside(p) \/ Inodes!Locking(p)
  BY DEF Inodes!Next
<1>2. CASE Inodes!Call(p)
  BY <1>2, StepCall
<1>3. CASE Inodes!Locking(p)
  BY <1>3, StepLockDir, StepIlock, StepIputLast DEF Inodes!Locking
<1>4. CASE Inodes!Inside(p)
  BY <1>4, StepIalloc, StepIallocReturn, StepPutRef, StepIputFree, StepIputInvalid,
     StepLookFound, StepLookCreate, StepLookFails, StepCreateInit, StepCreateEnter,
     StepOpenFound, StepClose, StepUnlink, StepDrop, StepLink, StepLinkEnter, StepLinkFails
     DEF Inodes!Inside
<1> QED BY <1>1, <1>2, <1>3, <1>4

LEMMA TreeSame ==
  ASSUME TreeInv, UNCHANGED inodeVars
  PROVE  TreeInv'
<1>1. UNCHANGED <<dinode, dir, dirlock, ref, valid, ip, lock, panic, point, call, ino, fresh>>
  BY DEF inodeVars
<1>2. TreeType'
  BY <1>1 DEF TreeInv, TreeType
<1>3. \A p \in Procs : PointOf(p)'
  BY <1>1 DEF TreeInv, PointOf, HasIno, Creates, Unlinks, HasDir, HasLock
<1>4. \A i : NamesOf(i)' = NamesOf(i) /\ RefsTo(i)' = RefsTo(i) /\ PendingOf(i)' = PendingOf(i)
  BY <1>1 DEF NamesOf, RefsTo, PendingOf
<1>5. ASSUME NEW p \in Procs PROVE OwnOf(p)'
  <2>1. OwnOf(p)
    BY DEF TreeInv
  <2>2. NamesOf(ino[p])' = NamesOf(ino[p])
    BY <1>1 DEF NamesOf
  <2> QED BY <1>1, <2>1, <2>2 DEF OwnOf
<1>6. \A i \in Inums : CountOf(i)' /\ CopyOf(i)'
  BY <1>1, <1>4 DEF TreeInv, CountOf, CopyOf
<1> QED BY <1>2, <1>3, <1>5, <1>6 DEF TreeInv

LEMMA TreeSteps ==
  ASSUME TreeInv, [Next]_vars
  PROVE  TreeInv'
<1>1. Inodes!Next \/ UNCHANGED inodeVars
  BY DEF Next, RunLog, RunCache, RunInodes, RunDisk, OnlyLog, OnlyCache, OnlyDisk, vars
<1> QED BY <1>1, TreeNext, TreeSame

LEMMA TreeSafe == TreeInv => InodeKept
<1> SUFFICES ASSUME TreeInv PROVE InodeKept
  OBVIOUS
<1>1. \A S : Inodes!Cardinality(S) = Cardinality(S)
  BY DEF Inodes!Cardinality, Cardinality
<1>2. ~ panic
  BY DEF TreeInv, TreeType
<1>3. Inodes!NamesAndLinks
  <2> SUFFICES ASSUME NEW i \in Inums
               PROVE  /\ NamesOf(i) # {} => dinode[i].used
                      /\ dinode[i].used =>
                           dinode[i].nlink = Inodes!Cardinality(NamesOf(i)) + Inodes!Pending(i)
    BY DEF Inodes!NamesAndLinks, NamesOf
  <2>1. Inodes!Pending(i) = Cardinality(PendingOf(i))
    BY <1>1 DEF Inodes!Pending, PendingOf
  <2> QED BY <1>1, <2>1 DEF TreeInv, CountOf, CopyOf
<1>4. Inodes!TableAndDisk
  <2> SUFFICES ASSUME NEW i \in Inums
               PROVE  /\ ref[i] = Inodes!Cardinality(RefsTo(i))
                      /\ ref[i] > 0 /\ valid[i]
                           /\ (\A p \in Procs : ino[p] = i => point[p] # "invalid")
                         => ip[i] = dinode[i]
    BY DEF Inodes!TableAndDisk, RefsTo
  <2> QED BY <1>1 DEF TreeInv, CountOf, CopyOf
<1> QED BY <1>2, <1>3, <1>4 DEF InodeKept, Inodes!InodeKept

\* However many processes create, open, link and unlink files of a directory at the
\* same time: no name leads to an inode that is free, links and references are counted,
\* a copy in memory is the inode on the disk, and neither "ilock: no type" nor
\* "unlink: nlink < 1" is met (fs.c:325-352; sysfile.c:118-166, 184-284).
THEOREM InodeKeptCorrect == Spec => []InodeKept
<1>1. TreeInv /\ [Next]_vars => TreeInv'
  BY TreeSteps
<1> QED BY <1>1, TreeInit, TreeSafe, PTL DEF Spec

----------------------------------------------------------------------------
(* The log.  Its invariant says of each phase what the log area, the        *)
(* header, the home blocks, the cache and the pins have to do with each     *)
(* other.                                                                   *)

Phases == {"log", "head", "install", "erase", "leave"}

LogType ==
  /\ home \in [Blocks -> Vals]
  /\ hdr \in Seq(Blocks) /\ Len(hdr) < SIZE
  /\ logblk \in [1 .. SIZE - 1 -> Vals]
  /\ cache \in [Blocks -> Vals \cup {Absent}]
  /\ pin \in [Blocks -> Nat]
  /\ lh \in Seq(Blocks) /\ Len(lh) < SIZE
  /\ outstanding \in Nat
  /\ committing \in BOOLEAN
  /\ boot \in {"read", "install", "erase", "up"}
  /\ pc \in [Procs -> {"idle", "begin", "asleep", "op"} \cup Phases]
  /\ tail \in Nat \ {0}
  /\ used \in [Procs -> SUBSET Blocks]

\* No block is twice on a list.
Once(list) == \A s, t \in 1 .. Len(list) : list[s] = list[t] => s = t

\* The calls are counted, and what each has written is on the list.
AdmitInv ==
  /\ IsFiniteSet(Logging!InOp) /\ outstanding = Cardinality(Logging!InOp)
  /\ \A p \in Logging!InOp :
       /\ IsFiniteSet(used[p])
       /\ \A b \in used[p] : Logging!Logged(b)
  /\ Logging!Reserved

\* One process at a time commits, without calls; there are neither while the machine
\* comes up.
AloneInv ==
  /\ \A p \in Procs : pc[p] \in Phases =>
       /\ committing
       /\ \A q \in Procs : pc[q] \in Phases => q = p
  /\ committing => outstanding = 0 /\ \E p \in Procs : pc[p] \in Phases
  /\ boot # "up" => \A p \in Procs : pc[p] = "idle"

\* Of the blocks on the list, those before the n-th are in the log area.
LoggedTo(n) == \A t \in 1 .. Len(lh) : t < n => logblk[t] = cache[lh[t]]

\* Those before the n-th are at home.
InstalledTo(n) == \A t \in 1 .. Len(lh) : t < n => home[lh[t]] = logblk[t]

\* All from the n-th on are pinned, and so in the cache, and no other is.
PinnedFrom(n) ==
  /\ \A t \in 1 .. Len(lh) : t >= n => pin[lh[t]] = 1 /\ cache[lh[t]] # Absent
  /\ \A b \in Blocks :
       (\A t \in 1 .. Len(lh) : lh[t] = b => t < n) =>
         pin[b] = 0 /\ cache[b] \in {Absent, home[b]}

\* Where the process that commits is, if one does.
At(phase) == \E p \in Procs : pc[p] = phase

UpInv ==
  /\ ~At("install") /\ ~At("erase") => hdr = <<>> /\ PinnedFrom(1)
  /\ At("log") => tail <= Len(lh) /\ LoggedTo(tail)
  /\ At("head") => tail = 1 /\ lh # <<>> /\ LoggedTo(Len(lh) + 1)
  /\ At("install") => /\ hdr = lh /\ tail <= Len(lh)
                      /\ \A t \in 1 .. Len(lh) : t >= tail => cache[lh[t]] = logblk[t]
                      /\ InstalledTo(tail) /\ PinnedFrom(tail)
  /\ At("erase") => /\ hdr = lh
                    /\ InstalledTo(Len(lh) + 1) /\ PinnedFrom(Len(lh) + 1)
  /\ At("leave") => lh = <<>>

BootInv ==
  /\ \A b \in Blocks : pin[b] = 0 /\ cache[b] \in {Absent, home[b]}
  /\ boot = "read" => tail = 1
  /\ boot # "read" => lh = hdr
  /\ boot = "install" => tail <= Len(lh) /\ InstalledTo(tail)
  /\ boot = "erase" => InstalledTo(Len(lh) + 1)

LogInv ==
  /\ LogType
  /\ Once(lh) /\ Once(hdr)
  /\ AdmitInv
  /\ AloneInv
  /\ boot = "up" => UpInv
  /\ boot # "up" => BootInv

----------------------------------------------------------------------------

LEMMA LogParameters ==
  /\ MAXOPBLOCKS \in Nat /\ LOGSIZE \in Nat
  /\ SIZE \in Nat \ {0} /\ SIZE <= LOGSIZE + 1
  /\ Absent \notin Vals
BY StorageAssumption DEF Logging!Parameters

LEMMA LogSteps == [Next]_vars => Logging!Next \/ UNCHANGED logVars
BY DEF Next, vars, RunLog, RunCache, RunInodes, RunDisk, OnlyCache, OnlyInodes, OnlyDisk

\* While a process commits there is no other at work.
LEMMA Committer ==
  ASSUME LogInv, NEW p \in Procs, pc[p] \in Phases
  PROVE  /\ boot = "up" /\ committing /\ outstanding = 0 /\ UpInv
         /\ \A q \in Procs : q # p => pc[q] \notin Phases
         /\ \A q \in Procs : pc[q] # "op"
         /\ \A phase \in Phases : At(phase) <=> pc[p] = phase
<1>1. committing /\ outstanding = 0 /\ boot = "up" /\ UpInv
  BY DEF LogInv, AloneInv, Phases
<1>2. \A q \in Procs : q # p => pc[q] \notin Phases
  BY DEF LogInv, AloneInv
<1>3. \A phase \in Phases : At(phase) <=> pc[p] = phase
  BY <1>2 DEF At
<1>4. Logging!InOp = {}
  BY <1>1, FS_EmptySet DEF LogInv, AdmitInv
<1>5. \A q \in Procs : pc[q] # "op"
  BY <1>4 DEF Logging!InOp
<1> QED BY <1>1, <1>2, <1>3, <1>5

\* While it copies or installs, the block at hand is on the list.
LEMMA TailIn ==
  ASSUME LogInv, (\E p \in Procs : pc[p] \in {"log", "install"}) \/ boot = "install"
  PROVE  /\ tail \in 1 .. Len(lh) /\ tail \in 1 .. SIZE - 1 /\ Len(lh) \in Nat
         /\ lh[tail] \in Blocks /\ logblk[tail] \in Vals
<1>1. tail <= Len(lh)
  <2>1. CASE boot = "install"
    BY <2>1 DEF LogInv, BootInv
  <2>2. ASSUME NEW p \in Procs, pc[p] \in {"log", "install"} PROVE tail <= Len(lh)
    BY <2>2, Committer DEF UpInv, Phases
  <2> QED BY <2>1, <2>2
<1>2. lh \in Seq(Blocks) /\ Len(lh) \in Nat /\ Len(lh) < SIZE /\ tail \in Nat \ {0}
      /\ logblk \in [1 .. SIZE - 1 -> Vals]
  BY DEF LogInv, LogType
<1>3. tail \in 1 .. Len(lh) /\ tail \in 1 .. SIZE - 1
  BY <1>1, <1>2, LogParameters
<1> QED BY <1>2, <1>3

\* What a process sees of a block on the list is in the cache.
LEMMA ContentType ==
  ASSUME LogInv, NEW b \in Blocks
  PROVE  /\ Logging!Content(b) \in Vals
         /\ cache[b] # Absent => Logging!Content(b) = cache[b]
         /\ cache[b] \in {Absent, home[b]} => Logging!Content(b) = home[b]
BY DEF LogInv, LogType, Logging!Content

LEMMA LogTypeStep ==
  ASSUME LogInv, Logging!Next
  PROVE  LogType'
<1>0. LogType
  BY DEF LogInv
<1> USE <1>0, LogParameters DEF LogType, Phases, Logging!disk, Logging!mem
<1>14. <<>> \in Seq(Blocks) /\ Len(<<>>) = 0 /\ 0 < SIZE
  OBVIOUS
<1>1. ASSUME NEW p \in Procs, Logging!Call(p) \/ Logging!BeginSleep(p) \/ Logging!Begin(p)
      PROVE  LogType'
  <2>1. CASE Logging!Call(p)
    BY <2>1 DEF Logging!Call
  <2>2. CASE Logging!BeginSleep(p)
    BY <2>2 DEF Logging!BeginSleep
  <2>3. CASE Logging!Begin(p)
    BY <2>3 DEF Logging!Begin
  <2> QED BY <1>1, <2>1, <2>2, <2>3
<1>2. ASSUME NEW p \in Procs, NEW b \in Blocks, NEW v \in Vals, Logging!LogWrite(p, b, v)
      PROVE  LogType'
  <2>1. lh' \in Seq(Blocks) /\ Len(lh') < SIZE
    <3>1. Append(lh, b) \in Seq(Blocks) /\ Len(Append(lh, b)) = Len(lh) + 1
      BY AppendProperties
    <3> QED BY <1>2, <3>1 DEF Logging!LogWrite, Logging!TooBig
  <2>2. pin' \in [Blocks -> Nat] /\ cache' \in [Blocks -> Vals \cup {Absent}]
        /\ used' \in [Procs -> SUBSET Blocks]
    BY <1>2 DEF Logging!LogWrite, Logging!Pin
  <2> QED BY <1>2, <2>1, <2>2 DEF Logging!LogWrite
<1>3. ASSUME NEW p \in Procs, Logging!EndOp(p) PROVE LogType'
  <2>1. outstanding > 0
    BY <1>3 DEF Logging!EndOp, Logging!EndOpFirst, Logging!EndOpLast
  <2>3. outstanding' \in Nat
    BY <1>3, <2>1 DEF Logging!EndOp
  <2>4. tail' \in Nat \ {0} /\ committing' \in BOOLEAN
    <3>1. CASE Logging!EndOpFirst(p)
      BY <3>1 DEF Logging!EndOpFirst
    <3>2. CASE Logging!EndOpLast(p)
      BY <3>2 DEF Logging!EndOpLast
    <3> QED BY <1>3, <3>1, <3>2 DEF Logging!EndOp
  <2>2. pc' \in [Procs -> {"idle", "begin", "asleep", "op"} \cup Phases]
    BY <1>3 DEF Logging!EndOp, Logging!EndOpFirst, Logging!EndOpLast, Logging!WokenUp
  <2> QED BY <1>3, <2>2, <2>3, <2>4 DEF Logging!EndOp
<1>4. ASSUME NEW p \in Procs, NEW here, NEW next \in Phases, Logging!Loop(p, here, next),
             here \in Phases
      PROVE  /\ tail' \in Nat \ {0}
             /\ pc' \in [Procs -> {"idle", "begin", "asleep", "op"} \cup Phases]
  BY <1>4 DEF Logging!Loop
<1>5. ASSUME NEW p \in Procs, Logging!WriteLog(p) PROVE LogType'
  <2>1. tail \in 1 .. SIZE - 1 /\ Logging!Content(lh[tail]) \in Vals
    BY <1>5, TailIn, ContentType DEF Logging!WriteLog, Logging!Loop
  <2> QED BY <1>4, <1>5, <2>1 DEF Logging!WriteLog
<1>6. ASSUME NEW p \in Procs, Logging!WriteHead(p) \/ Logging!Erase(p) PROVE LogType'
  <2>1. CASE Logging!WriteHead(p)
    BY <2>1 DEF Logging!WriteHead
  <2>2. CASE Logging!Erase(p)
    BY <1>14, <2>2 DEF Logging!Erase
  <2> QED BY <1>6, <2>1, <2>2
<1>7. ASSUME NEW p \in Procs, Logging!Install(p) PROVE LogType'
  <2>1. tail \in 1 .. SIZE - 1 /\ lh[tail] \in Blocks /\ logblk[tail] \in Vals
    BY <1>7, TailIn DEF Logging!Install, Logging!Loop
  <2>2. pin[lh[tail]] - 1 \in Nat
    <3>1. pin[lh[tail]] = 1
      BY <1>7, TailIn, Committer DEF Logging!Install, Logging!Loop, UpInv, PinnedFrom
    <3> QED BY <3>1
  <2> QED BY <1>4, <1>7, <2>1, <2>2 DEF Logging!Install, Logging!InstallBlock
<1>8. ASSUME NEW p \in Procs, Logging!Leave(p) PROVE LogType'
  BY <1>8 DEF Logging!Leave, Logging!WokenUp
<1>9. ASSUME NEW b \in Blocks, Logging!Evict(b) PROVE LogType'
  BY <1>9 DEF Logging!Evict
<1>10. CASE Logging!Restart
  <2>1. /\ cache' \in [Blocks -> Vals \cup {Absent}] /\ pin' \in [Blocks -> Nat]
        /\ pc' \in [Procs -> {"idle", "begin", "asleep", "op"} \cup Phases]
        /\ used' \in [Procs -> SUBSET Blocks]
    BY <1>10 DEF Logging!Restart
  <2>2. /\ tail' \in Nat \ {0} /\ outstanding' \in Nat /\ committing' \in BOOLEAN
        /\ boot' \in {"read", "install", "erase", "up"}
    <3> HIDE <1>0, LogParameters DEF LogType
    <3>1. tail' = 1 /\ outstanding' = 0 /\ ~committing' /\ boot' = "read"
      BY <1>10, Zenon DEF Logging!Restart
    <3>2. committing' \in BOOLEAN
      BY <1>10, Zenon DEF Logging!Restart
    <3> QED BY <3>1, <3>2
  <2> QED BY <1>10, <1>14, <2>1, <2>2 DEF Logging!Restart
<1>11. CASE Logging!ReadHead
  BY <1>11 DEF Logging!ReadHead
<1>12. CASE Logging!RecoverInstall
  <2>1. tail \in 1 .. SIZE - 1 /\ lh[tail] \in Blocks /\ logblk[tail] \in Vals
    BY <1>12, TailIn DEF Logging!RecoverInstall
  <2> QED BY <1>12, <2>1 DEF Logging!RecoverInstall, Logging!InstallBlock
<1>13. CASE Logging!RecoverErase
  BY <1>13, <1>14 DEF Logging!RecoverErase
<1> HIDE <1>0 DEF LogType
<1> QED BY <1>1, <1>2, <1>3, <1>5, <1>6, <1>7, <1>8, <1>9, <1>10, <1>11, <1>12, <1>13
        DEF Logging!Next, Logging!CommitStep, Logging!Recover, Logging!Crash, Logging!Panic

\* log_write() does not put a block on the list twice.
LEMMA OnceStep ==
  ASSUME LogInv, Logging!Next
  PROVE  Once(lh)' /\ Once(hdr)'
<1>0. /\ Once(lh) /\ Once(hdr)
      /\ lh \in Seq(Blocks) /\ Len(lh) \in Nat
      /\ Once(<<>>)
  BY DEF LogInv, LogType, Once
<1>1. ASSUME lh' \in {lh, hdr, <<>>}, hdr' \in {lh, hdr, <<>>} PROVE Once(lh)' /\ Once(hdr)'
  BY <1>0, <1>1 DEF Once
<1>2. ASSUME NEW p \in Procs, NEW b \in Blocks, NEW v \in Vals, Logging!LogWrite(p, b, v)
      PROVE  Once(lh)' /\ Once(hdr)'
  <2>1. CASE Logging!Logged(b)
    BY <1>1, <1>2, <2>1 DEF Logging!LogWrite, Logging!disk
  <2>2. CASE ~Logging!Logged(b)
    <3>1. /\ Len(Append(lh, b)) = Len(lh) + 1
          /\ \A t \in 1 .. Len(lh) : Append(lh, b)[t] = lh[t] /\ lh[t] # b
          /\ Append(lh, b)[Len(lh) + 1] = b
      BY <1>0, <2>2, AppendProperties DEF Logging!Logged
    <3>2. Once(Append(lh, b))
      <4> SUFFICES ASSUME NEW s \in 1 .. Len(lh) + 1, NEW t \in 1 .. Len(lh) + 1,
                          Append(lh, b)[s] = Append(lh, b)[t]
                   PROVE  s = t
        BY <3>1 DEF Once
      <4>1. s = Len(lh) + 1 \/ s \in 1 .. Len(lh)
        BY <1>0
      <4>2. t = Len(lh) + 1 \/ t \in 1 .. Len(lh)
        BY <1>0
      <4> QED BY <1>0, <3>1, <4>1, <4>2 DEF Once
    <3>3. lh' = Append(lh, b) /\ hdr' = hdr
      BY <1>2, <2>2 DEF Logging!LogWrite, Logging!disk
    <3> QED BY <1>0, <3>2, <3>3 DEF Once
  <2> QED BY <2>1, <2>2
<1> USE DEF Logging!disk, Logging!mem
<1>3. ASSUME NEW p \in Procs,
             Logging!Call(p) \/ Logging!BeginSleep(p) \/ Logging!Begin(p) \/ Logging!EndOp(p)
      PROVE  UNCHANGED <<lh, hdr>>
  BY <1>3 DEF Logging!Call, Logging!BeginSleep, Logging!Begin, Logging!EndOp
<1>4. ASSUME NEW p \in Procs, Logging!CommitStep(p)
      PROVE  lh' \in {lh, <<>>} /\ hdr' \in {lh, hdr, <<>>}
  BY <1>4
     DEF Logging!CommitStep, Logging!WriteLog, Logging!WriteHead, Logging!Install,
         Logging!Erase, Logging!Leave
<1>5. ASSUME NEW b \in Blocks, Logging!Evict(b) PROVE UNCHANGED <<lh, hdr>>
  BY <1>5 DEF Logging!Evict
<1>6. CASE Logging!Restart
  BY <1>1, <1>6 DEF Logging!Restart
<1>7. CASE Logging!Recover
  BY <1>1, <1>7
     DEF Logging!Recover, Logging!ReadHead, Logging!RecoverInstall, Logging!RecoverErase
<1> QED BY <1>1, <1>2, <1>3, <1>4, <1>5, <1>6, <1>7
        DEF Logging!Next, Logging!Crash, Logging!Panic

\* The numbers the log counts in are the numbers of the library.
LEMMA SameCardinality ==
  /\ \A S : Logging!Cardinality(S) = Cardinality(S)
BY DEF Logging!Cardinality, Cardinality

\* Who commits was the last inside, and found nobody that commits.
LEMMA AloneStep ==
  ASSUME LogInv, Logging!Next
  PROVE  AloneInv'
<1>0. /\ AloneInv
      /\ pc \in [Procs -> {"idle", "begin", "asleep", "op"} \cup Phases]
      /\ committing \in BOOLEAN /\ outstanding \in Nat
      /\ \A p \in Procs : pc[p] = "op" => boot = "up" /\ ~committing
  BY Committer DEF LogInv, LogType, AloneInv
<1> USE <1>0 DEF AloneInv, Phases, Logging!disk, Logging!mem
<1>1. ASSUME NEW p \in Procs, Logging!Call(p) PROVE AloneInv'
  BY <1>1 DEF Logging!Call
<1>2. ASSUME NEW p \in Procs, Logging!BeginSleep(p) PROVE AloneInv'
  BY <1>2 DEF Logging!BeginSleep
<1>3. ASSUME NEW p \in Procs, Logging!Begin(p) PROVE AloneInv'
  BY <1>3 DEF Logging!Begin, Logging!MustWait
<1>4. ASSUME NEW p \in Procs, Logging!EndOp(p) PROVE AloneInv'
  <2>1. CASE Logging!EndOpFirst(p)
    BY <1>4, <2>1 DEF Logging!EndOp, Logging!EndOpFirst, Logging!WokenUp
  <2>2. CASE Logging!EndOpLast(p)
    BY <1>4, <2>2 DEF Logging!EndOp, Logging!EndOpLast
  <2> QED BY <1>4, <2>1, <2>2 DEF Logging!EndOp
<1>5. ASSUME NEW p \in Procs, pc[p] \in Phases, boot' = boot, outstanding' = outstanding,
             committing' = committing, NEW next \in Phases,
             pc' = [pc EXCEPT ![p] = next]
      PROVE  AloneInv'
  BY <1>5
<1>6. ASSUME NEW p \in Procs, Logging!WriteLog(p) PROVE AloneInv'
  BY <1>5, <1>6 DEF Logging!WriteLog, Logging!Loop
<1>7. ASSUME NEW p \in Procs, Logging!WriteHead(p) PROVE AloneInv'
  BY <1>5, <1>7 DEF Logging!WriteHead
<1>8. ASSUME NEW p \in Procs, Logging!Install(p) PROVE AloneInv'
  BY <1>5, <1>8 DEF Logging!Install, Logging!Loop
<1>9. ASSUME NEW p \in Procs, Logging!Erase(p) PROVE AloneInv'
  BY <1>5, <1>9 DEF Logging!Erase
<1>10. ASSUME NEW p \in Procs, Logging!Leave(p) PROVE AloneInv'
  BY <1>10 DEF Logging!Leave, Logging!WokenUp
<1>11. ASSUME NEW p \in Procs, NEW b \in Blocks, NEW v \in Vals, Logging!LogWrite(p, b, v)
       PROVE  AloneInv'
  BY <1>11 DEF Logging!LogWrite
<1>12. ASSUME NEW b \in Blocks, Logging!Evict(b) PROVE AloneInv'
  BY <1>12 DEF Logging!Evict
<1>13. CASE Logging!Restart
  BY <1>13 DEF Logging!Restart
<1>14. CASE Logging!Recover
  BY <1>14
     DEF Logging!Recover, Logging!ReadHead, Logging!RecoverInstall, Logging!RecoverErase
<1> HIDE <1>0 DEF AloneInv, Phases
<1> QED BY <1>1, <1>2, <1>3, <1>4, <1>6, <1>7, <1>8, <1>9, <1>10, <1>11, <1>12, <1>13, <1>14
        DEF Logging!Next, Logging!CommitStep, Logging!Crash, Logging!Panic

----------------------------------------------------------------------------
(* The room of the log *)

LEMMA SpareFinite ==
  IsFiniteSet(Logging!InOp) =>
    /\ IsFiniteSet(Logging!Spare)
    /\ Cardinality(Logging!Spare) \in Nat
    /\ Cardinality(Logging!InOp) \in Nat
    /\ Cardinality(Logging!Spare) <= Cardinality(Logging!InOp) * MAXOPBLOCKS
<1> SUFFICES ASSUME IsFiniteSet(Logging!InOp)
             PROVE  /\ IsFiniteSet(Logging!Spare)
                    /\ Cardinality(Logging!Spare) \in Nat
                    /\ Cardinality(Logging!InOp) \in Nat
                    /\ Cardinality(Logging!Spare) <= Cardinality(Logging!InOp) * MAXOPBLOCKS
  OBVIOUS
<1>1. IsFiniteSet(1 .. MAXOPBLOCKS) /\ Cardinality(1 .. MAXOPBLOCKS) = MAXOPBLOCKS
  BY LogParameters, FS_Interval
<1>2. /\ IsFiniteSet(Logging!InOp \X (1 .. MAXOPBLOCKS))
      /\ Cardinality(Logging!InOp \X (1 .. MAXOPBLOCKS)) =
           Cardinality(Logging!InOp) * MAXOPBLOCKS
  BY <1>1, FS_Product
<1>3. Logging!Spare \subseteq Logging!InOp \X (1 .. MAXOPBLOCKS)
  BY DEF Logging!Spare
<1> QED BY <1>2, <1>3, FS_Subset, FS_CardinalityType

\* begin_op() lets a call in if all that are inside, and it, have room for all they
\* may write.
LEMMA AdmitBegin ==
  ASSUME LogInv, NEW p \in Procs, Logging!Begin(p)
  PROVE  AdmitInv'
<1>1. /\ Logging!InOp' = Logging!InOp \cup {p} /\ p \notin Logging!InOp
      /\ outstanding' = outstanding + 1 /\ outstanding \in Nat
      /\ lh' = lh /\ Len(lh) \in Nat
      /\ Len(lh) + (outstanding + 1) * MAXOPBLOCKS <= LOGSIZE
  <2>1. /\ outstanding' = outstanding + 1 /\ lh' = lh
        /\ ~(Len(lh) + (outstanding + 1) * MAXOPBLOCKS > LOGSIZE)
    BY DEF Logging!Begin, Logging!MustWait, Logging!NoRoom
  <2>2. outstanding \in Nat /\ Len(lh) \in Nat
    BY DEF LogInv, LogType
  <2>3. (outstanding + 1) * MAXOPBLOCKS \in Nat
    BY <2>2, LogParameters
  <2>4. Logging!InOp' = Logging!InOp \cup {p} /\ p \notin Logging!InOp
    BY DEF Logging!Begin, Logging!InOp, LogInv, LogType
  <2> QED BY <2>1, <2>2, <2>3, <2>4, LogParameters
<1>2. /\ IsFiniteSet(Logging!InOp') /\ outstanding' = Cardinality(Logging!InOp')
  BY <1>1, FS_AddElement DEF LogInv, AdmitInv
<1>3. \A q \in Logging!InOp' : /\ IsFiniteSet(used'[q])
                               /\ \A b \in used'[q] : Logging!Logged(b)
  BY <1>1, FS_EmptySet DEF LogInv, LogType, AdmitInv, Logging!Begin
<1>4. Logging!Reserved'
  <2>1. /\ Cardinality(Logging!Spare') \in Nat
        /\ Cardinality(Logging!Spare') <= Cardinality(Logging!InOp') * MAXOPBLOCKS
    <3>1. IsFiniteSet(Logging!InOp)'
      BY <1>2
    <3>2. (/\ Cardinality(Logging!Spare) \in Nat
           /\ Cardinality(Logging!Spare) <= Cardinality(Logging!InOp) * MAXOPBLOCKS)'
      BY <3>1, SpareFinite, PTL
    <3> QED BY <3>2
  <2>2. (outstanding + 1) * MAXOPBLOCKS \in Nat
    BY <1>1, LogParameters
  <2>3. Len(lh') + Cardinality(Logging!Spare') <= LOGSIZE
    BY <1>1, <1>2, <2>1, <2>2, LogParameters
  <2> QED BY <2>3, SameCardinality DEF Logging!Reserved
<1> QED BY <1>1, <1>2, <1>3, <1>4 DEF AdmitInv, Logging!Logged

\* A block that is new on the list was reserved by the call that writes it.
LEMMA AdmitWrite ==
  ASSUME LogInv, NEW p \in Procs, NEW b \in Blocks, NEW v \in Vals,
         Logging!LogWrite(p, b, v)
  PROVE  AdmitInv'
<1>1. /\ p \in Logging!InOp /\ Logging!InOp' = Logging!InOp /\ outstanding' = outstanding
      /\ used' = [used EXCEPT ![p] = used[p] \cup {b}]
      /\ lh' = IF Logging!Logged(b) THEN lh ELSE Append(lh, b)
      /\ lh \in Seq(Blocks) /\ Len(lh) \in Nat
      /\ used \in [Procs -> SUBSET Blocks]
      /\ Logging!InOp \subseteq Procs
  BY DEF Logging!LogWrite, Logging!InOp, LogInv, LogType
<1>2. /\ IsFiniteSet(Logging!InOp) /\ outstanding = Cardinality(Logging!InOp)
      /\ \A q \in Logging!InOp : /\ IsFiniteSet(used[q])
                                 /\ \A c \in used[q] : Logging!Logged(c)
      /\ Len(lh) + Cardinality(Logging!Spare) <= LOGSIZE
  BY SameCardinality DEF LogInv, AdmitInv, Logging!Reserved
<1>3. /\ Len(Append(lh, b)) = Len(lh) + 1
      /\ \A t \in 1 .. Len(lh) : Append(lh, b)[t] = lh[t]
      /\ Append(lh, b)[Len(lh) + 1] = b
  BY <1>1, AppendProperties
<1>4. ASSUME NEW c \in Blocks, Logging!Logged(c) \/ c = b PROVE Logging!Logged(c)'
  <2>1. CASE Logging!Logged(b)
    BY <1>1, <1>4, <2>1 DEF Logging!Logged
  <2>2. CASE ~Logging!Logged(b)
    <3>1. lh' = Append(lh, b) /\ Len(lh') = Len(lh) + 1
      BY <1>1, <1>3, <2>2
    <3>2. CASE c = b
      BY <1>1, <1>3, <3>1, <3>2 DEF Logging!Logged
    <3>3. CASE Logging!Logged(c)
      <4>1. PICK t \in 1 .. Len(lh) : lh[t] = c
        BY <3>3 DEF Logging!Logged
      <4>2. t \in 1 .. Len(lh') /\ lh'[t] = c
        BY <1>1, <1>3, <3>1, <4>1
      <4> QED BY <4>2 DEF Logging!Logged
    <3> QED BY <1>4, <3>2, <3>3
  <2> QED BY <2>1, <2>2
<1>5. \A q \in Logging!InOp : /\ IsFiniteSet(used'[q])
                              /\ \A c \in used'[q] : Logging!Logged(c)'
  <2> SUFFICES ASSUME NEW q \in Logging!InOp
               PROVE  /\ IsFiniteSet(used'[q])
                      /\ \A c \in used'[q] : Logging!Logged(c)'
    OBVIOUS
  <2>1. used'[q] = IF q = p THEN used[p] \cup {b} ELSE used[q]
    BY <1>1
  <2>2. IsFiniteSet(used[p] \cup {b})
    BY <1>1, <1>2, FS_AddElement
  <2>3. used[q] \subseteq Blocks
    BY <1>1
  <2> QED BY <1>2, <1>4, <2>1, <2>2, <2>3
<1>6. /\ IsFiniteSet(Logging!Spare) /\ Cardinality(Logging!Spare) \in Nat
  BY <1>2, SpareFinite
<1>7. Cardinality(used[p]) \in Nat
  BY <1>1, <1>2, FS_CardinalityType
<1>8. CASE b \in used[p]
  <2>1. Logging!Logged(b) /\ used' = used
    BY <1>1, <1>2, <1>8
  <2>2. Logging!Spare' = Logging!Spare
    BY <1>1, <2>1 DEF Logging!Spare
  <2>3. Logging!Reserved'
    BY <1>1, <2>1, <2>2 DEF Logging!Reserved, LogInv, AdmitInv
  <2> QED BY <1>1, <1>2, <1>5, <2>3 DEF AdmitInv
<1>9. CASE b \notin used[p]
  <2> DEFINE n == Cardinality(used[p]) + 1
  <2>1. Cardinality(used[p] \cup {b}) = n
    BY <1>1, <1>2, <1>9, FS_AddElement
  <2>2. n \in 1 .. MAXOPBLOCKS
    BY <1>7, <1>9, SameCardinality, LogParameters DEF Logging!LogWrite, Logging!WithinOp
  <2>3. \A q \in Logging!InOp :
          Cardinality(used'[q]) = IF q = p THEN n ELSE Cardinality(used[q])
    BY <1>1, <2>1
  <2> HIDE DEF n
  <2>4. <<p, n>> \in Logging!Spare
    BY <1>1, <1>7, <2>2, SameCardinality DEF Logging!Spare, n
  <2>5. Logging!Spare' = Logging!Spare \ {<<p, n>>}
    <3>1. \A i \in 1 .. MAXOPBLOCKS : i > n <=> i > Cardinality(used[p]) /\ i # n
      BY <1>7 DEF n
    <3>2. \A q \in Logging!InOp, i \in 1 .. MAXOPBLOCKS :
            /\ <<q, i>> \in Logging!Spare <=> i > Cardinality(used[q])
            /\ <<q, i>> \in Logging!Spare' <=> i > Cardinality(used'[q])
      BY <1>1, SameCardinality DEF Logging!Spare
    <3>3. \A q \in Logging!InOp, i \in 1 .. MAXOPBLOCKS :
            <<q, i>> \in Logging!Spare' <=> <<q, i>> \in Logging!Spare \ {<<p, n>>}
      BY <1>1, <2>3, <3>1, <3>2
    <3>4. /\ Logging!Spare \subseteq Logging!InOp \X (1 .. MAXOPBLOCKS)
          /\ Logging!Spare' \subseteq Logging!InOp \X (1 .. MAXOPBLOCKS)
      BY <1>1 DEF Logging!Spare
    <3> QED BY <3>3, <3>4
  <2>6. Cardinality(Logging!Spare') = Cardinality(Logging!Spare) - 1
    BY <1>6, <2>4, <2>5, FS_RemoveElement
  <2>7. Len(lh') <= Len(lh) + 1 /\ Len(lh') \in Nat
    BY <1>1, <1>3
  <2>8. Logging!Reserved'
    BY <1>1, <1>2, <1>6, <2>6, <2>7, LogParameters, SameCardinality DEF Logging!Reserved
  <2> QED BY <1>1, <1>2, <1>5, <2>8 DEF AdmitInv
<1> QED BY <1>8, <1>9

LEMMA AdmitEnd ==
  ASSUME LogInv, NEW p \in Procs, Logging!EndOp(p)
  PROVE  AdmitInv'
<1>1. /\ Logging!InOp' = Logging!InOp \ {p} /\ p \in Logging!InOp
      /\ outstanding' = outstanding - 1 /\ lh' = lh /\ used' = used /\ Len(lh) \in Nat
  <2>1. \A q \in Procs : pc'[q] = "op" <=> pc[q] = "op" /\ q # p
    BY DEF Logging!EndOp, Logging!EndOpFirst, Logging!EndOpLast, Logging!WokenUp,
           LogInv, LogType
  <2> QED BY <2>1 DEF Logging!InOp, Logging!EndOp, LogInv, LogType
<1>2. /\ IsFiniteSet(Logging!InOp) /\ outstanding = Cardinality(Logging!InOp)
      /\ Len(lh) + Cardinality(Logging!Spare) <= LOGSIZE
  BY SameCardinality DEF LogInv, AdmitInv, Logging!Reserved
<1>3. IsFiniteSet(Logging!InOp') /\ outstanding' = Cardinality(Logging!InOp')
  BY <1>1, <1>2, FS_RemoveElement
<1>4. Logging!Reserved'
  <2>1. Logging!Spare' \subseteq Logging!Spare
    BY <1>1 DEF Logging!Spare
  <2>2. /\ Cardinality(Logging!Spare') \in Nat /\ Cardinality(Logging!Spare) \in Nat
        /\ Cardinality(Logging!Spare') <= Cardinality(Logging!Spare)
    BY <1>2, <2>1, SpareFinite, FS_Subset, FS_CardinalityType
  <2> QED BY <1>1, <1>2, <2>2, LogParameters, SameCardinality DEF Logging!Reserved
<1> QED BY <1>1, <1>3, <1>4 DEF AdmitInv, LogInv, Logging!Logged

\* Without a call inside there is nothing to reserve.
LEMMA AdmitNobody ==
  ASSUME LogType', Logging!InOp' = {}, outstanding' = 0
  PROVE  AdmitInv'
<1>1. Logging!Spare' = {}
  BY DEF Logging!Spare
<1>2. Logging!Reserved'
  BY <1>1, FS_EmptySet, SameCardinality, LogParameters DEF LogType, Logging!Reserved
<1> QED BY <1>2, FS_EmptySet DEF AdmitInv

LEMMA AdmitStep ==
  ASSUME LogInv, Logging!Next
  PROVE  AdmitInv'
<1> USE DEF Logging!disk, Logging!mem
<1>1. ASSUME Logging!InOp' = Logging!InOp, UNCHANGED <<lh, used, outstanding>>
      PROVE  AdmitInv'
  BY <1>1 DEF LogInv, AdmitInv, Logging!Reserved, Logging!Spare, Logging!Logged
<1>2. ASSUME NEW p \in Procs, Logging!Call(p) \/ Logging!BeginSleep(p) PROVE AdmitInv'
  <2>1. UNCHANGED <<lh, used, outstanding>>
    BY <1>2 DEF Logging!Call, Logging!BeginSleep
  <2>2. \A q \in Procs : pc'[q] = "op" <=> pc[q] = "op"
    BY <1>2 DEF Logging!Call, Logging!BeginSleep, LogInv, LogType
  <2> QED BY <1>1, <2>1, <2>2 DEF Logging!InOp
<1>3. ASSUME NEW p \in Procs, Logging!CommitStep(p) PROVE AdmitInv'
  <2>1. pc[p] \in Phases
    BY <1>3
       DEF Logging!CommitStep, Logging!WriteLog, Logging!WriteHead, Logging!Install,
           Logging!Erase, Logging!Leave, Logging!Loop, Phases
  <2>2. (\A q \in Procs : pc[q] # "op") /\ outstanding = 0
    BY <2>1, Committer
  <2>3. outstanding' = 0
    BY <1>3, <2>2
       DEF Logging!CommitStep, Logging!WriteLog, Logging!WriteHead, Logging!Install,
           Logging!Erase, Logging!Leave
  <2>4. \A q \in Procs : pc'[q] # "op"
    BY <1>3, <2>2
       DEF Logging!CommitStep, Logging!WriteLog, Logging!WriteHead, Logging!Install,
           Logging!Erase, Logging!Leave, Logging!Loop, Logging!WokenUp, LogInv, LogType
  <2> QED BY <2>3, <2>4, LogTypeStep, AdmitNobody DEF Logging!InOp
<1>4. ASSUME NEW b \in Blocks, Logging!Evict(b) PROVE AdmitInv'
  BY <1>1, <1>4 DEF Logging!Evict, Logging!InOp
<1>5. CASE Logging!Restart
  <2>1. outstanding' = 0 /\ Logging!InOp' = {}
    BY <1>5 DEF Logging!Restart, Logging!InOp
  <2> QED BY <2>1, LogTypeStep, AdmitNobody
<1>6. CASE Logging!Recover
  <2>1. boot # "up" /\ UNCHANGED <<outstanding, pc>>
    BY <1>6
       DEF Logging!Recover, Logging!ReadHead, Logging!RecoverInstall, Logging!RecoverErase
  <2>2. Logging!InOp = {}
    BY <2>1 DEF LogInv, AloneInv, Logging!InOp
  <2>3. outstanding = 0
    BY <2>2, FS_EmptySet DEF LogInv, AdmitInv
  <2>4. Logging!InOp' = {}
    BY <2>1, <2>2 DEF Logging!InOp
  <2> QED BY <2>1, <2>3, <2>4, LogTypeStep, AdmitNobody
<1> QED BY <1>2, <1>3, <1>4, <1>5, <1>6, AdmitBegin, AdmitWrite, AdmitEnd
        DEF Logging!Next, Logging!Crash, Logging!Panic

----------------------------------------------------------------------------
(* The phases of a commit and of a recovery *)

PhaseInv == (boot = "up" => UpInv) /\ (boot # "up" => BootInv)

\* Where the one that commits goes on.
LEMMA AtMoves ==
  ASSUME LogInv, NEW p \in Procs, pc[p] \in Phases, NEW next \in Phases,
         pc' = [pc EXCEPT ![p] = next]
  PROVE  \A phase \in Phases : At(phase)' <=> phase = next
<1>1. \A q \in Procs : q # p => pc[q] \notin Phases
  BY Committer
<1>2. \A q \in Procs : pc'[q] = IF q = p THEN next ELSE pc[q]
  BY DEF LogInv, LogType
<1> QED BY <1>1, <1>2 DEF At

\* Calls come and go, and nobody but the last starts a commit.
LEMMA PhaseCall ==
  ASSUME LogInv, NEW p \in Procs,
         \/ Logging!Call(p) \/ Logging!BeginSleep(p) \/ Logging!Begin(p)
         \/ Logging!EndOp(p) /\ Logging!EndOpFirst(p)
  PROVE  PhaseInv'
<1>1. UNCHANGED <<home, hdr, logblk, cache, pin, lh, tail, boot>>
  BY DEF Logging!Call, Logging!BeginSleep, Logging!Begin, Logging!EndOp,
         Logging!EndOpFirst, Logging!disk, Logging!mem
<1>2. \A q \in Procs, phase \in Phases : pc'[q] = phase <=> pc[q] = phase
  BY DEF Logging!Call, Logging!BeginSleep, Logging!Begin, Logging!EndOp,
         Logging!EndOpFirst, Logging!WokenUp, LogInv, LogType, Phases
<1>3. \A phase \in Phases : At(phase)' <=> At(phase)
  BY <1>2 DEF At
<1>4. boot = "up"
  BY DEF Logging!Call, Logging!BeginSleep, Logging!Begin, Logging!EndOp, LogInv, AloneInv
<1> QED BY <1>1, <1>3, <1>4
        DEF PhaseInv, LogInv, UpInv, LoggedTo, InstalledTo, PinnedFrom, Phases

LEMMA PhaseWrite ==
  ASSUME LogInv, NEW p \in Procs, NEW b \in Blocks, NEW v \in Vals,
         Logging!LogWrite(p, b, v)
  PROVE  PhaseInv'
<1>1. boot = "up" /\ \A phase \in Phases : ~At(phase)
  BY Committer DEF Logging!LogWrite, LogInv, AloneInv, At, Phases
<1>2. hdr = <<>> /\ PinnedFrom(1)
  BY <1>1 DEF LogInv, UpInv, Phases
<1>3. boot' = "up" /\ hdr' = hdr /\ home' = home /\ \A phase \in Phases : ~At(phase)'
  BY <1>1 DEF Logging!LogWrite, Logging!disk, At
<1>4. /\ lh \in Seq(Blocks) /\ Len(lh) \in Nat /\ v # Absent
      /\ cache \in [Blocks -> Vals \cup {Absent}] /\ pin \in [Blocks -> Nat]
      /\ cache' = [cache EXCEPT ![b] = v]
  BY LogParameters DEF LogInv, LogType, Logging!LogWrite
<1>5. CASE Logging!Logged(b)
  <2>1. lh' = lh /\ pin' = pin
    BY <1>5 DEF Logging!LogWrite, Logging!Pin
  <2>2. PinnedFrom(1)'
    BY <1>2, <1>3, <1>4, <1>5, <2>1 DEF PinnedFrom, Logging!Logged
  <2> QED BY <1>2, <1>3, <2>2 DEF PhaseInv, UpInv, Phases
<1>6. CASE ~Logging!Logged(b)
  <2>1. /\ lh' = Append(lh, b) /\ Len(lh') = Len(lh) + 1
        /\ \A t \in 1 .. Len(lh) : lh'[t] = lh[t] /\ lh[t] # b
        /\ lh'[Len(lh) + 1] = b
        /\ pin' = [pin EXCEPT ![b] = pin[b] + 1]
    BY <1>4, <1>6, AppendProperties DEF Logging!LogWrite, Logging!Pin, Logging!Logged
  <2>2. pin[b] = 0
    BY <1>2, <2>1 DEF PinnedFrom
  <2>3. \A t \in 1 .. Len(lh') : pin'[lh'[t]] = 1 /\ cache'[lh'[t]] # Absent
    <3> SUFFICES ASSUME NEW t \in 1 .. Len(lh) + 1
                 PROVE  pin'[lh'[t]] = 1 /\ cache'[lh'[t]] # Absent
      BY <2>1
    <3>1. CASE t = Len(lh) + 1
      BY <1>4, <2>1, <2>2, <3>1
    <3>2. CASE t # Len(lh) + 1
      <4>1. t \in 1 .. Len(lh) /\ t >= 1 /\ lh[t] \in Blocks
        BY <1>4, <3>2
      <4> QED BY <1>2, <1>4, <2>1, <4>1 DEF PinnedFrom
    <3> QED BY <3>1, <3>2
  <2>4. ASSUME NEW c \in Blocks, \A t \in 1 .. Len(lh') : lh'[t] # c
        PROVE  pin'[c] = 0 /\ cache'[c] \in {Absent, home[c]}
    <3>1. c # b /\ \A t \in 1 .. Len(lh) : lh[t] # c
      BY <1>4, <2>1, <2>4
    <3>2. pin[c] = 0 /\ cache[c] \in {Absent, home[c]}
      BY <1>2, <3>1 DEF PinnedFrom
    <3> QED BY <1>4, <2>1, <3>1, <3>2
  <2>5. PinnedFrom(1)'
    <3>1. \A t \in 1 .. Len(lh') : ~(t < 1)
      BY <1>4, <2>1
    <3> QED BY <1>3, <2>3, <2>4, <3>1 DEF PinnedFrom
  <2> QED BY <1>2, <1>3, <2>5 DEF PhaseInv, UpInv, Phases
<1> QED BY <1>5, <1>6

LEMMA PhaseLast ==
  ASSUME LogInv, NEW p \in Procs, Logging!EndOp(p), Logging!EndOpLast(p)
  PROVE  PhaseInv'
<1>1. boot = "up" /\ \A q \in Procs : pc[q] \notin Phases
  BY DEF Logging!EndOp, Logging!EndOpLast, LogInv, AloneInv
<1>2. hdr = <<>> /\ PinnedFrom(1)
  BY <1>1 DEF LogInv, UpInv, At, Phases
<1>3. /\ UNCHANGED <<home, hdr, logblk, cache, pin, lh, boot>>
      /\ tail' = 1
      /\ pc' = [pc EXCEPT ![p] = IF lh = <<>> THEN "leave" ELSE "log"]
  BY DEF Logging!EndOp, Logging!EndOpLast, Logging!disk
<1>4. \A phase \in Phases : At(phase)' <=> phase = IF lh = <<>> THEN "leave" ELSE "log"
  <2>1. \A q \in Procs : q # p => pc'[q] = pc[q]
    BY <1>3 DEF LogInv, LogType
  <2>2. pc'[p] = IF lh = <<>> THEN "leave" ELSE "log"
    BY <1>3 DEF LogInv, LogType
  <2> QED BY <1>1, <2>1, <2>2 DEF At
<1>5. PinnedFrom(1)' /\ LoggedTo(1)'
  BY <1>2, <1>3 DEF PinnedFrom, LoggedTo, LogInv, LogType
<1>6. lh # <<>> => 1 <= Len(lh)
  BY EmptySeq DEF LogInv, LogType
<1> QED BY <1>1, <1>2, <1>3, <1>4, <1>5, <1>6 DEF PhaseInv, UpInv, Phases

\* The next block of the list is in the log area.
LEMMA PhaseLog ==
  ASSUME LogInv, NEW p \in Procs, Logging!WriteLog(p)
  PROVE  PhaseInv'
<1>1. pc[p] = "log" /\ pc[p] \in Phases
  BY DEF Logging!WriteLog, Logging!Loop, Phases
<1>2. boot = "up" /\ hdr = <<>> /\ PinnedFrom(1) /\ LoggedTo(tail)
  BY <1>1, Committer DEF UpInv, Phases
<1>3. /\ tail \in 1 .. Len(lh) /\ tail \in 1 .. SIZE - 1 /\ Len(lh) \in Nat
      /\ lh[tail] \in Blocks /\ Len(lh) < SIZE
      /\ logblk \in [1 .. SIZE - 1 -> Vals]
  BY <1>1, TailIn DEF LogInv, LogType
<1>4. /\ UNCHANGED <<home, hdr, cache, pin, lh, boot>>
      /\ logblk' = [logblk EXCEPT ![tail] = cache[lh[tail]]]
      /\ tail' = IF tail = Len(lh) THEN 1 ELSE tail + 1
      /\ pc' = [pc EXCEPT ![p] = IF tail = Len(lh) THEN "head" ELSE "log"]
  <2>1. Logging!Content(lh[tail]) = cache[lh[tail]]
    BY <1>2, <1>3, ContentType DEF PinnedFrom
  <2> QED BY <2>1 DEF Logging!WriteLog, Logging!Loop, Logging!mem
<1>5. \A phase \in Phases : At(phase)' <=> phase = IF tail = Len(lh) THEN "head" ELSE "log"
  BY <1>1, <1>4, AtMoves DEF Phases
<1>6. PinnedFrom(1)'
  BY <1>2, <1>4 DEF PinnedFrom
<1>7. \A t \in 1 .. Len(lh) : t < tail + 1 => logblk'[t] = cache[lh[t]]
  <2> SUFFICES ASSUME NEW t \in 1 .. Len(lh), t < tail + 1 PROVE logblk'[t] = cache[lh[t]]
    OBVIOUS
  <2>1. CASE t = tail
    BY <1>3, <1>4, <2>1
  <2>2. CASE t # tail
    <3>1. t < tail /\ t \in 1 .. SIZE - 1
      BY <1>3, <2>2, LogParameters
    <3> QED BY <1>2, <1>3, <1>4, <3>1 DEF LoggedTo
  <2> QED BY <2>1, <2>2
<1>8. CASE tail = Len(lh)
  <2>1. LoggedTo(Len(lh) + 1)'
    BY <1>4, <1>7, <1>8 DEF LoggedTo
  <2>2. lh # <<>>
    BY <1>3
  <2> QED BY <1>2, <1>4, <1>5, <1>6, <1>8, <2>1, <2>2 DEF PhaseInv, UpInv, Phases
<1>9. CASE tail # Len(lh)
  <2>1. LoggedTo(tail)' /\ tail' <= Len(lh)
    BY <1>3, <1>4, <1>7, <1>9 DEF LoggedTo
  <2> QED BY <1>2, <1>4, <1>5, <1>6, <1>9, <2>1 DEF PhaseInv, UpInv, Phases
<1> QED BY <1>8, <1>9

\* The header is written when all of it is in the log area.
LEMMA PhaseHead ==
  ASSUME LogInv, NEW p \in Procs, Logging!WriteHead(p)
  PROVE  PhaseInv'
<1>1. pc[p] = "head" /\ pc[p] \in Phases
  BY DEF Logging!WriteHead, Phases
<1>2. /\ boot = "up" /\ PinnedFrom(1) /\ LoggedTo(Len(lh) + 1)
      /\ tail = 1 /\ lh # <<>> /\ lh \in Seq(Blocks) /\ Len(lh) \in Nat
  BY <1>1, Committer DEF UpInv, Phases, LogInv, LogType
<1>3. /\ UNCHANGED <<home, logblk, cache, pin, lh, boot, tail>> /\ hdr' = lh
      /\ pc' = [pc EXCEPT ![p] = "install"]
  BY DEF Logging!WriteHead, Logging!mem
<1>4. \A phase \in Phases : At(phase)' <=> phase = "install"
  BY <1>1, <1>3, AtMoves DEF Phases
<1>5. tail <= Len(lh)
  BY <1>2, EmptySeq
<1>6. \A t \in 1 .. Len(lh) : t < Len(lh) + 1 /\ ~(t < 1)
  BY <1>2
<1>7. PinnedFrom(tail)' /\ InstalledTo(tail)'
  BY <1>2, <1>3, <1>6 DEF PinnedFrom, InstalledTo
<1>8. \A t \in 1 .. Len(lh) : cache[lh[t]] = logblk[t]
  BY <1>2, <1>6 DEF LoggedTo
<1> QED BY <1>2, <1>3, <1>4, <1>5, <1>7, <1>8 DEF PhaseInv, UpInv, Phases

\* One more block is at home, and with that the cache may forget it.
LEMMA PhaseInstall ==
  ASSUME LogInv, NEW p \in Procs, Logging!Install(p)
  PROVE  PhaseInv'
<1>1. pc[p] = "install" /\ pc[p] \in Phases
  BY DEF Logging!Install, Logging!Loop, Phases
<1>2. /\ boot = "up" /\ hdr = lh /\ PinnedFrom(tail) /\ InstalledTo(tail)
      /\ \A t \in 1 .. Len(lh) : t >= tail => cache[lh[t]] = logblk[t]
      /\ Once(lh)
  BY <1>1, Committer DEF UpInv, Phases, LogInv
<1>3. /\ tail \in 1 .. Len(lh) /\ Len(lh) \in Nat /\ lh[tail] \in Blocks
      /\ logblk[tail] \in Vals
      /\ \A t \in 1 .. Len(lh) : lh[t] \in Blocks
      /\ home \in [Blocks -> Vals] /\ cache \in [Blocks -> Vals \cup {Absent}]
      /\ pin \in [Blocks -> Nat]
  BY <1>1, TailIn DEF LogInv, LogType
<1>4. /\ UNCHANGED <<hdr, logblk, lh, boot>>
      /\ home' = [home EXCEPT ![lh[tail]] = logblk[tail]]
      /\ cache' = [cache EXCEPT ![lh[tail]] = logblk[tail]]
      /\ pin' = [pin EXCEPT ![lh[tail]] = pin[lh[tail]] - 1]
      /\ tail' = IF tail = Len(lh) THEN 1 ELSE tail + 1
      /\ pc' = [pc EXCEPT ![p] = IF tail = Len(lh) THEN "erase" ELSE "install"]
  BY DEF Logging!Install, Logging!InstallBlock, Logging!Loop
<1>5. \A phase \in Phases :
        At(phase)' <=> phase = IF tail = Len(lh) THEN "erase" ELSE "install"
  BY <1>1, <1>4, AtMoves DEF Phases
<1>6. \A t \in 1 .. Len(lh) : t < tail + 1 => home'[lh[t]] = logblk[t]
  <2> SUFFICES ASSUME NEW t \in 1 .. Len(lh), t < tail + 1 PROVE home'[lh[t]] = logblk[t]
    OBVIOUS
  <2>1. CASE t = tail
    BY <1>3, <1>4, <2>1
  <2>2. CASE t # tail
    <3>1. t < tail /\ lh[t] # lh[tail]
      BY <1>2, <1>3, <2>2 DEF Once
    <3> QED BY <1>2, <1>3, <1>4, <3>1 DEF InstalledTo
  <2> QED BY <2>1, <2>2
<1>7. \A t \in 1 .. Len(lh) : t >= tail + 1 =>
        pin'[lh[t]] = 1 /\ cache'[lh[t]] # Absent /\ cache'[lh[t]] = logblk[t]
  <2> SUFFICES ASSUME NEW t \in 1 .. Len(lh), t >= tail + 1
               PROVE  pin'[lh[t]] = 1 /\ cache'[lh[t]] # Absent /\ cache'[lh[t]] = logblk[t]
    OBVIOUS
  <2>1. t >= tail /\ t # tail
    BY <1>3
  <2>2. lh[t] # lh[tail]
    BY <1>2, <1>3, <2>1 DEF Once
  <2> QED BY <1>2, <1>3, <1>4, <2>1, <2>2 DEF PinnedFrom
<1>8. ASSUME NEW b \in Blocks, \A t \in 1 .. Len(lh) : lh[t] = b => t < tail + 1
      PROVE  pin'[b] = 0 /\ cache'[b] \in {Absent, home'[b]}
  <2>1. CASE b = lh[tail]
    <3>1. pin[b] = 1
      BY <1>2, <1>3, <2>1 DEF PinnedFrom
    <3> QED BY <1>3, <1>4, <2>1, <3>1
  <2>2. CASE b # lh[tail]
    <3>1. \A t \in 1 .. Len(lh) : lh[t] = b => t < tail
      <4> SUFFICES ASSUME NEW t \in 1 .. Len(lh), lh[t] = b PROVE t < tail
        OBVIOUS
      <4>1. t < tail + 1 /\ t # tail
        BY <1>8, <2>2
      <4> QED BY <1>3, <4>1
    <3>2. pin[b] = 0 /\ cache[b] \in {Absent, home[b]}
      BY <1>2, <3>1 DEF PinnedFrom
    <3> QED BY <1>3, <1>4, <2>2, <3>2
  <2> QED BY <2>1, <2>2
<1>9. CASE tail = Len(lh)
  <2>1. InstalledTo(Len(lh) + 1)' /\ PinnedFrom(Len(lh) + 1)'
    BY <1>4, <1>6, <1>7, <1>8, <1>9 DEF InstalledTo, PinnedFrom
  <2> QED BY <1>2, <1>4, <1>5, <1>9, <2>1 DEF PhaseInv, UpInv, Phases
<1>10. CASE tail # Len(lh)
  <2>1. tail' = tail + 1 /\ tail' <= Len(lh)
    BY <1>3, <1>4, <1>10
  <2>2. InstalledTo(tail)' /\ PinnedFrom(tail)'
    BY <1>4, <1>6, <1>7, <1>8, <2>1 DEF InstalledTo, PinnedFrom
  <2>3. \A t \in 1 .. Len(lh) : t >= tail' => cache'[lh[t]] = logblk[t]
    BY <1>7, <2>1
  <2> QED BY <1>2, <1>4, <1>5, <1>10, <2>1, <2>2, <2>3 DEF PhaseInv, UpInv, Phases
<1> QED BY <1>9, <1>10

LEMMA PhaseErase ==
  ASSUME LogInv, NEW p \in Procs, Logging!Erase(p)
  PROVE  PhaseInv'
<1>1. pc[p] = "erase" /\ pc[p] \in Phases
  BY DEF Logging!Erase, Phases
<1>2. boot = "up" /\ PinnedFrom(Len(lh) + 1) /\ Len(lh) \in Nat
  BY <1>1, Committer DEF UpInv, Phases, LogInv, LogType
<1>3. /\ UNCHANGED <<home, logblk, cache, pin, boot, tail>> /\ hdr' = <<>> /\ lh' = <<>>
      /\ pc' = [pc EXCEPT ![p] = "leave"]
  BY DEF Logging!Erase
<1>4. \A phase \in Phases : At(phase)' <=> phase = "leave"
  BY <1>1, <1>3, AtMoves DEF Phases
<1>5. \A t \in 1 .. Len(lh) : t < Len(lh) + 1
  BY <1>2
<1>6. PinnedFrom(1)'
  BY <1>2, <1>3, <1>5 DEF PinnedFrom
<1> QED BY <1>2, <1>3, <1>4, <1>6 DEF PhaseInv, UpInv, Phases

LEMMA PhaseLeave ==
  ASSUME LogInv, NEW p \in Procs, Logging!Leave(p)
  PROVE  PhaseInv'
<1>1. pc[p] = "leave" /\ pc[p] \in Phases
  BY DEF Logging!Leave, Phases
<1>2. /\ boot = "up" /\ hdr = <<>> /\ PinnedFrom(1)
      /\ \A q \in Procs : q # p => pc[q] \notin Phases
  BY <1>1, Committer DEF UpInv, Phases
<1>3. UNCHANGED <<home, hdr, cache, pin, lh, boot>>
  BY DEF Logging!Leave, Logging!disk
<1>4. \A q \in Procs : pc'[q] \notin Phases
  BY <1>2 DEF Logging!Leave, Logging!WokenUp, LogInv, LogType, Phases
<1>5. PinnedFrom(1)'
  BY <1>2, <1>3 DEF PinnedFrom
<1> QED BY <1>2, <1>3, <1>4, <1>5 DEF PhaseInv, UpInv, Phases, At

\* What the cache forgets is at home.
LEMMA PhaseEvict ==
  ASSUME LogInv, NEW b \in Blocks, Logging!Evict(b)
  PROVE  PhaseInv'
<1>1. /\ pin[b] = 0 /\ cache' = [cache EXCEPT ![b] = Absent]
      /\ UNCHANGED <<home, hdr, logblk, pin, lh, boot, pc, tail>>
  BY DEF Logging!Evict, Logging!Evictable, Logging!disk
<1>2. /\ cache \in [Blocks -> Vals \cup {Absent}]
      /\ lh \in Seq(Blocks) /\ Len(lh) \in Nat
      /\ \A t \in 1 .. Len(lh) : lh[t] \in Blocks
  BY DEF LogInv, LogType
<1>3. \A phase \in Phases : At(phase)' <=> At(phase)
  BY <1>1 DEF At
<1>4. ASSUME NEW n \in Nat, PinnedFrom(n)
      PROVE  /\ \A t \in 1 .. Len(lh) : t >= n => cache'[lh[t]] = cache[lh[t]]
             /\ \A t \in 1 .. Len(lh) : t >= n => pin'[lh[t]] = 1 /\ cache'[lh[t]] # Absent
             /\ \A c \in Blocks :
                  (\A t \in 1 .. Len(lh) : lh[t] = c => t < n) =>
                    pin'[c] = 0 /\ cache'[c] \in {Absent, home[c]}
  <2>1. \A t \in 1 .. Len(lh) : t >= n => lh[t] # b
    BY <1>1, <1>4 DEF PinnedFrom
  <2> QED BY <1>1, <1>2, <1>4, <2>1 DEF PinnedFrom
<1>5. CASE boot # "up"
  <2>1. \A c \in Blocks : pin'[c] = 0 /\ cache'[c] \in {Absent, home'[c]}
    BY <1>1, <1>2, <1>5 DEF LogInv, BootInv
  <2> QED BY <1>1, <1>5, <2>1 DEF PhaseInv, BootInv, LogInv, InstalledTo
<1>6. CASE boot = "up"
  <2>1. UpInv /\ 1 \in Nat /\ tail \in Nat /\ Len(lh) + 1 \in Nat
    BY <1>2, <1>6 DEF LogInv, LogType
  <2>2. ASSUME PinnedFrom(1)
        PROVE  /\ PinnedFrom(1)'
               /\ \A t \in 1 .. Len(lh) : cache'[lh[t]] = cache[lh[t]]
    <3>1. \A t \in 1 .. Len(lh) : t >= 1
      BY <1>2
    <3> QED BY <1>1, <1>4, <2>2, <3>1 DEF PinnedFrom
  <2>3. ASSUME PinnedFrom(tail)
        PROVE  /\ PinnedFrom(tail)'
               /\ \A t \in 1 .. Len(lh) : t >= tail => cache'[lh[t]] = cache[lh[t]]
    BY <1>1, <1>4, <2>1, <2>3 DEF PinnedFrom
  <2>4. ASSUME PinnedFrom(Len(lh) + 1) PROVE PinnedFrom(Len(lh) + 1)'
    BY <1>1, <1>4, <2>1, <2>4 DEF PinnedFrom
  <2>5. ~At("install") /\ ~At("erase") => hdr' = <<>> /\ PinnedFrom(1)'
    BY <1>1, <2>1, <2>2 DEF UpInv
  <2>6. At("log") => PinnedFrom(1) /\ tail <= Len(lh) /\ LoggedTo(tail)
    BY <2>1, Committer DEF UpInv, At, Phases
  <2>7. At("head") => PinnedFrom(1) /\ tail = 1 /\ lh # <<>> /\ LoggedTo(Len(lh) + 1)
    BY <2>1, Committer DEF UpInv, At, Phases
  <2>8. At("log") => tail' <= Len(lh') /\ LoggedTo(tail)'
    BY <1>1, <2>2, <2>6 DEF LoggedTo
  <2>9. At("head") => tail' = 1 /\ lh' # <<>> /\ LoggedTo(Len(lh) + 1)'
    BY <1>1, <2>2, <2>7 DEF LoggedTo
  <2>10. At("install") => /\ hdr' = lh' /\ tail' <= Len(lh')
                          /\ \A t \in 1 .. Len(lh') : t >= tail' => cache'[lh'[t]] = logblk'[t]
                          /\ InstalledTo(tail)' /\ PinnedFrom(tail)'
    BY <1>1, <2>1, <2>3 DEF UpInv, InstalledTo
  <2>11. At("erase") => /\ hdr' = lh'
                        /\ InstalledTo(Len(lh) + 1)' /\ PinnedFrom(Len(lh) + 1)'
    BY <1>1, <2>1, <2>4 DEF UpInv, InstalledTo
  <2>12. At("leave") => lh' = <<>>
    BY <1>1, <2>1 DEF UpInv
  <2>13. UpInv'
    BY <1>3, <2>5, <2>8, <2>9, <2>10, <2>11, <2>12 DEF UpInv, Phases
  <2> QED BY <1>1, <1>6, <2>13 DEF PhaseInv
<1> QED BY <1>5, <1>6

LEMMA PhaseRestart ==
  ASSUME LogInv, Logging!Restart
  PROVE  PhaseInv'
<1>1. boot' = "read" /\ tail' = 1
  BY DEF Logging!Restart
<1>2. \A b \in Blocks : pin'[b] = 0 /\ cache'[b] \in {Absent, home'[b]}
  BY DEF Logging!Restart
<1> QED BY <1>1, <1>2 DEF PhaseInv, BootInv

LEMMA PhaseRecover ==
  ASSUME LogInv, Logging!Recover
  PROVE  PhaseInv'
<1>1. boot # "up" /\ BootInv /\ \A q \in Procs : pc[q] = "idle"
  BY DEF Logging!Recover, Logging!ReadHead, Logging!RecoverInstall, Logging!RecoverErase,
         LogInv, AloneInv
<1>2. hdr \in Seq(Blocks) /\ Len(hdr) \in Nat /\ tail \in Nat \ {0} /\ Once(lh)
  BY DEF LogInv, LogType
<1>3. CASE Logging!ReadHead
  <2>1. /\ lh' = hdr /\ tail' = 1 /\ UNCHANGED <<hdr, home, cache, pin>>
        /\ boot' = IF hdr = <<>> THEN "erase" ELSE "install"
    BY <1>1, <1>3 DEF Logging!ReadHead, Logging!disk, BootInv
  <2>2. hdr # <<>> => 1 <= Len(hdr)
    BY <1>2, EmptySeq
  <2>3. \A t \in 1 .. Len(hdr) : ~(t < 1)
    BY <1>2
  <2>4. hdr = <<>> => Len(hdr) = 0
    OBVIOUS
  <2>5. hdr = <<>> => \A t \in 1 .. Len(hdr) : ~(t < Len(hdr) + 1)
    BY <2>4
  <2> QED BY <1>1, <2>1, <2>2, <2>3, <2>5 DEF PhaseInv, BootInv, InstalledTo
<1>4. CASE Logging!RecoverInstall
  <2>1. /\ tail \in 1 .. Len(lh) /\ Len(lh) \in Nat /\ lh[tail] \in Blocks
        /\ \A t \in 1 .. Len(lh) : lh[t] \in Blocks
        /\ home \in [Blocks -> Vals] /\ cache \in [Blocks -> Vals \cup {Absent}]
    BY <1>4, TailIn DEF LogInv, LogType, Logging!RecoverInstall
  <2>2. /\ UNCHANGED <<hdr, logblk, lh, pin>>
        /\ home' = [home EXCEPT ![lh[tail]] = logblk[tail]]
        /\ cache' = [cache EXCEPT ![lh[tail]] = logblk[tail]]
        /\ tail' = IF tail = Len(lh) THEN 1 ELSE tail + 1
        /\ boot' = IF tail = Len(lh) THEN "erase" ELSE "install"
    BY <1>4 DEF Logging!RecoverInstall, Logging!InstallBlock
  <2>3. lh = hdr /\ InstalledTo(tail)
    BY <1>1, <1>4 DEF BootInv, Logging!RecoverInstall
  <2>4. \A t \in 1 .. Len(lh) : t < tail + 1 => home'[lh[t]] = logblk[t]
    <3> SUFFICES ASSUME NEW t \in 1 .. Len(lh), t < tail + 1 PROVE home'[lh[t]] = logblk[t]
      OBVIOUS
    <3>1. CASE t = tail
      BY <2>1, <2>2, <3>1
    <3>2. CASE t # tail
      <4>1. t < tail /\ lh[t] # lh[tail]
        BY <1>2, <2>1, <3>2 DEF Once
      <4> QED BY <2>1, <2>2, <2>3, <4>1 DEF InstalledTo
    <3> QED BY <3>1, <3>2
  <2>5. \A b \in Blocks : pin'[b] = 0 /\ cache'[b] \in {Absent, home'[b]}
    BY <1>1, <2>1, <2>2 DEF BootInv
  <2>6. CASE tail = Len(lh)
    <3>1. InstalledTo(Len(lh) + 1)'
      BY <2>2, <2>4, <2>6 DEF InstalledTo
    <3> QED BY <2>2, <2>3, <2>5, <2>6, <3>1 DEF PhaseInv, BootInv
  <2>7. CASE tail # Len(lh)
    <3>1. tail' = tail + 1 /\ tail' <= Len(lh)
      BY <2>1, <2>2, <2>7
    <3>2. InstalledTo(tail)'
      BY <2>2, <2>4, <3>1 DEF InstalledTo
    <3> QED BY <2>2, <2>3, <2>5, <2>7, <3>1, <3>2 DEF PhaseInv, BootInv
  <2> QED BY <2>6, <2>7
<1>5. CASE Logging!RecoverErase
  <2>1. /\ boot' = "up" /\ hdr' = <<>> /\ lh' = <<>> /\ UNCHANGED <<home, cache, pin, pc>>
    BY <1>5 DEF Logging!RecoverErase
  <2>2. PinnedFrom(1)'
    BY <1>1, <2>1 DEF PinnedFrom, BootInv
  <2>3. \A phase \in Phases : ~At(phase)'
    BY <1>1, <2>1 DEF At, Phases
  <2> QED BY <2>1, <2>2, <2>3 DEF PhaseInv, UpInv, Phases
<1> QED BY <1>3, <1>4, <1>5 DEF Logging!Recover

LEMMA PhaseStep ==
  ASSUME LogInv, Logging!Next
  PROVE  PhaseInv'
BY PhaseCall, PhaseWrite, PhaseLast, PhaseLog, PhaseHead, PhaseInstall, PhaseErase,
   PhaseLeave, PhaseEvict, PhaseRestart, PhaseRecover
   DEF Logging!Next, Logging!CommitStep, Logging!EndOp, Logging!Crash, Logging!Panic

LEMMA LogInit == Init => LogInv
<1> SUFFICES ASSUME Logging!Init PROVE LogInv
  BY DEF Init
<1>1. <<>> \in Seq(Blocks) /\ Len(<<>>) = 0 /\ Once(<<>>)
  BY DEF Once
<1>2. LogType
  <2>1. /\ cache \in [Blocks -> Vals \cup {Absent}] /\ pin \in [Blocks -> Nat]
        /\ used \in [Procs -> SUBSET Blocks]
        /\ pc \in [Procs -> {"idle", "begin", "asleep", "op"} \cup Phases]
    BY DEF Logging!Init
  <2>2. logblk \in [1 .. SIZE - 1 -> Vals] /\ home \in [Blocks -> Vals]
    BY DEF Logging!Init, Logging!Tails
  <2>3. /\ outstanding \in Nat /\ tail \in Nat \ {0}
        /\ boot \in {"read", "install", "erase", "up"} /\ committing \in BOOLEAN
        /\ hdr = <<>> /\ lh = <<>>
    <3>1. /\ outstanding = 0 /\ tail = 1 /\ boot = "read" /\ ~committing
          /\ hdr = <<>> /\ lh = <<>>
      BY DEF Logging!Init
    <3>2. committing \in BOOLEAN
      BY Zenon DEF Logging!Init
    <3> QED BY <3>1, <3>2
  <2> QED BY <1>1, <2>1, <2>2, <2>3, LogParameters DEF LogType
<1>3. Logging!InOp = {} /\ outstanding = 0
  BY DEF Logging!Init, Logging!InOp
<1>4. AdmitInv
  <2>1. Logging!Spare = {}
    BY <1>3 DEF Logging!Spare
  <2>2. Logging!Reserved
    BY <2>1, FS_EmptySet, SameCardinality, LogParameters
       DEF Logging!Init, Logging!Reserved
  <2> QED BY <1>3, <2>2, FS_EmptySet DEF AdmitInv
<1>5. AloneInv
  BY DEF Logging!Init, AloneInv, Phases
<1>6. boot # "up" /\ BootInv
  BY DEF Logging!Init, BootInv
<1> QED BY <1>1, <1>2, <1>4, <1>5, <1>6 DEF LogInv, Logging!Init

LEMMA LogStep == LogInv /\ [Next]_vars => LogInv'
<1> SUFFICES ASSUME LogInv, Logging!Next \/ UNCHANGED logVars PROVE LogInv'
  BY LogSteps
<1>1. CASE Logging!Next
  BY <1>1, LogTypeStep, OnceStep, AdmitStep, AloneStep, PhaseStep DEF LogInv, PhaseInv
<1>2. CASE UNCHANGED logVars
  BY <1>2
     DEF logVars, LogInv, LogType, Once, AdmitInv, AloneInv, UpInv, BootInv, LoggedTo,
         InstalledTo, PinnedFrom, At, Logging!InOp, Logging!Reserved, Logging!Spare,
         Logging!Logged
<1> QED BY <1>1, <1>2

----------------------------------------------------------------------------
(* What the log promises *)

LEMMA LogSafe == LogInv => CallsAdmitted
<1> SUFFICES ASSUME LogInv PROVE Logging!CommitAlone /\ Logging!Reserved
  BY DEF CallsAdmitted
<1>1. ASSUME NEW p \in Procs, pc[p] \in Phases
      PROVE  Logging!InOp = {} /\ Logging!Cardinality(Logging!Committers) = 1 /\ committing
  <2>1. /\ committing /\ \A q \in Procs : q # p => pc[q] \notin Phases
        /\ \A q \in Procs : pc[q] # "op"
    BY <1>1, Committer
  <2>2. Logging!Committers = {p}
    BY <1>1, <2>1 DEF Logging!Committers, Phases
  <2> QED BY <2>1, <2>2, FS_Singleton, SameCardinality DEF Logging!InOp
<1> QED BY <1>1 DEF Logging!CommitAlone, Logging!Committers, Phases, LogInv, AdmitInv

\* The calls fit into the log, and the log commits alone, for any number of processes,
\* whatever they write, crashes included (log.c:12-16, 131-140).
THEOREM CallsAdmittedCorrect == Spec => []CallsAdmitted
BY LogInit, LogStep, LogSafe, PTL DEF Spec

Durable == Logging!Recovered
View == IF boot = "up" THEN [b \in Blocks |-> Logging!Content(b)] ELSE Logging!Recovered

LEMMA DurableHome == LogType /\ hdr = <<>> => Durable = home
<1> SUFFICES ASSUME LogType, hdr = <<>> PROVE Durable = home
  OBVIOUS
<1>1. Len(hdr) = 0
  OBVIOUS
<1>2. \A b \in Blocks : ~ \E t \in 1 .. Len(hdr) : hdr[t] = b
  BY <1>1
<1> QED BY <1>2 DEF Durable, Logging!Recovered, LogType

\* Each block of the header is found where the log area has it.
LEMMA DurableIs ==
  ASSUME NEW b \in Blocks
  PROVE  /\ (\A t \in 1 .. Len(hdr) : hdr[t] # b) => Durable[b] = home[b]
         /\ (\E t \in 1 .. Len(hdr) : hdr[t] = b) =>
              \E t \in 1 .. Len(hdr) : hdr[t] = b /\ Durable[b] = logblk[t]
BY DEF Durable, Logging!Recovered

LEMMA DurableType ==
  ASSUME LogType
  PROVE  Durable \in [Blocks -> Vals] /\ DOMAIN Durable = Blocks
<1>1. \A t \in 1 .. Len(hdr) : logblk[t] \in Vals
  BY LogParameters DEF LogType
<1>2. \A b \in Blocks : Durable[b] \in Vals
  BY <1>1, DurableIs DEF LogType
<1>3. Durable = [b \in Blocks |-> Durable[b]]
  BY DEF Durable, Logging!Recovered
<1> QED BY <1>2, <1>3

\* When all of the list is at home, the header makes no difference.
LEMMA DurableInstalled ==
  ASSUME LogType, hdr = lh, InstalledTo(Len(lh) + 1)
  PROVE  Durable = home
<1>1. \A t \in 1 .. Len(lh) : home[lh[t]] = logblk[t]
  BY DEF InstalledTo, LogType
<1>2. ASSUME NEW b \in Blocks PROVE Durable[b] = home[b]
  BY <1>1, DurableIs
<1> QED BY <1>2, DurableType DEF LogType

\* Without a pin the cache has what is at home.
LEMMA Unpinned ==
  ASSUME LogInv, NEW b \in Blocks, pin[b] = 0
  PROVE  cache[b] \in {Absent, home[b]}
<1>1. CASE boot # "up"
  BY <1>1 DEF LogInv, BootInv
<1>2. ASSUME NEW n \in Nat, PinnedFrom(n) PROVE cache[b] \in {Absent, home[b]}
  <2>1. \A t \in 1 .. Len(lh) : lh[t] = b => ~(t >= n)
    BY <1>2 DEF PinnedFrom
  <2>2. \A t \in 1 .. Len(lh) : lh[t] = b => t < n
    BY <1>2, <2>1 DEF LogInv, LogType
  <2> QED BY <1>2, <2>2 DEF PinnedFrom
<1>3. CASE boot = "up"
  <2>1. UpInv /\ tail \in Nat /\ Len(lh) + 1 \in Nat /\ 1 \in Nat
    BY <1>3 DEF LogInv, LogType
  <2>2. PinnedFrom(1) \/ PinnedFrom(tail) \/ PinnedFrom(Len(lh) + 1)
    BY <2>1 DEF UpInv
  <2> QED BY <1>2, <2>1, <2>2
<1> QED BY <1>1, <1>3

\* At the return of the end_op() that commits, nothing is only in memory.
LEMMA ReturnStep ==
  ASSUME LogInv, LogInv', Logging!Next, NEW p \in Procs,
         pc[p] = "leave", pc'[p] = "idle", boot' = "up"
  PROVE  Logging!Recovered = [b \in Blocks |-> Logging!Content(b)]
<1>1. boot = "up" /\ UpInv /\ At("leave") /\ ~At("install") /\ ~At("erase")
  BY Committer DEF Phases
<1>2. hdr = <<>> /\ PinnedFrom(1) /\ lh = <<>>
  BY <1>1 DEF UpInv
<1>3. Logging!Recovered = home
  BY <1>2, DurableHome DEF Durable, LogInv
<1>4. \A b \in Blocks : pin[b] = 0
  BY <1>2 DEF PinnedFrom
<1>5. \A b \in Blocks : Logging!Content(b) = home[b]
  BY <1>4, Unpinned, ContentType
<1> QED BY <1>3, <1>5 DEF LogInv, LogType

\* When the end_op() that commits returns, a crash would lose nothing of what was
\* written, whatever the others do at the same time (log.c:147-175).
THEOREM CommittedOnReturnCorrect == Spec => CommittedOnReturn
<1>1. LogInv /\ LogInv' /\ [Next]_vars =>
        [\A p \in Procs :
           pc[p] = "leave" /\ pc'[p] = "idle" /\ boot' = "up"
             => Logging!Recovered = [b \in Blocks |-> Logging!Content(b)]]_(Logging!vars)
  BY LogSteps, ReturnStep DEF logVars, Logging!vars, Logging!disk, Logging!mem
<1> QED BY <1>1, LogInit, LogStep, PTL
        DEF Spec, CommittedOnReturn, Logging!CommittedOnReturn

----------------------------------------------------------------------------
(* The log as an atomic disk *)

\* A step of the atomic disk, in terms of what is durable, what is seen, and who is
\* inside.
DiskVars == <<Durable, View, Logging!InOp>>

LEMMA DiskIs ==
  /\ Logging!Disk!vars = DiskVars
  /\ UNCHANGED DiskVars => UNCHANGED Logging!Disk!vars
BY DEF Logging!Disk!vars, DiskVars, Durable, View

LEMMA AtomicInit == Init => Logging!Disk!Init
<1> SUFFICES ASSUME LogInv, Logging!Init PROVE Logging!Disk!Init
  BY LogInit DEF Init
<1>1. Durable \in [Blocks -> Vals] /\ View = Durable
  BY DurableType DEF LogInv, Logging!Init, View, Durable
<1>2. Logging!InOp = {}
  BY DEF Logging!Init, Logging!InOp
<1> QED BY <1>1, <1>2 DEF Logging!Disk!Init, Durable, View

\* Who sees the same in the cache or at home sees the same.
LEMMA ViewSame ==
  ASSUME boot = "up", boot' = "up",
         \A b \in Blocks : Logging!Content(b)' = Logging!Content(b)
  PROVE  View' = View
BY DEF View

LEMMA DiskCall ==
  ASSUME LogInv, NEW p \in Procs,
         Logging!Call(p) \/ Logging!BeginSleep(p) \/ Logging!Begin(p) \/ Logging!EndOp(p)
  PROVE  [Logging!Disk!Next]_(Logging!Disk!vars)
<1>1. UNCHANGED <<home, hdr, logblk, cache, boot>>
  BY DEF Logging!Call, Logging!BeginSleep, Logging!Begin, Logging!EndOp, Logging!disk,
         Logging!mem
<1>2. Durable' = Durable /\ View' = View
  BY <1>1 DEF Durable, View, Logging!Recovered, Logging!Content
<1>3. pc \in [Procs -> {"idle", "begin", "asleep", "op"} \cup Phases]
  BY DEF LogInv, LogType
<1>4. CASE Logging!Call(p) \/ Logging!BeginSleep(p)
  <2>1. Logging!InOp' = Logging!InOp
    BY <1>3, <1>4 DEF Logging!Call, Logging!BeginSleep, Logging!InOp
  <2> QED BY <1>2, <2>1, DiskIs DEF DiskVars
<1>5. CASE Logging!Begin(p)
  <2>1. Logging!InOp' = Logging!InOp \cup {p} /\ p \notin Logging!InOp
    BY <1>3, <1>5 DEF Logging!Begin, Logging!InOp
  <2>2. Logging!Disk!Begin(p)
    BY <1>2, <2>1 DEF Logging!Disk!Begin, Durable, View
  <2> QED BY <2>2 DEF Logging!Disk!Next
<1>6. CASE Logging!EndOp(p)
  <2>1. \A q \in Procs : pc'[q] = "op" <=> pc[q] = "op" /\ q # p
    BY <1>3, <1>6
       DEF Logging!EndOp, Logging!EndOpFirst, Logging!EndOpLast, Logging!WokenUp
  <2>2. Logging!InOp' = Logging!InOp \ {p} /\ p \in Logging!InOp
    BY <1>6, <2>1 DEF Logging!EndOp, Logging!InOp
  <2>3. Logging!Disk!End(p)
    BY <1>2, <2>2 DEF Logging!Disk!End, Durable, View
  <2> QED BY <2>3 DEF Logging!Disk!Next
<1> QED BY <1>4, <1>5, <1>6

LEMMA DiskWrite ==
  ASSUME LogInv, NEW p \in Procs, NEW b \in Blocks, NEW v \in Vals,
         Logging!LogWrite(p, b, v)
  PROVE  Logging!Disk!Write(p, b, v)
<1>1. /\ UNCHANGED <<home, hdr, logblk, boot, pc>> /\ boot = "up"
      /\ p \in Logging!InOp /\ v # Absent
      /\ cache' = [cache EXCEPT ![b] = v] /\ cache \in [Blocks -> Vals \cup {Absent}]
  BY LogParameters
     DEF Logging!LogWrite, Logging!disk, LogInv, AloneInv, LogType, Logging!InOp
<1>2. Durable' = Durable
  BY <1>1 DEF Durable, Logging!Recovered
<1>3. View' = [View EXCEPT ![b] = v]
  <2>1. \A c \in Blocks :
          Logging!Content(c)' = IF c = b THEN v ELSE Logging!Content(c)
    BY <1>1 DEF Logging!Content
  <2> QED BY <1>1, <2>1 DEF View
<1> QED BY <1>1, <1>2, <1>3 DEF Logging!Disk!Write, Durable, View, Logging!InOp

\* What the log area holds without a header counts for nothing.
LEMMA DiskLog ==
  ASSUME LogInv, NEW p \in Procs, Logging!WriteLog(p)
  PROVE  UNCHANGED <<Durable, View>>
<1>1. boot = "up" /\ hdr = <<>> /\ LogType
  BY Committer DEF Logging!WriteLog, Logging!Loop, UpInv, LogInv, Phases
<1>2. UNCHANGED <<home, hdr, cache, boot>>
  BY DEF Logging!WriteLog, Logging!mem
<1>3. Durable = home
  BY <1>1, DurableHome
<1>4. Durable' = home'
  <2>1. (LogType /\ hdr = <<>>)'
    BY <1>1, <1>2, LogTypeStep DEF Logging!Next, Logging!CommitStep
  <2>2. (Durable = home)'
    BY <2>1, DurableHome, PTL
  <2> QED BY <2>2
<1>5. View' = View
  BY <1>1, <1>2 DEF View, Logging!Content
<1> QED BY <1>2, <1>3, <1>4, <1>5

\* The header makes all that is seen durable at once.
LEMMA DiskHead ==
  ASSUME LogInv, NEW p \in Procs, Logging!WriteHead(p)
  PROVE  Logging!Disk!Commit
<1>1. pc[p] = "head" /\ pc[p] \in Phases
  BY DEF Logging!WriteHead, Phases
<1>2. /\ boot = "up" /\ PinnedFrom(1) /\ LoggedTo(Len(lh) + 1)
      /\ Len(lh) \in Nat /\ Logging!InOp = {}
  BY <1>1, Committer DEF UpInv, Phases, LogInv, LogType, Logging!InOp
<1>3. /\ UNCHANGED <<home, logblk, cache, boot>> /\ hdr' = lh
      /\ pc' = [pc EXCEPT ![p] = "install"]
  BY DEF Logging!WriteHead, Logging!mem
<1>4. View = [b \in Blocks |-> Logging!Content(b)] /\ View' = View
  BY <1>2, <1>3 DEF View, Logging!Content
<1>5. ASSUME NEW b \in Blocks PROVE Durable'[b] = Logging!Content(b)
  <2>1. CASE \E t \in 1 .. Len(lh) : lh[t] = b
    <3>1. PICK t \in 1 .. Len(lh) : lh[t] = b /\ Durable'[b] = logblk[t]
      BY <1>3, <2>1 DEF Durable, Logging!Recovered
    <3>2. cache[b] # Absent /\ logblk[t] = cache[b]
      BY <1>2, <3>1 DEF PinnedFrom, LoggedTo
    <3> QED BY <3>1, <3>2 DEF Logging!Content
  <2>2. CASE ~ \E t \in 1 .. Len(lh) : lh[t] = b
    <3>1. Durable'[b] = home[b]
      BY <1>3, <2>2 DEF Durable, Logging!Recovered
    <3>2. cache[b] \in {Absent, home[b]}
      BY <1>2, <2>2 DEF PinnedFrom
    <3> QED BY <3>1, <3>2, ContentType
  <2> QED BY <2>1, <2>2
<1>6. Durable' = View
  <2>1. Durable' = [b \in Blocks |-> Durable'[b]]
    BY DEF Durable, Logging!Recovered
  <2> QED BY <1>4, <1>5, <2>1
<1>7. Logging!InOp' = {}
  BY <1>2, <1>3 DEF Logging!InOp, LogInv, LogType
<1> QED BY <1>2, <1>4, <1>6, <1>7 DEF Logging!Disk!Commit, Durable, View

\* Neither what is seen nor what would be recovered changes when a block comes home.
LEMMA DiskInstall ==
  ASSUME LogInv, Logging!InstallBlock, UNCHANGED <<hdr, logblk>>, hdr = lh,
         (\E p \in Procs : pc[p] = "install") \/ boot = "install"
  PROVE  /\ Durable' = Durable
         /\ \A b \in Blocks : b # lh[tail] => Logging!Content(b)' = Logging!Content(b)
<1>1. /\ tail \in 1 .. Len(lh) /\ lh[tail] \in Blocks /\ logblk[tail] \in Vals
      /\ home \in [Blocks -> Vals] /\ cache \in [Blocks -> Vals \cup {Absent}]
      /\ home' = [home EXCEPT ![lh[tail]] = logblk[tail]]
      /\ cache' = [cache EXCEPT ![lh[tail]] = logblk[tail]]
  BY TailIn DEF LogInv, LogType, Logging!InstallBlock
<1>2. \A b \in Blocks : (\A t \in 1 .. Len(hdr) : hdr[t] # b) => home'[b] = home[b]
  BY <1>1
<1>3. Durable' = Durable
  BY <1>2 DEF Durable, Logging!Recovered
<1>4. ASSUME NEW b \in Blocks, b # lh[tail] PROVE Logging!Content(b)' = Logging!Content(b)
  BY <1>1, <1>4 DEF Logging!Content
<1> QED BY <1>3, <1>4

LEMMA DiskCommit ==
  ASSUME LogInv, LogInv', NEW p \in Procs, Logging!CommitStep(p)
  PROVE  [Logging!Disk!Next]_(Logging!Disk!vars)
<1>1. pc[p] \in Phases
  BY DEF Logging!CommitStep, Logging!WriteLog, Logging!WriteHead, Logging!Install,
         Logging!Erase, Logging!Leave, Logging!Loop, Phases
<1>2. boot = "up" /\ UpInv /\ \A q \in Procs : pc[q] # "op"
  BY <1>1, Committer
<1>3. \A q \in Procs : pc'[q] # "op"
  BY <1>2
     DEF Logging!CommitStep, Logging!WriteLog, Logging!WriteHead, Logging!Install,
         Logging!Erase, Logging!Leave, Logging!Loop, Logging!WokenUp, LogInv, LogType
<1>4. Logging!InOp' = Logging!InOp
  BY <1>2, <1>3 DEF Logging!InOp
<1>5. ASSUME UNCHANGED <<Durable, View>> PROVE [Logging!Disk!Next]_(Logging!Disk!vars)
  BY <1>4, <1>5, DiskIs DEF DiskVars
<1>6. CASE Logging!WriteLog(p)
  BY <1>5, <1>6, DiskLog
<1>7. CASE Logging!WriteHead(p)
  BY <1>7, DiskHead DEF Logging!Disk!Next
<1>8. CASE Logging!Install(p)
  <2>1. pc[p] = "install" /\ boot' = "up" /\ Logging!InstallBlock /\ UNCHANGED <<hdr, logblk>>
    BY <1>2, <1>8 DEF Logging!Install, Logging!Loop
  <2>2. /\ hdr = lh /\ PinnedFrom(tail) /\ tail \in 1 .. Len(lh) /\ lh[tail] \in Blocks
        /\ \A t \in 1 .. Len(lh) : t >= tail => cache[lh[t]] = logblk[t]
    BY <1>1, <1>2, <2>1, Committer, TailIn DEF UpInv
  <2>3. Logging!Content(lh[tail]) = logblk[tail]
    <3>1. cache[lh[tail]] = logblk[tail] /\ cache[lh[tail]] # Absent
      BY <2>2 DEF PinnedFrom
    <3> QED BY <3>1 DEF Logging!Content
  <2>4. \A b \in Blocks : Logging!Content(b)' = Logging!Content(b)
    <3>1. \A b \in Blocks : b # lh[tail] => Logging!Content(b)' = Logging!Content(b)
      BY <2>1, <2>2, DiskInstall
    <3>2. ASSUME NEW b \in Blocks, b = lh[tail]
          PROVE  Logging!Content(b)' = Logging!Content(b)
      <4>1. cache'[b] = logblk[tail] /\ logblk[tail] # Absent
        BY <2>1, <2>2, <3>2, TailIn, LogParameters
           DEF Logging!InstallBlock, LogInv, LogType
      <4> QED BY <2>3, <3>2, <4>1 DEF Logging!Content
    <3> QED BY <3>1, <3>2
  <2>5. Durable' = Durable
    BY <2>1, <2>2, DiskInstall
  <2> QED BY <1>2, <1>5, <2>1, <2>4, <2>5, ViewSame
<1>9. CASE Logging!Erase(p)
  <2>1. /\ hdr' = <<>> /\ UNCHANGED <<home, cache, boot>>
        /\ hdr = lh /\ InstalledTo(Len(lh) + 1)
    BY <1>1, <1>2, <1>9, Committer DEF Logging!Erase, UpInv, Phases
  <2>2. Durable = home
    BY <2>1, DurableInstalled DEF LogInv
  <2>3. Durable' = home'
    <3>1. (LogType /\ hdr = <<>>)'
      BY <2>1 DEF LogInv
    <3>2. (Durable = home)'
      BY <3>1, DurableHome, PTL
    <3> QED BY <3>2
  <2>4. View' = View
    BY <1>2, <2>1 DEF View, Logging!Content
  <2> QED BY <1>5, <2>1, <2>2, <2>3, <2>4
<1>10. CASE Logging!Leave(p)
  <2>1. UNCHANGED <<home, hdr, logblk, cache, boot>>
    BY <1>10 DEF Logging!Leave, Logging!disk
  <2>2. Durable' = Durable /\ View' = View
    BY <2>1 DEF Durable, View, Logging!Recovered, Logging!Content
  <2> QED BY <1>5, <2>2
<1> QED BY <1>6, <1>7, <1>8, <1>9, <1>10 DEF Logging!CommitStep

LEMMA DiskEvict ==
  ASSUME LogInv, NEW b \in Blocks, Logging!Evict(b)
  PROVE  UNCHANGED DiskVars
<1>1. /\ pin[b] = 0 /\ cache' = [cache EXCEPT ![b] = Absent]
      /\ UNCHANGED <<home, hdr, logblk, boot, pc>>
      /\ cache \in [Blocks -> Vals \cup {Absent}]
  BY DEF Logging!Evict, Logging!Evictable, Logging!disk, LogInv, LogType
<1>2. cache[b] \in {Absent, home[b]}
  BY <1>1, Unpinned
<1>3. \A c \in Blocks : Logging!Content(c)' = Logging!Content(c)
  BY <1>1, <1>2, ContentType DEF Logging!Content
<1>4. Durable' = Durable /\ Logging!InOp' = Logging!InOp
  BY <1>1 DEF Durable, Logging!Recovered, Logging!InOp
<1> QED BY <1>1, <1>3, <1>4 DEF DiskVars, View, Durable

\* A crash leaves what is durable.
LEMMA DiskCrash ==
  ASSUME LogInv, Logging!Restart
  PROVE  Logging!Disk!Crash
<1>1. boot' = "read" /\ UNCHANGED <<home, hdr, logblk>>
  BY DEF Logging!Restart, Logging!disk
<1>2. Durable' = Durable
  BY <1>1 DEF Durable, Logging!Recovered
<1>3. View' = Durable /\ Logging!InOp' = {}
  BY <1>1, <1>2 DEF View, Durable, Logging!Restart, Logging!InOp
<1> QED BY <1>2, <1>3 DEF Logging!Disk!Crash, Durable, View

\* Recovery, interrupted by crashes or not, cannot be seen.
LEMMA DiskRecover ==
  ASSUME LogInv, LogInv', Logging!Recover
  PROVE  UNCHANGED DiskVars
<1>1. /\ boot # "up" /\ BootInv /\ pc' = pc /\ LogType
  BY DEF Logging!Recover, Logging!ReadHead, Logging!RecoverInstall, Logging!RecoverErase,
         LogInv
<1>2. Logging!InOp' = Logging!InOp
  BY <1>1 DEF Logging!InOp
<1>3. CASE Logging!ReadHead
  <2>1. boot' # "up" /\ UNCHANGED <<home, hdr, logblk>>
    BY <1>3 DEF Logging!ReadHead, Logging!disk
  <2> QED BY <1>1, <1>2, <2>1 DEF DiskVars, View, Durable, Logging!Recovered
<1>4. CASE Logging!RecoverInstall
  <2>1. /\ boot' # "up" /\ boot = "install" /\ Logging!InstallBlock
        /\ UNCHANGED <<hdr, logblk>> /\ hdr = lh
    BY <1>1, <1>4 DEF Logging!RecoverInstall, BootInv
  <2>2. Durable' = Durable
    BY <2>1, DiskInstall
  <2> QED BY <1>1, <1>2, <2>1, <2>2 DEF DiskVars, View, Durable
<1>5. CASE Logging!RecoverErase
  <2>1. /\ boot' = "up" /\ hdr' = <<>> /\ UNCHANGED <<home, cache>>
        /\ hdr = lh /\ InstalledTo(Len(lh) + 1)
    BY <1>1, <1>5 DEF Logging!RecoverErase, BootInv
  <2>2. Durable = home
    BY <1>1, <2>1, DurableInstalled
  <2>3. Durable' = home'
    <3>1. (LogType /\ hdr = <<>>)'
      BY <2>1 DEF LogInv
    <3>2. (Durable = home)'
      BY <3>1, DurableHome, PTL
    <3> QED BY <3>2
  <2>4. \A b \in Blocks : cache'[b] \in {Absent, home'[b]}
    BY <1>1, <2>1 DEF BootInv
  <2>5. \A b \in Blocks : Logging!Content(b)' = home[b]
    BY <2>1, <2>4 DEF Logging!Content
  <2>6. View' = home /\ View = home
    <3>1. View' = [b \in Blocks |-> home[b]]
      BY <2>1, <2>5 DEF View
    <3> QED BY <1>1, <2>2, <3>1 DEF View, Durable, LogType
  <2> QED BY <1>2, <2>1, <2>2, <2>3, <2>6 DEF DiskVars
<1> QED BY <1>3, <1>4, <1>5 DEF Logging!Recover

LEMMA AtomicStep ==
  ASSUME LogInv, LogInv', [Next]_vars
  PROVE  [Logging!Disk!Next]_(Logging!Disk!vars)
<1>1. CASE UNCHANGED logVars
  BY <1>1, DiskIs
     DEF logVars, DiskVars, Durable, View, Logging!Recovered, Logging!Content, Logging!InOp
<1>2. CASE Logging!Next
  BY <1>2, DiskIs, DiskCall, DiskWrite, DiskCommit, DiskEvict, DiskCrash, DiskRecover
     DEF Logging!Next, Logging!Crash, Logging!Panic, Logging!Disk!Next
<1> QED BY <1>1, <1>2, LogSteps

\* The log of any size is an atomic disk: whatever the calls of any number of
\* processes write becomes durable all at once, and a crash, in a recovery too, loses
\* the rest (log.c:69-119, 194-206).
THEOREM DiskSpecCorrect == Spec => DiskSpec
<1>1. LogInv /\ LogInv' /\ [Next]_vars => [Logging!Disk!Next]_(Logging!Disk!vars)
  BY AtomicStep
<1> QED BY <1>1, AtomicInit, LogInit, LogStep, PTL
        DEF Spec, DiskSpec, Logging!DiskSpec, Logging!Disk!Spec
=============================================================================
