--------------------------- MODULE UserTestsProofs ----------------------------
(***************************************************************************)
(* Proofs about UserTests, that is, about the kernel of FileSys and        *)
(* Syscalls under the processes of Machine: references to files, inodes    *)
(* and the ends of pipes, and the free pages, are counted exactly after    *)
(* every step, for any number of processes, files, inodes and pages and    *)
(* for any program of calls. The file system comes first: what each        *)
(* function of it does to the counts of inodes; then growth and shrinking  *)
(* of memories, each system call, fork(), exit() and the steps of the      *)
(* machine.                                                                *)
(***************************************************************************)
EXTENDS UserTests, Numbers, FiniteSetTheorems

Fields == {"used", "blk", "dinode", "inode", "panic", "file", "pipe", "free", "nextpid"}

\* The kernel has not stopped.
Alive(s) == s.panic = ""

\* What a call of the file system leaves alone; a panic is not taken back.
Frame(s, t) ==
  /\ DOMAIN t = DOMAIN s
  /\ t.file = s.file /\ t.pipe = s.pipe /\ t.free = s.free /\ t.nextpid = s.nextpid
  /\ t.panic = "" => s.panic = ""

Refs(s) ==
  /\ DOMAIN s.inode = Inums
  /\ \A i \in Inums : "ref" \in DOMAIN s.inode[i] /\ s.inode[i].ref \in Nat

One(i, j) == IF i = j THEN 1 ELSE 0

HasRef(r) == "ref" \in DOMAIN r /\ r.ref \in Nat

\* An inode in memory is written over.
Put(s, i, r) == [s EXCEPT !.inode[i] = r]

LEMMA PutInode ==
  ASSUME NEW s, NEW i, NEW r, Fields \subseteq DOMAIN s
  PROVE  /\ Frame(s, Put(s, i, r))
         /\ Refs(s) /\ (i \in Inums => HasRef(r)) =>
              /\ Refs(Put(s, i, r))
              /\ \A j \in Inums :
                   Put(s, i, r).inode[j].ref = IF j = i THEN r.ref ELSE s.inode[j].ref
<1> DEFINE v == [s.inode EXCEPT ![i] = r]
           t == [s EXCEPT !.inode = v]
<1>1. Frame(s, t) /\ t.inode = v
  <2> HIDE DEF v
  <2> QED BY DEF Frame, Fields
<1>2. ASSUME Refs(s), i \in Inums => HasRef(r)
      PROVE  /\ DOMAIN v = Inums
             /\ \A j \in Inums : HasRef(v[j]) /\ v[j].ref = IF j = i THEN r.ref ELSE s.inode[j].ref
  <2>1. DOMAIN v = Inums
    BY <1>2 DEF Refs
  <2>2. ASSUME NEW j \in Inums
        PROVE HasRef(v[j]) /\ v[j].ref = IF j = i THEN r.ref ELSE s.inode[j].ref
    <3>1. CASE j = i
      <4>1. v[j] = r
        BY <1>2, <3>1 DEF Refs
      <4> QED BY <1>2, <3>1, <4>1
    <3>2. CASE j # i
      <4>1. v[j] = s.inode[j]
        BY <1>2, <3>2 DEF Refs
      <4> QED BY <1>2, <3>2, <4>1 DEF Refs, HasRef
    <3> QED BY <3>1, <3>2
  <2> QED BY <2>1, <2>2
<1> HIDE DEF t, v
<1>3. ASSUME Refs(s), i \in Inums => HasRef(r)
      PROVE  /\ Refs(t)
             /\ \A j \in Inums : t.inode[j].ref = IF j = i THEN r.ref ELSE s.inode[j].ref
  BY <1>1, <1>2, <1>3 DEF Refs, HasRef
<1>4. Put(s, i, r) = t
  BY DEF Put, t, v
<1> QED BY <1>1, <1>3, <1>4

Kept(s, t) ==
  /\ Refs(t)
  /\ \A j \in Inums : t.inode[j].ref = s.inode[j].ref

Gained(s, t, i) ==
  /\ Refs(t)
  /\ \A j \in Inums : t.inode[j].ref = s.inode[j].ref + One(i, j)

Lost(s, t, i) ==
  /\ Refs(t)
  /\ \A j \in Inums : t.inode[j].ref = s.inode[j].ref - One(i, j)

\* From s to t no count has changed, unless the kernel panicked.
Even(s, t) == Frame(s, t) /\ (Refs(s) /\ t.panic = "" => Kept(s, t))

LEMMA FrameOn ==
  ASSUME NEW s, NEW t, Fields \subseteq DOMAIN s, Frame(s, t)
  PROVE  Fields \subseteq DOMAIN t
BY DEF Frame

LEMMA QuietOn ==
  ASSUME NEW s, NEW t, NEW u, Even(s, t), Even(t, u)
  PROVE  Even(s, u)
BY DEF Even, Frame, Kept, Refs

LEMMA PanicStays ==
  ASSUME NEW s, NEW why, why # "", Fields \subseteq DOMAIN s
  PROVE  Even(s, Panic(s, why)) /\ Panic(s, why).panic # ""
BY DEF Even, Panic, Frame, Fields

\* Blocks and the inodes on the disk do not count.
LEMMA BallocQuiet ==
  ASSUME NEW s, Fields \subseteq DOMAIN s
  PROVE  Even(s, balloc(s).s)
<1>1. CASE Blocks \ s.used = {}
  BY <1>1, PanicStays DEF balloc
<1>2. CASE Blocks \ s.used # {}
  BY <1>2 DEF balloc, Even, Frame, Kept, Refs, Fields
<1> QED BY <1>1, <1>2

LEMMA BfreeQuiet ==
  ASSUME NEW s, NEW blocks, NEW n, Fields \subseteq DOMAIN s
  PROVE  Even(s, bfree(s, blocks, n))
<1>1. CASE blocks \subseteq s.used /\ Cardinality(blocks) = n
  BY <1>1 DEF bfree, Even, Frame, Kept, Refs, Fields
<1>2. CASE ~(blocks \subseteq s.used /\ Cardinality(blocks) = n)
  BY <1>2, PanicStays DEF bfree
<1> QED BY <1>1, <1>2

LEMMA IupdateQuiet ==
  ASSUME NEW s, NEW i, Fields \subseteq DOMAIN s
  PROVE  Even(s, iupdate(s, i))
BY DEF iupdate, Even, Frame, Kept, Refs, Fields

\* The count of an inode in memory goes up.
LEMMA PutGains ==
  ASSUME NEW s, NEW i, NEW r, Fields \subseteq DOMAIN s, Refs(s),
         i \in Inums => HasRef(r) /\ r.ref = s.inode[i].ref + 1
  PROVE  Gained(s, Put(s, i, r), i)
<1>1. /\ Refs(Put(s, i, r))
      /\ \A j \in Inums : Put(s, i, r).inode[j].ref = IF j = i THEN r.ref ELSE s.inode[j].ref
  BY PutInode
<1>2. ASSUME NEW j \in Inums
      PROVE  Put(s, i, r).inode[j].ref = s.inode[j].ref + One(i, j)
  <2>1. s.inode[j].ref \in Nat
    BY DEF Refs
  <2>2. CASE j = i
    BY <1>1, <2>2 DEF One
  <2>3. CASE j # i
    <3>1. Put(s, i, r).inode[j].ref = s.inode[j].ref /\ One(i, j) = 0
      BY <1>1, <2>3 DEF One
    <3> QED BY <2>1, <3>1
  <2> QED BY <2>2, <2>3
<1> QED BY <1>1, <1>2 DEF Gained

\* ... or down.
LEMMA PutLoses ==
  ASSUME NEW s, NEW i, NEW r, Fields \subseteq DOMAIN s, Refs(s),
         i \in Inums => HasRef(r) /\ r.ref = s.inode[i].ref - 1
  PROVE  Lost(s, Put(s, i, r), i)
<1>1. /\ Refs(Put(s, i, r))
      /\ \A j \in Inums : Put(s, i, r).inode[j].ref = IF j = i THEN r.ref ELSE s.inode[j].ref
  BY PutInode
<1>2. ASSUME NEW j \in Inums
      PROVE  Put(s, i, r).inode[j].ref = s.inode[j].ref - One(i, j)
  <2>1. s.inode[j].ref \in Nat
    BY DEF Refs
  <2>2. CASE j = i
    BY <1>1, <2>2 DEF One
  <2>3. CASE j # i
    <3>1. Put(s, i, r).inode[j].ref = s.inode[j].ref /\ One(i, j) = 0
      BY <1>1, <2>3 DEF One
    <3> QED BY <2>1, <3>1
  <2> QED BY <2>2, <2>3
<1> QED BY <1>1, <1>2 DEF Lost

\* An inode in memory is written over, but for its count.
LEMMA PutQuiet ==
  ASSUME NEW s, NEW i, NEW r, Fields \subseteq DOMAIN s,
         Refs(s) /\ i \in Inums => HasRef(r) /\ r.ref = s.inode[i].ref
  PROVE  Even(s, Put(s, i, r))
<1>1. Frame(s, Put(s, i, r))
  BY PutInode
<1>2. ASSUME Refs(s)
      PROVE  Kept(s, Put(s, i, r))
  <2>1. /\ Refs(Put(s, i, r))
        /\ \A j \in Inums : Put(s, i, r).inode[j].ref = IF j = i THEN r.ref ELSE s.inode[j].ref
    BY <1>2, PutInode
  <2> QED BY <1>2, <2>1 DEF Kept
<1> QED BY <1>1, <1>2 DEF Even

LEMMA IgetGains ==
  ASSUME NEW s, NEW i, Fields \subseteq DOMAIN s
  PROVE  /\ Frame(s, iget(s, i))
         /\ Refs(s) /\ iget(s, i).panic = "" => Gained(s, iget(s, i), i)
<1> DEFINE up == [s.inode[i] EXCEPT !.ref = s.inode[i].ref + 1]
           new == [NoInode EXCEPT !.ref = 1]
<1>1. CASE s.inode[i].ref > 0
  <2>1. iget(s, i) = Put(s, i, up)
    BY <1>1 DEF iget, Put
  <2>2. Refs(s) /\ i \in Inums => HasRef(up) /\ up.ref = s.inode[i].ref + 1
    BY DEF Refs, HasRef
  <2> HIDE DEF up
  <2> QED BY <2>1, <2>2, PutInode, PutGains
<1>2. CASE /\ ~ (s.inode[i].ref > 0)
           /\ Cardinality({j \in Inums : s.inode[j].ref > 0}) = NINODE
  BY <1>2, PanicStays DEF iget, Even
<1>3. CASE /\ ~ (s.inode[i].ref > 0)
           /\ Cardinality({j \in Inums : s.inode[j].ref > 0}) # NINODE
  <2>1. iget(s, i) = Put(s, i, new)
    BY <1>3 DEF iget, Put
  <2>2. HasRef(new) /\ new.ref = 1
    BY DEF HasRef, NoInode, Inode
  <2>3. Refs(s) /\ i \in Inums => s.inode[i].ref = 0
    BY <1>3 DEF Refs
  <2> HIDE DEF new
  <2>4. Refs(s) /\ i \in Inums => new.ref = s.inode[i].ref + 1
    BY <2>2, <2>3
  <2> QED BY <2>1, <2>2, <2>4, PutInode, PutGains
<1> QED BY <1>1, <1>2, <1>3

LEMMA IdupGains ==
  ASSUME NEW s, NEW i, Fields \subseteq DOMAIN s
  PROVE  /\ Frame(s, idup(s, i))
         /\ Refs(s) => Gained(s, idup(s, i), i)
<1> DEFINE up == [s.inode[i] EXCEPT !.ref = s.inode[i].ref + 1]
<1>1. idup(s, i) = Put(s, i, up)
  BY DEF idup, Put
<1>2. Refs(s) /\ i \in Inums => HasRef(up) /\ up.ref = s.inode[i].ref + 1
  BY DEF Refs, HasRef
<1> HIDE DEF up
<1> QED BY <1>1, <1>2, PutInode, PutGains

LEMMA IlockQuiet ==
  ASSUME NEW s, NEW i, Fields \subseteq DOMAIN s
  PROVE  Even(s, ilock(s, i))
<1> DEFINE r == Inode(s.inode[i].ref, TRUE, s.dinode[i])
           t == Put(s, i, r)
<1>1. Even(s, t)
  <2>1. Refs(s) /\ i \in Inums => HasRef(r) /\ r.ref = s.inode[i].ref
    BY DEF Refs, HasRef, Inode
  <2> HIDE DEF r
  <2> QED BY <2>1, PutQuiet
<1>2. Even(t, Panic(t, "ilock: no type"))
  <2> HIDE DEF t
  <2> QED BY <1>1, FrameOn, PanicStays DEF Even
<1>3. Even(s, Panic(s, "ilock: no type")) /\ Even(s, Panic(s, "ilock"))
  BY PanicStays
<1>4. Even(s, s)
  BY DEF Even, Frame, Kept
<1>5. \/ ilock(s, i) = Panic(s, "ilock") \/ ilock(s, i) = s
      \/ ilock(s, i) = Panic(t, "ilock: no type") \/ ilock(s, i) = t
  BY DEF ilock, Put
<1> HIDE DEF t
<1>6. Even(s, Panic(t, "ilock: no type"))
  BY <1>1, <1>2, QuietOn
<1> QED BY <1>1, <1>3, <1>4, <1>5, <1>6

LEMMA ItruncQuiet ==
  ASSUME NEW s, NEW i, Fields \subseteq DOMAIN s
  PROVE  Even(s, itrunc(s, i))
<1>1. PICK blocks, n :
        LET t == bfree(s, blocks, n)
            r == [t.inode[i] EXCEPT !.addrs = NoDinode.addrs, !.size = 0]
        IN  itrunc(s, i) = iupdate(Put(t, i, r), i)
  BY DEF itrunc, Put
<1> DEFINE t == bfree(s, blocks, n)
           r == [t.inode[i] EXCEPT !.addrs = NoDinode.addrs, !.size = 0]
           u == Put(t, i, r)
<1>2. Even(s, t)
  BY BfreeQuiet
<1>3. Fields \subseteq DOMAIN t
  BY <1>2, FrameOn DEF Even
<1> HIDE DEF t
<1>4. Refs(t) /\ i \in Inums => HasRef(r) /\ r.ref = t.inode[i].ref
  BY DEF Refs, HasRef
<1> HIDE DEF r
<1>5. Even(t, u)
  BY <1>3, <1>4, PutQuiet
<1>6. Even(u, iupdate(u, i))
  BY <1>3, <1>5, FrameOn, IupdateQuiet DEF Even
<1>7. itrunc(s, i) = iupdate(u, i)
  BY <1>1 DEF t, r
<1> HIDE DEF u
<1> QED BY <1>2, <1>5, <1>6, <1>7, QuietOn

LEMMA FreeQuiet ==
  ASSUME NEW s, NEW i, Fields \subseteq DOMAIN s
  PROVE  Even(s, Free(s, i))
<1> DEFINE a == itrunc(s, i)
           r == [a.inode[i] EXCEPT !.type = "none"]
           b == Put(a, i, r)
<1>1. Even(s, a) /\ Fields \subseteq DOMAIN a
  BY ItruncQuiet, FrameOn DEF Even
<1>2. Free(s, i) = iupdate(b, i)
  BY DEF Free, Put
<1> HIDE DEF a
<1>3. Refs(a) /\ i \in Inums => HasRef(r) /\ r.ref = a.inode[i].ref
  BY DEF Refs, HasRef
<1> HIDE DEF r
<1>4. Even(a, b) /\ Fields \subseteq DOMAIN b
  BY <1>1, <1>3, PutQuiet, FrameOn DEF Even
<1>5. Even(b, iupdate(b, i))
  BY <1>4, IupdateQuiet
<1> HIDE DEF b
<1> QED BY <1>1, <1>2, <1>4, <1>5, QuietOn

LEMMA DropLoses ==
  ASSUME NEW s, NEW i, Fields \subseteq DOMAIN s
  PROVE  /\ Frame(s, Drop(s, i))
         /\ Refs(s) /\ (i \in Inums => s.inode[i].ref > 0) => Lost(s, Drop(s, i), i)
<1> DEFINE down == [s.inode[i] EXCEPT !.ref = s.inode[i].ref - 1]
<1>1. CASE s.inode[i].ref = 1
  <2>1. HasRef(NoInode) /\ NoInode.ref = 0
    BY DEF HasRef, NoInode, Inode
  <2>2. i \in Inums => NoInode.ref = s.inode[i].ref - 1
    BY <1>1, <2>1
  <2>3. Drop(s, i) = Put(s, i, NoInode)
    BY <1>1 DEF Drop, Put
  <2> QED BY <2>1, <2>2, <2>3, PutInode, PutLoses
<1>2. CASE s.inode[i].ref # 1
  <2>1. Refs(s) /\ (i \in Inums => s.inode[i].ref > 0) =>
          (i \in Inums => HasRef(down) /\ down.ref = s.inode[i].ref - 1)
    BY DEF HasRef, Refs
  <2>2. Drop(s, i) = Put(s, i, down)
    BY <1>2 DEF Drop, Put
  <2> HIDE DEF down
  <2> QED BY <2>1, <2>2, PutInode, PutLoses
<1> QED BY <1>1, <1>2

LEMMA IputLoses ==
  ASSUME NEW s, NEW i, Fields \subseteq DOMAIN s
  PROVE  /\ Frame(s, iput(s, i))
         /\ /\ Refs(s) /\ iput(s, i).panic = ""
            /\ i \in Inums => s.inode[i].ref > 0
            => Lost(s, iput(s, i), i)
<1>1. PICK t : Even(s, t) /\ iput(s, i) = Drop(t, i)
  <2>1. Even(s, s)
    BY DEF Even, Frame, Kept
  <2> QED BY <2>1, FreeQuiet DEF iput
<1>2. Fields \subseteq DOMAIN t
  BY <1>1, FrameOn DEF Even
<1> DEFINE u == iput(s, i)
<1>3. Frame(t, u)
  BY <1>1, <1>2, DropLoses
<1>4. Frame(s, u)
  BY <1>1, <1>3 DEF Even, Frame
<1>5. ASSUME Refs(s), u.panic = "", i \in Inums => s.inode[i].ref > 0
      PROVE  Lost(s, u, i)
  <2>1. Kept(s, t)
    BY <1>1, <1>3, <1>5 DEF Even, Frame
  <2>2. Refs(t) /\ (i \in Inums => t.inode[i].ref > 0)
    BY <1>5, <2>1 DEF Kept
  <2>3. Lost(t, u, i)
    BY <1>1, <1>2, <2>2, DropLoses
  <2> QED BY <2>1, <2>3 DEF Kept, Lost
<1> QED BY <1>4, <1>5


----------------------------------------------------------------------------
(* Calls that hold inodes: from s to t the caller has come to hold i and j  *)
(* in addition, where 0, or any number that is none of an inode, is nothing. *)

Holds(s, t, i, j) ==
  /\ Frame(s, t)
  /\ Refs(s) /\ t.panic = "" =>
       /\ Refs(t)
       /\ \A n \in Inums : t.inode[n].ref = s.inode[n].ref + One(i, n) + One(j, n)

LEMMA OneIs ==
  /\ \A i, j : One(i, j) \in {0, 1} /\ One(i, i) = 1
  /\ \A j \in Inums : One(0, j) = 0
BY DEF One, Inums

LEMMA HoldsOn ==
  ASSUME NEW s, NEW t, NEW i, NEW j, Fields \subseteq DOMAIN s, Holds(s, t, i, j)
  PROVE  Fields \subseteq DOMAIN t
BY FrameOn DEF Holds

LEMMA HoldsSame ==
  ASSUME NEW s, NEW t, Even(s, t)
  PROVE  Holds(s, t, 0, 0)
<1>1. ASSUME Refs(s), t.panic = "", NEW n \in Inums
      PROVE  t.inode[n].ref = s.inode[n].ref + One(0, n) + One(0, n)
  <2>1. Refs(t) /\ t.inode[n].ref = s.inode[n].ref
    BY <1>1 DEF Even, Kept
  <2>2. t.inode[n].ref \in Nat /\ One(0, n) = 0
    BY <2>1, OneIs DEF Refs
  <2> QED BY <2>1, <2>2
<1> QED BY <1>1 DEF Even, Holds, Kept

LEMMA HoldsNone ==
  ASSUME NEW s, NEW t, Holds(s, t, 0, 0)
  PROVE  Even(s, t)
<1>1. ASSUME Refs(s), t.panic = "", NEW n \in Inums
      PROVE  t.inode[n].ref = s.inode[n].ref
  <2>1. t.inode[n].ref = s.inode[n].ref + One(0, n) + One(0, n)
    BY <1>1 DEF Holds
  <2>2. s.inode[n].ref \in Nat /\ One(0, n) = 0
    BY <1>1, OneIs DEF Refs
  <2> QED BY <2>1, <2>2
<1> QED BY <1>1 DEF Even, Holds, Kept

LEMMA HoldsOne ==
  ASSUME NEW s, NEW t, NEW i
  PROVE  Holds(s, t, i, 0) <=> Frame(s, t) /\ (Refs(s) /\ t.panic = "" => Gained(s, t, i))
<1>1. ASSUME Refs(s), NEW n \in Inums
      PROVE  s.inode[n].ref + One(i, n) + One(0, n) = s.inode[n].ref + One(i, n)
  BY <1>1, OneIs DEF Refs
<1> QED BY <1>1 DEF Holds, Gained

LEMMA HoldsSwap ==
  ASSUME NEW s, NEW t, NEW i, NEW j, Holds(s, t, i, j)
  PROVE  Holds(s, t, j, i)
<1>1. ASSUME Refs(s), NEW n \in Inums
      PROVE  s.inode[n].ref + One(i, n) + One(j, n) = s.inode[n].ref + One(j, n) + One(i, n)
  BY <1>1, OneIs DEF Refs
<1> QED BY <1>1 DEF Holds

LEMMA HoldsKept ==
  ASSUME NEW s, NEW t, NEW u, NEW i, NEW j, Holds(s, t, i, j), Even(t, u)
  PROVE  Holds(s, u, i, j)
<1>1. Frame(s, u)
  BY DEF Holds, Even, Frame
<1>2. ASSUME Refs(s), u.panic = ""
      PROVE  /\ Refs(u)
             /\ \A n \in Inums : u.inode[n].ref = s.inode[n].ref + One(i, n) + One(j, n)
  BY <1>2 DEF Holds, Even, Frame, Kept
<1> QED BY <1>1, <1>2 DEF Holds

LEMMA HoldsAfter ==
  ASSUME NEW s, NEW t, NEW u, NEW i, NEW j, Even(s, t), Holds(t, u, i, j)
  PROVE  Holds(s, u, i, j)
<1>1. Frame(s, u)
  BY DEF Holds, Even, Frame
<1>2. ASSUME Refs(s), u.panic = ""
      PROVE  /\ Refs(u)
             /\ \A n \in Inums : u.inode[n].ref = s.inode[n].ref + One(i, n) + One(j, n)
  BY <1>2 DEF Holds, Even, Frame, Kept
<1> QED BY <1>1, <1>2 DEF Holds

LEMMA HoldsMore ==
  ASSUME NEW s, NEW t, NEW u, NEW i, NEW j, Holds(s, t, i, 0), Holds(t, u, j, 0)
  PROVE  Holds(s, u, i, j)
<1>1. Frame(s, u)
  BY DEF Holds, Frame
<1>2. ASSUME Refs(s), u.panic = ""
      PROVE  /\ Refs(u)
             /\ \A n \in Inums : u.inode[n].ref = s.inode[n].ref + One(i, n) + One(j, n)
  <2>1. Gained(s, t, i) /\ Gained(t, u, j)
    BY <1>2, HoldsOne DEF Holds, Frame
  <2> QED BY <2>1 DEF Gained
<1> QED BY <1>1, <1>2 DEF Holds

\* iput() of what is held.
LEMMA HoldsPut ==
  ASSUME NEW s, NEW t, NEW i, NEW j, Fields \subseteq DOMAIN s, Holds(s, t, i, j)
  PROVE  Holds(s, iput(t, j), i, 0)
<1> DEFINE u == iput(t, j)
<1>1. Fields \subseteq DOMAIN t
  BY HoldsOn
<1>2. /\ Frame(t, u)
      /\ Refs(t) /\ u.panic = "" /\ (j \in Inums => t.inode[j].ref > 0) => Lost(t, u, j)
  BY <1>1, IputLoses
<1> HIDE DEF u
<1>3. Frame(s, u)
  BY <1>2 DEF Holds, Frame
<1>4. ASSUME Refs(s), u.panic = ""
      PROVE  Gained(s, u, i)
  <2>1. /\ Refs(t)
        /\ \A n \in Inums : t.inode[n].ref = s.inode[n].ref + One(i, n) + One(j, n)
    BY <1>2, <1>4 DEF Frame, Holds
  <2>2. ASSUME j \in Inums
        PROVE t.inode[j].ref > 0
    <3>1. s.inode[j].ref \in Nat /\ One(i, j) \in {0, 1} /\ One(j, j) = 1
      BY <1>4, <2>2, OneIs DEF Refs
    <3> QED BY <2>1, <2>2, <3>1
  <2>3. Lost(t, u, j)
    BY <1>2, <1>4, <2>1, <2>2
  <2>4. ASSUME NEW n \in Inums
        PROVE u.inode[n].ref = s.inode[n].ref + One(i, n)
    <3>1. s.inode[n].ref \in Nat /\ One(i, n) \in {0, 1} /\ One(j, n) \in {0, 1}
      BY <1>4, OneIs DEF Refs
    <3>2. t.inode[n].ref = s.inode[n].ref + One(i, n) + One(j, n)
      BY <2>1
    <3>3. u.inode[n].ref = t.inode[n].ref - One(j, n)
      BY <2>3 DEF Lost
    <3> QED BY <3>1, <3>2, <3>3
  <2> QED BY <2>3, <2>4 DEF Lost, Gained
<1>5. Holds(s, u, i, 0)
  BY <1>3, <1>4, HoldsOne
<1> QED BY <1>5 DEF u

LEMMA HoldsPutFirst ==
  ASSUME NEW s, NEW t, NEW i, NEW j, Fields \subseteq DOMAIN s, Holds(s, t, i, j)
  PROVE  Holds(s, iput(t, i), j, 0)
BY HoldsSwap, HoldsPut


----------------------------------------------------------------------------
(* Blocks, directories and path names.                                     *)

LEMMA EvenSame ==
  ASSUME NEW s
  PROVE  Even(s, s)
BY DEF Even, Frame, Kept

LEMMA BlkEven ==
  ASSUME NEW s, NEW b, NEW c, NEW x, Fields \subseteq DOMAIN s
  PROVE  Even(s, [s EXCEPT !.blk[b][c] = x])
BY DEF Even, Frame, Kept, Refs, Fields

LEMMA BmapEven ==
  ASSUME NEW s, NEW i, NEW bn, Fields \subseteq DOMAIN s
  PROVE  Even(s, bmap(s, i, bn).s)
<1> DEFINE slot == IF bn < NDIRECT THEN bn ELSE NDIRECT
           b == balloc(s)
           r == [b.s.inode[i] EXCEPT !.addrs[slot] = b.r]
           t == Put(b.s, i, r)
<1>1. Even(s, b.s)
  BY BallocQuiet
<1>2. Even(s, t)
  <2>1. Fields \subseteq DOMAIN b.s
    BY <1>1, FrameOn DEF Even
  <2> HIDE DEF b
  <2>2. Refs(b.s) /\ i \in Inums => HasRef(r) /\ r.ref = b.s.inode[i].ref
    BY DEF Refs, HasRef
  <2> HIDE DEF r
  <2>3. Even(b.s, t)
    BY <2>1, <2>2, PutQuiet
  <2> QED BY <1>1, <2>3, QuietOn
<1> DEFINE a == IF s.inode[i].addrs[slot] # 0
                THEN [s |-> s, r |-> s.inode[i].addrs[slot]]
                ELSE [s |-> t, r |-> b.r]
           n == bn - NDIRECT
           d == balloc(a.s)
           e == [d.s EXCEPT !.blk[a.r][n] = d.r]
           out == Panic(s, "bmap: out of range")
<1>3. a.s = s \/ a.s = t
  <2> HIDE DEF t, b, slot
  <2> QED OBVIOUS
<1>4. bmap(s, i, bn) =
        CASE bn < NDIRECT        -> a
          [] n >= NINDIRECT      -> [s |-> out, r |-> 1]
          [] n \in 0 .. NINDIRECT - 1 /\ a.s.blk[a.r][n] # 0
                                 -> [s |-> a.s, r |-> a.s.blk[a.r][n]]
          [] OTHER               -> [s |-> e, r |-> d.r]
  BY DEF bmap, Put
<1>5. Even(s, out)
  BY PanicStays
<1> HIDE DEF t, a, out
<1>6. Even(s, a.s) /\ Fields \subseteq DOMAIN a.s
  BY <1>2, <1>3, EvenSame, FrameOn DEF Even
<1>7. Even(a.s, d.s) /\ Fields \subseteq DOMAIN d.s
  BY <1>6, BallocQuiet, FrameOn DEF Even
<1> HIDE DEF d, n
<1>8. Even(s, e)
  BY <1>6, <1>7, BlkEven, QuietOn
<1> HIDE DEF e
<1>9. bmap(s, i, bn).s = a.s \/ bmap(s, i, bn).s = out \/ bmap(s, i, bn).s = e
  BY <1>4
<1> QED BY <1>5, <1>6, <1>8, <1>9

LEMMA PutCellEven ==
  ASSUME NEW s, NEW i, NEW off, NEW x, Fields \subseteq DOMAIN s
  PROVE  Even(s, PutCell(s, i, off, x))
<1> DEFINE b == bmap(s, i, off \div BSIZE)
<1>1. Even(s, b.s) /\ Fields \subseteq DOMAIN b.s
  BY BmapEven, FrameOn DEF Even
<1>2. PutCell(s, i, off, x) = [b.s EXCEPT !.blk[b.r][off % BSIZE] = x]
  BY DEF PutCell
<1> HIDE DEF b
<1> QED BY <1>1, <1>2, BlkEven, QuietOn

Puts(s, i, off, cells) ==
  LET put[c \in Nat] ==
        IF c = 0 THEN s
        ELSE PutCell(put[c - 1], i, off + c - 1, cells[c])
  IN put

LEMMA WriteiIs ==
  ASSUME NEW s, NEW i, NEW off, NEW cells, NEW good
  PROVE  LET n == Len(cells)
             whole == {c \in 1 .. n : good >= n \/ ((off + c - 1) \div BSIZE + 1) * BSIZE <= off + good}
             tot == Cardinality(whole)
             t   == IF tot = n THEN Puts(s, i, off, cells)[n]
                    ELSE bmap(Puts(s, i, off, cells)[tot], i, (off + tot) \div BSIZE).s
         IN  writei(s, i, off, cells, good) =
               IF off > s.inode[i].size \/ off + n > MAXFILE * BSIZE
               THEN [s |-> s, r |-> -1]
               ELSE [s |-> iupdate([t EXCEPT !.inode[i].size = Max({@, off + tot})], i),
                     r |-> tot]
BY DEF writei, Puts


\* The loop of writei(): what is said of a function by recursion holds of it.
LEMMA PutsRun ==
  ASSUME NEW s, NEW i, NEW off, NEW cells
  PROVE  /\ Puts(s, i, off, cells)[0] = s
         /\ \A n \in Nat : Puts(s, i, off, cells)[n + 1] =
              PutCell(Puts(s, i, off, cells)[n], i, off + (n + 1) - 1, cells[n + 1])
<1> DEFINE F(v, m) == PutCell(v, i, off + m - 1, cells[m])
           Upto(g, n) == /\ g[0] = s
                         /\ \A m \in Nat : m < n => g[m + 1] = F(g[m], m + 1)
           G(n) == CHOOSE g : Upto(g, n)
           f == [n \in Nat |-> G(n)[n]]
           P(v) == v = [n \in Nat |-> IF n = 0 THEN s ELSE F(v[n - 1], n)]
<1>0. Puts(s, i, off, cells) = CHOOSE v : P(v)
  BY DEF Puts
<1> HIDE DEF F
<1>1. \A n \in Nat : \E g : Upto(g, n)
  <2> DEFINE S == {n \in Nat : \E g : Upto(g, n)}
  <2>1. 0 \in S
    <3>1. Upto([m \in Nat |-> s], 0)
      OBVIOUS
    <3> QED BY <3>1
  <2>2. ASSUME NEW n \in Nat, n \in S
        PROVE  n + 1 \in S
    <3>1. PICK g : Upto(g, n)
      BY <2>2
    <3> DEFINE h == [m \in Nat |-> IF m = n + 1 THEN F(g[n], n + 1) ELSE g[m]]
    <3>2. h[0] = s
      BY <3>1
    <3>3. ASSUME NEW m \in Nat, m < n + 1
          PROVE  h[m + 1] = F(h[m], m + 1)
      <4>1. CASE m = n
        BY <4>1
      <4>2. CASE m < n
        BY <3>1, <4>2
      <4> QED BY <3>3, <4>1, <4>2
    <3>4. Upto(h, n + 1)
      BY <3>2, <3>3
    <3> HIDE DEF h, Upto
    <3> QED BY <3>4
  <2> HIDE DEF S
  <2>3. Nat \subseteq S
    BY <2>1, <2>2, NatInduct
  <2> QED BY <2>3 DEF S
<1>2. ASSUME NEW n \in Nat, NEW g, NEW h, Upto(g, n), Upto(h, n + 1)
      PROVE  g[n] = h[n]
  <2> DEFINE S == {m \in Nat : m <= n => g[m] = h[m]}
  <2>1. 0 \in S
    BY <1>2
  <2>2. ASSUME NEW m \in Nat, m \in S
        PROVE  m + 1 \in S
    BY <1>2, <2>2
  <2> HIDE DEF S
  <2>3. Nat \subseteq S
    BY <2>1, <2>2, NatInduct
  <2> QED BY <2>3 DEF S
<1>3. \A n \in Nat : Upto(G(n), n)
  BY <1>1
<1> HIDE DEF G
<1>4. f[0] = s
  BY <1>3
<1>5. ASSUME NEW n \in Nat
      PROVE  f[n + 1] = F(f[n], n + 1)
  <2>1. Upto(G(n), n) /\ Upto(G(n + 1), n + 1)
    BY <1>3
  <2>2. G(n)[n] = G(n + 1)[n]
    BY <1>2, <2>1
  <2> QED BY <2>1, <2>2
<1> HIDE DEF Upto
<1>6. P(f)
  <2>1. ASSUME NEW n \in Nat, n # 0
        PROVE  f[n] = F(f[n - 1], n)
    <3>1. n - 1 \in Nat /\ (n - 1) + 1 = n
      BY <2>1
    <3> HIDE DEF f
    <3> QED BY <1>5, <3>1
  <2> QED BY <1>4, <2>1
<1>7. P(Puts(s, i, off, cells))
  BY <1>0, <1>6
<1> HIDE DEF f
<1>8. ASSUME NEW v, P(v)
      PROVE  v[0] = s /\ \A n \in Nat : v[n + 1] = F(v[n], n + 1)
  <2>1. v[0] = s
    BY <1>8
  <2>2. ASSUME NEW n \in Nat
        PROVE  v[n + 1] = F(v[n], n + 1)
    <3>1. v[n + 1] = IF n + 1 = 0 THEN s ELSE F(v[(n + 1) - 1], n + 1)
      BY <1>8
    <3>2. n + 1 # 0 /\ (n + 1) - 1 = n
      OBVIOUS
    <3> QED BY <3>1, <3>2
  <2> QED BY <2>1, <2>2
<1> QED BY <1>7, <1>8 DEF F


LEMMA PutsEven ==
  ASSUME NEW s, NEW i, NEW off, NEW cells, Fields \subseteq DOMAIN s
  PROVE  \A n \in Nat : Even(s, Puts(s, i, off, cells)[n])
<1> DEFINE f == Puts(s, i, off, cells)
           S == {n \in Nat : Even(s, f[n])}
<1>1. f[0] = s /\ \A n \in Nat : f[n + 1] = PutCell(f[n], i, off + (n + 1) - 1, cells[n + 1])
  BY PutsRun
<1> HIDE DEF f
<1>2. 0 \in S
  BY <1>1, EvenSame
<1>3. ASSUME NEW n \in Nat, n \in S
      PROVE  n + 1 \in S
  <2>1. Even(s, f[n]) /\ Fields \subseteq DOMAIN f[n]
    BY <1>3, FrameOn DEF Even
  <2>2. Even(f[n], f[n + 1])
    BY <1>1, <2>1, PutCellEven
  <2> QED BY <2>1, <2>2, QuietOn
<1> HIDE DEF S
<1>4. Nat \subseteq S
  BY <1>2, <1>3, NatInduct
<1> QED BY <1>4 DEF S, f

LEMMA WriteiEven ==
  ASSUME NEW s, NEW i, NEW off, NEW cells, NEW good,
         Fields \subseteq DOMAIN s, Len(cells) \in Nat
  PROVE  Even(s, writei(s, i, off, cells, good).s)
<1> DEFINE n   == Len(cells)
           whole == {c \in 1 .. n : good >= n \/ ((off + c - 1) \div BSIZE + 1) * BSIZE <= off + good}
           tot == Cardinality(whole)
           v   == Puts(s, i, off, cells)[tot]
           t   == IF tot = n THEN Puts(s, i, off, cells)[n]
                  ELSE bmap(v, i, (off + tot) \div BSIZE).s
           r   == [t.inode[i] EXCEPT !.size = Max({@, off + tot})]
           u   == Put(t, i, r)
<1>1. writei(s, i, off, cells, good) =
        IF off > s.inode[i].size \/ off + n > MAXFILE * BSIZE
        THEN [s |-> s, r |-> -1]
        ELSE [s |-> iupdate(u, i), r |-> tot]
  BY WriteiIs DEF Put
<1>2. Even(s, t)
  <2>1. tot \in Nat
    <3>1. IsFiniteSet(1 .. n) /\ whole \subseteq 1 .. n
      BY FS_Interval
    <3> HIDE DEF whole
    <3> QED BY <3>1, FS_Subset, FS_CardinalityType
  <2>2. Even(s, v) /\ Even(s, Puts(s, i, off, cells)[n])
    <3> HIDE DEF tot
    <3> QED BY <2>1, PutsEven
  <2> HIDE DEF v, tot
  <2>3. Fields \subseteq DOMAIN v
    BY <2>2, FrameOn DEF Even
  <2>4. Even(s, bmap(v, i, (off + tot) \div BSIZE).s)
    BY <2>2, <2>3, BmapEven, QuietOn
  <2> QED BY <2>2, <2>4
<1>3. Fields \subseteq DOMAIN t
  BY <1>2, FrameOn DEF Even
<1> HIDE DEF t, tot
<1>4. Refs(t) /\ i \in Inums => HasRef(r) /\ r.ref = t.inode[i].ref
  BY DEF Refs, HasRef
<1> HIDE DEF r
<1>5. Even(t, u) /\ Fields \subseteq DOMAIN u
  BY <1>3, <1>4, PutQuiet, FrameOn DEF Even
<1>6. Even(u, iupdate(u, i))
  BY <1>5, IupdateQuiet
<1> HIDE DEF u
<1>7. Even(s, iupdate(u, i))
  BY <1>2, <1>5, <1>6, QuietOn
<1> QED BY <1>1, <1>7, EvenSame

LEMMA IallocHolds ==
  ASSUME NEW s, NEW type, Fields \subseteq DOMAIN s
  PROVE  Holds(s, ialloc(s, type).s, ialloc(s, type).r, 0)
<1> DEFINE free == {i \in Inums : s.dinode[i].type = "none"}
           i    == Min(free)
           v    == [s.dinode EXCEPT ![i] = [NoDinode EXCEPT !.type = type]]
           t    == [s EXCEPT !.dinode = v]
           out  == Panic(s, "ialloc: no inodes")
           got  == iget(t, i)
<1>1. Even(s, t)
  <2> HIDE DEF v
  <2> QED BY DEF Even, Frame, Kept, Refs, Fields
<1>2. ialloc(s, type) = IF free = {} THEN [s |-> out, r |-> ROOTINO] ELSE [s |-> got, r |-> i]
  BY DEF ialloc
<1> HIDE DEF t, i, free
<1>3. Holds(t, got, i, 0)
  BY <1>1, FrameOn, IgetGains, HoldsOne DEF Even
<1>4. Holds(s, got, i, 0)
  BY <1>1, <1>3, HoldsAfter
<1>5. Holds(s, out, ROOTINO, 0)
  BY PanicStays DEF Even, Holds
<1> HIDE DEF out, got
<1> QED BY <1>2, <1>4, <1>5

\* What dirlookup() finds it holds; nothing is held when r = 0.
LEMMA DirlookupHolds ==
  ASSUME NEW s, NEW d, NEW name, Fields \subseteq DOMAIN s
  PROVE  Holds(s, dirlookup(s, d, name).s, dirlookup(s, d, name).r, 0)
<1> DEFINE ents == Entries(s, d)
           hits == {n \in DOMAIN ents : ents[n][2] # 0 /\ ents[n][1] = name}
           n    == Min(hits)
           r    == ents[n][2]
           out  == Panic(s, "dirlookup not DIR")
           got  == iget(s, r)
<1>1. dirlookup(s, d, name) =
        IF s.inode[d].type # "dir" THEN [s |-> out, r |-> 0, off |-> 0]
        ELSE IF hits = {} THEN [s |-> s, r |-> 0, off |-> 0]
        ELSE [s |-> got, r |-> r, off |-> n - 1]
  BY DEF dirlookup
<1> HIDE DEF hits, r, n
<1>2. Holds(s, out, 0, 0)
  BY PanicStays, HoldsSame
<1>3. Holds(s, s, 0, 0)
  BY EvenSame, HoldsSame
<1>4. Holds(s, got, r, 0)
  BY IgetGains, HoldsOne
<1> HIDE DEF out, got
<1> QED BY <1>1, <1>2, <1>3, <1>4

LEMMA DirlinkEven ==
  ASSUME NEW s, NEW d, NEW name, NEW inum, Fields \subseteq DOMAIN s
  PROVE  Even(s, dirlink(s, d, name, inum).s)
<1> DEFINE old  == dirlookup(s, d, name)
           w    == writei(s, d, FreeEntry(s, d), <<<<name, inum>>>>, 1)
           back == iput(old.s, old.r)
           out  == Panic(s, "dirlink")
<1>1. dirlink(s, d, name, inum) =
        IF old.r # 0 THEN [s |-> back, r |-> -1]
        ELSE IF w.r # 1 THEN [s |-> out, r |-> -1]
        ELSE [s |-> w.s, r |-> 0]
  BY DEF dirlink
<1>2. Even(s, w.s)
  <2>1. Len(<<<<name, inum>>>>) \in Nat
    OBVIOUS
  <2> QED BY <2>1, WriteiEven
<1>3. Holds(s, old.s, old.r, 0)
  BY DirlookupHolds
<1> HIDE DEF old, w
<1>4. Even(s, back)
  BY <1>3, HoldsSwap, HoldsPut, HoldsNone
<1>5. Even(s, out)
  BY PanicStays
<1> HIDE DEF back, out
<1> QED BY <1>1, <1>2, <1>4, <1>5


\* Way(start, elems, parent)[n]: where namex() is after n elements.
Way(start, elems, parent) ==
  LET way[n \in Nat] ==
        IF n = 0 THEN start
        ELSE Enter(way[n - 1], skipelem(elems[n]), parent /\ n = Len(elems))
  IN  way

LEMMA WayRuns ==
  ASSUME NEW start, NEW elems, NEW parent
  PROVE  /\ Way(start, elems, parent)[0] = start
         /\ \A n \in Nat : Way(start, elems, parent)[n + 1] =
              Enter(Way(start, elems, parent)[n], skipelem(elems[n + 1]),
                    parent /\ n + 1 = Len(elems))
<1> DEFINE F(v, m) == Enter(v, skipelem(elems[m]), parent /\ m = Len(elems))
           Upto(g, n) == /\ g[0] = start
                         /\ \A m \in Nat : m < n => g[m + 1] = F(g[m], m + 1)
           G(n) == CHOOSE g : Upto(g, n)
           f == [n \in Nat |-> G(n)[n]]
           P(v) == v = [n \in Nat |-> IF n = 0 THEN start ELSE F(v[n - 1], n)]
<1>0. Way(start, elems, parent) = CHOOSE v : P(v)
  BY DEF Way
<1> HIDE DEF F
<1>1. \A n \in Nat : \E g : Upto(g, n)
  <2> DEFINE S == {n \in Nat : \E g : Upto(g, n)}
  <2>1. 0 \in S
    <3>1. Upto([m \in Nat |-> start], 0)
      OBVIOUS
    <3> QED BY <3>1
  <2>2. ASSUME NEW n \in Nat, n \in S
        PROVE  n + 1 \in S
    <3>1. PICK g : Upto(g, n)
      BY <2>2
    <3> DEFINE h == [m \in Nat |-> IF m = n + 1 THEN F(g[n], n + 1) ELSE g[m]]
    <3>2. h[0] = start
      BY <3>1
    <3>3. ASSUME NEW m \in Nat, m < n + 1
          PROVE  h[m + 1] = F(h[m], m + 1)
      <4>1. CASE m = n
        BY <4>1
      <4>2. CASE m < n
        BY <3>1, <4>2
      <4> QED BY <3>3, <4>1, <4>2
    <3>4. Upto(h, n + 1)
      BY <3>2, <3>3
    <3> HIDE DEF h, Upto
    <3> QED BY <3>4
  <2> HIDE DEF S
  <2>3. Nat \subseteq S
    BY <2>1, <2>2, NatInduct
  <2> QED BY <2>3 DEF S
<1>2. ASSUME NEW n \in Nat, NEW g, NEW h, Upto(g, n), Upto(h, n + 1)
      PROVE  g[n] = h[n]
  <2> DEFINE S == {m \in Nat : m <= n => g[m] = h[m]}
  <2>1. 0 \in S
    BY <1>2
  <2>2. ASSUME NEW m \in Nat, m \in S
        PROVE  m + 1 \in S
    BY <1>2, <2>2
  <2> HIDE DEF S
  <2>3. Nat \subseteq S
    BY <2>1, <2>2, NatInduct
  <2> QED BY <2>3 DEF S
<1>3. \A n \in Nat : Upto(G(n), n)
  BY <1>1
<1> HIDE DEF G
<1>4. f[0] = start
  BY <1>3
<1>5. ASSUME NEW n \in Nat
      PROVE  f[n + 1] = F(f[n], n + 1)
  <2>1. Upto(G(n), n) /\ Upto(G(n + 1), n + 1)
    BY <1>3
  <2>2. G(n)[n] = G(n + 1)[n]
    BY <1>2, <2>1
  <2> QED BY <2>1, <2>2
<1> HIDE DEF Upto
<1>6. P(f)
  <2>1. ASSUME NEW n \in Nat, n # 0
        PROVE  f[n] = F(f[n - 1], n)
    <3>1. n - 1 \in Nat /\ (n - 1) + 1 = n
      BY <2>1
    <3> HIDE DEF f
    <3> QED BY <1>5, <3>1
  <2> QED BY <1>4, <2>1
<1>7. P(Way(start, elems, parent))
  BY <1>0, <1>6
<1> HIDE DEF f
<1>8. ASSUME NEW v, P(v)
      PROVE  v[0] = start /\ \A n \in Nat : v[n + 1] = F(v[n], n + 1)
  <2>1. v[0] = start
    BY <1>8
  <2>2. ASSUME NEW n \in Nat
        PROVE  v[n + 1] = F(v[n], n + 1)
    <3>1. v[n + 1] = IF n + 1 = 0 THEN start ELSE F(v[(n + 1) - 1], n + 1)
      BY <1>8
    <3>2. n + 1 # 0 /\ (n + 1) - 1 = n
      OBVIOUS
    <3> QED BY <3>1, <3>2
  <2> QED BY <2>1, <2>2
<1> QED BY <1>7, <1>8 DEF F



LEMMA NamexIs ==
  ASSUME NEW s, NEW cwd, NEW path, NEW parent
  PROVE  LET rooted == path # <<>> /\ Head(path) = "/"
             elems  == IF rooted THEN Tail(path) ELSE path
             start  == [s |-> IF rooted THEN iget(s, ROOTINO) ELSE idup(s, cwd),
                        r |-> IF rooted THEN ROOTINO ELSE cwd, name |-> "", on |-> TRUE]
             w == Way(start, elems, parent)[Len(elems)]
         IN  namex(s, cwd, path, parent) =
               IF w.on /\ parent THEN [w EXCEPT !.s = iput(w.s, w.r), !.r = 0] ELSE w
BY DEF namex, Way

\* A step of the way holds one inode as long as it goes on, and when it ends well.
OnWay(s, w) == DOMAIN w = {"s", "r", "name", "on"} /\ Holds(s, w.s, w.r, 0)

LEMMA EnterHolds ==
  ASSUME NEW s, NEW w, NEW elem, NEW last, Fields \subseteq DOMAIN s, OnWay(s, w)
  PROVE  OnWay(s, Enter(w, elem, last))
<1> DEFINE t    == ilock(w.s, w.r)
           next == dirlookup(t, w.r, elem)
           lost == iput(t, w.r)
           went == iput(next.s, w.r)
<1>1. Enter(w, elem, last) =
        IF ~w.on THEN w
        ELSE IF t.inode[w.r].type # "dir" THEN [s |-> lost, r |-> 0, name |-> "", on |-> FALSE]
        ELSE IF last THEN [s |-> t, r |-> w.r, name |-> elem, on |-> FALSE]
        ELSE [s |-> went, r |-> next.r, name |-> "", on |-> next.r # 0]
  BY DEF Enter
<1>2. Holds(s, w.s, w.r, 0) /\ Fields \subseteq DOMAIN w.s
  BY HoldsOn DEF OnWay
<1>3. Holds(s, t, w.r, 0) /\ Fields \subseteq DOMAIN t
  BY <1>2, IlockQuiet, HoldsKept, HoldsOn
<1> HIDE DEF t
<1>4. Holds(s, lost, 0, 0)
  BY <1>3, HoldsPutFirst
<1>5. Holds(t, next.s, next.r, 0)
  BY <1>3, DirlookupHolds
<1> HIDE DEF next
<1>6. Holds(s, went, next.r, 0)
  BY <1>3, <1>5, HoldsMore, HoldsPutFirst
<1> HIDE DEF lost, went
<1>7. CASE ~w.on
  BY <1>1, <1>7
<1>8. CASE w.on /\ t.inode[w.r].type # "dir"
  <2> DEFINE e == [s |-> lost, r |-> 0, name |-> "", on |-> FALSE]
  <2>1. DOMAIN e = {"s", "r", "name", "on"} /\ e.s = lost /\ e.r = 0
    OBVIOUS
  <2>2. Enter(w, elem, last) = e
    BY <1>1, <1>8
  <2> HIDE DEF e
  <2> QED BY <1>4, <2>1, <2>2 DEF OnWay
<1>9. CASE w.on /\ t.inode[w.r].type = "dir" /\ last
  BY <1>1, <1>3, <1>9 DEF OnWay
<1>10. CASE w.on /\ t.inode[w.r].type = "dir" /\ ~last
  <2> DEFINE e == [s |-> went, r |-> next.r, name |-> "", on |-> next.r # 0]
  <2>1. DOMAIN e = {"s", "r", "name", "on"} /\ e.s = went /\ e.r = next.r
    OBVIOUS
  <2>2. Enter(w, elem, last) = e
    BY <1>1, <1>10
  <2> HIDE DEF e
  <2> QED BY <1>6, <2>1, <2>2 DEF OnWay
<1> QED BY <1>7, <1>8, <1>9, <1>10

Walkable(path) == Len(path) \in Nat /\ (path # <<>> => Len(Tail(path)) \in Nat)

LEMMA NamexHolds ==
  ASSUME NEW s, NEW cwd, NEW path, NEW parent, Fields \subseteq DOMAIN s, Walkable(path)
  PROVE  Holds(s, namex(s, cwd, path, parent).s, namex(s, cwd, path, parent).r, 0)
<1> DEFINE rooted == path # <<>> /\ Head(path) = "/"
           elems  == IF rooted THEN Tail(path) ELSE path
           from   == IF rooted THEN iget(s, ROOTINO) ELSE idup(s, cwd)
           d      == IF rooted THEN ROOTINO ELSE cwd
           start  == [s |-> from, r |-> d, name |-> "", on |-> TRUE]
           f      == Way(start, elems, parent)
           w      == f[Len(elems)]
           back   == iput(w.s, w.r)
<1>1. namex(s, cwd, path, parent) =
        IF w.on /\ parent THEN [w EXCEPT !.s = back, !.r = 0] ELSE w
  BY NamexIs
<1>2. Holds(s, from, d, 0)
  BY IgetGains, IdupGains, HoldsOne
<1>3. Len(elems) \in Nat
  BY DEF Walkable
<1> HIDE DEF elems, from, d
<1>4. OnWay(s, start)
  BY <1>2 DEF OnWay
<1> HIDE DEF start
<1>5. f[0] = start /\ \A n \in Nat : f[n + 1] = Enter(f[n], skipelem(elems[n + 1]),
                                                     parent /\ n + 1 = Len(elems))
  BY WayRuns
<1> HIDE DEF f
<1>6. OnWay(s, w)
  <2> DEFINE S == {n \in Nat : OnWay(s, f[n])}
  <2>1. 0 \in S
    BY <1>4, <1>5
  <2>2. ASSUME NEW n \in Nat, n \in S
        PROVE  n + 1 \in S
    BY <1>5, <2>2, EnterHolds
  <2> HIDE DEF S
  <2>3. Nat \subseteq S
    BY <2>1, <2>2, NatInduct
  <2> QED BY <1>3, <2>3 DEF S
<1> HIDE DEF w
<1>7. Holds(s, back, 0, 0)
  BY <1>6, HoldsPutFirst DEF OnWay
<1> HIDE DEF back
<1>8. [w EXCEPT !.s = back, !.r = 0].s = back /\ [w EXCEPT !.s = back, !.r = 0].r = 0
  BY <1>6 DEF OnWay
<1> QED BY <1>1, <1>6, <1>7, <1>8 DEF OnWay


----------------------------------------------------------------------------
(* The system calls on names.                                              *)

\* The links of an inode in memory are changed, and written to the disk.
LEMMA LinkEven ==
  ASSUME NEW s, NEW i, NEW v, Fields \subseteq DOMAIN s
  PROVE  Even(s, iupdate(Put(s, i, [s.inode[i] EXCEPT !.nlink = v]), i))
<1> DEFINE r == [s.inode[i] EXCEPT !.nlink = v]
           t == Put(s, i, r)
<1>1. Refs(s) /\ i \in Inums => HasRef(r) /\ r.ref = s.inode[i].ref
  BY DEF Refs, HasRef
<1> HIDE DEF r
<1>2. Even(s, t) /\ Fields \subseteq DOMAIN t
  BY <1>1, PutQuiet, FrameOn DEF Even
<1> HIDE DEF t
<1>3. Even(s, iupdate(t, i))
  BY <1>2, IupdateQuiet, QuietOn
<1> QED BY <1>3 DEF t, r

LEMMA NameiHolds ==
  ASSUME NEW s, NEW cwd, NEW path, Fields \subseteq DOMAIN s, Walkable(path)
  PROVE  /\ Holds(s, namei(s, cwd, path).s, namei(s, cwd, path).r, 0)
         /\ Holds(s, nameiparent(s, cwd, path).s, nameiparent(s, cwd, path).r, 0)
BY NamexHolds DEF namei, nameiparent

LEMMA CreateHolds ==
  ASSUME NEW k1, NEW p, NEW path, NEW type, NEW major, Fields \subseteq DOMAIN k1,
         Walkable(path)
  PROVE  Holds(k1, create(k1, p, path, type, major).s, create(k1, p, path, type, major).r, 0)
<1> DEFINE dp   == nameiparent(k1, p.cwd, path)
           d    == dp.r
           x    == ilock(dp.s, d)
           old  == dirlookup(x, d, dp.name)
           o    == ilock(iput(old.s, d), old.r)
           new  == ialloc(old.s, type)
           i    == new.r
           j    == ilock(new.s, i)
           made == iupdate([j EXCEPT !.inode[i] = [@ EXCEPT !.nlink = 1, !.major = major]], i)
           up   == iupdate([made EXCEPT !.inode[d].nlink = @ + 1], d)
           one  == dirlink(up, i, ".", i).s
           dots == dirlink(one, i, "..", d).s
           y    == IF type = "dir" THEN dots ELSE made
           l    == dirlink(y, d, dp.name, i)
           bad  == iput(o, old.r)
           out  == Panic(l.s, "create: dirlink")
           done == iput(l.s, d)
<1>1. create(k1, p, path, type, major) =
        IF d = 0 THEN [s |-> dp.s, r |-> 0]
        ELSE IF old.r # 0
          THEN IF type = "file" /\ o.inode[old.r].type \in {"file", "device"}
               THEN [s |-> o, r |-> old.r]
               ELSE [s |-> bad, r |-> 0]
        ELSE IF l.r < 0 THEN [s |-> out, r |-> i]
        ELSE [s |-> done, r |-> i]
  BY DEF create
<1>2. Holds(k1, dp.s, d, 0) /\ Fields \subseteq DOMAIN dp.s
  BY NameiHolds, HoldsOn
<1> HIDE DEF dp
<1>3. Holds(k1, x, d, 0) /\ Fields \subseteq DOMAIN x
  BY <1>2, IlockQuiet, HoldsKept, HoldsOn
<1> HIDE DEF x
<1>4. Holds(x, old.s, old.r, 0)
  BY <1>3, DirlookupHolds
<1> HIDE DEF old
<1>5. Holds(k1, old.s, d, old.r) /\ Fields \subseteq DOMAIN old.s
  BY <1>3, <1>4, HoldsMore, HoldsOn
<1>6. Holds(k1, iput(old.s, d), old.r, 0) /\ Fields \subseteq DOMAIN iput(old.s, d)
  BY <1>5, HoldsPutFirst, HoldsOn
<1>7. Holds(k1, o, old.r, 0) /\ Fields \subseteq DOMAIN o
  BY <1>6, IlockQuiet, HoldsKept, HoldsOn
<1> HIDE DEF o
<1>8. Holds(k1, bad, 0, 0)
  BY <1>7, HoldsPutFirst
<1> HIDE DEF bad
<1>9. Holds(old.s, new.s, i, 0)
  BY <1>5, IallocHolds
<1> HIDE DEF new
<1>10. ASSUME old.r = 0
       PROVE  Holds(k1, l.s, d, i) /\ Fields \subseteq DOMAIN l.s
  <2>1. Holds(k1, new.s, d, i) /\ Fields \subseteq DOMAIN new.s
    BY <1>5, <1>9, <1>10, HoldsMore, HoldsOn
  <2>2. Holds(k1, j, d, i) /\ Fields \subseteq DOMAIN j
    BY <2>1, IlockQuiet, HoldsKept, HoldsOn
  <2> HIDE DEF j
  <2>3. Even(j, made)
    <3> DEFINE r == [j.inode[i] EXCEPT !.nlink = 1, !.major = major]
    <3>1. made = iupdate(Put(j, i, r), i)
      BY DEF Put
    <3>2. Refs(j) /\ i \in Inums => HasRef(r) /\ r.ref = j.inode[i].ref
      BY DEF Refs, HasRef
    <3> HIDE DEF r, made
    <3>3. Even(j, Put(j, i, r)) /\ Fields \subseteq DOMAIN Put(j, i, r)
      BY <2>2, <3>2, PutQuiet, FrameOn DEF Even
    <3> QED BY <3>1, <3>3, IupdateQuiet, QuietOn
  <2> HIDE DEF made
  <2>4. Even(j, made) /\ Fields \subseteq DOMAIN made
    BY <2>2, <2>3, FrameOn DEF Even
  <2>5. Even(made, up) /\ Fields \subseteq DOMAIN up
    <3> DEFINE v == made.inode[d].nlink + 1
    <3>1. up = iupdate(Put(made, d, [made.inode[d] EXCEPT !.nlink = v]), d)
      BY DEF Put
    <3> HIDE DEF up, v
    <3> QED BY <2>4, <3>1, LinkEven, FrameOn DEF Even
  <2> HIDE DEF up
  <2>6. Even(up, one) /\ Fields \subseteq DOMAIN one
    BY <2>5, DirlinkEven, FrameOn DEF Even
  <2> HIDE DEF one
  <2>7. Even(one, dots)
    BY <2>6, DirlinkEven
  <2> HIDE DEF dots
  <2>8. Even(j, dots)
    BY <2>4, <2>5, <2>6, <2>7, QuietOn
  <2>9. Even(j, y)
    BY <2>4, <2>8
  <2> HIDE DEF y
  <2>10. Even(y, l.s)
    BY <2>2, <2>9, DirlinkEven, FrameOn DEF Even
  <2> HIDE DEF l
  <2> QED BY <2>2, <2>9, <2>10, QuietOn, HoldsKept, HoldsOn
<1> HIDE DEF l
<1>11. ASSUME old.r = 0
       PROVE  Holds(k1, out, i, 0) /\ Holds(k1, done, i, 0)
  <2>1. Holds(k1, done, i, 0)
    BY <1>10, <1>11, HoldsPutFirst
  <2>2. Even(l.s, out) /\ out.panic # ""
    BY <1>10, <1>11, PanicStays
  <2>3. Holds(k1, out, i, 0)
    BY <1>10, <1>11, <2>2 DEF Even, Frame, Holds
  <2> QED BY <2>1, <2>3
<1> HIDE DEF out, done
<1>12. CASE d = 0
  BY <1>1, <1>2, <1>12
<1>13. CASE d # 0 /\ old.r # 0
  BY <1>1, <1>7, <1>8, <1>13
<1>14. CASE d # 0 /\ old.r = 0
  BY <1>1, <1>11, <1>14
<1> QED BY <1>12, <1>13, <1>14


----------------------------------------------------------------------------
(* Who holds what: the counts of RefsCounted for a kernel and a process    *)
(* table, and how they change.                                             *)

UsersOf(pr)     == {p \in Slots : pr[p].st = "run"}
OpenedBy(pr, f) == {x \in UsersOf(pr) \X (0 .. NOFILE - 1) : pr[x[1]].ofile[x[2]] = f}
Within(pr, i)   == {p \in UsersOf(pr) : pr[p].cwd = i}
Stands(kk, i)   == {f \in Files : /\ kk.file[f].ref > 0
                                  /\ kk.file[f].type # "pipe" /\ kk.file[f].ip = i}

FilesCounted(kk, pr) == \A f \in Files : kk.file[f].ref = Cardinality(OpenedBy(pr, f))
InodesCounted(kk, pr) ==
  \A i \in Inums : kk.inode[i].ref = Cardinality(Stands(kk, i)) + Cardinality(Within(pr, i))

\* The records of the file table, of the pipes and of the processes.
FileFields == {"ref", "type", "ip", "pipe", "readable", "writable", "off"}
File(r) ==
  /\ FileFields \subseteq DOMAIN r
  /\ r.ref \in Nat
  /\ r.ref > 0 => r.type \in {"pipe", "inode", "device"}
  /\ r.ref > 0 /\ r.type = "pipe" =>
       /\ r.pipe \in 1 .. NFILE
       /\ r.readable \in BOOLEAN /\ r.writable = ~r.readable
OnePipe(r) == {"data", "readopen", "writeopen"} \subseteq DOMAIN r
              /\ r.readopen \in BOOLEAN /\ r.writeopen \in BOOLEAN
Owner(q)   == {"st", "cwd", "ofile"} \subseteq DOMAIN q
              /\ q.ofile \in [0 .. NOFILE - 1 -> 0 .. NFILE]

Table(kk)  == DOMAIN kk.file = Files /\ \A f \in Files : File(kk.file[f])
Pipes(kk)  == DOMAIN kk.pipe = 1 .. NFILE /\ \A n \in 1 .. NFILE : OnePipe(kk.pipe[n])
Procs(pr)  == DOMAIN pr = Slots /\ \A p \in Slots : Owner(pr[p])

\* File f is an end of pipe n, the one that writes or the one that reads.
EndOf(kk, f, n, writes) ==
  /\ kk.file[f].ref > 0 /\ kk.file[f].type = "pipe"
  /\ kk.file[f].pipe = n /\ kk.file[f].writable = writes
Ends(kk) ==
  \A n \in 1 .. NFILE :
    /\ kk.pipe[n].readopen <=> \E f \in Files : EndOf(kk, f, n, FALSE)
    /\ kk.pipe[n].writeopen <=> \E f \in Files : EndOf(kk, f, n, TRUE)
    /\ \A f, g \in Files, b \in BOOLEAN : EndOf(kk, f, n, b) /\ EndOf(kk, g, n, b) => f = g

Counted(kk, pr) ==
  /\ Fields \subseteq DOMAIN kk
  /\ Refs(kk) /\ Table(kk) /\ Pipes(kk) /\ Ends(kk) /\ Procs(pr)
  /\ FilesCounted(kk, pr) /\ InodesCounted(kk, pr)

LEMMA Constants ==
  /\ NFILE \in Nat \ {0} /\ NOFILE \in Nat \ {0} /\ NPROC \in Nat \ {0}
  /\ NINODES \in Nat \ {0}
BY SyscallsAssumption, MachineAssumption, FileSysAssumption

LEMMA FiniteCounts ==
  ASSUME NEW kk, NEW pr, NEW n
  PROVE  IsFiniteSet(OpenedBy(pr, n)) /\ IsFiniteSet(Within(pr, n)) /\ IsFiniteSet(Stands(kk, n))
<1>1. IsFiniteSet(Slots) /\ IsFiniteSet(0 .. NOFILE - 1) /\ IsFiniteSet(Files)
  BY Constants, FS_Interval DEF Slots, Files
<1>2. IsFiniteSet(Slots \X (0 .. NOFILE - 1))
  BY <1>1, FS_Product
<1>3. OpenedBy(pr, n) \subseteq Slots \X (0 .. NOFILE - 1)
  BY DEF OpenedBy, UsersOf
<1>4. Within(pr, n) \subseteq Slots /\ Stands(kk, n) \subseteq Files
  BY DEF Within, Stands, UsersOf
<1> QED BY <1>1, <1>2, <1>3, <1>4, FS_Subset

LEMMA CountsRefs ==
  ASSUME Counted(k, proc)
  PROVE  RefsCounted
<1>1. \A f \in Files : k.file[f].ref = Cardinality(Opened(f))
  BY DEF Counted, FilesCounted, OpenedBy, Opened, UsersOf, Users
<1>2. ASSUME NEW i \in Inums
      PROVE  k.inode[i].ref =
               Cardinality({f \in OpenFiles : k.file[f].type # "pipe" /\ k.file[f].ip = i})
               + Cardinality({p \in Users : proc[p].cwd = i})
  <2>1. Stands(k, i) = {f \in OpenFiles : k.file[f].type # "pipe" /\ k.file[f].ip = i}
    BY DEF Stands, OpenFiles
  <2>2. Within(proc, i) = {p \in Users : proc[p].cwd = i}
    BY DEF Within, UsersOf, Users
  <2> QED BY <2>1, <2>2 DEF Counted, InodesCounted
<1>3. ASSUME NEW n \in DOMAIN k.pipe
      PROVE  LET ends == {f \in OpenFiles : k.file[f].type = "pipe" /\ k.file[f].pipe = n}
             IN  /\ k.pipe[n].readopen  <=> \E f \in ends : k.file[f].readable
                 /\ k.pipe[n].writeopen <=> \E f \in ends : k.file[f].writable
  <2> DEFINE ends == {f \in OpenFiles : k.file[f].type = "pipe" /\ k.file[f].pipe = n}
  <2>1. n \in 1 .. NFILE /\ Table(k) /\ Ends(k)
    BY DEF Counted, Pipes
  <2>2. ASSUME NEW f \in Files
        PROVE  /\ f \in ends /\ k.file[f].readable <=> EndOf(k, f, n, FALSE)
               /\ f \in ends /\ k.file[f].writable <=> EndOf(k, f, n, TRUE)
    <3>1. File(k.file[f])
      BY <2>1 DEF Table
    <3> QED BY <3>1 DEF File, EndOf, OpenFiles
  <2>3. ends \subseteq Files
    BY DEF OpenFiles
  <2> HIDE DEF ends
  <2>4. /\ k.pipe[n].readopen <=> \E f \in Files : EndOf(k, f, n, FALSE)
        /\ k.pipe[n].writeopen <=> \E f \in Files : EndOf(k, f, n, TRUE)
    BY <2>1 DEF Ends
  <2>5. /\ k.pipe[n].readopen  <=> \E f \in ends : k.file[f].readable
        /\ k.pipe[n].writeopen <=> \E f \in ends : k.file[f].writable
    BY <2>2, <2>3, <2>4
  <2> QED BY <2>5 DEF ends
<1> QED BY <1>1, <1>2, <1>3 DEF RefsCounted


\* What counts of a file, and of the whole kernel but its inodes.
Alike(r, t) == /\ r.ref = t.ref
               /\ r.ref > 0 => /\ r.type = t.type /\ r.ip = t.ip /\ r.pipe = t.pipe
                               /\ r.readable = t.readable /\ r.writable = t.writable
AlikeBut(kk, k2, F) == \A g \in Files \ F : Alike(kk.file[g], k2.file[g])
SamePipes(kk, k2) ==
  \A n \in 1 .. NFILE : /\ k2.pipe[n].readopen = kk.pipe[n].readopen
                        /\ k2.pipe[n].writeopen = kk.pipe[n].writeopen
Shape(kk) == Fields \subseteq DOMAIN kk /\ Table(kk) /\ Pipes(kk)

SameOwners(pr, pr2) ==
  /\ Procs(pr2) /\ UsersOf(pr2) = UsersOf(pr)
  /\ \A p \in UsersOf(pr) : pr2[p].ofile = pr[p].ofile /\ pr2[p].cwd = pr[p].cwd

\* Descriptor fd of process p goes from file a to file b.
Moves(pr, pr2, p, fd, a, b) ==
  /\ Procs(pr2) /\ UsersOf(pr2) = UsersOf(pr)
  /\ p \in UsersOf(pr) /\ fd \in 0 .. NOFILE - 1
  /\ pr[p].ofile[fd] = a /\ pr2[p].ofile[fd] = b
  /\ \A n \in UsersOf(pr) : pr2[n].cwd = pr[n].cwd
  /\ \A n \in UsersOf(pr), m \in 0 .. NOFILE - 1 :
       n # p \/ m # fd => pr2[n].ofile[m] = pr[n].ofile[m]

LEMMA FdMoves ==
  ASSUME NEW pr, NEW pr2, NEW p, NEW fd, NEW a, NEW b, Moves(pr, pr2, p, fd, a, b), NEW f
  PROVE  /\ Cardinality(OpenedBy(pr, f)) \in Nat /\ Cardinality(OpenedBy(pr2, f)) \in Nat
         /\ Cardinality(OpenedBy(pr2, f)) + One(a, f) = Cardinality(OpenedBy(pr, f)) + One(b, f)
<1> DEFINE S == OpenedBy(pr, f)
           T == OpenedBy(pr2, f)
           x == <<p, fd>>
<1>1. IsFiniteSet(S)
  BY FiniteCounts
<1>2. \A y : y # x => (y \in S <=> y \in T)
  BY DEF OpenedBy, Moves
<1>3. (x \in S <=> a = f) /\ (x \in T <=> b = f)
  BY DEF OpenedBy, Moves
<1> HIDE DEF S, T, x
<1>4. /\ Cardinality(S) \in Nat /\ Cardinality(T) \in Nat
      /\ Cardinality(T) + (IF x \in S THEN 1 ELSE 0) = Cardinality(S) + (IF x \in T THEN 1 ELSE 0)
  BY <1>1, <1>2, SetCount
<1>5. Cardinality(T) + One(a, f) = Cardinality(S) + One(b, f)
  BY <1>3, <1>4 DEF One
<1> QED BY <1>4, <1>5 DEF S, T

\* One file comes to stand for an inode, or no longer does.
LEMMA StandsMoves ==
  ASSUME NEW kk, NEW k2, NEW f, AlikeBut(kk, k2, {f}), NEW i
  PROVE  /\ Cardinality(Stands(kk, i)) \in Nat /\ Cardinality(Stands(k2, i)) \in Nat
         /\ Cardinality(Stands(k2, i)) + (IF f \in Stands(kk, i) THEN 1 ELSE 0)
              = Cardinality(Stands(kk, i)) + (IF f \in Stands(k2, i) THEN 1 ELSE 0)
<1>1. \A y : y # f => (y \in Stands(kk, i) <=> y \in Stands(k2, i))
  BY DEF Stands, AlikeBut, Alike
<1>2. IsFiniteSet(Stands(kk, i))
  BY FiniteCounts
<1> QED BY <1>1, <1>2, SetCount

LEMMA WithinSame ==
  ASSUME NEW pr, NEW pr2, UsersOf(pr2) = UsersOf(pr),
         \A n \in UsersOf(pr) : pr2[n].cwd = pr[n].cwd, NEW i
  PROVE  Within(pr2, i) = Within(pr, i) /\ Cardinality(Within(pr, i)) \in Nat
<1>1. Within(pr2, i) = Within(pr, i)
  BY DEF Within
<1> QED BY <1>1, FiniteCounts, FS_CardinalityType

LEMMA EndsSame ==
  ASSUME NEW kk, NEW k2, Ends(kk), SamePipes(kk, k2),
         \A f \in Files : \A n, b : EndOf(k2, f, n, b) <=> EndOf(kk, f, n, b)
  PROVE  Ends(k2)
<1>1. ASSUME NEW n \in 1 .. NFILE
      PROVE  /\ k2.pipe[n].readopen <=> \E f \in Files : EndOf(k2, f, n, FALSE)
             /\ k2.pipe[n].writeopen <=> \E f \in Files : EndOf(k2, f, n, TRUE)
             /\ \A f, g \in Files, b \in BOOLEAN :
                  EndOf(k2, f, n, b) /\ EndOf(k2, g, n, b) => f = g
  <2>1. /\ kk.pipe[n].readopen <=> \E f \in Files : EndOf(kk, f, n, FALSE)
        /\ kk.pipe[n].writeopen <=> \E f \in Files : EndOf(kk, f, n, TRUE)
    BY DEF Ends
  <2>2. /\ k2.pipe[n].readopen = kk.pipe[n].readopen
        /\ k2.pipe[n].writeopen = kk.pipe[n].writeopen
    BY DEF SamePipes
  <2>3. /\ k2.pipe[n].readopen <=> \E f \in Files : EndOf(kk, f, n, FALSE)
        /\ k2.pipe[n].writeopen <=> \E f \in Files : EndOf(kk, f, n, TRUE)
    BY <2>1, <2>2, Zenon
  <2>4. \A f, g \in Files, b \in BOOLEAN : EndOf(kk, f, n, b) /\ EndOf(kk, g, n, b) => f = g
    BY DEF Ends
  <2> QED BY <2>3, <2>4, Zenon
<1> QED BY <1>1 DEF Ends

\* Files alike, pipes alike, inodes counted alike, owners alike.
LEMMA CountsSame ==
  ASSUME NEW kk, NEW pr, NEW k2, NEW pr2, Counted(kk, pr),
         Shape(k2), AlikeBut(kk, k2, {}), SamePipes(kk, k2), Kept(kk, k2), SameOwners(pr, pr2)
  PROVE  Counted(k2, pr2)
<1>1. \A f \in Files : Alike(kk.file[f], k2.file[f])
  BY DEF AlikeBut
<1>2. FilesCounted(k2, pr2)
  <2>1. \A f : OpenedBy(pr2, f) = OpenedBy(pr, f)
    BY DEF OpenedBy, SameOwners
  <2> QED BY <1>1, <2>1 DEF FilesCounted, Counted, Alike
<1>3. InodesCounted(k2, pr2)
  <2>1. \A i : Stands(k2, i) = Stands(kk, i)
    BY <1>1 DEF Stands, Alike
  <2>2. \A i : Within(pr2, i) = Within(pr, i)
    BY DEF Within, SameOwners
  <2> QED BY <2>1, <2>2 DEF InodesCounted, Counted, Kept
<1>4. Ends(k2)
  <2>1. \A f \in Files : \A n, b : EndOf(k2, f, n, b) <=> EndOf(kk, f, n, b)
    BY <1>1 DEF EndOf, Alike
  <2> QED BY <2>1, EndsSame DEF Counted
<1> QED BY <1>2, <1>3, <1>4 DEF Counted, Shape, Kept, SameOwners

\* What the file system leaves alone, in these terms.
LEMMA FrameAlike ==
  ASSUME NEW kk, NEW k2, Fields \subseteq DOMAIN kk, Table(kk), Pipes(kk), Frame(kk, k2)
  PROVE  Shape(k2) /\ AlikeBut(kk, k2, {}) /\ SamePipes(kk, k2)
BY DEF Frame, Shape, Table, Pipes, AlikeBut, Alike, SamePipes

LEMMA CountsEven ==
  ASSUME NEW kk, NEW pr, NEW k2, NEW pr2, Counted(kk, pr), Even(kk, k2), k2.panic = "",
         SameOwners(pr, pr2)
  PROVE  Counted(k2, pr2) /\ kk.panic = ""
<1>1. Shape(k2) /\ AlikeBut(kk, k2, {}) /\ SamePipes(kk, k2)
  BY FrameAlike DEF Counted, Even
<1>2. Kept(kk, k2) /\ kk.panic = ""
  BY DEF Counted, Even, Frame
<1> QED BY <1>1, <1>2, CountsSame


\* The counts of the inodes follow what file f stands for.
InodesFollow(kk, k2, f) ==
  \A i \in Inums : k2.inode[i].ref + (IF f \in Stands(kk, i) THEN 1 ELSE 0)
                     = kk.inode[i].ref + (IF f \in Stands(k2, i) THEN 1 ELSE 0)

\* One file changes, with one descriptor for it.
LEMMA CountsFile ==
  ASSUME NEW kk, NEW pr, NEW k2, NEW pr2, Counted(kk, pr), Shape(k2), Refs(k2), Ends(k2),
         NEW f \in Files, AlikeBut(kk, k2, {f}),
         NEW p, NEW fd, NEW a \in {0, f}, NEW b \in {0, f}, Moves(pr, pr2, p, fd, a, b),
         k2.file[f].ref + One(a, f) = kk.file[f].ref + One(b, f),
         InodesFollow(kk, k2, f)
  PROVE  Counted(k2, pr2)
<1>1. FilesCounted(k2, pr2)
  <2>1. ASSUME NEW g \in Files
        PROVE  k2.file[g].ref = Cardinality(OpenedBy(pr2, g))
    <3>1. /\ Cardinality(OpenedBy(pr, g)) \in Nat /\ Cardinality(OpenedBy(pr2, g)) \in Nat
          /\ Cardinality(OpenedBy(pr2, g)) + One(a, g) = Cardinality(OpenedBy(pr, g)) + One(b, g)
      BY FdMoves
    <3>2. kk.file[g].ref = Cardinality(OpenedBy(pr, g))
      BY DEF Counted, FilesCounted
    <3>3. k2.file[g].ref \in Nat
      BY DEF Shape, Table, File
    <3>4. k2.file[g].ref + One(a, g) = kk.file[g].ref + One(b, g)
      <4>1. CASE g = f
        BY <4>1
      <4>2. CASE g # f
        <5>1. g # 0
          BY DEF Files
        <5>2. One(a, g) = 0 /\ One(b, g) = 0
          BY <4>2, <5>1 DEF One
        <5>3. k2.file[g].ref = kk.file[g].ref
          BY <4>2 DEF AlikeBut, Alike
        <5> QED BY <5>2, <5>3
      <4> QED BY <4>1, <4>2
    <3>5. One(a, g) \in {0, 1}
      BY OneIs
    <3> HIDE DEF OpenedBy
    <3> QED BY <3>1, <3>2, <3>3, <3>4, <3>5
  <2> QED BY <2>1 DEF FilesCounted
<1>2. InodesCounted(k2, pr2)
  <2>1. ASSUME NEW i \in Inums
        PROVE  k2.inode[i].ref = Cardinality(Stands(k2, i)) + Cardinality(Within(pr2, i))
    <3>1. /\ Cardinality(Stands(kk, i)) \in Nat /\ Cardinality(Stands(k2, i)) \in Nat
          /\ Cardinality(Stands(k2, i)) + (IF f \in Stands(kk, i) THEN 1 ELSE 0)
               = Cardinality(Stands(kk, i)) + (IF f \in Stands(k2, i) THEN 1 ELSE 0)
      BY StandsMoves
    <3>2. Within(pr2, i) = Within(pr, i) /\ Cardinality(Within(pr, i)) \in Nat
      BY WithinSame DEF Moves
    <3>3. kk.inode[i].ref = Cardinality(Stands(kk, i)) + Cardinality(Within(pr, i))
      BY DEF Counted, InodesCounted
    <3>4. k2.inode[i].ref \in Nat
      BY DEF Refs
    <3>5. k2.inode[i].ref + (IF f \in Stands(kk, i) THEN 1 ELSE 0)
                     = kk.inode[i].ref + (IF f \in Stands(k2, i) THEN 1 ELSE 0)
      BY DEF InodesFollow
    <3> QED BY <3>1, <3>2, <3>3, <3>4, <3>5
  <2> QED BY <2>1 DEF InodesCounted
<1> QED BY <1>1, <1>2 DEF Counted, Shape, Moves

----------------------------------------------------------------------------
(* Pages: what the functions of Memory take from the free list they have   *)
(* put into the page table, or give back.                                  *)

Ceil(n) == (n + PGSIZE - 1) \div PGSIZE

LEMMA DivUnique ==
  ASSUME NEW n \in Nat \ {0}, NEW x \in Nat, NEW q \in Nat, NEW r \in 0 .. n - 1,
         x = (n * q) + r
  PROVE  x \div n = q
OBVIOUS

LEMMA CeilIs ==
  ASSUME NEW n \in Nat
  PROVE  /\ Ceil(n) \in Nat /\ PGROUNDUP(n) = PGSIZE * Ceil(n)
         /\ PGROUNDUP(n) \in Nat /\ PGROUNDUP(n) \div PGSIZE = Ceil(n)
         /\ n <= PGSIZE * Ceil(n) /\ PGSIZE * Ceil(n) < n + PGSIZE
<1>1. PGSIZE \in Nat \ {0}
  BY MemoryAssumption
<1> DEFINE x == n + PGSIZE - 1
           c == x \div PGSIZE
           r == x % PGSIZE
<1>2. x \in Nat
  BY <1>1
<1>3. c \in Nat /\ r \in 0 .. PGSIZE - 1 /\ x = (PGSIZE * c) + r
  <2> HIDE DEF x
  <2> QED BY <1>1, <1>2, DivMod
<1>4. Ceil(n) = c /\ PGROUNDUP(n) = c * PGSIZE
  BY DEF Ceil, PGROUNDUP
<1> HIDE DEF c, r
<1>5. PGSIZE * c \in Nat /\ c * PGSIZE = PGSIZE * c
  BY <1>1, <1>3
<1>6. (PGSIZE * c) \div PGSIZE = c
  <2>1. PGSIZE * c = (PGSIZE * c) + 0 /\ 0 \in 0 .. PGSIZE - 1
    BY <1>1, <1>5
  <2> QED BY <1>1, <1>3, <1>5, <2>1, DivUnique
<1>7. n <= PGSIZE * c /\ PGSIZE * c < n + PGSIZE
  BY <1>1, <1>3, <1>5
<1> QED BY <1>3, <1>4, <1>5, <1>6, <1>7

LEMMA CeilUnique ==
  ASSUME NEW n \in Nat, NEW c \in Nat, n <= PGSIZE * c, PGSIZE * c < n + PGSIZE
  PROVE  Ceil(n) = c
<1>1. PGSIZE \in Nat \ {0}
  BY MemoryAssumption
<1> DEFINE r == n + PGSIZE - 1 - PGSIZE * c
<1>2. r \in 0 .. PGSIZE - 1 /\ n + PGSIZE - 1 = (PGSIZE * c) + r /\ n + PGSIZE - 1 \in Nat
  <2>1. PGSIZE * c \in Nat
    BY <1>1
  <2> QED BY <1>1, <2>1
<1> HIDE DEF r
<1> QED BY <1>1, <1>2, DivUnique DEF Ceil

LEMMA CeilMultiple ==
  ASSUME NEW c \in Nat
  PROVE  PGSIZE * c \in Nat /\ c * PGSIZE = PGSIZE * c /\ Ceil(PGSIZE * c) = c
<1>1. PGSIZE \in Nat \ {0} /\ PGSIZE * c \in Nat /\ c * PGSIZE = PGSIZE * c
  BY MemoryAssumption
<1>2. PGSIZE * c < PGSIZE * c + PGSIZE
  BY <1>1
<1> QED BY <1>1, <1>2, CeilUnique

LEMMA CeilGrows ==
  ASSUME NEW a \in Nat, NEW b \in Nat, a <= b
  PROVE  Ceil(a) <= Ceil(b)
<1>1. PGSIZE \in Nat \ {0}
  BY MemoryAssumption
<1> DEFINE c == Ceil(a)
           d == Ceil(b)
<1>2. c \in Nat /\ d \in Nat /\ b <= PGSIZE * d /\ PGSIZE * c < a + PGSIZE
  BY CeilIs
<1> HIDE DEF c, d
<1>3. ASSUME c > d
      PROVE  FALSE
  <2>1. PICK e \in Nat : c = d + 1 + e
    <3>1. c - d - 1 \in Nat /\ c = d + 1 + (c - d - 1)
      BY <1>2, <1>3
    <3> QED BY <3>1
  <2>2. PGSIZE * c = PGSIZE * d + PGSIZE + PGSIZE * e /\ PGSIZE * e \in Nat /\ PGSIZE * d \in Nat
    BY <1>1, <1>2, <2>1
  <2> QED BY <1>1, <1>2, <2>2
<1> QED BY <1>2, <1>3 DEF c, d

LEMMA CeilZero ==
  ASSUME NEW n \in Nat
  PROVE  (n = 0 => Ceil(n) = 0) /\ (n > 0 => Ceil(n) > 0)
<1>1. PGSIZE \in Nat \ {0} /\ Ceil(n) \in Nat /\ n <= PGSIZE * Ceil(n)
  BY MemoryAssumption, CeilIs
<1>2. n = 0 => Ceil(n) = 0
  BY <1>1, CeilUnique
<1>3. Ceil(n) = 0 => n = 0
  BY <1>1
<1> QED BY <1>1, <1>2, <1>3

HasMem(m) == {"sz", "pt"} \subseteq DOMAIN m /\ m.sz \in Nat /\ m.pt \in Nat

LEMMA HeldIs ==
  ASSUME NEW m, HasMem(m)
  PROVE  /\ Npages(m) = Ceil(m.sz) /\ Ceil(m.sz) \in Nat
         /\ Held(m) = 3 + m.pt + Ceil(m.sz) /\ Held(m) \in Nat
<1>1. Npages(m) = Ceil(m.sz) /\ Ceil(m.sz) \in Nat
  BY CeilIs DEF HasMem, Npages
<1> QED BY <1>1 DEF Held, ROOTPAGES, HasMem

LEMMA MaxTwo ==
  ASSUME NEW a \in Int, NEW b \in Int
  PROVE  Max({a, b}) \in {a, b} /\ Max({a, b}) >= a /\ Max({a, b}) >= b
<1>1. \E x \in {a, b} : \A y \in {a, b} : x >= y
  <2>1. a <= b \/ b <= a
    OBVIOUS
  <2> QED BY <2>1
<1> DEFINE S == {a, b}
<1>2. a \in S /\ b \in S /\ \E x \in S : \A y \in S : x >= y
  BY <1>1
<1> HIDE DEF S
<1>3. Max(S) \in S /\ \A y \in S : Max(S) >= y
  BY <1>2 DEF Max
<1> QED BY <1>2, <1>3 DEF S

\* The tables above a page are a number of pages.
LEMMA WalkIs ==
  ASSUME NEW pg \in Nat
  PROVE  walk(pg) \in Nat
<1>1. PTSPAN \in Nat \ {0}
  BY MemoryAssumption
<1>2. pg \div PTSPAN \in Nat
  BY <1>1
<1> QED BY <1>2 DEF walk

\* What uvmalloc() has in hand: the free pages, the memory, and whether all went well.
Growth(s) == /\ DOMAIN s = {"free", "m", "ok"} /\ s.free \in Nat /\ HasMem(s.m)
             /\ s.ok \in BOOLEAN

LEMMA AddPageIs ==
  ASSUME NEW s, Growth(s), NEW pg \in Nat, s.ok => Ceil(s.m.sz) = pg, NEW t, t = AddPage(s, pg)
  PROVE  /\ Growth(t) /\ t.free + Held(t.m) = s.free + Held(s.m)
         /\ t.ok => s.ok /\ Ceil(t.m.sz) = pg + 1
         /\ Ceil(t.m.sz) >= Ceil(s.m.sz)
<1> DEFINE miss == Max({0, walk(pg) - s.m.pt})
           f1 == s.free - 1 - miss
           m1 == [s.m EXCEPT !.pt = s.m.pt + miss, !.sz = (pg + 1) * PGSIZE]
           t1 == [s EXCEPT !.free = f1, !.m = m1]
           m2 == [s.m EXCEPT !.pt = s.m.pt + s.free - 1]
           t2 == [s EXCEPT !.free = 1, !.m = m2, !.ok = FALSE]
           t3 == [s EXCEPT !.ok = FALSE]
<1>1. t = IF ~s.ok \/ s.free = 0 THEN t3 ELSE IF s.free > miss THEN t1 ELSE t2
  <2> DEFINE lack == Max({0, walk(pg) - s.m.pt})
  <2>1. t = IF ~s.ok \/ s.free = 0 THEN [s EXCEPT !.ok = FALSE]
            ELSE IF s.free > lack
              THEN [s EXCEPT !.free = @ - 1 - lack,
                             !.m = [s.m EXCEPT !.pt = @ + lack, !.sz = (pg + 1) * PGSIZE]]
            ELSE [s EXCEPT !.free = 1, !.m.pt = @ + s.free - 1, !.ok = FALSE]
    BY DEF AddPage
  <2>2. lack = miss
    OBVIOUS
  <2> HIDE DEF lack, miss
  <2>3. DOMAIN s = {"free", "m", "ok"}
    BY DEF Growth
  <2>4. [s EXCEPT !.free = @ - 1 - lack,
                  !.m = [s.m EXCEPT !.pt = @ + lack, !.sz = (pg + 1) * PGSIZE]] = t1
    <3> DEFINE a == s.free - 1 - lack
               b == [s.m EXCEPT !.pt = s.m.pt + lack, !.sz = (pg + 1) * PGSIZE]
    <3>1. a = f1 /\ b = m1
      BY <2>2
    <3>2. [s EXCEPT !.free = @ - 1 - lack,
                    !.m = [s.m EXCEPT !.pt = @ + lack, !.sz = (pg + 1) * PGSIZE]]
          = [s EXCEPT !.free = a, !.m = b]
      BY <2>3
    <3> HIDE DEF a, b, f1, m1
    <3> QED BY <3>1, <3>2
  <2>5. [s EXCEPT !.free = 1, !.m.pt = @ + s.free - 1, !.ok = FALSE] = t2
    BY <2>3
  <2> HIDE DEF t1, t2
  <2> QED BY <2>1, <2>2, <2>4, <2>5
<1>3. HasMem(s.m) /\ s.free \in Nat /\ s.m.pt \in Nat /\ s.m.sz \in Nat
  BY DEF Growth, HasMem
<1>2. miss \in Nat
  <2>1. walk(pg) \in Nat
    BY WalkIs
  <2> DEFINE b == walk(pg) - s.m.pt
  <2>2. b \in Int
    BY <1>3, <2>1
  <2> HIDE DEF b
  <2>3. Max({0, b}) \in {0, b} /\ Max({0, b}) >= 0
    BY <2>2, MaxTwo
  <2>4. Max({0, b}) \in Nat
    BY <2>2, <2>3
  <2> QED BY <2>4 DEF b
<1>4. Held(s.m) = 3 + s.m.pt + Ceil(s.m.sz) /\ Ceil(s.m.sz) \in Nat
  BY <1>3, HeldIs
<1>5. (pg + 1) * PGSIZE \in Nat /\ Ceil((pg + 1) * PGSIZE) = pg + 1
  BY CeilMultiple
<1> HIDE DEF miss
<1>6. CASE ~s.ok \/ s.free = 0
  <2>1. t = t3
    BY <1>1, <1>6
  <2>2. Growth(t) /\ t.free = s.free /\ t.m = s.m /\ t.ok = FALSE
    BY <2>1 DEF Growth
  <2> QED BY <1>3, <1>4, <2>2
<1>7. CASE ~(~s.ok \/ s.free = 0) /\ s.free > miss
  <2>1. t = t1
    BY <1>1, <1>7
  <2>2. HasMem(m1) /\ m1.pt = s.m.pt + miss /\ m1.sz = (pg + 1) * PGSIZE
    BY <1>2, <1>3, <1>5 DEF HasMem
  <2>3. f1 \in Nat /\ f1 = s.free - 1 - miss
    BY <1>2, <1>3, <1>7
  <2> HIDE DEF f1, m1
  <2>4. Growth(t) /\ t.free = f1 /\ t.m = m1 /\ t.ok = s.ok
    BY <2>1, <2>2, <2>3 DEF Growth
  <2>5. Held(m1) = 3 + m1.pt + (pg + 1)
    <3>1. Held(m1) = 3 + m1.pt + Ceil(m1.sz)
      BY <2>2, HeldIs
    <3>2. Ceil(m1.sz) = pg + 1
      BY <1>5, <2>2, Zenon
    <3> QED BY <3>1, <3>2
  <2>6. t.free + Held(t.m) = s.free + Held(s.m)
    <3>1. t.free = s.free - 1 - miss /\ Held(t.m) = 3 + (s.m.pt + miss) + (pg + 1)
      BY <2>2, <2>3, <2>4, <2>5
    <3>2. Held(s.m) = 3 + s.m.pt + pg
      BY <1>4, <1>7
    <3> QED BY <1>2, <1>3, <3>1, <3>2
  <2>7. Ceil(t.m.sz) = pg + 1 /\ Ceil(s.m.sz) = pg
    BY <1>5, <1>7, <2>2, <2>4, Zenon
  <2> QED BY <1>7, <2>4, <2>6, <2>7
<1>8. CASE ~(~s.ok \/ s.free = 0) /\ ~(s.free > miss)
  <2>1. t = t2
    BY <1>1, <1>8
  <2>2. HasMem(m2) /\ m2.pt = s.m.pt + s.free - 1 /\ m2.sz = s.m.sz
    BY <1>3, <1>8 DEF HasMem
  <2> HIDE DEF m2
  <2>3. Growth(t) /\ t.free = 1 /\ t.m = m2 /\ t.ok = FALSE
    BY <2>1, <2>2 DEF Growth
  <2>4. Held(m2) = 3 + m2.pt + Ceil(s.m.sz)
    BY <2>2, HeldIs
  <2> QED BY <1>3, <1>4, <2>2, <2>3, <2>4
<1> QED BY <1>6, <1>7, <1>8

\* Grown(free, m)[n]: what uvmalloc() has in hand after n pages.
Grown(free, m) ==
  LET first == Npages(m)
      grown[n \in Nat] == IF n = 0 THEN [free |-> free, m |-> m, ok |-> TRUE]
                          ELSE AddPage(grown[n - 1], first + n - 1)
  IN  grown

LEMMA GrownRun ==
  ASSUME NEW free, NEW m, HasMem(m)
  PROVE  /\ Grown(free, m)[0] = [free |-> free, m |-> m, ok |-> TRUE]
         /\ \A n \in Nat : Grown(free, m)[n + 1] = AddPage(Grown(free, m)[n], Npages(m) + n)
<1> DEFINE F(v, i) == AddPage(v, Npages(m) + i - 1)
           start == [free |-> free, m |-> m, ok |-> TRUE]
           Upto(g, n) == /\ g[0] = start
                         /\ \A j \in Nat : j < n => g[j + 1] = F(g[j], j + 1)
           G(n) == CHOOSE g : Upto(g, n)
           f == [n \in Nat |-> G(n)[n]]
           P(v) == v = [n \in Nat |-> IF n = 0 THEN start ELSE F(v[n - 1], n)]
<1>0. Grown(free, m) = CHOOSE v : P(v)
  BY DEF Grown
<1> HIDE DEF F, start
<1>1. \A n \in Nat : \E g : Upto(g, n)
  <2> DEFINE S == {n \in Nat : \E g : Upto(g, n)}
  <2>1. 0 \in S
    <3>1. Upto([j \in Nat |-> start], 0)
      OBVIOUS
    <3> QED BY <3>1
  <2>2. ASSUME NEW n \in Nat, n \in S
        PROVE  n + 1 \in S
    <3>1. PICK g : Upto(g, n)
      BY <2>2
    <3> DEFINE h == [j \in Nat |-> IF j = n + 1 THEN F(g[n], n + 1) ELSE g[j]]
    <3>2. h[0] = start
      BY <3>1
    <3>3. ASSUME NEW j \in Nat, j < n + 1
          PROVE  h[j + 1] = F(h[j], j + 1)
      <4>1. CASE j = n
        BY <4>1
      <4>2. CASE j < n
        BY <3>1, <4>2
      <4> QED BY <3>3, <4>1, <4>2
    <3>4. Upto(h, n + 1)
      BY <3>2, <3>3
    <3> HIDE DEF h, Upto
    <3> QED BY <3>4
  <2> HIDE DEF S
  <2>3. Nat \subseteq S
    BY <2>1, <2>2, NatInduct
  <2> QED BY <2>3 DEF S
<1>2. ASSUME NEW n \in Nat, NEW g, NEW h, Upto(g, n), Upto(h, n + 1)
      PROVE  g[n] = h[n]
  <2> DEFINE S == {j \in Nat : j <= n => g[j] = h[j]}
  <2>1. 0 \in S
    BY <1>2
  <2>2. ASSUME NEW j \in Nat, j \in S
        PROVE  j + 1 \in S
    BY <1>2, <2>2
  <2> HIDE DEF S
  <2>3. Nat \subseteq S
    BY <2>1, <2>2, NatInduct
  <2> QED BY <2>3 DEF S
<1>3. \A n \in Nat : Upto(G(n), n)
  BY <1>1
<1> HIDE DEF G
<1>4. f[0] = start
  BY <1>3
<1>5. ASSUME NEW n \in Nat
      PROVE  f[n + 1] = F(f[n], n + 1)
  <2>1. Upto(G(n), n) /\ Upto(G(n + 1), n + 1)
    BY <1>3
  <2>2. G(n)[n] = G(n + 1)[n]
    BY <1>2, <2>1
  <2> QED BY <2>1, <2>2
<1> HIDE DEF Upto
<1>6. P(f)
  <2>1. ASSUME NEW n \in Nat, n # 0
        PROVE  f[n] = F(f[n - 1], n)
    <3>1. n - 1 \in Nat /\ (n - 1) + 1 = n
      BY <2>1
    <3> HIDE DEF f
    <3> QED BY <1>5, <3>1
  <2> QED BY <1>4, <2>1
<1>7. P(Grown(free, m))
  BY <1>0, <1>6
<1> HIDE DEF f
<1>8. ASSUME NEW v, P(v)
      PROVE  v[0] = start /\ \A n \in Nat : v[n + 1] = F(v[n], n + 1)
  <2>1. v[0] = start
    BY <1>8
  <2>2. ASSUME NEW n \in Nat
        PROVE  v[n + 1] = F(v[n], n + 1)
    <3>1. v[n + 1] = IF n + 1 = 0 THEN start ELSE F(v[(n + 1) - 1], n + 1)
      BY <1>8
    <3>2. n + 1 # 0 /\ (n + 1) - 1 = n
      OBVIOUS
    <3> QED BY <3>1, <3>2
  <2> QED BY <2>1, <2>2
<1> HIDE DEF P
<1>9. /\ Grown(free, m)[0] = start
      /\ \A n \in Nat : Grown(free, m)[n + 1] = F(Grown(free, m)[n], n + 1)
  BY <1>7, <1>8
<1>10. \A n \in Nat : \A v : F(v, n + 1) = AddPage(v, Npages(m) + n)
  <2>1. \A n \in Nat : Npages(m) + (n + 1) - 1 = Npages(m) + n
    BY HeldIs
  <2> QED BY <2>1 DEF F
<1> HIDE DEF F
<1> QED BY <1>9, <1>10 DEF start

\* The pages a process has come to hold are those that are free no more.
Fits(free, m, s) == Growth(s) /\ s.free + Held(s.m) = free + Held(m)

LEMMA FitsSame ==
  ASSUME NEW free \in Nat, NEW m, HasMem(m), NEW ok \in BOOLEAN
  PROVE  Fits(free, m, [free |-> free, m |-> m, ok |-> ok])
BY DEF Fits, Growth

\* Another size of as many pages is the same to the allocator.
LEMMA SetSize ==
  ASSUME NEW m, HasMem(m), NEW n \in Nat
  PROVE  /\ HasMem([m EXCEPT !.sz = n]) /\ [m EXCEPT !.sz = n].sz = n
         /\ Held([m EXCEPT !.sz = n]) = 3 + m.pt + Ceil(n)
<1> DEFINE r == [m EXCEPT !.sz = n]
<1>1. HasMem(r) /\ r.sz = n /\ r.pt = m.pt
  BY DEF HasMem
<1> HIDE DEF r
<1>2. Held(r) = 3 + m.pt + Ceil(n)
  BY <1>1, HeldIs
<1> QED BY <1>1, <1>2 DEF r

LEMMA GrownFits ==
  ASSUME NEW free \in Nat, NEW m, HasMem(m), NEW n \in Nat
  PROVE  /\ Fits(free, m, Grown(free, m)[n])
         /\ Grown(free, m)[n].ok => Ceil(Grown(free, m)[n].m.sz) = Npages(m) + n
         /\ Ceil(Grown(free, m)[n].m.sz) >= Npages(m)
<1> DEFINE G(j) == Grown(free, m)[j]
           S == {j \in Nat : /\ Fits(free, m, G(j))
                             /\ G(j).ok => Ceil(G(j).m.sz) = Npages(m) + j
                             /\ Ceil(G(j).m.sz) >= Npages(m)}
<1>1. G(0) = [free |-> free, m |-> m, ok |-> TRUE] /\ \A j \in Nat : G(j + 1) = AddPage(G(j), Npages(m) + j)
  BY GrownRun
<1>2. Npages(m) = Ceil(m.sz) /\ Npages(m) \in Nat
  BY HeldIs
<1> HIDE DEF G
<1>3. 0 \in S
  <2>1. Fits(free, m, G(0))
    BY <1>1, FitsSame
  <2>2. G(0).m = m
    BY <1>1
  <2> QED BY <1>2, <2>1, <2>2
<1>4. ASSUME NEW j \in Nat, j \in S
      PROVE  j + 1 \in S
  <2> DEFINE s == G(j)
             t == G(j + 1)
             pg == Npages(m) + j
  <2>1. Growth(s) /\ s.free + Held(s.m) = free + Held(m) /\ (s.ok => Ceil(s.m.sz) = pg)
        /\ Ceil(s.m.sz) >= Npages(m)
    BY <1>4 DEF Fits
  <2>2. pg \in Nat /\ t = AddPage(s, pg)
    BY <1>1, <1>2
  <2>3. Npages(m) + (j + 1) = pg + 1
    BY <1>2
  <2> HIDE DEF s, t, pg
  <2>4. /\ Growth(t) /\ t.free + Held(t.m) = s.free + Held(s.m)
        /\ t.ok => s.ok /\ Ceil(t.m.sz) = pg + 1
        /\ Ceil(t.m.sz) >= Ceil(s.m.sz)
    BY <2>1, <2>2, AddPageIs
  <2>5. Ceil(t.m.sz) \in Nat /\ Ceil(s.m.sz) \in Nat
    BY <2>1, <2>4, HeldIs DEF Growth
  <2>6. Ceil(t.m.sz) >= Npages(m)
    BY <1>2, <2>1, <2>4, <2>5
  <2>7. Fits(free, m, t)
    BY <2>1, <2>4 DEF Fits
  <2> QED BY <2>3, <2>4, <2>6, <2>7 DEF t
<1> HIDE DEF S
<1>5. Nat \subseteq S
  BY <1>3, <1>4, NatInduct
<1>6. n \in S
  BY <1>5
<1> QED BY <1>6 DEF S, G

LEMMA DeallocFits ==
  ASSUME NEW free \in Nat, NEW m, HasMem(m), NEW new \in Nat, NEW t, t = uvmdealloc(free, m, new)
  PROVE  /\ Fits(free, m, t) /\ t.m.sz = IF new >= m.sz THEN m.sz ELSE new
<1> DEFINE same == [free |-> free, m |-> m, ok |-> TRUE]
           a    == free + Npages(m) - PGROUNDUP(new) \div PGSIZE
           m2   == [m EXCEPT !.sz = new]
           less == [free |-> a, m |-> m2, ok |-> TRUE]
<1>1. t = IF new >= m.sz THEN same ELSE less
  BY DEF uvmdealloc
<1>2. m.sz \in Nat /\ m.pt \in Nat
  BY DEF HasMem
<1>3. CASE new >= m.sz
  <2>1. t = same
    BY <1>1, <1>3
  <2>2. Fits(free, m, t)
    BY <2>1, FitsSame
  <2> QED BY <1>3, <2>1, <2>2
<1>4. CASE ~(new >= m.sz)
  <2>1. t = less
    BY <1>1, <1>4
  <2>2. /\ Held(m) = 3 + m.pt + Ceil(m.sz) /\ Npages(m) = Ceil(m.sz) /\ Ceil(m.sz) \in Nat
        /\ PGROUNDUP(new) \div PGSIZE = Ceil(new) /\ Ceil(new) \in Nat
    BY HeldIs, CeilIs
  <2>3. Ceil(new) <= Ceil(m.sz)
    BY <1>2, <1>4, CeilGrows
  <2>4. HasMem(m2) /\ m2.sz = new /\ Held(m2) = 3 + m.pt + Ceil(new)
    BY SetSize
  <2>5. a \in Nat /\ a = free + Ceil(m.sz) - Ceil(new)
    BY <2>2, <2>3
  <2> HIDE DEF a, m2
  <2>6. Growth(less)
    BY <2>4, <2>5 DEF Growth
  <2>7. a + Held(m2) = free + Held(m)
    BY <1>2, <2>2, <2>4, <2>5
  <2>8. Fits(free, m, t) /\ t.m = m2
    BY <2>1, <2>6, <2>7 DEF Fits
  <2> QED BY <1>4, <2>4, <2>8
<1> QED BY <1>3, <1>4

LEMMA AllocFits ==
  ASSUME NEW free \in Nat, NEW m, HasMem(m), NEW new \in Nat, NEW t, t = uvmalloc(free, m, new)
  PROVE  Fits(free, m, t)
<1> DEFINE n    == PGROUNDUP(new) \div PGSIZE - Npages(m)
           got  == Grown(free, m)[n]
           back == uvmdealloc(got.free, got.m, PGROUNDUP(m.sz))
           g2   == [got.m EXCEPT !.sz = new]
           more == [got EXCEPT !.m = g2]
           b2   == [back.m EXCEPT !.sz = m.sz]
           undo == [free |-> back.free, m |-> b2, ok |-> FALSE]
           same == [free |-> free, m |-> m, ok |-> TRUE]
<1>1. t = IF new < m.sz THEN same ELSE IF got.ok THEN more ELSE undo
  BY DEF uvmalloc, Grown
<1>2. m.sz \in Nat /\ m.pt \in Nat /\ Ceil(m.sz) \in Nat /\ Npages(m) = Ceil(m.sz)
  BY HeldIs DEF HasMem
<1>3. CASE new < m.sz
  BY <1>1, <1>3, FitsSame
<1>4. CASE ~(new < m.sz)
  <2>1. PGROUNDUP(new) \div PGSIZE = Ceil(new) /\ Ceil(new) \in Nat /\ Ceil(m.sz) <= Ceil(new)
    <3>1. m.sz <= new
      BY <1>2, <1>4
    <3> QED BY <1>2, <3>1, CeilIs, CeilGrows
  <2>2. n \in Nat /\ Npages(m) + n = Ceil(new)
    BY <1>2, <2>1
  <2> HIDE DEF n
  <2>3. /\ Fits(free, m, got) /\ (got.ok => Ceil(got.m.sz) = Ceil(new))
        /\ Ceil(got.m.sz) >= Ceil(m.sz)
    BY <1>2, <2>2, GrownFits
  <2> HIDE DEF got
  <2>4. /\ DOMAIN got = {"free", "m", "ok"} /\ got.free \in Nat /\ HasMem(got.m) /\ got.ok \in BOOLEAN
        /\ got.free + Held(got.m) = free + Held(m)
    BY <2>3 DEF Fits, Growth
  <2>5. Held(got.m) = 3 + got.m.pt + Ceil(got.m.sz)
    BY <2>4, HeldIs
  <2>6. CASE got.ok
    <3>1. HasMem(g2) /\ Held(g2) = 3 + got.m.pt + Ceil(new)
      BY <2>4, SetSize
    <3>2. Held(g2) = Held(got.m)
      BY <2>3, <2>5, <2>6, <3>1
    <3> HIDE DEF g2
    <3>3. Growth(more) /\ more.free = got.free /\ more.m = g2
      BY <2>4, <3>1 DEF Growth
    <3>4. t = more
      BY <1>1, <1>4, <2>6
    <3> HIDE DEF more
    <3> QED BY <2>4, <3>2, <3>3, <3>4 DEF Fits
  <2>7. CASE ~got.ok
    <3>1. PGROUNDUP(m.sz) \in Nat /\ PGROUNDUP(m.sz) = PGSIZE * Ceil(m.sz)
          /\ Ceil(PGSIZE * Ceil(m.sz)) = Ceil(m.sz)
      BY <1>2, CeilIs, CeilMultiple
    <3> DEFINE w == PGROUNDUP(m.sz)
    <3>2. w \in Nat /\ Ceil(w) = Ceil(m.sz)
      BY <3>1
    <3> HIDE DEF w
    <3>3. back = uvmdealloc(got.free, got.m, w)
      BY DEF w
    <3> HIDE DEF back
    <3>4. Fits(got.free, got.m, back) /\ back.m.sz = IF w >= got.m.sz THEN got.m.sz ELSE w
      BY <2>4, <3>2, <3>3, DeallocFits
    <3>5. Ceil(back.m.sz) = Ceil(m.sz)
      <4>1. CASE w >= got.m.sz
        <5>1. got.m.sz \in Nat /\ back.m.sz = got.m.sz
          BY <2>4, <3>4, <4>1 DEF HasMem
        <5>2. Ceil(got.m.sz) <= Ceil(w) /\ Ceil(got.m.sz) \in Nat
          <6>1. got.m.sz <= w
            BY <3>2, <4>1, <5>1
          <6> QED BY <3>2, <5>1, <6>1, CeilGrows, CeilIs
        <5> QED BY <1>2, <2>3, <3>2, <5>1, <5>2
      <4>2. CASE ~(w >= got.m.sz)
        BY <3>2, <3>4, <4>2
      <4> QED BY <4>1, <4>2
    <3>6. /\ DOMAIN back = {"free", "m", "ok"} /\ back.free \in Nat /\ HasMem(back.m)
          /\ back.free + Held(back.m) = got.free + Held(got.m)
      BY <3>4 DEF Fits, Growth
    <3>7. Held(back.m) = 3 + back.m.pt + Ceil(back.m.sz)
      BY <3>6, HeldIs
    <3>8. HasMem(b2) /\ Held(b2) = 3 + back.m.pt + Ceil(m.sz)
      BY <1>2, <3>6, SetSize
    <3>9. Held(b2) = Held(back.m)
      BY <3>5, <3>7, <3>8
    <3> HIDE DEF b2
    <3>10. Growth(undo) /\ undo.free = back.free /\ undo.m = b2
      BY <3>6, <3>8 DEF Growth
    <3>11. t = undo
      BY <1>1, <1>4, <2>7
    <3> HIDE DEF undo
    <3> QED BY <2>4, <3>6, <3>9, <3>10, <3>11 DEF Fits
  <2> QED BY <2>4, <2>6, <2>7
<1> QED BY <1>2, <1>3, <1>4

LEMMA GrowFits ==
  ASSUME NEW free \in Nat, NEW m, HasMem(m), NEW n \in Int, NEW t, t = growproc(free, m, n)
  PROVE  Fits(free, m, t)
<1> DEFINE new == (m.sz + n) % WORD
<1>1. new \in Nat
  <2>1. WORD \in Nat \ {0} /\ MAXVA \in Nat
    BY MemoryAssumption
  <2>2. m.sz + n \in Int
    BY DEF HasMem
  <2> QED BY <2>1, <2>2
<1>2. t = CASE n > 0 -> uvmalloc(free, m, new)
            [] n < 0 -> uvmdealloc(free, m, new)
            [] OTHER -> [free |-> free, m |-> m, ok |-> TRUE]
  BY DEF growproc
<1> HIDE DEF new
<1>3. CASE n > 0
  <2>1. t = uvmalloc(free, m, new)
    BY <1>2, <1>3
  <2> QED BY <1>1, <2>1, AllocFits
<1>4. CASE n < 0
  <2>1. t = uvmdealloc(free, m, new)
    BY <1>2, <1>4
  <2> QED BY <1>1, <2>1, DeallocFits
<1>5. CASE n = 0
  <2>1. t = [free |-> free, m |-> m, ok |-> TRUE]
    BY <1>2, <1>5
  <2> QED BY <2>1, FitsSame
<1> QED BY <1>3, <1>4, <1>5

\* fork() and exec(): what one takes, the child or the new image holds.
LEMMA CopyFits ==
  ASSUME NEW free \in Nat, NEW m, HasMem(m), NEW t, t = uvmcopy(free, m), t.ok
  PROVE  /\ t.free \in Nat /\ HasMem(t.m)
         /\ t.free + (TRAPFRAMEPAGE + Held(t.m)) = free
<1> DEFINE pt   == IF m.sz = 0 THEN 0 ELSE walk(Npages(m) - 1)
           copy == [m EXCEPT !.pt = pt]
           cost == TRAPFRAMEPAGE + Held(copy)
<1>1. t = IF free < cost THEN [free |-> free, m |-> m, ok |-> FALSE]
          ELSE [free |-> free - cost, m |-> copy, ok |-> TRUE]
  BY DEF uvmcopy
<1>2. pt \in Nat
  <2>1. m.sz # 0 => Npages(m) - 1 \in Nat
    BY HeldIs, CeilZero DEF HasMem
  <2> DEFINE w == Npages(m) - 1
  <2>2. w \in Nat => walk(w) \in Nat
    BY WalkIs
  <2> HIDE DEF w
  <2> QED BY <2>1, <2>2 DEF w
<1> HIDE DEF pt
<1>3. HasMem(copy)
  BY <1>2 DEF HasMem
<1> HIDE DEF copy
<1>4. cost \in Nat
  BY <1>3, HeldIs DEF TRAPFRAMEPAGE
<1> HIDE DEF cost
<1>5. ~(free < cost) /\ t.free = free - cost /\ t.m = copy
  BY <1>1
<1> QED BY <1>3, <1>4, <1>5 DEF cost

LEMMA LoadedIs == HasMem(Loaded) /\ Held(Loaded) \in Nat
<1>1. PGSIZE \in Nat /\ IMAGE \in Nat
  BY MemoryAssumption
<1>2. TEXT \in Nat /\ walk(IMAGE + 1) \in Nat
  <2>1. IMAGE + 1 \in Nat
    BY <1>1
  <2> QED BY <1>1, <2>1, WalkIs DEF TEXT
<1>3. HasMem(Loaded)
  BY <1>2 DEF Loaded, HasMem
<1> QED BY <1>3, HeldIs

LEMMA ImageFits ==
  ASSUME NEW free \in Nat, NEW m, HasMem(m), NEW t, t = execimage(free, m), t.ok
  PROVE  t.free \in Nat /\ HasMem(t.m) /\ t.free + Held(t.m) = free + Held(m)
<1>1. Held(Loaded) \in Nat /\ Held(m) \in Nat /\ HasMem(Loaded)
  BY LoadedIs, HeldIs
<1>2. ~(free < Held(Loaded)) /\ t.free = free - Held(Loaded) + Held(m) /\ t.m = Loaded
  BY DEF execimage
<1> QED BY <1>1, <1>2

----------------------------------------------------------------------------
(* The pages of all processes, and of the pipes.                           *)

LEMMA TakenRun ==
  ASSUME NEW pr
  PROVE  Taken(pr)[0] = 0 /\ \A n \in Nat : Taken(pr)[n + 1] = Taken(pr)[n] + PagesOf(pr[n + 1])
<1> DEFINE F(v, m) == v + PagesOf(pr[m])
           Till(g, n) == /\ g[0] = 0
                         /\ \A m \in Nat : m < n => g[m + 1] = F(g[m], m + 1)
           G(n) == CHOOSE g : Till(g, n)
           f == [n \in Nat |-> G(n)[n]]
           P(v) == v = [n \in Nat |-> IF n = 0 THEN 0 ELSE F(v[n - 1], n)]
<1>0. Taken(pr) = CHOOSE v : P(v)
  BY DEF Taken
<1> HIDE DEF F
<1>1. \A n \in Nat : \E g : Till(g, n)
  <2> DEFINE S == {n \in Nat : \E g : Till(g, n)}
  <2>1. 0 \in S
    <3>1. Till([m \in Nat |-> 0], 0)
      OBVIOUS
    <3> QED BY <3>1
  <2>2. ASSUME NEW n \in Nat, n \in S
        PROVE  n + 1 \in S
    <3>1. PICK g : Till(g, n)
      BY <2>2
    <3> DEFINE h == [m \in Nat |-> IF m = n + 1 THEN F(g[n], n + 1) ELSE g[m]]
    <3>2. h[0] = 0
      BY <3>1
    <3>3. ASSUME NEW m \in Nat, m < n + 1
          PROVE  h[m + 1] = F(h[m], m + 1)
      <4>1. CASE m = n
        BY <4>1
      <4>2. CASE m < n
        BY <3>1, <4>2
      <4> QED BY <3>3, <4>1, <4>2
    <3>4. Till(h, n + 1)
      BY <3>2, <3>3
    <3> HIDE DEF h, Till
    <3> QED BY <3>4
  <2> HIDE DEF S
  <2>3. Nat \subseteq S
    BY <2>1, <2>2, NatInduct
  <2> QED BY <2>3 DEF S
<1>2. ASSUME NEW n \in Nat, NEW g, NEW h, Till(g, n), Till(h, n + 1)
      PROVE  g[n] = h[n]
  <2> DEFINE S == {m \in Nat : m <= n => g[m] = h[m]}
  <2>1. 0 \in S
    BY <1>2
  <2>2. ASSUME NEW m \in Nat, m \in S
        PROVE  m + 1 \in S
    BY <1>2, <2>2
  <2> HIDE DEF S
  <2>3. Nat \subseteq S
    BY <2>1, <2>2, NatInduct
  <2> QED BY <2>3 DEF S
<1>3. \A n \in Nat : Till(G(n), n)
  BY <1>1
<1> HIDE DEF G
<1>4. f[0] = 0
  BY <1>3
<1>5. ASSUME NEW n \in Nat
      PROVE  f[n + 1] = F(f[n], n + 1)
  <2>1. Till(G(n), n) /\ Till(G(n + 1), n + 1)
    BY <1>3
  <2>2. G(n)[n] = G(n + 1)[n]
    BY <1>2, <2>1
  <2> QED BY <2>1, <2>2
<1> HIDE DEF Till
<1>6. P(f)
  <2>1. ASSUME NEW n \in Nat, n # 0
        PROVE  f[n] = F(f[n - 1], n)
    <3>1. n - 1 \in Nat /\ (n - 1) + 1 = n
      BY <2>1
    <3> HIDE DEF f
    <3> QED BY <1>5, <3>1
  <2> QED BY <1>4, <2>1
<1>7. P(Taken(pr))
  BY <1>0, <1>6
<1> HIDE DEF f
<1>8. ASSUME NEW v, P(v)
      PROVE  v[0] = 0 /\ \A n \in Nat : v[n + 1] = F(v[n], n + 1)
  <2>1. v[0] = 0
    BY <1>8
  <2>2. ASSUME NEW n \in Nat
        PROVE  v[n + 1] = F(v[n], n + 1)
    <3>1. v[n + 1] = IF n + 1 = 0 THEN 0 ELSE F(v[(n + 1) - 1], n + 1)
      BY <1>8
    <3>2. n + 1 # 0 /\ (n + 1) - 1 = n
      OBVIOUS
    <3> QED BY <3>1, <3>2
  <2> QED BY <2>1, <2>2
<1> HIDE DEF P
<1>9. /\ Taken(pr)[0] = 0
      /\ \A n \in Nat : Taken(pr)[n + 1] = F(Taken(pr)[n], n + 1)
  BY <1>7, <1>8
<1> QED BY <1>9 DEF F

Mem(q)       == "mem" \in DOMAIN q /\ HasMem(q.mem)
Memories(pr) == \A p \in Slots : Mem(pr[p])

LEMMA PagesOfIs ==
  ASSUME NEW q, Mem(q)
  PROVE  PagesOf(q) \in Nat
BY HeldIs DEF PagesOf, Mem, TRAPFRAMEPAGE

LEMMA TakenIs ==
  ASSUME NEW pr, Memories(pr)
  PROVE  Taken(pr)[NPROC] \in Nat
<1> DEFINE S == {n \in Nat : n <= NPROC => Taken(pr)[n] \in Nat}
<1>1. 0 \in S
  BY TakenRun
<1>2. ASSUME NEW n \in Nat, n \in S
      PROVE  n + 1 \in S
  <2>1. SUFFICES ASSUME n + 1 <= NPROC PROVE Taken(pr)[n + 1] \in Nat
    OBVIOUS
  <2>2. NPROC \in Nat /\ Taken(pr)[n] \in Nat /\ n + 1 \in Slots
    BY <1>2, <2>1, Constants DEF Slots
  <2>3. PagesOf(pr[n + 1]) \in Nat
    BY <2>2, PagesOfIs DEF Memories
  <2> QED BY <2>2, <2>3, TakenRun
<1> HIDE DEF S
<1>3. Nat \subseteq S
  BY <1>1, <1>2, NatInduct
<1>4. NPROC \in Nat /\ NPROC \in S
  BY <1>3, Constants
<1> QED BY <1>4 DEF S

\* When only the pages of process a change, the sum changes by as much.
LEMMA TakenMoves ==
  ASSUME NEW pr, Memories(pr), NEW pr2, Memories(pr2), NEW a \in Slots,
         \A p \in Slots \ {a} : PagesOf(pr2[p]) = PagesOf(pr[p])
  PROVE  Taken(pr2)[NPROC] + PagesOf(pr[a]) = Taken(pr)[NPROC] + PagesOf(pr2[a])
<1> DEFINE x == PagesOf(pr[a])
           y == PagesOf(pr2[a])
           U(n) == Taken(pr)[n]
           V(n) == Taken(pr2)[n]
           S == {n \in Nat : n <= NPROC =>
                   /\ U(n) \in Nat /\ V(n) \in Nat
                   /\ V(n) + (IF a <= n THEN x ELSE 0) = U(n) + (IF a <= n THEN y ELSE 0)}
<1>1. x \in Nat /\ y \in Nat /\ NPROC \in Nat /\ a \in Nat /\ a > 0 /\ a <= NPROC
  BY PagesOfIs, Constants DEF Memories, Slots
<1>2. /\ U(0) = 0 /\ \A n \in Nat : U(n + 1) = U(n) + PagesOf(pr[n + 1])
      /\ V(0) = 0 /\ \A n \in Nat : V(n + 1) = V(n) + PagesOf(pr2[n + 1])
  BY TakenRun
<1> HIDE DEF U, V
<1>3. 0 \in S
  BY <1>1, <1>2
<1>4. ASSUME NEW n \in Nat, n \in S
      PROVE  n + 1 \in S
  <2>1. SUFFICES ASSUME n + 1 <= NPROC
                 PROVE  /\ U(n + 1) \in Nat /\ V(n + 1) \in Nat
                        /\ V(n + 1) + (IF a <= n + 1 THEN x ELSE 0)
                             = U(n + 1) + (IF a <= n + 1 THEN y ELSE 0)
    OBVIOUS
  <2>2. n + 1 \in Slots /\ n <= NPROC
    BY <1>1, <2>1 DEF Slots
  <2>3. /\ U(n) \in Nat /\ V(n) \in Nat
        /\ V(n) + (IF a <= n THEN x ELSE 0) = U(n) + (IF a <= n THEN y ELSE 0)
    BY <1>4, <2>2
  <2>4. U(n + 1) = U(n) + PagesOf(pr[n + 1]) /\ V(n + 1) = V(n) + PagesOf(pr2[n + 1])
    BY <1>2
  <2>5. PagesOf(pr[n + 1]) \in Nat /\ PagesOf(pr2[n + 1]) \in Nat
    BY <2>2, PagesOfIs DEF Memories
  <2>6. CASE n + 1 = a
    <3>1. PagesOf(pr[n + 1]) = x /\ PagesOf(pr2[n + 1]) = y
      BY <2>6
    <3> HIDE DEF x, y
    <3> QED BY <1>1, <2>3, <2>4, <2>6, <3>1
  <2>7. CASE n + 1 # a
    <3>1. PagesOf(pr2[n + 1]) = PagesOf(pr[n + 1])
      BY <2>2, <2>7
    <3>2. a <= n + 1 <=> a <= n
      BY <1>1, <2>7
    <3> HIDE DEF x, y
    <3> QED BY <1>1, <2>3, <2>4, <2>5, <3>1, <3>2
  <2> QED BY <2>6, <2>7
<1> HIDE DEF S
<1>5. Nat \subseteq S
  BY <1>3, <1>4, NatInduct
<1>6. NPROC \in S
  BY <1>1, <1>5
<1>7. V(NPROC) + x = U(NPROC) + y
  BY <1>1, <1>6 DEF S
<1> QED BY <1>7 DEF U, V

\* The memory of a process stays.
SameMem(q, q2) == Mem(q) => Mem(q2) /\ q2.mem = q.mem

\* The pages that are free or hold a pipe.
OpenPipes(kk) == {n \in 1 .. NFILE : kk.pipe[n].readopen \/ kk.pipe[n].writeopen}
Room(kk)      == kk.free + Cardinality(OpenPipes(kk))
PageOf(kk, n) == IF kk.pipe[n].readopen \/ kk.pipe[n].writeopen THEN 1 ELSE 0

\* Nothing is taken and nothing given back.
Steady(kk, k2) == k2.free = kk.free /\ OpenPipes(k2) = OpenPipes(kk)

\* What a process takes or gives back is in its memory; a pipe has its own page.
Fair(kk, q, k2, q2) ==
  kk.free \in Nat /\ Mem(q) => /\ k2.free \in Nat /\ Mem(q2)
                               /\ Room(k2) + Held(q2.mem) = Room(kk) + Held(q.mem)

LEMMA PipesAre ==
  ASSUME NEW kk
  PROVE  IsFiniteSet(OpenPipes(kk)) /\ Cardinality(OpenPipes(kk)) \in Nat
<1>1. IsFiniteSet(1 .. NFILE)
  BY Constants, FS_Interval
<1>2. OpenPipes(kk) \subseteq 1 .. NFILE
  BY DEF OpenPipes
<1>3. IsFiniteSet(OpenPipes(kk))
  BY <1>1, <1>2, FS_Subset
<1> QED BY <1>3, FS_CardinalityType

LEMMA RoomIs ==
  ASSUME NEW kk, kk.free \in Nat
  PROVE  Room(kk) \in Nat
BY PipesAre DEF Room

LEMMA FrameSteady ==
  ASSUME NEW kk, NEW k2, Frame(kk, k2)
  PROVE  Steady(kk, k2)
BY DEF Frame, Steady, OpenPipes

LEMMA PipesSteady ==
  ASSUME NEW kk, NEW k2, SamePipes(kk, k2)
  PROVE  OpenPipes(k2) = OpenPipes(kk)
BY DEF SamePipes, OpenPipes

LEMMA FairSteady ==
  ASSUME NEW kk, NEW k2, Steady(kk, k2), NEW q, NEW q2, SameMem(q, q2)
  PROVE  Fair(kk, q, k2, q2)
BY DEF Fair, Steady, Room, SameMem

\* Only files are changed.
LEMMA FileSteady ==
  ASSUME NEW kk, NEW k2, k2.free = kk.free, k2.pipe = kk.pipe
  PROVE  Steady(kk, k2)
BY DEF Steady, OpenPipes

LEMMA SteadyOn ==
  ASSUME NEW kk, NEW k1, NEW k2, Steady(kk, k1), Steady(k1, k2)
  PROVE  Steady(kk, k2)
BY DEF Steady

LEMMA FairOn ==
  ASSUME NEW kk, NEW k1, NEW k2, NEW q, NEW q1, NEW q2, Fair(kk, q, k1, q1), Fair(k1, q1, k2, q2)
  PROVE  Fair(kk, q, k2, q2)
BY DEF Fair

\* The pages that are free or hold a pipe are as many as before.
RoomKept(kk, k2) == kk.free \in Nat => k2.free \in Nat /\ Room(k2) = Room(kk)

LEMMA SteadyRoom ==
  ASSUME NEW kk, NEW k2, Steady(kk, k2)
  PROVE  RoomKept(kk, k2)
BY DEF Steady, RoomKept, Room

LEMMA RoomKeptOn ==
  ASSUME NEW kk, NEW k1, NEW k2, RoomKept(kk, k1), RoomKept(k1, k2)
  PROVE  RoomKept(kk, k2)
BY DEF RoomKept

\* One pipe is opened or closed.
LEMMA RoomMoves ==
  ASSUME NEW kk, kk.free \in Nat, NEW k2, k2.free \in Nat, NEW i \in 1 .. NFILE,
         \A n \in 1 .. NFILE : n # i => k2.pipe[n] = kk.pipe[n],
         k2.free + PageOf(k2, i) = kk.free + PageOf(kk, i)
  PROVE  Room(k2) = Room(kk)
<1> DEFINE S == OpenPipes(kk)
           T == OpenPipes(k2)
<1>1. \A y : y # i => (y \in S <=> y \in T)
  BY DEF OpenPipes
<1>2. (i \in S <=> PageOf(kk, i) = 1) /\ (i \in T <=> PageOf(k2, i) = 1)
  BY DEF OpenPipes, PageOf
<1>3. PageOf(kk, i) \in {0, 1} /\ PageOf(k2, i) \in {0, 1}
  BY DEF PageOf
<1>4. IsFiniteSet(S)
  BY PipesAre
<1> HIDE DEF S, T
<1>5. /\ Cardinality(S) \in Nat /\ Cardinality(T) \in Nat
      /\ Cardinality(T) + (IF i \in S THEN 1 ELSE 0) = Cardinality(S) + (IF i \in T THEN 1 ELSE 0)
  BY <1>1, <1>4, SetCount
<1>6. k2.free + Cardinality(T) = kk.free + Cardinality(S)
  BY <1>2, <1>3, <1>5
<1> QED BY <1>6 DEF Room, S, T

\* Every page is free, of a process or of a pipe.
Paged(kk, pr) ==
  /\ kk.free \in Nat /\ Memories(pr)
  /\ Room(kk) + Taken(pr)[NPROC] = NPAGES

LEMMA PagedMoves ==
  ASSUME NEW kk, NEW pr, Paged(kk, pr), NEW k2, k2.free \in Nat, NEW pr2, Memories(pr2),
         NEW a \in Slots, \A p \in Slots \ {a} : PagesOf(pr2[p]) = PagesOf(pr[p]),
         Room(k2) + PagesOf(pr2[a]) = Room(kk) + PagesOf(pr[a])
  PROVE  Paged(k2, pr2)
<1>1. Taken(pr2)[NPROC] + PagesOf(pr[a]) = Taken(pr)[NPROC] + PagesOf(pr2[a])
  BY TakenMoves DEF Paged
<1>2. Taken(pr)[NPROC] \in Nat /\ Taken(pr2)[NPROC] \in Nat
  BY TakenIs DEF Paged
<1>3. PagesOf(pr[a]) \in Nat /\ PagesOf(pr2[a]) \in Nat
  BY PagesOfIs DEF Paged, Memories
<1>4. Room(kk) \in Nat /\ Room(k2) \in Nat
  BY RoomIs DEF Paged
<1>5. Room(kk) + Taken(pr)[NPROC] = NPAGES
  BY DEF Paged
<1>6. Room(k2) + Taken(pr2)[NPROC] = NPAGES
  <2> DEFINE a1 == Room(kk)
             a2 == Room(k2)
             b1 == Taken(pr)[NPROC]
             b2 == Taken(pr2)[NPROC]
             c1 == PagesOf(pr[a])
             c2 == PagesOf(pr2[a])
  <2>1. /\ {a1, a2, b1, b2, c1, c2} \subseteq Nat
        /\ b2 + c1 = b1 + c2 /\ a2 + c2 = a1 + c1 /\ a1 + b1 = NPAGES
    BY <1>1, <1>2, <1>3, <1>4, <1>5
  <2> HIDE DEF a1, a2, b1, b2, c1, c2
  <2>2. a2 + b2 = NPAGES
    BY <2>1
  <2> QED BY <2>2 DEF a2, b2
<1> QED BY <1>6 DEF Paged

\* The processes have as many pages as before, each as many as it had.
SamePages(pr, pr2) ==
  Memories(pr) => Memories(pr2) /\ \A p \in Slots : PagesOf(pr2[p]) = PagesOf(pr[p])

LEMMA SamePagesTwice ==
  ASSUME NEW pr, NEW pr1, NEW pr2, SamePages(pr, pr1), SamePages(pr1, pr2)
  PROVE  SamePages(pr, pr2)
BY DEF SamePages

LEMMA PagedSame ==
  ASSUME NEW kk, NEW pr, Paged(kk, pr), NEW k2, RoomKept(kk, k2), NEW pr2, SamePages(pr, pr2)
  PROVE  Paged(k2, pr2)
<1>1. 1 \in Slots
  BY Constants DEF Slots
<1>2. Memories(pr2) /\ \A p \in Slots : PagesOf(pr2[p]) = PagesOf(pr[p])
  BY DEF SamePages, Paged
<1>3. k2.free \in Nat /\ Room(k2) = Room(kk)
  BY DEF RoomKept, Paged
<1>4. Room(k2) + PagesOf(pr2[1]) = Room(kk) + PagesOf(pr[1])
  BY <1>1, <1>2, <1>3
<1> QED BY <1>1, <1>2, <1>3, <1>4, PagedMoves

LEMMA PagesSame ==
  ASSUME NEW q, NEW q2, SameMem(q, q2), q2.st = q.st, Mem(q)
  PROVE  Mem(q2) /\ PagesOf(q2) = PagesOf(q)
BY DEF SameMem, PagesOf

\* A process that lives or is a zombie has its memory and one page more.
LEMMA PagesLive ==
  ASSUME NEW q, q.st # "unused"
  PROVE  PagesOf(q) = TRAPFRAMEPAGE + Held(q.mem)
BY DEF PagesOf

LEMMA TakenNone ==
  ASSUME NEW pr, \A p \in Slots : PagesOf(pr[p]) = 0
  PROVE  Taken(pr)[NPROC] = 0
<1> DEFINE S == {n \in Nat : n <= NPROC => Taken(pr)[n] = 0}
<1>1. 0 \in S
  BY TakenRun
<1>2. ASSUME NEW n \in Nat, n \in S
      PROVE  n + 1 \in S
  <2>1. SUFFICES ASSUME n + 1 <= NPROC PROVE Taken(pr)[n + 1] = 0
    OBVIOUS
  <2>2. Taken(pr)[n] = 0 /\ n + 1 \in Slots
    BY <1>2, <2>1, Constants DEF Slots
  <2> QED BY <2>2, TakenRun
<1> HIDE DEF S
<1>3. Nat \subseteq S
  BY <1>1, <1>2, NatInduct
<1>4. NPROC \in Nat /\ NPROC \in S
  BY <1>3, Constants
<1> QED BY <1>4 DEF S

----------------------------------------------------------------------------
(* One process changes.                                                    *)

LEMMA OwnerStays ==
  ASSUME NEW pr, Procs(pr), NEW u \in UsersOf(pr), NEW q, Owner(q),
         q.st = "run", q.ofile = pr[u].ofile, q.cwd = pr[u].cwd
  PROVE  SameOwners(pr, [pr EXCEPT ![u] = q])
<1> DEFINE pr2 == [pr EXCEPT ![u] = q]
<1>1. u \in Slots
  BY DEF UsersOf
<1>2. DOMAIN pr2 = Slots /\ pr2[u] = q /\ \A n \in Slots : n # u => pr2[n] = pr[n]
  BY <1>1 DEF Procs
<1> HIDE DEF pr2
<1>3. Procs(pr2)
  BY <1>2 DEF Procs
<1>4. \A n \in Slots : (n \in UsersOf(pr2) <=> n \in UsersOf(pr))
  BY <1>1, <1>2 DEF UsersOf
<1>5. UsersOf(pr2) = UsersOf(pr)
  BY <1>4 DEF UsersOf
<1>6. \A n \in UsersOf(pr) : pr2[n].ofile = pr[n].ofile /\ pr2[n].cwd = pr[n].cwd
  BY <1>2 DEF UsersOf
<1> QED BY <1>3, <1>5, <1>6 DEF SameOwners, pr2

LEMMA OwnerMoves ==
  ASSUME NEW pr, Procs(pr), NEW u \in UsersOf(pr), NEW q, Owner(q),
         NEW fd \in 0 .. NOFILE - 1, NEW b,
         q.st = "run", q.ofile = [pr[u].ofile EXCEPT ![fd] = b], q.cwd = pr[u].cwd
  PROVE  Moves(pr, [pr EXCEPT ![u] = q], u, fd, pr[u].ofile[fd], b)
<1> DEFINE pr2 == [pr EXCEPT ![u] = q]
<1>1. u \in Slots /\ Owner(pr[u])
  BY DEF UsersOf, Procs
<1>2. DOMAIN pr2 = Slots /\ pr2[u] = q /\ \A n \in Slots : n # u => pr2[n] = pr[n]
  BY <1>1 DEF Procs
<1> HIDE DEF pr2
<1>3. Procs(pr2)
  BY <1>2 DEF Procs
<1>4. \A n \in Slots : (n \in UsersOf(pr2) <=> n \in UsersOf(pr))
  BY <1>1, <1>2 DEF UsersOf
<1>5. UsersOf(pr2) = UsersOf(pr)
  BY <1>4 DEF UsersOf
<1>6. \A n \in UsersOf(pr) : pr2[n].cwd = pr[n].cwd
  BY <1>2 DEF UsersOf
<1>7. pr2[u].ofile[fd] = b /\ \A m \in 0 .. NOFILE - 1 : m # fd => pr2[u].ofile[m] = pr[u].ofile[m]
  BY <1>1, <1>2 DEF Owner
<1>8. \A n \in UsersOf(pr), m \in 0 .. NOFILE - 1 :
        n # u \/ m # fd => pr2[n].ofile[m] = pr[n].ofile[m]
  BY <1>2, <1>7 DEF UsersOf
<1> QED BY <1>3, <1>5, <1>6, <1>7, <1>8 DEF Moves, pr2

\* A file is written over.
PutFile(s, f, r) == [s EXCEPT !.file[f] = r]

LEMMA PutFileIs ==
  ASSUME NEW s, Shape(s), NEW f \in Files, NEW r, File(r)
  PROVE  /\ Shape(PutFile(s, f, r)) /\ AlikeBut(s, PutFile(s, f, r), {f})
         /\ PutFile(s, f, r).file[f] = r /\ PutFile(s, f, r).inode = s.inode
         /\ PutFile(s, f, r).pipe = s.pipe /\ PutFile(s, f, r).panic = s.panic
         /\ PutFile(s, f, r).free = s.free
<1> DEFINE v == [s.file EXCEPT ![f] = r]
           t == [s EXCEPT !.file = v]
<1>1. DOMAIN v = Files /\ v[f] = r /\ \A g \in Files : g # f => v[g] = s.file[g]
  BY DEF Shape, Table
<1>2. t.file = v /\ t.inode = s.inode /\ t.pipe = s.pipe /\ t.panic = s.panic
      /\ t.free = s.free /\ DOMAIN t = DOMAIN s
  <2> HIDE DEF v
  <2> QED BY DEF Shape, Fields
<1>3. PutFile(s, f, r) = t
  BY DEF PutFile
<1> HIDE DEF t, v
<1> QED BY <1>1, <1>2, <1>3 DEF Shape, Table, Pipes, AlikeBut, Alike

\* The free entries of the file table and of a process' descriptors.
LEMMA FileallocIs ==
  ASSUME NEW kk, filealloc(kk) # 0
  PROVE  filealloc(kk) \in Files /\ kk.file[filealloc(kk)].ref = 0
<1> DEFINE free == {f \in Files : kk.file[f].ref = 0}
<1>1. free # {} /\ filealloc(kk) = Min(free)
  BY DEF filealloc
<1>2. free \subseteq Nat
  BY DEF Files
<1>3. \E x \in free : \A y \in free : x <= y
  BY <1>1, <1>2, LeastIn
<1> HIDE DEF free
<1>4. Min(free) \in free
  BY <1>3 DEF Min
<1> QED BY <1>1, <1>4 DEF free

LEMMA FdallocIs ==
  ASSUME NEW q, Owner(q)
  PROVE  fdalloc(q) = -1 \/ (fdalloc(q) \in 0 .. NOFILE - 1 /\ q.ofile[fdalloc(q)] = 0)
<1> DEFINE free == {fd \in 0 .. NOFILE - 1 : q.ofile[fd] = 0}
<1>1. fdalloc(q) = IF free = {} THEN -1 ELSE Min(free)
  BY DEF fdalloc
<1>2. ASSUME free # {}
      PROVE  Min(free) \in free
  <2>1. free \subseteq Nat
    OBVIOUS
  <2>2. \E x \in free : \A y \in free : x <= y
    BY <1>2, <2>1, LeastIn
  <2> HIDE DEF free
  <2> QED BY <2>2 DEF Min
<1>3. CASE free = {}
  BY <1>1, <1>3
<1>4. CASE free # {}
  BY <1>1, <1>2, <1>4
<1> QED BY <1>3, <1>4


----------------------------------------------------------------------------
(* Descriptors: dup() and close().                                         *)

\* After call x of the user u nothing is miscounted, unless the kernel panicked.
Good(kk, pr, u, x) ==
  x.k.panic = "" => /\ Counted(x.k, [pr EXCEPT ![u] = x.p]) /\ x.p.st = "run"
                    /\ Fair(kk, pr[u], x.k, x.p)

SameHolder(q, q2) == Owner(q2) /\ q2.st = q.st /\ q2.ofile = q.ofile /\ q2.cwd = q.cwd
SameOwner(q, q2)  == SameHolder(q, q2) /\ SameMem(q, q2)

LEMMA UserOwns ==
  ASSUME NEW kk, NEW pr, Counted(kk, pr), NEW u \in UsersOf(pr)
  PROVE  /\ Procs(pr) /\ Owner(pr[u]) /\ pr[u].st = "run" /\ Fields \subseteq DOMAIN kk
         /\ Shape(kk) /\ SameOwner(pr[u], pr[u])
BY DEF Counted, Procs, UsersOf, Shape, SameOwner, SameHolder, SameMem

LEMMA SameOwnerSets ==
  ASSUME NEW q, Owner(q), NEW v, NEW w
  PROVE  SameOwner(q, [q EXCEPT !.buf = v]) /\ SameHolder(q, [q EXCEPT !.mem = v])
         /\ SameHolder(q, [q EXCEPT !.mem = v, !.buf = w])
BY DEF Owner, SameOwner, SameHolder, SameMem, Mem

\* A call that changes nothing that counts, and one that panics.
LEMMA GoodEven ==
  ASSUME NEW kk, NEW pr, Counted(kk, pr), NEW u \in UsersOf(pr), NEW k2, Even(kk, k2),
         NEW q2, SameOwner(pr[u], q2), NEW r
  PROVE  Good(kk, pr, u, Ret(k2, q2, r))
<1>1. SameOwners(pr, [pr EXCEPT ![u] = q2]) /\ q2.st = "run"
  BY UserOwns, OwnerStays DEF SameOwner, SameHolder
<1>2. k2.panic = "" => Counted(k2, [pr EXCEPT ![u] = q2])
  BY <1>1, CountsEven
<1>3. Fair(kk, pr[u], k2, q2)
  BY FrameSteady, FairSteady DEF Even, SameOwner
<1> QED BY <1>1, <1>2, <1>3 DEF Good, Ret

LEMMA GoodNothing ==
  ASSUME NEW kk, NEW pr, Counted(kk, pr), NEW u \in UsersOf(pr), NEW r
  PROVE  Good(kk, pr, u, Ret(kk, pr[u], r))
BY UserOwns, EvenSame, GoodEven

LEMMA GoodIf ==
  ASSUME NEW kk, NEW pr, NEW u, NEW k2, NEW q2, q2.st = "run", NEW r,
         k2.panic = "" => Counted(k2, [pr EXCEPT ![u] = q2]), Alive(k2) => Fair(kk, pr[u], k2, q2)
  PROVE  Good(kk, pr, u, Ret(k2, q2, r))
BY DEF Good, Ret, Alive

LEMMA GoodPanic ==
  ASSUME NEW kk, NEW pr, NEW u, NEW k2, k2.panic # "", NEW q2, NEW r
  PROVE  Good(kk, pr, u, Ret(k2, q2, r))
BY DEF Good, Ret

LEMMA ArgfdIs ==
  ASSUME NEW q, Owner(q), NEW fd, argfd(q, fd) # 0
  PROVE  /\ fd \in 0 .. NOFILE - 1 /\ argfd(q, fd) = q.ofile[fd] /\ argfd(q, fd) \in Files
<1>1. fd \in 0 .. NOFILE - 1 /\ argfd(q, fd) = q.ofile[fd]
  BY DEF argfd
<1>2. q.ofile[fd] \in 0 .. NFILE
  BY <1>1 DEF Owner
<1> QED BY <1>1, <1>2, Constants DEF Files

\* A free descriptor comes to stand for a file.
LEMMA TakesFd ==
  ASSUME NEW kk, NEW pr, Counted(kk, pr), NEW u \in UsersOf(pr), NEW f \in Files,
         fdalloc(pr[u]) \in 0 .. NOFILE - 1
  PROVE  LET fd == fdalloc(pr[u])
             q2 == [pr[u] EXCEPT !.ofile[fd] = f]
         IN  /\ Moves(pr, [pr EXCEPT ![u] = q2], u, fd, 0, f)
             /\ q2.st = "run" /\ Owner(q2) /\ SameMem(pr[u], q2)
<1> DEFINE q == pr[u]
           fd == fdalloc(q)
           v == [q.ofile EXCEPT ![fd] = f]
           q2 == [q EXCEPT !.ofile = v]
<1>1. Procs(pr) /\ Owner(q) /\ q.st = "run"
  BY UserOwns
<1>2. fd \in 0 .. NOFILE - 1 /\ q.ofile[fd] = 0
  BY <1>1, FdallocIs
<1>3. f \in 0 .. NFILE
  BY Constants DEF Files
<1>4. v \in [0 .. NOFILE - 1 -> 0 .. NFILE]
  BY <1>1, <1>3 DEF Owner
<1> HIDE DEF fd
<1>5. q2.st = "run" /\ q2.ofile = v /\ q2.cwd = q.cwd /\ Owner(q2) /\ SameMem(q, q2)
  BY <1>1, <1>4 DEF Owner, SameMem, Mem
<1> HIDE DEF q2
<1>6. Moves(pr, [pr EXCEPT ![u] = q2], u, fd, q.ofile[fd], f)
  BY <1>1, <1>2, <1>5, OwnerMoves
<1> QED BY <1>2, <1>5, <1>6 DEF q2, fd

\* ... and a descriptor is closed.
LEMMA DropsFd ==
  ASSUME NEW kk, NEW pr, Counted(kk, pr), NEW u \in UsersOf(pr), NEW fd \in 0 .. NOFILE - 1
  PROVE  LET q2 == [pr[u] EXCEPT !.ofile[fd] = 0]
         IN  /\ Moves(pr, [pr EXCEPT ![u] = q2], u, fd, pr[u].ofile[fd], 0)
             /\ q2.st = "run" /\ Owner(q2) /\ SameMem(pr[u], q2)
<1> DEFINE q == pr[u]
           v == [q.ofile EXCEPT ![fd] = 0]
           q2 == [q EXCEPT !.ofile = v]
<1>1. Procs(pr) /\ Owner(q) /\ q.st = "run"
  BY UserOwns
<1>2. v \in [0 .. NOFILE - 1 -> 0 .. NFILE]
  BY <1>1, Constants DEF Owner
<1>3. q2.st = "run" /\ q2.ofile = v /\ q2.cwd = q.cwd /\ Owner(q2) /\ SameMem(q, q2)
  BY <1>1, <1>2 DEF Owner, SameMem, Mem
<1> HIDE DEF q2
<1>4. Moves(pr, [pr EXCEPT ![u] = q2], u, fd, q.ofile[fd], 0)
  BY <1>1, <1>3, OwnerMoves
<1> QED BY <1>3, <1>4 DEF q2

\* The count of an open file goes up or down by one.
LEMMA CountUpDown ==
  ASSUME NEW kk, NEW pr, Counted(kk, pr), NEW f \in Files, NEW r, File(r),
         kk.file[f].ref > 0, r.ref > 0, r.type = kk.file[f].type, r.ip = kk.file[f].ip,
         r.pipe = kk.file[f].pipe, r.writable = kk.file[f].writable,
         NEW k2, k2 = PutFile(kk, f, r)
  PROVE  /\ Shape(k2) /\ Refs(k2) /\ Ends(k2) /\ AlikeBut(kk, k2, {f})
         /\ k2.file[f] = r /\ k2.panic = kk.panic /\ InodesFollow(kk, k2, f)
<1>1. Shape(kk) /\ Refs(kk) /\ Ends(kk)
  BY DEF Counted, Shape
<1>2. /\ Shape(k2) /\ AlikeBut(kk, k2, {f}) /\ k2.file[f] = r /\ k2.inode = kk.inode
      /\ k2.pipe = kk.pipe /\ k2.panic = kk.panic
  BY <1>1, PutFileIs
<1>3. Refs(k2)
  BY <1>1, <1>2 DEF Refs
<1>4. Ends(k2)
  <2>1. SamePipes(kk, k2)
    BY <1>2 DEF SamePipes
  <2>2. \A g \in Files : \A n, b : EndOf(k2, g, n, b) <=> EndOf(kk, g, n, b)
    BY <1>2 DEF EndOf, AlikeBut, Alike
  <2> QED BY <1>1, <2>1, <2>2, EndsSame
<1>5. InodesFollow(kk, k2, f)
  BY <1>2 DEF Stands, InodesFollow
<1> QED BY <1>2, <1>3, <1>4, <1>5

LEMMA RefSet ==
  ASSUME NEW r, File(r), r.ref > 0, NEW m \in Nat, m > 0
  PROVE  LET t == [r EXCEPT !.ref = m]
         IN  /\ File(t) /\ t.ref = m /\ t.type = r.type /\ t.ip = r.ip
             /\ t.pipe = r.pipe /\ t.writable = r.writable
BY DEF File, FileFields

LEMMA UpCounted ==
  ASSUME NEW kk, NEW pr, Counted(kk, pr), NEW f \in Files, kk.file[f].ref > 0,
         NEW pr2, NEW p, NEW fd, Moves(pr, pr2, p, fd, 0, f), NEW k2, NEW r,
         k2 = PutFile(kk, f, r), File(r), r.ref = kk.file[f].ref + 1, r.type = kk.file[f].type,
         r.ip = kk.file[f].ip, r.pipe = kk.file[f].pipe, r.writable = kk.file[f].writable
  PROVE  Counted(k2, pr2)
<1>1. File(kk.file[f]) /\ kk.file[f].ref \in Nat
  BY DEF Counted, Table, File
<1>2. r.ref > 0
  BY <1>1
<1>3. /\ Shape(k2) /\ Refs(k2) /\ Ends(k2) /\ AlikeBut(kk, k2, {f})
      /\ k2.file[f] = r /\ k2.panic = kk.panic /\ InodesFollow(kk, k2, f)
  BY <1>2, CountUpDown
<1>4. k2.file[f].ref + One(0, f) = kk.file[f].ref + One(f, f)
  <2>1. One(0, f) = 0 /\ One(f, f) = 1
    BY DEF One, Files
  <2> QED BY <1>1, <1>3, <2>1
<1>5. 0 \in {0, f} /\ f \in {0, f}
  OBVIOUS
<1> QED BY <1>3, <1>4, <1>5, CountsFile

LEMMA DownCounted ==
  ASSUME NEW kk, NEW pr, Counted(kk, pr), NEW f \in Files, kk.file[f].ref > 1,
         NEW pr2, NEW p, NEW fd, Moves(pr, pr2, p, fd, f, 0), NEW k2, NEW r,
         k2 = PutFile(kk, f, r), File(r), r.ref = kk.file[f].ref - 1, r.type = kk.file[f].type,
         r.ip = kk.file[f].ip, r.pipe = kk.file[f].pipe, r.writable = kk.file[f].writable
  PROVE  Counted(k2, pr2)
<1>1. File(kk.file[f]) /\ kk.file[f].ref \in Nat
  BY DEF Counted, Table, File
<1>2. r.ref > 0 /\ kk.file[f].ref > 0
  BY <1>1
<1>3. /\ Shape(k2) /\ Refs(k2) /\ Ends(k2) /\ AlikeBut(kk, k2, {f})
      /\ k2.file[f] = r /\ k2.panic = kk.panic /\ InodesFollow(kk, k2, f)
  BY <1>2, CountUpDown
<1>4. k2.file[f].ref + One(f, f) = kk.file[f].ref + One(0, f)
  <2>1. One(0, f) = 0 /\ One(f, f) = 1
    BY DEF One, Files
  <2> QED BY <1>1, <1>3, <2>1
<1>5. 0 \in {0, f} /\ f \in {0, f}
  OBVIOUS
<1> QED BY <1>3, <1>4, <1>5, CountsFile

LEMMA DupGood ==
  ASSUME NEW kk, NEW pr, Counted(kk, pr), NEW u \in UsersOf(pr), NEW c
  PROVE  Good(kk, pr, u, sys_dup(kk, pr[u], c))
<1> DEFINE q  == pr[u]
           f  == argfd(q, c.fd)
           n  == fdalloc(q)
           q2 == [q EXCEPT !.ofile[n] = f]
           k2 == filedup(kk, f)
           r  == [kk.file[f] EXCEPT !.ref = kk.file[f].ref + 1]
<1>1. sys_dup(kk, q, c) = IF f = 0 \/ n < 0 THEN Ret(kk, q, -1) ELSE Ret(k2, q2, n)
  BY DEF sys_dup
<1>2. CASE f = 0 \/ n < 0
  BY <1>1, <1>2, GoodNothing
<1>3. CASE ~(f = 0 \/ n < 0)
  <2>1. Owner(q) /\ Shape(kk)
    BY UserOwns
  <2>2. f \in Files
    BY <1>3, <2>1, ArgfdIs
  <2>3. n \in 0 .. NOFILE - 1
    BY <1>3, <2>1, FdallocIs
  <2>4. Moves(pr, [pr EXCEPT ![u] = q2], u, n, 0, f) /\ q2.st = "run" /\ SameMem(q, q2)
    BY <2>2, <2>3, TakesFd
  <2>5. CASE kk.file[f].ref < 1
    <3>1. k2.panic # ""
      BY <2>1, <2>5, PanicStays DEF filedup, Shape
    <3> HIDE DEF k2, q2, n, f
    <3> QED BY <1>1, <1>3, <3>1, GoodPanic
  <2>6. CASE ~ (kk.file[f].ref < 1)
    <3>1. File(kk.file[f]) /\ kk.file[f].ref \in Nat /\ kk.file[f].ref > 0
      BY <2>1, <2>2, <2>6 DEF Shape, Table, File
    <3>2. k2 = PutFile(kk, f, r)
      BY <2>6 DEF filedup, PutFile
    <3>3. /\ File(r) /\ r.ref = kk.file[f].ref + 1 /\ r.type = kk.file[f].type
          /\ r.ip = kk.file[f].ip /\ r.pipe = kk.file[f].pipe
          /\ r.writable = kk.file[f].writable
      <4> DEFINE m == kk.file[f].ref + 1
      <4>1. m \in Nat /\ m > 0
        BY <3>1
      <4> HIDE DEF m, f
      <4> QED BY <3>1, <4>1, RefSet DEF m
    <3> HIDE DEF q2, n, f, r, k2
    <3>5. Fair(kk, q, k2, q2)
      <4>1. k2.free = kk.free /\ k2.pipe = kk.pipe
        BY <2>1, <2>2, <3>2, <3>3, PutFileIs
      <4> QED BY <2>4, <4>1, FileSteady, FairSteady
    <3>6. Counted(k2, [pr EXCEPT ![u] = q2])
      BY <2>2, <2>4, <3>1, <3>2, <3>3, UpCounted
    <3>7. Good(kk, pr, u, Ret(k2, q2, n))
      BY <2>4, <3>5, <3>6, GoodIf
    <3> QED BY <1>1, <1>3, <3>7
  <2> QED BY <2>5, <2>6
<1> QED BY <1>2, <1>3


\* pipeclose() closes one end; the page goes with the second.
LEMMA PipecloseIs ==
  ASSUME NEW s, Shape(s), NEW i \in 1 .. NFILE, NEW w \in BOOLEAN
  PROVE  /\ Shape(pipeclose(s, i, w))
         /\ pipeclose(s, i, w).file = s.file /\ pipeclose(s, i, w).inode = s.inode
         /\ pipeclose(s, i, w).panic = s.panic
         /\ \A n \in 1 .. NFILE : n # i => pipeclose(s, i, w).pipe[n] = s.pipe[n]
         /\ pipeclose(s, i, w).pipe[i].readopen = (w /\ s.pipe[i].readopen)
         /\ pipeclose(s, i, w).pipe[i].writeopen = (~w /\ s.pipe[i].writeopen)
         /\ \/ PageOf(pipeclose(s, i, w), i) = 1 /\ pipeclose(s, i, w).free = s.free
            \/ PageOf(pipeclose(s, i, w), i) = 0 /\ pipeclose(s, i, w).free = s.free + 1
<1> DEFINE pi == IF w THEN [s.pipe[i] EXCEPT !.writeopen = FALSE]
                      ELSE [s.pipe[i] EXCEPT !.readopen = FALSE]
           r  == IF pi.readopen \/ pi.writeopen THEN pi ELSE NoPipe
           v  == [s.pipe EXCEPT ![i] = r]
           t1 == [s EXCEPT !.pipe = v]
           t2 == [s EXCEPT !.pipe = v, !.free = s.free + 1]
           t  == pipeclose(s, i, w)
<1>1. OnePipe(s.pipe[i])
  BY DEF Shape, Pipes
<1>2. pi.readopen = (w /\ s.pipe[i].readopen) /\ pi.writeopen = (~w /\ s.pipe[i].writeopen)
      /\ OnePipe(pi)
  <2>1. CASE w
    BY <1>1, <2>1 DEF OnePipe
  <2>2. CASE ~w
    BY <1>1, <2>2 DEF OnePipe
  <2> QED BY <2>1, <2>2
<1>3. t = IF pi.readopen \/ pi.writeopen THEN [s EXCEPT !.pipe[i] = pi]
          ELSE [s EXCEPT !.pipe[i] = NoPipe, !.free = @ + 1]
  BY DEF pipeclose
<1>4. OnePipe(NoPipe) /\ NoPipe.readopen = FALSE /\ NoPipe.writeopen = FALSE
  BY DEF NoPipe, OnePipe
<1> HIDE DEF pi
<1>5. OnePipe(r) /\ r.readopen = (w /\ s.pipe[i].readopen) /\ r.writeopen = (~w /\ s.pipe[i].writeopen)
  <2>1. CASE pi.readopen \/ pi.writeopen
    BY <1>2, <2>1
  <2>2. CASE ~ (pi.readopen \/ pi.writeopen)
    <3>1. r = NoPipe
      BY <2>2
    <3>2. pi.readopen = FALSE /\ pi.writeopen = FALSE
      BY <1>2, <2>2 DEF OnePipe
    <3> HIDE DEF r
    <3> QED BY <1>2, <1>4, <3>1, <3>2
  <2> QED BY <2>1, <2>2
<1>6. \/ (r.readopen \/ r.writeopen) /\ t = t1
      \/ ~(r.readopen \/ r.writeopen) /\ t = t2
  <2>1. CASE pi.readopen \/ pi.writeopen
    <3>1. r = pi
      BY <2>1
    <3> HIDE DEF r, t
    <3> QED BY <1>3, <2>1, <3>1
  <2>2. CASE ~ (pi.readopen \/ pi.writeopen)
    <3>1. r = NoPipe
      BY <2>2
    <3> HIDE DEF r, t
    <3> QED BY <1>3, <1>4, <2>2, <3>1
  <2> QED BY <2>1, <2>2
<1> HIDE DEF r
<1>7. v[i] = r /\ DOMAIN v = 1 .. NFILE /\ \A n \in 1 .. NFILE : n # i => v[n] = s.pipe[n]
  BY DEF Shape, Pipes
<1> HIDE DEF v
<1>8. t.pipe = v /\ t.file = s.file /\ t.inode = s.inode /\ t.panic = s.panic
      /\ Fields \subseteq DOMAIN t
      /\ \/ (r.readopen \/ r.writeopen) /\ t.free = s.free
         \/ ~(r.readopen \/ r.writeopen) /\ t.free = s.free + 1
  <2> HIDE DEF t
  <2>1. CASE (r.readopen \/ r.writeopen) /\ t = t1
    BY <2>1 DEF Shape, Fields
  <2>2. CASE ~(r.readopen \/ r.writeopen) /\ t = t2
    BY <2>2 DEF Shape, Fields
  <2> QED BY <1>6, <2>1, <2>2
<1>10. t.pipe[i] = r
  BY <1>7, <1>8
<1> HIDE DEF t
<1>11. \/ PageOf(t, i) = 1 /\ t.free = s.free
       \/ PageOf(t, i) = 0 /\ t.free = s.free + 1
  BY <1>8, <1>10 DEF PageOf
<1>9. Shape(t)
  BY <1>5, <1>7, <1>8 DEF Shape, Table, Pipes
<1> QED BY <1>5, <1>7, <1>8, <1>9, <1>11 DEF t

\* The last reference to an end of a pipe goes.
LEMMA EndsClosed ==
  ASSUME NEW kk, Ends(kk), Shape(kk), NEW f \in Files, NEW i \in 1 .. NFILE, NEW w \in BOOLEAN,
         EndOf(kk, f, i, w), NEW k2,
         AlikeBut(kk, k2, {f}), k2.file[f].ref = 0,
         \A n \in 1 .. NFILE : n # i => k2.pipe[n] = kk.pipe[n],
         k2.pipe[i].readopen = (w /\ kk.pipe[i].readopen),
         k2.pipe[i].writeopen = (~w /\ kk.pipe[i].writeopen)
  PROVE  Ends(k2)
<1>1. \A g \in Files : \A n, b : EndOf(k2, g, n, b) <=> EndOf(kk, g, n, b) /\ g # f
  BY DEF EndOf, AlikeBut, Alike
<1>2. \A g \in Files : EndOf(kk, g, i, w) => g = f
  <2>1. \A g, h \in Files, b \in BOOLEAN : EndOf(kk, g, i, b) /\ EndOf(kk, h, i, b) => g = h
    BY DEF Ends
  <2> QED BY <2>1
<1>3. \A n, b : EndOf(kk, f, n, b) => n = i /\ b = w
  BY DEF EndOf
<1>4. ASSUME NEW n \in 1 .. NFILE, n # i
      PROVE  /\ k2.pipe[n].readopen <=> \E g \in Files : EndOf(k2, g, n, FALSE)
             /\ k2.pipe[n].writeopen <=> \E g \in Files : EndOf(k2, g, n, TRUE)
  <2>1. /\ kk.pipe[n].readopen <=> \E g \in Files : EndOf(kk, g, n, FALSE)
        /\ kk.pipe[n].writeopen <=> \E g \in Files : EndOf(kk, g, n, TRUE)
    BY DEF Ends
  <2>2. \A g \in Files : \A b : EndOf(k2, g, n, b) <=> EndOf(kk, g, n, b)
    BY <1>1, <1>3, <1>4
  <2>3. k2.pipe[n] = kk.pipe[n]
    BY <1>4
  <2> QED BY <2>1, <2>2, <2>3, Zenon
<1>5. /\ kk.pipe[i].readopen <=> \E g \in Files : EndOf(kk, g, i, FALSE)
      /\ kk.pipe[i].writeopen <=> \E g \in Files : EndOf(kk, g, i, TRUE)
  BY DEF Ends
<1>6. ASSUME w = TRUE
      PROVE  /\ k2.pipe[i].readopen <=> \E g \in Files : EndOf(k2, g, i, FALSE)
             /\ k2.pipe[i].writeopen <=> \E g \in Files : EndOf(k2, g, i, TRUE)
  <2>1. (k2.pipe[i].readopen <=> kk.pipe[i].readopen) /\ k2.pipe[i].writeopen = FALSE
    BY <1>6
  <2>2. \A g \in Files : ~EndOf(k2, g, i, TRUE)
    BY <1>1, <1>2, <1>6
  <2>3. \A g \in Files : EndOf(k2, g, i, FALSE) <=> EndOf(kk, g, i, FALSE)
    BY <1>1, <1>3, <1>6
  <2> QED BY <1>5, <2>1, <2>2, <2>3, Zenon
<1>7. ASSUME w = FALSE
      PROVE  /\ k2.pipe[i].readopen <=> \E g \in Files : EndOf(k2, g, i, FALSE)
             /\ k2.pipe[i].writeopen <=> \E g \in Files : EndOf(k2, g, i, TRUE)
  <2>1. k2.pipe[i].readopen = FALSE /\ (k2.pipe[i].writeopen <=> kk.pipe[i].writeopen)
    BY <1>7
  <2>2. \A g \in Files : ~EndOf(k2, g, i, FALSE)
    BY <1>1, <1>2, <1>7
  <2>3. \A g \in Files : EndOf(k2, g, i, TRUE) <=> EndOf(kk, g, i, TRUE)
    BY <1>1, <1>3, <1>7
  <2> QED BY <1>5, <2>1, <2>2, <2>3, Zenon
<1>8. ASSUME NEW n \in 1 .. NFILE
      PROVE  /\ k2.pipe[n].readopen <=> \E g \in Files : EndOf(k2, g, n, FALSE)
             /\ k2.pipe[n].writeopen <=> \E g \in Files : EndOf(k2, g, n, TRUE)
             /\ \A g, h \in Files, b \in BOOLEAN :
                  EndOf(k2, g, n, b) /\ EndOf(k2, h, n, b) => g = h
  <2>1. /\ k2.pipe[n].readopen <=> \E g \in Files : EndOf(k2, g, n, FALSE)
        /\ k2.pipe[n].writeopen <=> \E g \in Files : EndOf(k2, g, n, TRUE)
    <3>1. w = TRUE \/ w = FALSE
      OBVIOUS
    <3> QED BY <1>4, <1>6, <1>7, <3>1, Zenon
  <2>2. \A g, h \in Files, b \in BOOLEAN : EndOf(kk, g, n, b) /\ EndOf(kk, h, n, b) => g = h
    BY DEF Ends
  <2> QED BY <1>1, <2>1, <2>2, Zenon
<1> QED BY <1>8 DEF Ends

LEMMA NoFileIs == File(NoFile) /\ NoFile.ref = 0
BY DEF File, NoFile, FileFields

LEMMA StandsHolds ==
  ASSUME NEW kk, NEW pr, Counted(kk, pr), NEW f \in Files,
         kk.file[f].ref > 0, kk.file[f].type # "pipe", kk.file[f].ip \in Inums
  PROVE  kk.inode[kk.file[f].ip].ref > 0
<1> DEFINE i == kk.file[f].ip
<1>1. f \in Stands(kk, i)
  BY DEF Stands
<1>2. IsFiniteSet(Stands(kk, i)) /\ IsFiniteSet(Within(pr, i))
  BY FiniteCounts
<1>3. Cardinality(Stands(kk, i)) \in Nat /\ Cardinality(Stands(kk, i)) # 0
      /\ Cardinality(Within(pr, i)) \in Nat
  BY <1>1, <1>2, FS_CardinalityType, FS_EmptySet
<1>4. kk.inode[i].ref = Cardinality(Stands(kk, i)) + Cardinality(Within(pr, i))
  BY DEF Counted, InodesCounted
<1> HIDE DEF i
<1> QED BY <1>3, <1>4 DEF i

\* The last reference to a file goes: the entry is free, and what it stood for is put.
LEMMA LastCounted ==
  ASSUME NEW kk, NEW pr, Counted(kk, pr), NEW f \in Files, kk.file[f].ref = 1,
         NEW pr2, NEW p, NEW fd, Moves(pr, pr2, p, fd, f, 0),
         NEW j, j = PutFile(kk, f, NoFile), NEW t, Alive(t),
         \/ /\ kk.file[f].type = "pipe"
            /\ t = pipeclose(j, kk.file[f].pipe, kk.file[f].writable)
         \/ kk.file[f].type # "pipe" /\ t = iput(j, kk.file[f].ip)
  PROVE  Counted(t, pr2)
<1>1. Shape(kk) /\ Refs(kk) /\ Ends(kk) /\ Fields \subseteq DOMAIN kk /\ File(kk.file[f])
  BY DEF Counted, Shape, Table
<1>2. /\ Shape(j) /\ AlikeBut(kk, j, {f}) /\ j.file[f].ref = 0 /\ j.inode = kk.inode
      /\ j.pipe = kk.pipe
  BY <1>1, NoFileIs, PutFileIs
<1>3. Refs(j) /\ Fields \subseteq DOMAIN j
  BY <1>1, <1>2 DEF Refs, Shape
<1>4. \A i : f \notin Stands(j, i)
  BY <1>2 DEF Stands
<1>5. t.file[f].ref + One(f, f) = kk.file[f].ref + One(0, f) <=> t.file[f].ref + 1 = 1
  BY DEF One, Files
<1>6. CASE kk.file[f].type = "pipe"
  <2> DEFINE i == kk.file[f].pipe
             w == kk.file[f].writable
  <2>1. i \in 1 .. NFILE /\ w \in BOOLEAN /\ EndOf(kk, f, i, w)
    <3>1. i \in 1 .. NFILE /\ kk.file[f].readable \in BOOLEAN /\ w = ~kk.file[f].readable
      BY <1>1, <1>6 DEF File
    <3>2. w \in BOOLEAN
      BY <3>1, Zenon
    <3> QED BY <1>6, <3>1, <3>2 DEF EndOf
  <2>2. t = pipeclose(j, i, w)
    BY <1>6
  <2> HIDE DEF i, w
  <2>3. /\ Shape(t) /\ t.file = j.file /\ t.inode = j.inode
        /\ \A n \in 1 .. NFILE : n # i => t.pipe[n] = j.pipe[n]
        /\ t.pipe[i].readopen = (w /\ j.pipe[i].readopen)
        /\ t.pipe[i].writeopen = (~w /\ j.pipe[i].writeopen)
    BY <1>2, <2>1, <2>2, PipecloseIs
  <2>4. AlikeBut(kk, t, {f}) /\ t.file[f].ref = 0
    BY <1>2, <2>3 DEF AlikeBut
  <2>5. Ends(t)
    BY <1>1, <1>2, <2>1, <2>3, <2>4, EndsClosed
  <2>6. Refs(t)
    BY <1>3, <2>3 DEF Refs
  <2>7. InodesFollow(kk, t, f)
    <3>1. \A n : f \notin Stands(kk, n) /\ f \notin Stands(t, n)
      BY <1>6, <2>4 DEF Stands
    <3> QED BY <1>2, <2>3, <3>1 DEF InodesFollow
  <2>8. 0 \in {0, f} /\ f \in {0, f}
    OBVIOUS
  <2>9. t.file[f].ref + One(f, f) = kk.file[f].ref + One(0, f)
    BY <1>5, <2>4
  <2> QED BY <2>3, <2>4, <2>5, <2>6, <2>7, <2>8, <2>9, CountsFile
<1>7. CASE kk.file[f].type # "pipe"
  <2> DEFINE i == kk.file[f].ip
  <2>1. t = iput(j, i)
    BY <1>7
  <2>2. i \in Inums => j.inode[i].ref > 0
    BY <1>2, <1>7, StandsHolds
  <2>3. f \in Stands(kk, i) /\ \A n : f \in Stands(kk, n) <=> n = i
    BY <1>7 DEF Stands
  <2> HIDE DEF i
  <2>4. Frame(j, t) /\ Lost(j, t, i)
    BY <1>3, <2>1, <2>2, IputLoses DEF Alive
  <2>5. Shape(t) /\ t.file = j.file /\ t.pipe = j.pipe
    BY <1>2, <2>4 DEF Frame, Shape, Table, Pipes
  <2>6. AlikeBut(kk, t, {f}) /\ t.file[f].ref = 0
    BY <1>2, <2>5 DEF AlikeBut
  <2>7. Ends(t)
    <3>1. \A g \in Files : \A n, b : EndOf(t, g, n, b) <=> EndOf(kk, g, n, b)
      <4>1. \A n, b : ~EndOf(t, f, n, b) /\ ~EndOf(kk, f, n, b)
        BY <1>7, <2>6 DEF EndOf
      <4>2. \A g \in Files \ {f} : \A n, b : EndOf(t, g, n, b) <=> EndOf(kk, g, n, b)
        BY <2>6 DEF EndOf, AlikeBut, Alike
      <4> QED BY <4>1, <4>2
    <3>2. SamePipes(kk, t)
      BY <1>2, <2>5 DEF SamePipes
    <3> QED BY <1>1, <3>1, <3>2, EndsSame
  <2>8. Refs(t)
    BY <2>4 DEF Lost
  <2>9. InodesFollow(kk, t, f)
    <3>1. ASSUME NEW n \in Inums
          PROVE  t.inode[n].ref + (IF f \in Stands(kk, n) THEN 1 ELSE 0)
                   = kk.inode[n].ref + (IF f \in Stands(t, n) THEN 1 ELSE 0)
      <4>1. f \notin Stands(t, n)
        BY <2>6 DEF Stands
      <4>2. t.inode[n].ref = kk.inode[n].ref - One(i, n)
        BY <1>2, <2>4 DEF Lost
      <4>3. kk.inode[n].ref \in Nat
        BY <1>1 DEF Refs
      <4>4. One(i, n) = IF f \in Stands(kk, n) THEN 1 ELSE 0
        BY <2>3 DEF One
      <4> QED BY <4>1, <4>2, <4>3, <4>4, OneIs
    <3> QED BY <3>1 DEF InodesFollow
  <2>10. 0 \in {0, f} /\ f \in {0, f}
    OBVIOUS
  <2>11. t.file[f].ref + One(f, f) = kk.file[f].ref + One(0, f)
    BY <1>5, <2>6
  <2> QED BY <2>5, <2>6, <2>7, <2>8, <2>9, <2>10, <2>11, CountsFile
<1> QED BY <1>6, <1>7

LEMMA CloseCounted ==
  ASSUME NEW kk, NEW pr, Counted(kk, pr), NEW f \in Files, Alive(fileclose(kk, f)),
         NEW pr2, NEW p, NEW fd, Moves(pr, pr2, p, fd, f, 0)
  PROVE  Counted(fileclose(kk, f), pr2)
<1> DEFINE ff   == kk.file[f]
           j    == PutFile(kk, f, NoFile)
           r    == [ff EXCEPT !.ref = ff.ref - 1]
           less == PutFile(kk, f, r)
           out  == Panic(kk, "fileclose")
           pi   == pipeclose(j, ff.pipe, ff.writable)
           ino  == iput(j, ff.ip)
           t    == fileclose(kk, f)
<1>1. t = CASE ff.ref < 1 -> out
            [] ff.ref > 1 -> less
            [] ff.ref = 1 /\ ff.type = "pipe" -> pi
            [] ff.ref = 1 /\ ff.type \in {"inode", "device"} -> ino
            [] OTHER -> j
  BY DEF fileclose, PutFile
<1>2. File(ff) /\ ff.ref \in Nat /\ Fields \subseteq DOMAIN kk
  BY DEF Counted, Table, File
<1>3. ~Alive(out)
  BY <1>2, PanicStays DEF Alive
<1>4. ff.ref = 1 => ff.type \in {"pipe", "inode", "device"}
  BY <1>2 DEF File
<1>5. Alive(t)
  OBVIOUS
<1> HIDE DEF out, pi, ino, t
<1>6. CASE ff.ref < 1
  <2> HIDE DEF less, j, ff
  <2> QED BY <1>1, <1>2, <1>3, <1>5, <1>6
<1>7. CASE ff.ref > 1
  <2>1. t = less
    <3> HIDE DEF less, j, ff
    <3> QED BY <1>1, <1>2, <1>7
  <2>2. /\ File(r) /\ r.ref = ff.ref - 1 /\ r.type = ff.type /\ r.ip = ff.ip
        /\ r.pipe = ff.pipe /\ r.writable = ff.writable
    <3> DEFINE m == ff.ref - 1
    <3>1. m \in Nat /\ m > 0 /\ ff.ref > 0
      BY <1>2, <1>7
    <3> HIDE DEF m, ff
    <3> QED BY <1>2, <3>1, RefSet DEF m
  <2> HIDE DEF r
  <2>3. Counted(less, pr2)
    BY <1>7, <2>2, DownCounted
  <2> QED BY <2>1, <2>3 DEF t
<1>8. CASE ff.ref = 1
  <2>1. \/ ff.type = "pipe" /\ t = pi
        \/ ff.type # "pipe" /\ t = ino
    <3> HIDE DEF less, j, ff
    <3> QED BY <1>1, <1>4, <1>8
  <2>2. Counted(t, pr2)
    BY <1>5, <1>8, <2>1, LastCounted DEF pi, ino
  <2> QED BY <2>2 DEF t
<1> QED BY <1>2, <1>6, <1>7, <1>8

\* The page of a pipe goes with its last end: no other page is given back.
LEMMA CloseRoom ==
  ASSUME NEW kk, NEW pr, Counted(kk, pr), NEW f \in Files, Alive(fileclose(kk, f)),
         kk.free \in Nat
  PROVE  fileclose(kk, f).free \in Nat /\ Room(fileclose(kk, f)) = Room(kk)
<1> DEFINE ff   == kk.file[f]
           j    == PutFile(kk, f, NoFile)
           r    == [ff EXCEPT !.ref = ff.ref - 1]
           less == PutFile(kk, f, r)
           out  == Panic(kk, "fileclose")
           pi   == pipeclose(j, ff.pipe, ff.writable)
           ino  == iput(j, ff.ip)
           t    == fileclose(kk, f)
<1>1. t = CASE ff.ref < 1 -> out
            [] ff.ref > 1 -> less
            [] ff.ref = 1 /\ ff.type = "pipe" -> pi
            [] ff.ref = 1 /\ ff.type \in {"inode", "device"} -> ino
            [] OTHER -> j
  BY DEF fileclose, PutFile
<1>2. File(ff) /\ ff.ref \in Nat /\ Fields \subseteq DOMAIN kk /\ Shape(kk) /\ Refs(kk) /\ Ends(kk)
  BY DEF Counted, Table, File, Shape
<1>3. ~Alive(out)
  BY <1>2, PanicStays DEF Alive
<1>4. ff.ref = 1 => ff.type \in {"pipe", "inode", "device"}
  BY <1>2 DEF File
<1>5. /\ Shape(j) /\ j.inode = kk.inode /\ j.pipe = kk.pipe /\ j.free = kk.free
      /\ Steady(kk, j)
  <2>1. Shape(j) /\ j.inode = kk.inode /\ j.pipe = kk.pipe /\ j.free = kk.free
    BY <1>2, NoFileIs, PutFileIs
  <2> QED BY <2>1, FileSteady
<1>6. t = less \/ t = pi \/ t = ino
  <2> HIDE DEF less, pi, ino, out, j, ff, t
  <2> QED BY <1>1, <1>2, <1>3, <1>4 DEF t
<1>7. CASE ff.ref > 1
  <2>1. t = less
    <3> HIDE DEF less, j, ff, out, pi, ino, t
    <3> QED BY <1>1, <1>2, <1>7
  <2>2. File(r)
    <3> DEFINE m == ff.ref - 1
    <3>1. m \in Nat /\ m > 0 /\ ff.ref > 0
      BY <1>2, <1>7
    <3> HIDE DEF m, ff
    <3> QED BY <1>2, <3>1, RefSet DEF m
  <2> HIDE DEF r, t
  <2>3. t.free = kk.free /\ t.pipe = kk.pipe
    BY <1>2, <2>1, <2>2, PutFileIs
  <2>4. Steady(kk, t)
    BY <2>3, FileSteady
  <2> QED BY <2>4 DEF Steady, Room, t
<1>8. CASE ff.ref = 1 /\ ff.type = "pipe"
  <2> DEFINE i == ff.pipe
             w == ff.writable
  <2>1. t = pipeclose(j, i, w)
    <3> HIDE DEF less, j, ff, out, t
    <3> QED BY <1>1, <1>8
  <2>2. i \in 1 .. NFILE /\ w \in BOOLEAN /\ EndOf(kk, f, i, w)
    <3>1. i \in 1 .. NFILE /\ ff.readable \in BOOLEAN /\ w = ~ff.readable
      BY <1>2, <1>8 DEF File
    <3>2. w \in BOOLEAN
      BY <3>1, Zenon
    <3> QED BY <1>8, <3>1, <3>2 DEF EndOf
  <2> HIDE DEF i, w, t
  <2>3. kk.pipe[i].readopen \/ kk.pipe[i].writeopen
    BY <1>2, <2>2 DEF Ends
  <2> HIDE DEF j
  <2>4. /\ \A n \in 1 .. NFILE : n # i => t.pipe[n] = j.pipe[n]
        /\ \/ PageOf(t, i) = 1 /\ t.free = j.free
           \/ PageOf(t, i) = 0 /\ t.free = j.free + 1
    BY <1>5, <2>1, <2>2, PipecloseIs
  <2>5. PageOf(j, i) = 1
    BY <1>5, <2>3 DEF PageOf
  <2>6. j.free \in Nat /\ t.free \in Nat /\ t.free + PageOf(t, i) = j.free + PageOf(j, i)
    BY <1>5, <2>4, <2>5
  <2>7. Room(t) = Room(j)
    BY <2>2, <2>4, <2>6, RoomMoves
  <2> QED BY <1>5, <2>6, <2>7 DEF Steady, Room, t
<1>9. CASE ff.ref = 1 /\ ff.type # "pipe"
  <2> DEFINE i == ff.ip
  <2>1. t = iput(j, i)
    <3> HIDE DEF less, j, ff, out, t
    <3> QED BY <1>1, <1>4, <1>9
  <2>2. i \in Inums => j.inode[i].ref > 0
    <3>1. ff.ref > 0
      BY <1>9
    <3> QED BY <1>5, <1>9, <3>1, StandsHolds
  <2> HIDE DEF i, t, j
  <2>3. Refs(j) /\ Fields \subseteq DOMAIN j
    BY <1>2, <1>5 DEF Refs, Shape
  <2>4. Frame(j, t)
    BY <2>1, <2>2, <2>3, IputLoses DEF Alive, t
  <2>5. Steady(kk, t)
    BY <1>5, <2>4, FrameSteady, SteadyOn
  <2> QED BY <2>5 DEF Steady, Room, t
<1>10. ff.ref > 1 \/ ff.ref = 1
  <2> HIDE DEF less, pi, ino, out, j, ff, t
  <2> QED BY <1>1, <1>2, <1>3 DEF t
<1> QED BY <1>7, <1>8, <1>9, <1>10

LEMMA CloseGood ==
  ASSUME NEW kk, NEW pr, Counted(kk, pr), NEW u \in UsersOf(pr), NEW c
  PROVE  Good(kk, pr, u, sys_close(kk, pr[u], c))
<1> DEFINE q  == pr[u]
           f  == argfd(q, c.fd)
           fd == c.fd
           q2 == [q EXCEPT !.ofile[fd] = 0]
           k2 == fileclose(kk, f)
<1>1. sys_close(kk, q, c) = IF f = 0 THEN Ret(kk, q, -1) ELSE Ret(k2, q2, 0)
  BY DEF sys_close
<1>2. CASE f = 0
  BY <1>1, <1>2, GoodNothing
<1>3. CASE f # 0
  <2>1. Owner(q)
    BY UserOwns
  <2>2. f \in Files /\ fd \in 0 .. NOFILE - 1 /\ q.ofile[fd] = f
    BY <1>3, <2>1, ArgfdIs
  <2> HIDE DEF fd, f
  <2>3. Moves(pr, [pr EXCEPT ![u] = q2], u, fd, f, 0) /\ q2.st = "run" /\ SameMem(q, q2)
    BY <2>2, DropsFd
  <2> HIDE DEF q2
  <2>4. k2.panic = "" => Counted(k2, [pr EXCEPT ![u] = q2])
    BY <2>2, <2>3, CloseCounted DEF Alive
  <2>6. Alive(k2) => Fair(kk, q, k2, q2)
    BY <2>2, <2>3, CloseRoom DEF Fair, SameMem
  <2> HIDE DEF k2
  <2>5. Good(kk, pr, u, Ret(k2, q2, 0))
    BY <2>3, <2>4, <2>6, GoodIf
  <2> QED BY <1>1, <1>3, <2>5
<1> QED BY <1>2, <1>3

----------------------------------------------------------------------------
(* Reading and writing.                                                    *)

\* A descriptor stands for an open file.
LEMMA OpenedRef ==
  ASSUME NEW kk, NEW pr, Counted(kk, pr), NEW u \in UsersOf(pr), NEW fd,
         argfd(pr[u], fd) # 0
  PROVE  /\ argfd(pr[u], fd) \in Files /\ kk.file[argfd(pr[u], fd)].ref > 0
         /\ File(kk.file[argfd(pr[u], fd)])
<1> DEFINE f == argfd(pr[u], fd)
<1>1. f \in Files /\ fd \in 0 .. NOFILE - 1 /\ pr[u].ofile[fd] = f
  BY UserOwns, ArgfdIs
<1> HIDE DEF f
<1>2. <<u, fd>> \in OpenedBy(pr, f)
  BY <1>1 DEF OpenedBy
<1>3. IsFiniteSet(OpenedBy(pr, f))
  BY FiniteCounts
<1>4. Cardinality(OpenedBy(pr, f)) \in Nat /\ Cardinality(OpenedBy(pr, f)) # 0
  BY <1>2, <1>3, FS_CardinalityType, FS_EmptySet
<1>5. kk.file[f].ref = Cardinality(OpenedBy(pr, f)) /\ File(kk.file[f])
  BY <1>1 DEF Counted, FilesCounted, Table
<1> QED BY <1>1, <1>4, <1>5 DEF f

\* What is in a pipe does not count.
LEMMA PipeGood ==
  ASSUME NEW kk, NEW pr, Counted(kk, pr), NEW u \in UsersOf(pr), NEW i \in 1 .. NFILE, NEW v,
         NEW k2, k2 = [kk EXCEPT !.pipe[i].data = v], NEW q2, SameOwner(pr[u], q2), NEW r
  PROVE  Good(kk, pr, u, Ret(k2, q2, r))
<1> DEFINE e == [kk.pipe[i] EXCEPT !.data = v]
           w == [kk.pipe EXCEPT ![i] = e]
           t == [kk EXCEPT !.pipe = w]
<1>1. Shape(kk) /\ Refs(kk)
  BY UserOwns DEF Counted
<1>2. OnePipe(e) /\ e.readopen = kk.pipe[i].readopen /\ e.writeopen = kk.pipe[i].writeopen
  BY <1>1 DEF Shape, Pipes, OnePipe
<1>3. k2 = t
  OBVIOUS
<1> HIDE DEF e
<1>4. /\ DOMAIN w = 1 .. NFILE /\ w[i] = e
      /\ \A n \in 1 .. NFILE : n # i => w[n] = kk.pipe[n]
  BY <1>1 DEF Shape, Pipes
<1> HIDE DEF w
<1>5. t.pipe = w /\ t.file = kk.file /\ t.inode = kk.inode /\ t.panic = kk.panic
      /\ t.free = kk.free /\ DOMAIN t = DOMAIN kk
  BY <1>1 DEF Shape, Fields
<1> HIDE DEF t
<1>6. Shape(t) /\ SamePipes(kk, t) /\ AlikeBut(kk, t, {}) /\ Kept(kk, t)
  <2>1. Shape(t)
    BY <1>1, <1>2, <1>4, <1>5 DEF Shape, Table, Pipes
  <2>2. SamePipes(kk, t)
    BY <1>2, <1>4, <1>5 DEF SamePipes
  <2>3. AlikeBut(kk, t, {})
    BY <1>5 DEF AlikeBut, Alike
  <2>4. Kept(kk, t)
    BY <1>1, <1>5 DEF Kept, Refs
  <2> QED BY <2>1, <2>2, <2>3, <2>4
<1>7. SameOwners(pr, [pr EXCEPT ![u] = q2]) /\ q2.st = "run"
  BY UserOwns, OwnerStays DEF SameOwner, SameHolder
<1>8. Counted(t, [pr EXCEPT ![u] = q2])
  BY <1>6, <1>7, CountsSame
<1>9. Fair(kk, pr[u], t, q2)
  BY <1>5, <1>6, PipesSteady, FairSteady DEF Steady, SameOwner
<1> QED BY <1>3, <1>7, <1>8, <1>9, GoodIf

\* Neither does how far a file has been read.
LEMMA OffGood ==
  ASSUME NEW kk, NEW pr, Counted(kk, pr), NEW u \in UsersOf(pr), NEW f \in Files, NEW v,
         NEW j, Even(kk, j), NEW k2, NEW e, e = [j.file[f] EXCEPT !.off = v], k2 = PutFile(j, f, e),
         NEW q2, SameOwner(pr[u], q2), NEW r
  PROVE  Good(kk, pr, u, Ret(k2, q2, r))
<1>2. Shape(j)
  BY UserOwns, FrameAlike DEF Even, Shape
<1>3. File(e) /\ Alike(j.file[f], e)
  BY <1>2 DEF Shape, Table, File, FileFields, Alike
<1>4. /\ Shape(k2) /\ AlikeBut(j, k2, {f}) /\ k2.file[f] = e
      /\ k2.inode = j.inode /\ k2.pipe = j.pipe /\ k2.panic = j.panic /\ k2.free = j.free
  BY <1>2, <1>3, PutFileIs
<1>9. Fair(kk, pr[u], k2, q2)
  <2>1. Steady(kk, j) /\ Steady(j, k2)
    BY <1>4, FrameSteady, FileSteady DEF Even
  <2> QED BY <2>1, SteadyOn, FairSteady DEF SameOwner
<1>5. AlikeBut(j, k2, {}) /\ SamePipes(j, k2)
  BY <1>3, <1>4 DEF AlikeBut, SamePipes
<1>6. SameOwners(pr, [pr EXCEPT ![u] = q2]) /\ q2.st = "run"
  BY UserOwns, OwnerStays DEF SameOwner, SameHolder
<1> DEFINE pr2 == [pr EXCEPT ![u] = q2]
<1>7. SameOwners(pr2, pr2)
  BY <1>6 DEF SameOwners
<1> HIDE DEF pr2
<1>8. ASSUME k2.panic = ""
      PROVE  Counted(k2, pr2)
  <2>1. Counted(j, pr2)
    BY <1>4, <1>6, <1>8, CountsEven DEF pr2
  <2>2. Kept(j, k2)
    BY <1>4, <2>1 DEF Kept, Refs, Counted
  <2> QED BY <1>4, <1>5, <1>7, <2>1, <2>2, CountsSame
<1> QED BY <1>6, <1>8, <1>9, GoodIf DEF pr2

LEMMA FstatGood ==
  ASSUME NEW kk, NEW pr, Counted(kk, pr), NEW u \in UsersOf(pr), NEW c
  PROVE  Good(kk, pr, u, sys_fstat(kk, pr[u], c))
<1> DEFINE q  == pr[u]
           f  == argfd(q, c.fd)
           j  == ilock(kk, kk.file[f].ip)
           i  == j.inode[kk.file[f].ip]
           st == <<kk.file[f].ip, i.type, i.nlink, i.size>>
           q2 == [q EXCEPT !.buf = st]
<1>1. \/ sys_fstat(kk, q, c) = Ret(kk, q, -1)
      \/ sys_fstat(kk, q, c) = Ret(j, q, -1)
      \/ sys_fstat(kk, q, c) = Ret(j, q2, 0)
  BY DEF sys_fstat
<1>2. Even(kk, j) /\ SameOwner(q, q)
  BY UserOwns, IlockQuiet
<1> HIDE DEF st, j, f
<1>3. SameOwner(q, q2)
  BY UserOwns, SameOwnerSets
<1> HIDE DEF q2
<1>4. Good(kk, pr, u, Ret(j, q2, 0)) /\ Good(kk, pr, u, Ret(j, q, -1))
  BY <1>2, <1>3, GoodEven
<1> QED BY <1>1, <1>4, GoodNothing

LEMMA ReadGood ==
  ASSUME NEW kk, NEW pr, Counted(kk, pr), NEW u \in UsersOf(pr), NEW c
  PROVE  Good(kk, pr, u, sys_read(kk, pr[u], c))
<1> DEFINE q    == pr[u]
           f    == argfd(q, c.fd)
           file == kk.file[f]
           j    == ilock(kk, file.ip)
           got  == readi(j, file.ip, file.off, c.n, copyout(q.mem, At(c), Units(c)))
           off  == j.file[f].off + Max({got.r, 0})
           e    == [j.file[f] EXCEPT !.off = off]
           k2   == PutFile(j, f, e)
           buf  == IF got.r > 0 THEN q.buf \o got.data ELSE q.buf
           q2   == [q EXCEPT !.buf = buf]
           dev  == Ret(kk, q, IF file.major = CONSOLE THEN 0 ELSE -1)
           pi   == piperead(kk, q, c, file.pipe)
           ino  == Ret(k2, q2, got.r)
<1>1. sys_read(kk, q, c) =
        IF f = 0 THEN Ret(kk, q, -1)
        ELSE CASE ~file.readable -> Ret(kk, q, -1)
               [] file.readable /\ file.type = "pipe"   -> pi
               [] file.readable /\ file.type = "device" -> dev
               [] OTHER -> ino
  BY DEF sys_read, PutFile
<1>2. \/ sys_read(kk, q, c) = Ret(kk, q, -1)
      \/ f # 0 /\ file.type = "pipe" /\ sys_read(kk, q, c) = pi
      \/ sys_read(kk, q, c) = dev
      \/ f # 0 /\ sys_read(kk, q, c) = ino
  <2> HIDE DEF pi, dev, ino, file, f
  <2> QED BY <1>1
<1>3. Good(kk, pr, u, dev) /\ Good(kk, pr, u, Ret(kk, q, -1))
  BY GoodNothing
<1>4. ASSUME f # 0
      PROVE  Good(kk, pr, u, ino)
  <2>1. f \in Files
    BY <1>4, OpenedRef
  <2>2. Even(kk, j)
    BY UserOwns, IlockQuiet
  <2> HIDE DEF off, buf, j, f
  <2>3. SameOwner(q, q2)
    BY UserOwns, SameOwnerSets
  <2> HIDE DEF q2
  <2> QED BY <2>1, <2>2, <2>3, OffGood
<1>5. ASSUME f # 0, file.type = "pipe"
      PROVE  Good(kk, pr, u, pi)
  <2> DEFINE i   == file.pipe
             all == kk.pipe[i].data
             m   == Min({c.n, Len(all)})
             bad == m > 0 /\ ~copyout(q.mem, At(c), 1)
             n   == IF bad THEN 0 ELSE m
             cut == IF bad THEN 1 ELSE m
             v   == SubSeq(all, cut + 1, Len(all))
             k3  == [kk EXCEPT !.pipe[i].data = v]
             mr  == q.buf \o SubSeq(all, 1, n)
             q3  == [q EXCEPT !.buf = mr]
  <2>1. i \in 1 .. NFILE
    <3>1. file.ref > 0 /\ File(file)
      BY <1>5, OpenedRef
    <3> HIDE DEF file
    <3> QED BY <1>5, <3>1 DEF File
  <2>2. pi = Ret(k3, q3, n)
    BY DEF piperead
  <2> HIDE DEF v, mr, i, pi
  <2>3. SameOwner(q, q3)
    BY UserOwns, SameOwnerSets
  <2> HIDE DEF q3, n
  <2>4. Good(kk, pr, u, Ret(k3, q3, n))
    BY <2>1, <2>3, PipeGood
  <2> QED BY <2>2, <2>4
<1> HIDE DEF ino, dev, pi, file, f
<1> QED BY <1>2, <1>3, <1>4, <1>5

LEMMA MinTwo ==
  ASSUME NEW a \in Nat, NEW b \in Nat
  PROVE  Min({a, b}) \in {a, b} /\ Min({a, b}) <= a /\ Min({a, b}) <= b
<1>1. \E x \in {a, b} : \A y \in {a, b} : x <= y
  <2>1. a <= b \/ b <= a
    OBVIOUS
  <2> QED BY <2>1
<1> DEFINE S == {a, b}
<1>2. a \in S /\ b \in S /\ \E x \in S : \A y \in S : x <= y
  BY <1>1
<1> HIDE DEF S
<1>3. Min(S) \in S /\ \A y \in S : Min(S) <= y
  BY <1>2 DEF Min
<1> QED BY <1>2, <1>3 DEF S

LEMMA TransactionGood ==
  ASSUME NEW kk, NEW pr, Counted(kk, pr), NEW u \in UsersOf(pr), NEW c,
         NEW D, c.data \in Seq(D), NEW f \in Files
  PROVE  Good(kk, pr, u, Transaction(kk, pr[u], c, f))
<1> DEFINE q     == pr[u]
           n1    == Min({Len(c.data), CHUNK * BSIZE})
           j     == ilock(kk, kk.file[f].ip)
           cells == SubSeq(c.data, 1, n1)
           w     == writei(j, kk.file[f].ip, kk.file[f].off, cells, copied(q, c, Len(c.data)))
           off   == w.s.file[f].off + Max({w.r, 0})
           e     == [w.s.file[f] EXCEPT !.off = off]
           l     == PutFile(w.s, f, e)
           r     == IF n1 = Len(c.data) THEN c.done + n1 ELSE -2 - n1
<1>1. Transaction(kk, q, c, f) =
        CASE c.data = <<>> -> Ret(kk, q, c.done)
          [] c.data # <<>> /\ w.r # n1 -> Ret(l, q, -1)
          [] OTHER -> Ret(l, q, r)
  BY DEF Transaction, PutFile
<1>2. Len(cells) \in Nat
  <2>1. CHUNK * BSIZE \in Nat /\ Len(c.data) \in Nat
    BY FileSysAssumption, SyscallsAssumption
  <2>2. n1 \in Nat /\ n1 <= Len(c.data)
    BY <2>1, MinTwo
  <2> HIDE DEF n1
  <2> QED BY <2>1, <2>2
<1>3. Even(kk, j) /\ Fields \subseteq DOMAIN j
  <2>1. Even(kk, j) /\ Fields \subseteq DOMAIN kk
    BY UserOwns, IlockQuiet
  <2> HIDE DEF j
  <2> QED BY <2>1, FrameOn DEF Even
<1> HIDE DEF j, cells
<1>4. Even(j, w.s)
  BY <1>2, <1>3, WriteiEven
<1> HIDE DEF w
<1>5. Even(kk, w.s) /\ SameOwner(q, q)
  BY <1>3, <1>4, QuietOn, UserOwns
<1> HIDE DEF r, off
<1>6. Good(kk, pr, u, Ret(l, q, -1)) /\ Good(kk, pr, u, Ret(l, q, r))
  BY <1>5, OffGood
<1>7. Good(kk, pr, u, Ret(kk, q, c.done))
  BY GoodNothing
<1> HIDE DEF l, n1
<1> QED BY <1>1, <1>6, <1>7

LEMMA WriteGood ==
  ASSUME NEW kk, NEW pr, Counted(kk, pr), NEW u \in UsersOf(pr), NEW c,
         NEW D, c.data \in Seq(D)
  PROVE  Good(kk, pr, u, sys_write(kk, pr[u], c))
<1> DEFINE q    == pr[u]
           f    == argfd(q, c.fd)
           file == kk.file[f]
           dev  == Ret(kk, q, IF file.major # CONSOLE THEN -1
                              ELSE IF copyin(q.mem, At(c), 1) THEN Len(c.data) ELSE 0)
           pi   == pipewrite(kk, q, c, file.pipe)
           ino  == Transaction(kk, q, c, f)
<1>1. sys_write(kk, q, c) =
        IF f = 0 THEN Ret(kk, q, -1)
        ELSE CASE ~file.writable -> Ret(kk, q, -1)
               [] file.writable /\ file.type = "pipe"   -> pi
               [] file.writable /\ file.type = "device" -> dev
               [] OTHER -> ino
  BY DEF sys_write
<1>2. \/ sys_write(kk, q, c) = Ret(kk, q, -1)
      \/ f # 0 /\ file.type = "pipe" /\ sys_write(kk, q, c) = pi
      \/ sys_write(kk, q, c) = dev
      \/ f # 0 /\ sys_write(kk, q, c) = ino
  <2> HIDE DEF pi, dev, ino, file, f
  <2> QED BY <1>1
<1>3. Good(kk, pr, u, dev) /\ Good(kk, pr, u, Ret(kk, q, -1))
  BY GoodNothing
<1>4. ASSUME f # 0
      PROVE  Good(kk, pr, u, ino)
  BY <1>4, OpenedRef, TransactionGood
<1>5. ASSUME f # 0, file.type = "pipe"
      PROVE  Good(kk, pr, u, pi)
  <2> DEFINE i    == file.pipe
             p1   == kk.pipe[i]
             room == Min({Len(c.data), PIPESIZE - Len(p1.data)})
             v    == p1.data \o SubSeq(c.data, 1, room)
             k3   == [kk EXCEPT !.pipe[i].data = v]
             r    == IF room = Len(c.data) THEN c.done + room ELSE -2 - room
  <2>1. i \in 1 .. NFILE
    <3>1. file.ref > 0 /\ File(file)
      BY <1>5, OpenedRef
    <3> HIDE DEF file
    <3> QED BY <1>5, <3>1 DEF File
  <2>2. pi = CASE c.data = <<>> -> Ret(kk, q, c.done)
               [] c.data # <<>> /\ ~p1.readopen -> Ret(kk, q, -1)
               [] c.data # <<>> /\ p1.readopen /\ ~copyin(q.mem, At(c), 1) -> Ret(kk, q, c.done)
               [] OTHER -> Ret(k3, q, r)
    BY DEF pipewrite
  <2> HIDE DEF v, r, p1, i, pi
  <2>3. SameOwner(q, q)
    BY UserOwns
  <2>4. Good(kk, pr, u, Ret(k3, q, r))
    BY <2>1, <2>3, PipeGood
  <2> HIDE DEF k3
  <2> QED BY <1>3, <2>2, <2>4, GoodNothing
<1> HIDE DEF ino, dev, pi, file, f
<1> QED BY <1>2, <1>3, <1>4, <1>5

----------------------------------------------------------------------------
(* Names.                                                                  *)

LEMMA SeqWalkable ==
  ASSUME NEW D, NEW path \in Seq(D)
  PROVE  Walkable(path)
BY DEF Walkable

LEMMA MakeNodeGood ==
  ASSUME NEW kk, NEW pr, Counted(kk, pr), NEW u \in UsersOf(pr), NEW c,
         Walkable(c.path), NEW type, NEW major
  PROVE  Good(kk, pr, u, MakeNode(kk, pr[u], c, type, major))
<1> DEFINE q   == pr[u]
           new == create(kk, q, c.path, type, major)
           t   == iput(new.s, new.r)
<1>1. \/ MakeNode(kk, q, c, type, major) = Ret(kk, q, -1)
      \/ new.r = 0 /\ MakeNode(kk, q, c, type, major) = Ret(new.s, q, -1)
      \/ MakeNode(kk, q, c, type, major) = Ret(t, q, 0)
  BY DEF MakeNode
<1>2. SameOwner(q, q) /\ Fields \subseteq DOMAIN kk
  BY UserOwns
<1>3. Holds(kk, new.s, new.r, 0)
  BY <1>2, CreateHolds
<1> HIDE DEF new
<1>4. Holds(kk, t, 0, 0)
  BY <1>2, <1>3, HoldsPutFirst
<1> HIDE DEF t
<1>5. Even(kk, t)
  BY <1>4, HoldsNone
<1>6. new.r = 0 => Even(kk, new.s)
  BY <1>3, HoldsNone
<1>7. Good(kk, pr, u, Ret(t, q, 0)) /\ (new.r = 0 => Good(kk, pr, u, Ret(new.s, q, -1)))
  BY <1>2, <1>5, <1>6, GoodEven
<1> QED BY <1>1, <1>7, GoodNothing

LEMMA LinkGood ==
  ASSUME NEW kk, NEW pr, Counted(kk, pr), NEW u \in UsersOf(pr), NEW c,
         Walkable(c.path), Walkable(c.path2)
  PROVE  Good(kk, pr, u, sys_link(kk, pr[u], c))
<1> DEFINE q    == pr[u]
           old  == namei(kk, q.cwd, c.path)
           i    == old.r
           j    == ilock(old.s, i)
           v    == j.inode[i].nlink + 1
           up   == iupdate(Put(j, i, [j.inode[i] EXCEPT !.nlink = v]), i)
           dp   == nameiparent(up, q.cwd, c.path2)
           x    == ilock(dp.s, dp.r)
           l    == dirlink(x, dp.r, dp.name, i)
           lput == iput(l.s, dp.r)
           less(s) == iupdate(Put(s, i, [s.inode[i] EXCEPT !.nlink = s.inode[i].nlink - 1]), i)
           ret1 == iput(j, i)
           ret2 == iput(less(dp.s), i)
           ret3 == iput(less(lput), i)
           ret4 == iput(lput, i)
           y    == sys_link(kk, q, c)
<1>1. \/ y = Ret(kk, q, -1)
      \/ i = 0 /\ y = Ret(old.s, q, -1)
      \/ y = Ret(ret1, q, -1)
      \/ dp.r = 0 /\ y = Ret(ret2, q, -1)
      \/ y = Ret(ret3, q, -1)
      \/ y = Ret(ret4, q, 0)
  BY DEF sys_link, Put
<1>2. SameOwner(q, q) /\ Fields \subseteq DOMAIN kk
  BY UserOwns
<1>3. Holds(kk, old.s, i, 0) /\ Fields \subseteq DOMAIN old.s
  BY <1>2, NameiHolds, HoldsOn
<1> HIDE DEF old, y
<1>4. Holds(kk, j, i, 0) /\ Fields \subseteq DOMAIN j
  BY <1>2, <1>3, IlockQuiet, HoldsKept, HoldsOn
<1> HIDE DEF j, v
<1>5. Holds(kk, up, i, 0) /\ Fields \subseteq DOMAIN up
  BY <1>2, <1>4, LinkEven, HoldsKept, HoldsOn
<1> HIDE DEF up
<1>6. Holds(up, dp.s, dp.r, 0)
  BY <1>5, NameiHolds
<1> HIDE DEF dp
<1>7. Holds(kk, dp.s, i, dp.r) /\ Fields \subseteq DOMAIN dp.s
  BY <1>2, <1>5, <1>6, HoldsMore, HoldsOn
<1>8. Holds(kk, x, i, dp.r) /\ Fields \subseteq DOMAIN x
  BY <1>2, <1>7, IlockQuiet, HoldsKept, HoldsOn
<1> HIDE DEF x
<1>9. Holds(kk, l.s, i, dp.r)
  BY <1>8, DirlinkEven, HoldsKept
<1> HIDE DEF l
<1>10. Holds(kk, lput, i, 0) /\ Fields \subseteq DOMAIN lput
  BY <1>2, <1>9, HoldsPut, HoldsOn
<1> HIDE DEF lput
<1>11. ASSUME NEW s, Holds(kk, s, i, 0), Fields \subseteq DOMAIN s
       PROVE  Even(kk, iput(less(s), i)) /\ Even(kk, iput(s, i))
  <2>1. Holds(kk, less(s), i, 0)
    <3> DEFINE m == s.inode[i].nlink - 1
    <3>1. Even(s, iupdate(Put(s, i, [s.inode[i] EXCEPT !.nlink = m]), i))
      <4> HIDE DEF m
      <4> QED BY <1>11, LinkEven
    <3> QED BY <1>11, <3>1, HoldsKept
  <2> HIDE DEF less
  <2> QED BY <1>2, <1>11, <2>1, HoldsPutFirst, HoldsNone
<1>12. Even(kk, ret1) /\ Even(kk, ret3) /\ Even(kk, ret4)
  BY <1>4, <1>10, <1>11
<1>13. dp.r = 0 => Even(kk, ret2)
  BY <1>7, <1>11
<1>14. i = 0 => Even(kk, old.s)
  BY <1>3, HoldsNone
<1> HIDE DEF ret1, ret2, ret3, ret4
<1>15. \A k2, r : Even(kk, k2) => Good(kk, pr, u, Ret(k2, q, r))
  BY <1>2, GoodEven
<1> HIDE DEF q
<1>16. Good(kk, pr, u, y)
  BY <1>1, <1>12, <1>13, <1>14, <1>15, EvenSame
<1> QED BY <1>16 DEF y, q

LEMMA UnlinkGood ==
  ASSUME NEW kk, NEW pr, Counted(kk, pr), NEW u \in UsersOf(pr), NEW c, Walkable(c.path)
  PROVE  Good(kk, pr, u, sys_unlink(kk, pr[u], c))
<1> DEFINE q    == pr[u]
           dp   == nameiparent(kk, q.cwd, c.path)
           d    == dp.r
           x    == ilock(dp.s, d)
           e    == dirlookup(x, d, dp.name)
           i    == e.r
           j    == ilock(e.s, i)
           dir  == j.inode[i].type = "dir"
           w    == writei(j, d, e.off, <<FREE>>, 1)
           out  == Panic(w.s, "unlink: writei")
           m    == w.s.inode[d].nlink - 1
           lnk  == iupdate(Put(w.s, d, [w.s.inode[d] EXCEPT !.nlink = m]), d)
           t    == IF w.r # 1 THEN out ELSE IF dir THEN lnk ELSE w.s
           td   == iput(t, d)
           n    == td.inode[i].nlink - 1
           less == iupdate(Put(td, i, [td.inode[i] EXCEPT !.nlink = n]), i)
           bad  == Panic(j, "unlink: nlink < 1")
           ret1 == iput(x, d)
           ret2 == iput(e.s, d)
           ret3 == iput(iput(j, i), d)
           ret4 == iput(less, i)
           y    == sys_unlink(kk, q, c)
<1>1. \/ y = Ret(kk, q, -1)
      \/ d = 0 /\ y = Ret(dp.s, q, -1)
      \/ y = Ret(ret1, q, -1)
      \/ i = 0 /\ y = Ret(ret2, q, -1)
      \/ y = Ret(bad, q, -1)
      \/ y = Ret(ret3, q, -1)
      \/ y = Ret(ret4, q, 0)
  BY DEF sys_unlink, Put
<1>2. SameOwner(q, q) /\ Fields \subseteq DOMAIN kk
  BY UserOwns
<1>3. Holds(kk, dp.s, d, 0) /\ Fields \subseteq DOMAIN dp.s
  BY <1>2, NameiHolds, HoldsOn
<1> HIDE DEF dp, y
<1>4. Holds(kk, x, d, 0) /\ Fields \subseteq DOMAIN x
  BY <1>2, <1>3, IlockQuiet, HoldsKept, HoldsOn
<1> HIDE DEF x
<1>5. Holds(x, e.s, i, 0)
  BY <1>4, DirlookupHolds
<1> HIDE DEF e
<1>6. Holds(kk, e.s, d, i) /\ Fields \subseteq DOMAIN e.s
  BY <1>2, <1>4, <1>5, HoldsMore, HoldsOn
<1>7. Holds(kk, j, d, i) /\ Fields \subseteq DOMAIN j
  BY <1>2, <1>6, IlockQuiet, HoldsKept, HoldsOn
<1> HIDE DEF j
<1>8. bad.panic # ""
  BY <1>7, PanicStays
<1>9. Holds(kk, w.s, d, i) /\ Fields \subseteq DOMAIN w.s
  <2>1. Len(<<FREE>>) \in Nat
    OBVIOUS
  <2>2. Even(j, w.s)
    BY <1>7, <2>1, WriteiEven
  <2> HIDE DEF w
  <2> QED BY <1>2, <1>7, <2>2, HoldsKept, HoldsOn
<1> HIDE DEF w
<1>10. Even(w.s, out) /\ Even(w.s, w.s)
  BY <1>9, PanicStays, EvenSame
<1>11. Even(w.s, lnk)
  <2> HIDE DEF m
  <2> QED BY <1>9, LinkEven
<1> HIDE DEF out, lnk, dir, bad
<1>12. Even(w.s, t)
  BY <1>10, <1>11
<1> HIDE DEF t
<1>13. Holds(kk, td, i, 0) /\ Fields \subseteq DOMAIN td
  BY <1>2, <1>9, <1>12, HoldsKept, HoldsPutFirst, HoldsOn
<1> HIDE DEF td, n
<1>14. Holds(kk, less, i, 0)
  BY <1>13, LinkEven, HoldsKept
<1> HIDE DEF less
<1>15. Even(kk, ret4)
  BY <1>2, <1>14, HoldsPutFirst, HoldsNone
<1>16. Even(kk, ret1)
  BY <1>2, <1>4, HoldsPutFirst, HoldsNone
<1>17. i = 0 => Even(kk, ret2)
  BY <1>2, <1>6, HoldsPutFirst, HoldsNone
<1>18. Even(kk, ret3)
  <2>1. Holds(kk, iput(j, i), d, 0)
    BY <1>2, <1>7, HoldsPut
  <2> QED BY <1>2, <2>1, HoldsPutFirst, HoldsNone
<1>19. d = 0 => Even(kk, dp.s)
  BY <1>3, HoldsNone
<1> HIDE DEF ret1, ret2, ret3, ret4
<1>20. \A k2, r : Even(kk, k2) \/ k2.panic # "" => Good(kk, pr, u, Ret(k2, q, r))
  BY <1>2, GoodEven, GoodPanic
<1> HIDE DEF q
<1>21. Good(kk, pr, u, y)
  BY <1>1, <1>8, <1>15, <1>16, <1>17, <1>18, <1>19, <1>20, EvenSame
<1> QED BY <1>21 DEF y, q

\* The current directory of a process is another one.
LEMMA CwdCounted ==
  ASSUME NEW kk, NEW pr, Counted(kk, pr), NEW u \in UsersOf(pr), NEW a,
         NEW q2, Owner(q2), q2.st = "run", q2.ofile = pr[u].ofile, q2.cwd = a,
         NEW k2, Frame(kk, k2), Refs(k2),
         \A i \in Inums : k2.inode[i].ref + One(pr[u].cwd, i) = kk.inode[i].ref + One(a, i)
  PROVE  Counted(k2, [pr EXCEPT ![u] = q2])
<1> DEFINE pr2 == [pr EXCEPT ![u] = q2]
           b   == pr[u].cwd
<1>1. u \in Slots /\ Procs(pr) /\ pr[u].st = "run"
  BY UserOwns DEF UsersOf
<1>2. DOMAIN pr2 = Slots /\ pr2[u] = q2 /\ \A n \in Slots : n # u => pr2[n] = pr[n]
  BY <1>1 DEF Procs
<1> HIDE DEF pr2
<1>3. Procs(pr2)
  BY <1>1, <1>2 DEF Procs
<1>4. UsersOf(pr2) = UsersOf(pr)
  <2>1. \A n \in Slots : (n \in UsersOf(pr2) <=> n \in UsersOf(pr))
    BY <1>1, <1>2 DEF UsersOf
  <2> QED BY <2>1 DEF UsersOf
<1>5. \A f : OpenedBy(pr2, f) = OpenedBy(pr, f)
  <2>1. \A n \in UsersOf(pr) : pr2[n].ofile = pr[n].ofile
    BY <1>2 DEF UsersOf
  <2> QED BY <1>4, <2>1 DEF OpenedBy
<1>6. Shape(k2) /\ AlikeBut(kk, k2, {}) /\ SamePipes(kk, k2) /\ k2.file = kk.file
  BY FrameAlike DEF Counted, Frame
<1>7. FilesCounted(k2, pr2)
  BY <1>5, <1>6 DEF FilesCounted, Counted
<1>8. Ends(k2)
  <2>1. \A f \in Files : \A n, w : EndOf(k2, f, n, w) <=> EndOf(kk, f, n, w)
    BY <1>6 DEF EndOf
  <2> QED BY <1>6, <2>1, EndsSame DEF Counted
<1>9. InodesCounted(k2, pr2)
  <2>1. ASSUME NEW i \in Inums
        PROVE  k2.inode[i].ref = Cardinality(Stands(k2, i)) + Cardinality(Within(pr2, i))
    <3>1. Stands(k2, i) = Stands(kk, i)
      BY <1>6 DEF Stands
    <3>2. IsFiniteSet(Within(pr, i)) /\ IsFiniteSet(Stands(kk, i))
      BY FiniteCounts
    <3>3. \A y : y # u => (y \in Within(pr, i) <=> y \in Within(pr2, i))
      BY <1>2, <1>4 DEF Within, UsersOf
    <3>4. (u \in Within(pr, i) <=> b = i) /\ (u \in Within(pr2, i) <=> a = i)
      BY <1>2, <1>4 DEF Within
    <3> DEFINE S == Within(pr, i)
               T == Within(pr2, i)
    <3> HIDE DEF S, T
    <3>5. /\ Cardinality(S) \in Nat /\ Cardinality(T) \in Nat
          /\ Cardinality(T) + (IF u \in S THEN 1 ELSE 0)
               = Cardinality(S) + (IF u \in T THEN 1 ELSE 0)
      BY <3>2, <3>3, SetCount DEF S, T
    <3>6. Cardinality(T) + One(b, i) = Cardinality(S) + One(a, i)
      BY <3>4, <3>5 DEF One, S, T
    <3>7. kk.inode[i].ref = Cardinality(Stands(kk, i)) + Cardinality(S)
      BY DEF Counted, InodesCounted, S
    <3>8. k2.inode[i].ref + One(b, i) = kk.inode[i].ref + One(a, i)
      OBVIOUS
    <3>9. Cardinality(Stands(kk, i)) \in Nat /\ k2.inode[i].ref \in Nat
      BY <3>2, FS_CardinalityType DEF Refs
    <3> HIDE DEF b
    <3>10. k2.inode[i].ref = Cardinality(Stands(kk, i)) + Cardinality(T)
      BY <3>5, <3>6, <3>7, <3>8, <3>9, OneIs
    <3> QED BY <3>1, <3>10 DEF T
  <2> QED BY <2>1 DEF InodesCounted
<1> QED BY <1>3, <1>6, <1>7, <1>8, <1>9 DEF Counted, Shape, pr2

\* The current directory is held.
LEMMA WithinHolds ==
  ASSUME NEW kk, NEW pr, Counted(kk, pr), NEW u \in UsersOf(pr), pr[u].cwd \in Inums
  PROVE  kk.inode[pr[u].cwd].ref > 0
<1> DEFINE i == pr[u].cwd
<1>1. u \in Within(pr, i)
  BY DEF Within
<1>2. IsFiniteSet(Stands(kk, i)) /\ IsFiniteSet(Within(pr, i))
  BY FiniteCounts
<1>3. Cardinality(Within(pr, i)) \in Nat /\ Cardinality(Within(pr, i)) # 0
      /\ Cardinality(Stands(kk, i)) \in Nat
  BY <1>1, <1>2, FS_CardinalityType, FS_EmptySet
<1>4. kk.inode[i].ref = Cardinality(Stands(kk, i)) + Cardinality(Within(pr, i))
  BY DEF Counted, InodesCounted
<1> HIDE DEF i
<1> QED BY <1>3, <1>4 DEF i

LEMMA ChdirGood ==
  ASSUME NEW kk, NEW pr, Counted(kk, pr), NEW u \in UsersOf(pr), NEW c, Walkable(c.path)
  PROVE  Good(kk, pr, u, sys_chdir(kk, pr[u], c))
<1> DEFINE q    == pr[u]
           new  == namei(kk, q.cwd, c.path)
           a    == new.r
           j    == ilock(new.s, a)
           ret1 == iput(j, a)
           t    == iput(j, q.cwd)
           q2   == [q EXCEPT !.cwd = a]
           y    == sys_chdir(kk, q, c)
<1>1. \/ y = Ret(kk, q, -1)
      \/ a = 0 /\ y = Ret(new.s, q, -1)
      \/ y = Ret(ret1, q, -1)
      \/ y = Ret(t, q2, 0)
  BY DEF sys_chdir
<1>2. SameOwner(q, q) /\ Fields \subseteq DOMAIN kk /\ Owner(q) /\ q.st = "run" /\ Refs(kk)
  BY UserOwns DEF Counted
<1>3. Holds(kk, new.s, a, 0) /\ Fields \subseteq DOMAIN new.s
  BY <1>2, NameiHolds, HoldsOn
<1> HIDE DEF new, y
<1>4. Holds(kk, j, a, 0) /\ Fields \subseteq DOMAIN j
  BY <1>2, <1>3, IlockQuiet, HoldsKept, HoldsOn
<1> HIDE DEF j
<1>5. Even(kk, ret1)
  BY <1>2, <1>4, HoldsPutFirst, HoldsNone
<1>6. a = 0 => Even(kk, new.s)
  BY <1>3, HoldsNone
<1>7. Frame(j, t) /\ (Refs(j) /\ t.panic = "" /\ (q.cwd \in Inums => j.inode[q.cwd].ref > 0)
                      => Lost(j, t, q.cwd))
  BY <1>4, IputLoses
<1> HIDE DEF t, ret1
<1>8. /\ Owner(q2) /\ q2.st = "run" /\ q2.ofile = pr[u].ofile /\ q2.cwd = a
      /\ SameMem(q, q2)
  BY <1>2 DEF Owner, SameMem, Mem
<1> HIDE DEF q2
<1>13. Fair(kk, q, t, q2)
  <2>1. Steady(kk, j) /\ Steady(j, t)
    BY <1>4, <1>7, FrameSteady DEF Holds
  <2> QED BY <1>8, <2>1, SteadyOn, FairSteady
<1>9. ASSUME t.panic = ""
      PROVE  Counted(t, [pr EXCEPT ![u] = q2])
  <2>1. j.panic = "" /\ Frame(kk, t)
    BY <1>4, <1>7, <1>9 DEF Holds, Frame
  <2>2. Gained(kk, j, a)
    BY <1>2, <1>4, <2>1, HoldsOne
  <2>3. q.cwd \in Inums => j.inode[q.cwd].ref > 0
    <3>1. ASSUME q.cwd \in Inums
          PROVE  j.inode[q.cwd].ref > 0
      <4>1. kk.inode[q.cwd].ref > 0
        BY <3>1, WithinHolds
      <4>2. j.inode[q.cwd].ref = kk.inode[q.cwd].ref + One(a, q.cwd)
        BY <2>2, <3>1 DEF Gained
      <4>3. kk.inode[q.cwd].ref \in Nat
        BY <1>2, <3>1 DEF Refs
      <4> QED BY <4>1, <4>2, <4>3, OneIs
    <3> QED BY <3>1
  <2>4. Lost(j, t, q.cwd)
    BY <1>7, <1>9, <2>2, <2>3 DEF Gained
  <2>5. ASSUME NEW i \in Inums
        PROVE  t.inode[i].ref + One(pr[u].cwd, i) = kk.inode[i].ref + One(a, i)
    <3>1. t.inode[i].ref = j.inode[i].ref - One(pr[u].cwd, i)
      BY <2>4 DEF Lost
    <3>2. j.inode[i].ref = kk.inode[i].ref + One(a, i)
      BY <2>2 DEF Gained
    <3>3. kk.inode[i].ref \in Nat
      BY <1>2 DEF Refs
    <3> QED BY <3>1, <3>2, <3>3, OneIs
  <2>6. Refs(t)
    BY <2>4 DEF Lost
  <2> QED BY <1>8, <2>1, <2>5, <2>6, CwdCounted
<1>10. Good(kk, pr, u, Ret(t, q2, 0))
  BY <1>8, <1>9, <1>13, GoodIf
<1>11. \A k2, r : Even(kk, k2) => Good(kk, pr, u, Ret(k2, q, r))
  BY <1>2, GoodEven
<1> HIDE DEF q
<1>12. Good(kk, pr, u, y)
  BY <1>1, <1>5, <1>6, <1>10, <1>11, EvenSame
<1> QED BY <1>12 DEF y, q

\* A free file comes to stand for an inode, with a descriptor for it.
LEMMA OpensCounted ==
  ASSUME NEW kk, NEW pr, Counted(kk, pr), NEW i, NEW s, Frame(kk, s), Gained(kk, s, i),
         NEW f \in Files, kk.file[f].ref = 0,
         NEW e, File(e), e.ref = 1, e.type # "pipe", e.ip = i,
         NEW k2, Even(PutFile(s, f, e), k2), Alive(k2),
         NEW pr2, NEW p, NEW fd, Moves(pr, pr2, p, fd, 0, f)
  PROVE  Counted(k2, pr2)
<1> DEFINE j == PutFile(s, f, e)
<1>1. Shape(kk) /\ Refs(kk) /\ Ends(kk)
  BY DEF Counted, Shape
<1>2. Shape(s) /\ s.file = kk.file /\ s.pipe = kk.pipe
  BY <1>1, FrameAlike DEF Frame, Shape
<1>3. /\ Shape(j) /\ AlikeBut(s, j, {f}) /\ j.file[f] = e /\ j.inode = s.inode
      /\ j.pipe = s.pipe
  BY <1>2, PutFileIs
<1>4. Even(j, k2)
  OBVIOUS
<1> HIDE DEF j
<1>5. Shape(k2) /\ k2.file = j.file /\ k2.pipe = j.pipe
  BY <1>3, <1>4, FrameAlike DEF Even, Frame, Shape
<1>6. Refs(j)
  BY <1>3 DEF Gained, Refs
<1>7. Kept(j, k2)
  BY <1>4, <1>6 DEF Even, Alive
<1>8. AlikeBut(kk, k2, {f}) /\ k2.file[f] = e /\ SamePipes(kk, k2)
  BY <1>2, <1>3, <1>5 DEF AlikeBut, SamePipes
<1>9. Ends(k2)
  <2>1. \A g \in Files \ {f} : \A n, b : EndOf(k2, g, n, b) <=> EndOf(kk, g, n, b)
    BY <1>8 DEF EndOf, AlikeBut, Alike
  <2>2. \A n, b : ~EndOf(k2, f, n, b) /\ ~EndOf(kk, f, n, b)
    BY <1>8 DEF EndOf
  <2>3. \A g \in Files : \A n, b : EndOf(k2, g, n, b) <=> EndOf(kk, g, n, b)
    BY <2>1, <2>2
  <2> QED BY <1>1, <1>8, <2>3, EndsSame
<1>10. InodesFollow(kk, k2, f)
  <2>1. ASSUME NEW n \in Inums
        PROVE  k2.inode[n].ref + (IF f \in Stands(kk, n) THEN 1 ELSE 0)
                 = kk.inode[n].ref + (IF f \in Stands(k2, n) THEN 1 ELSE 0)
    <3>1. f \notin Stands(kk, n)
      BY DEF Stands
    <3>2. f \in Stands(k2, n) <=> i = n
      BY <1>8 DEF Stands
    <3>3. k2.inode[n].ref = kk.inode[n].ref + One(i, n) /\ kk.inode[n].ref \in Nat
      BY <1>1, <1>3, <1>7 DEF Kept, Gained, Refs
    <3> QED BY <3>1, <3>2, <3>3 DEF One
  <2> QED BY <2>1 DEF InodesFollow
<1>11. k2.file[f].ref + One(0, f) = kk.file[f].ref + One(f, f)
  BY <1>8 DEF One, Files
<1>12. 0 \in {0, f} /\ f \in {0, f} /\ Refs(k2)
  BY <1>7 DEF Kept
<1> QED BY <1>5, <1>8, <1>9, <1>10, <1>11, <1>12, CountsFile

LEMMA OpenGood ==
  ASSUME NEW kk, NEW pr, Counted(kk, pr), NEW u \in UsersOf(pr), NEW c, Walkable(c.path)
  PROVE  Good(kk, pr, u, sys_open(kk, pr[u], c))
<1> DEFINE q    == pr[u]
           made == create(kk, q, c.path, "file", 0)
           old  == namei(kk, q.cwd, c.path)
           x    == ilock(old.s, old.r)
           got  == IF "CREATE" \in c.mode THEN made
                   ELSE [s |-> IF old.r = 0 THEN old.s ELSE x, r |-> old.r]
           i    == got.r
           ip   == got.s.inode[i]
           f    == filealloc(got.s)
           fd   == fdalloc(q)
           major == ip.major
           type == IF ip.type = "device" THEN "device" ELSE "inode"
           rd   == "WRONLY" \notin c.mode
           wr   == c.mode \cap {"WRONLY", "RDWR"} # {}
           e    == [NoFile EXCEPT !.ref = 1, !.ip = i, !.major = major, !.type = type,
                                  !.readable = rd, !.writable = wr]
           j    == PutFile(got.s, f, e)
           cut  == itrunc(j, i)
           k2   == IF "TRUNC" \in c.mode /\ ip.type = "file" THEN cut ELSE j
           q2   == [q EXCEPT !.ofile[fd] = f]
           lost == iput(got.s, i)
           y    == sys_open(kk, q, c)
<1>1. \/ y = Ret(kk, q, -1)
      \/ i = 0 /\ y = Ret(got.s, q, -1)
      \/ y = Ret(lost, q, -1)
      \/ f # 0 /\ ~(fd < 0) /\ y = Ret(k2, q2, fd)
  BY DEF sys_open, PutFile
<1>2. SameOwner(q, q) /\ Fields \subseteq DOMAIN kk /\ Shape(kk) /\ Owner(q) /\ Refs(kk)
  BY UserOwns DEF Counted
<1>3. File(e) /\ e.ref = 1 /\ e.type # "pipe" /\ e.ip = i
  <2>1. type \in {"inode", "device"}
    OBVIOUS
  <2> HIDE DEF type, i, major, rd, wr
  <2> QED BY <2>1 DEF File, FileFields, NoFile
<1> HIDE DEF e, y
<1>4. Holds(kk, made.s, made.r, 0)
  BY <1>2, CreateHolds
<1> HIDE DEF made
<1>5. Holds(kk, old.s, old.r, 0) /\ Fields \subseteq DOMAIN old.s
  BY <1>2, NameiHolds, HoldsOn
<1> HIDE DEF old
<1>6. Holds(kk, x, old.r, 0)
  BY <1>5, IlockQuiet, HoldsKept
<1> HIDE DEF x
<1>7. Holds(kk, got.s, i, 0) /\ Fields \subseteq DOMAIN got.s
  <2>1. Holds(kk, got.s, i, 0)
    BY <1>4, <1>5, <1>6
  <2> HIDE DEF got
  <2> QED BY <1>2, <2>1, HoldsOn
<1> HIDE DEF got
<1>8. Even(kk, lost)
  BY <1>2, <1>7, HoldsPutFirst, HoldsNone
<1>9. i = 0 => Even(kk, got.s)
  BY <1>7, HoldsNone
<1>10. Frame(kk, got.s) /\ Shape(got.s) /\ got.s.file = kk.file
  BY <1>2, <1>7, FrameAlike DEF Holds, Frame, Shape
<1>11. ASSUME f # 0, ~(fd < 0)
       PROVE  Good(kk, pr, u, Ret(k2, q2, fd))
  <2>1. f \in Files /\ kk.file[f].ref = 0
    BY <1>10, <1>11, FileallocIs DEF Shape
  <2>2. fd \in 0 .. NOFILE - 1
    BY <1>2, <1>11, FdallocIs
  <2>3. Moves(pr, [pr EXCEPT ![u] = q2], u, fd, 0, f) /\ q2.st = "run" /\ SameMem(q, q2)
    BY <2>1, <2>2, TakesFd
  <2> HIDE DEF f
  <2>4. Shape(j) /\ j.panic = got.s.panic /\ j.free = got.s.free /\ j.pipe = got.s.pipe
    <3> DEFINE s == got.s
    <3>1. Shape(s) /\ File(e) /\ f \in Files
      BY <1>3, <1>10, <2>1
    <3> HIDE DEF s
    <3>2. /\ Shape(PutFile(s, f, e)) /\ PutFile(s, f, e).panic = s.panic
          /\ PutFile(s, f, e).free = s.free /\ PutFile(s, f, e).pipe = s.pipe
      BY <3>1, PutFileIs
    <3> QED BY <3>2 DEF s
  <2>5. Even(j, k2)
    <3> HIDE DEF j
    <3>1. Even(j, cut) /\ Even(j, j)
      BY <2>4, ItruncQuiet, EvenSame DEF Shape
    <3> HIDE DEF cut
    <3> QED BY <3>1
  <2> HIDE DEF k2, q2
  <2>6. ASSUME Alive(k2)
        PROVE  Counted(k2, [pr EXCEPT ![u] = q2])
    <3>1. Gained(kk, got.s, i)
      BY <1>2, <1>7, <2>4, <2>5, <2>6, HoldsOne DEF Alive, Even, Frame
    <3> HIDE DEF i
    <3> QED BY <1>3, <1>10, <2>1, <2>3, <2>5, <2>6, <3>1, OpensCounted
  <2>7. k2.panic = "" => Counted(k2, [pr EXCEPT ![u] = q2])
    BY <2>6 DEF Alive
  <2>8. Fair(kk, q, k2, q2)
    <3>1. Steady(kk, got.s) /\ Steady(got.s, j) /\ Steady(j, k2)
      BY <1>10, <2>4, <2>5, FrameSteady, FileSteady DEF Even
    <3> HIDE DEF j
    <3> QED BY <2>3, <3>1, SteadyOn, FairSteady
  <2> QED BY <2>3, <2>7, <2>8, GoodIf
<1>12. \A t, r : Even(kk, t) => Good(kk, pr, u, Ret(t, q, r))
  BY <1>2, GoodEven
<1> HIDE DEF q, k2, q2, f, fd, lost
<1>13. Good(kk, pr, u, y)
  BY <1>1, <1>8, <1>9, <1>11, <1>12, EvenSame
<1> QED BY <1>13 DEF y, q

----------------------------------------------------------------------------
(* Pipes, programs and memory.                                             *)

\* While a file is free there is a page for a pipe: every open pipe has a file.
LEMMA FreePipe ==
  ASSUME NEW kk, NEW pr, Counted(kk, pr), NEW f \in Files, kk.file[f].ref = 0,
         NEW i, i = Min({n \in DOMAIN kk.pipe : ~kk.pipe[n].readopen /\ ~kk.pipe[n].writeopen})
  PROVE  i \in 1 .. NFILE /\ kk.pipe[i].readopen = FALSE /\ kk.pipe[i].writeopen = FALSE
<1> DEFINE free == {n \in DOMAIN kk.pipe : ~kk.pipe[n].readopen /\ ~kk.pipe[n].writeopen}
           S == 1 .. NFILE
           T == Files \ {f}
           End(n) == CHOOSE g \in Files : \E b : EndOf(kk, g, n, b)
           h == [n \in S |-> End(n)]
<1>1. DOMAIN kk.pipe = S /\ Ends(kk) /\ Pipes(kk)
  BY DEF Counted, Pipes
<1>2. IsFiniteSet(S) /\ Cardinality(S) = NFILE
  BY Constants, FS_Interval
<1>3. S = Files
  BY DEF Files
<1>4. IsFiniteSet(T) /\ Cardinality(T) < Cardinality(S)
  <2>1. IsFiniteSet(S \ {f}) /\ Cardinality(S \ {f}) = NFILE - 1
    BY <1>2, <1>3, FS_RemoveElement
  <2>2. T = S \ {f}
    BY <1>3
  <2>3. NFILE \in Nat
    BY Constants
  <2> HIDE DEF S, T
  <2> QED BY <1>2, <2>1, <2>2, <2>3
<1>5. ASSUME free = {}
      PROVE  FALSE
  <2>1. ASSUME NEW n \in S
        PROVE  End(n) \in T /\ \E b : EndOf(kk, End(n), n, b)
    <3>1. kk.pipe[n].readopen \/ kk.pipe[n].writeopen
      BY <1>1, <1>5
    <3>2. \E g \in Files : \E b : EndOf(kk, g, n, b)
      BY <1>1, <3>1 DEF Ends
    <3>3. End(n) \in Files /\ \E b : EndOf(kk, End(n), n, b)
      BY <3>2, Zenon
    <3>4. \A b : ~EndOf(kk, f, n, b)
      BY DEF EndOf
    <3> HIDE DEF End
    <3> QED BY <3>3, <3>4
  <2> HIDE DEF End
  <2>2. h \in [S -> T]
    BY <2>1
  <2> HIDE DEF h, S, T
  <2>3. PICK x \in S, y \in S : x # y /\ h[x] = h[y]
    BY <1>2, <1>4, <2>2, FS_PigeonHole
  <2>4. h[x] = End(x) /\ h[y] = End(y)
    BY <2>3 DEF h
  <2>5. (\E b : EndOf(kk, End(x), x, b)) /\ \E b : EndOf(kk, End(x), y, b)
    BY <2>1, <2>3, <2>4
  <2>6. kk.file[End(x)].pipe = x /\ kk.file[End(x)].pipe = y
    BY <2>5 DEF EndOf
  <2> QED BY <2>3, <2>6
<1>6. free \subseteq Nat
  BY <1>1
<1>7. \E x \in free : \A y \in free : x <= y
  BY <1>5, <1>6, LeastIn
<1>8. i = Min(free)
  OBVIOUS
<1> HIDE DEF free
<1>9. i \in free
  BY <1>7, <1>8 DEF Min
<1>10. i \in S /\ ~kk.pipe[i].readopen /\ ~kk.pipe[i].writeopen
  BY <1>1, <1>9 DEF free
<1>11. kk.pipe[i].readopen \in BOOLEAN /\ kk.pipe[i].writeopen \in BOOLEAN
  BY <1>1, <1>10 DEF Pipes, OnePipe
<1> QED BY <1>10, <1>11

\* A free file becomes an end of a pipe, with a descriptor for it.
LEMMA EndOpens ==
  ASSUME NEW kk, NEW pr, Counted(kk, pr), NEW f \in Files, kk.file[f].ref = 0,
         NEW i \in 1 .. NFILE, NEW w \in BOOLEAN,
         w = TRUE => kk.pipe[i].writeopen = FALSE,
         w = FALSE => kk.pipe[i].readopen = FALSE,
         NEW k2, Shape(k2), k2.inode = kk.inode, AlikeBut(kk, k2, {f}),
         EndOf(k2, f, i, w), k2.file[f].ref = 1,
         \A n \in 1 .. NFILE : n # i => k2.pipe[n] = kk.pipe[n],
         w = TRUE => k2.pipe[i].writeopen = TRUE /\ k2.pipe[i].readopen = kk.pipe[i].readopen,
         w = FALSE => k2.pipe[i].readopen = TRUE /\ k2.pipe[i].writeopen = kk.pipe[i].writeopen,
         NEW pr2, NEW p, NEW fd, Moves(pr, pr2, p, fd, 0, f)
  PROVE  Counted(k2, pr2)
<1>1. Shape(kk) /\ Refs(kk) /\ Ends(kk)
  BY DEF Counted, Shape
<1>2. \A g \in Files : \A n, b : EndOf(k2, g, n, b) <=> EndOf(kk, g, n, b) \/ (g = f /\ n = i /\ b = w)
  <2>1. \A g \in Files \ {f} : \A n, b : EndOf(k2, g, n, b) <=> EndOf(kk, g, n, b)
    BY DEF EndOf, AlikeBut, Alike
  <2>2. \A n, b : (EndOf(k2, f, n, b) <=> n = i /\ b = w) /\ ~EndOf(kk, f, n, b)
    BY DEF EndOf
  <2> QED BY <2>1, <2>2
<1>3. \A n \in 1 .. NFILE :
        /\ kk.pipe[n].readopen <=> \E g \in Files : EndOf(kk, g, n, FALSE)
        /\ kk.pipe[n].writeopen <=> \E g \in Files : EndOf(kk, g, n, TRUE)
  BY <1>1 DEF Ends
<1>4. \A g \in Files : ~EndOf(kk, g, i, w)
  <2>1. CASE w = TRUE
    <3>1. ~kk.pipe[i].writeopen
      BY <2>1
    <3> QED BY <1>3, <2>1, <3>1, Zenon
  <2>2. CASE w = FALSE
    <3>1. ~kk.pipe[i].readopen
      BY <2>2
    <3> QED BY <1>3, <2>2, <3>1, Zenon
  <2> QED BY <2>1, <2>2
<1>5. ASSUME NEW n \in 1 .. NFILE
      PROVE  /\ k2.pipe[n].readopen <=> \E g \in Files : EndOf(k2, g, n, FALSE)
             /\ k2.pipe[n].writeopen <=> \E g \in Files : EndOf(k2, g, n, TRUE)
  <2>1. CASE n # i
    <3>1. k2.pipe[n] = kk.pipe[n]
      BY <2>1
    <3>2. \A g \in Files : \A b : EndOf(k2, g, n, b) <=> EndOf(kk, g, n, b)
      BY <1>2, <2>1
    <3> QED BY <1>3, <3>1, <3>2, Zenon
  <2>2. CASE n = i /\ w = TRUE
    <3>1. k2.pipe[n].writeopen = TRUE /\ k2.pipe[n].readopen = kk.pipe[n].readopen
      BY <2>2
    <3>2. \A g \in Files : EndOf(k2, g, n, FALSE) <=> EndOf(kk, g, n, FALSE)
      BY <1>2, <2>2
    <3>3. EndOf(k2, f, n, TRUE)
      BY <2>2
    <3> QED BY <1>3, <3>1, <3>2, <3>3, Zenon
  <2>3. CASE n = i /\ w = FALSE
    <3>1. k2.pipe[n].readopen = TRUE /\ k2.pipe[n].writeopen = kk.pipe[n].writeopen
      BY <2>3
    <3>2. \A g \in Files : EndOf(k2, g, n, TRUE) <=> EndOf(kk, g, n, TRUE)
      BY <1>2, <2>3
    <3>3. EndOf(k2, f, n, FALSE)
      BY <2>3
    <3> QED BY <1>3, <3>1, <3>2, <3>3, Zenon
  <2> QED BY <2>1, <2>2, <2>3
<1>6. ASSUME NEW n \in 1 .. NFILE
      PROVE  \A g, h \in Files, b \in BOOLEAN : EndOf(k2, g, n, b) /\ EndOf(k2, h, n, b) => g = h
  <2>1. \A g, h \in Files, b \in BOOLEAN : EndOf(kk, g, n, b) /\ EndOf(kk, h, n, b) => g = h
    BY <1>1 DEF Ends
  <2>2. ASSUME NEW g \in Files, NEW h \in Files, NEW b \in BOOLEAN,
               EndOf(k2, g, n, b), EndOf(k2, h, n, b)
        PROVE  g = h
    <3>1. CASE n = i /\ b = w
      BY <1>2, <1>4, <2>2, <3>1
    <3>2. CASE ~(n = i /\ b = w)
      <4>1. EndOf(kk, g, n, b) /\ EndOf(kk, h, n, b)
        BY <1>2, <2>2, <3>2
      <4> QED BY <2>1, <4>1
    <3> QED BY <3>1, <3>2
  <2> QED BY <2>2
<1>7. Ends(k2)
  BY <1>5, <1>6, Zenon DEF Ends
<1>8. Refs(k2)
  BY <1>1 DEF Refs
<1>9. InodesFollow(kk, k2, f)
  <2>1. \A n : f \notin Stands(kk, n) /\ f \notin Stands(k2, n)
    BY DEF Stands, EndOf
  <2> QED BY <2>1 DEF InodesFollow
<1>10. k2.file[f].ref + One(0, f) = kk.file[f].ref + One(f, f)
  BY DEF One, Files
<1>11. 0 \in {0, f} /\ f \in {0, f}
  OBVIOUS
<1> QED BY <1>7, <1>8, <1>9, <1>10, <1>11, CountsFile

\* sbrk() and exec(): what is no longer free is in the memory of the process.
LEMMA PagesGood ==
  ASSUME NEW kk, NEW pr, Counted(kk, pr), NEW u \in UsersOf(pr),
         NEW j, Even(kk, j), NEW v, NEW k2, k2 = [j EXCEPT !.free = v],
         NEW q2, SameHolder(pr[u], q2), NEW r,
         kk.free \in Nat /\ Mem(pr[u]) =>
           v \in Nat /\ Mem(q2) /\ v + Held(q2.mem) = kk.free + Held(pr[u].mem)
  PROVE  Good(kk, pr, u, Ret(k2, q2, r))
<1> DEFINE pr2 == [pr EXCEPT ![u] = q2]
<1>1. Shape(j)
  BY UserOwns, FrameAlike DEF Even, Shape
<1>2. /\ k2.file = j.file /\ k2.inode = j.inode /\ k2.pipe = j.pipe /\ k2.panic = j.panic
      /\ k2.free = v /\ DOMAIN k2 = DOMAIN j
  BY <1>1 DEF Shape, Fields
<1>3. SameOwners(pr, pr2) /\ q2.st = "run"
  BY UserOwns, OwnerStays DEF SameOwner, SameHolder
<1>4. SameOwners(pr2, pr2)
  BY <1>3 DEF SameOwners
<1> HIDE DEF pr2
<1>5. Shape(k2) /\ AlikeBut(j, k2, {}) /\ SamePipes(j, k2)
  BY <1>1, <1>2 DEF Shape, Table, Pipes, AlikeBut, Alike, SamePipes
<1>6. ASSUME k2.panic = ""
      PROVE  Counted(k2, pr2)
  <2>1. Counted(j, pr2)
    BY <1>2, <1>3, <1>6, CountsEven
  <2>2. Kept(j, k2)
    BY <1>2, <2>1 DEF Kept, Refs, Counted
  <2> QED BY <1>4, <1>5, <2>1, <2>2, CountsSame
<1>7. Fair(kk, pr[u], k2, q2)
  <2>1. SUFFICES ASSUME kk.free \in Nat, Mem(pr[u])
                 PROVE  k2.free \in Nat /\ Mem(q2)
                        /\ Room(k2) + Held(q2.mem) = Room(kk) + Held(pr[u].mem)
    BY DEF Fair
  <2>2. k2.free \in Nat /\ Mem(q2) /\ k2.free + Held(q2.mem) = kk.free + Held(pr[u].mem)
    BY <1>2, <2>1
  <2>3. OpenPipes(k2) = OpenPipes(kk)
    <3>1. Steady(kk, j)
      BY FrameSteady DEF Even
    <3>2. OpenPipes(k2) = OpenPipes(j)
      BY <1>2 DEF OpenPipes
    <3> QED BY <3>1, <3>2 DEF Steady
  <2>4. /\ Cardinality(OpenPipes(kk)) \in Nat
        /\ Held(q2.mem) \in Nat /\ Held(pr[u].mem) \in Nat
    BY <2>1, <2>2, PipesAre, HeldIs DEF Mem
  <2> QED BY <2>1, <2>2, <2>3, <2>4 DEF Room
<1> QED BY <1>3, <1>6, <1>7, GoodIf DEF pr2

LEMMA SbrkGood ==
  ASSUME NEW kk, NEW pr, Counted(kk, pr), NEW u \in UsersOf(pr), NEW c, c.n \in Int
  PROVE  Good(kk, pr, u, sys_sbrk(kk, pr[u], c))
<1> DEFINE q  == pr[u]
           g  == growproc(kk.free, q.mem, c.n)
           k2 == [kk EXCEPT !.free = g.free]
           q2 == [q EXCEPT !.mem = g.m]
           r  == IF g.ok THEN q.mem.sz ELSE -1
<1>1. sys_sbrk(kk, q, c) = Ret(k2, q2, r)
  BY DEF sys_sbrk
<1> HIDE DEF r
<1>4. kk.free \in Nat /\ Mem(q) => Fits(kk.free, q.mem, g)
  BY GrowFits DEF Mem
<1> HIDE DEF g
<1>2. SameHolder(q, q2) /\ Even(kk, kk)
  BY UserOwns, SameOwnerSets, EvenSame
<1>5. kk.free \in Nat /\ Mem(q) =>
        g.free \in Nat /\ Mem(q2) /\ g.free + Held(q2.mem) = kk.free + Held(q.mem)
  BY <1>4 DEF Mem, Fits, Growth
<1> HIDE DEF q2
<1>3. Good(kk, pr, u, Ret(k2, q2, r))
  BY <1>2, <1>5, PagesGood
<1> QED BY <1>1, <1>3

LEMMA ExecGood ==
  ASSUME NEW kk, NEW pr, Counted(kk, pr), NEW u \in UsersOf(pr), NEW c, Walkable(c.path),
         NEW D, c.argv \in Seq(D)
  PROVE  Good(kk, pr, u, sys_exec(kk, pr[u], c))
<1> DEFINE q    == pr[u]
           argc == Len(c.argv)
           file == namei(kk, q.cwd, c.path)
           j    == ilock(file.s, file.r)
           head == readi(j, file.r, 0, 2, TRUE)
           new  == execimage(j.free - argc, q.mem)
           done == iput(j, file.r)
           free == new.free + argc
           name == <<head.data[2]>>
           got  == new.m
           k2   == [done EXCEPT !.free = free]
           q2   == [q EXCEPT !.mem = got, !.buf = name]
           y    == sys_exec(kk, q, c)
<1>1. \/ y = Ret(kk, q, -1)
      \/ file.r = 0 /\ y = Ret(file.s, q, -1)
      \/ y = Ret(done, q, -1)
      \/ ~(argc > kk.free) /\ new.ok /\ y = Ret(k2, q2, argc)
  BY DEF sys_exec
<1>2. SameOwner(q, q) /\ Fields \subseteq DOMAIN kk
  BY UserOwns
<1>11. argc \in Nat
  OBVIOUS
<1> HIDE DEF name, y, argc
<1>3. Holds(kk, file.s, file.r, 0) /\ Fields \subseteq DOMAIN file.s
  BY <1>2, NameiHolds, HoldsOn
<1> HIDE DEF file
<1>4. Holds(kk, j, file.r, 0)
  BY <1>3, IlockQuiet, HoldsKept
<1> HIDE DEF j, head
<1>12. j.free = kk.free
  BY <1>4 DEF Holds, Frame
<1>5. Even(kk, done)
  BY <1>2, <1>4, HoldsPutFirst, HoldsNone
<1> HIDE DEF done
<1>6. file.r = 0 => Even(kk, file.s)
  BY <1>3, HoldsNone
<1>7. SameHolder(q, q2)
  <2> HIDE DEF got
  <2> QED BY UserOwns, SameOwnerSets
<1>13. ASSUME ~(argc > kk.free), new.ok, kk.free \in Nat, Mem(q)
       PROVE  free \in Nat /\ Mem(q2) /\ free + Held(q2.mem) = kk.free + Held(q.mem)
  <2> DEFINE left == j.free - argc
  <2>1. left \in Nat /\ left = kk.free - argc
    BY <1>11, <1>12, <1>13
  <2>2. new = execimage(left, q.mem)
    OBVIOUS
  <2> HIDE DEF left, new
  <2>3. new.free \in Nat /\ HasMem(new.m) /\ new.free + Held(new.m) = left + Held(q.mem)
    BY <1>13, <2>1, <2>2, ImageFits DEF Mem
  <2>4. Held(new.m) \in Nat /\ Held(q.mem) \in Nat
    BY <1>13, <2>3, HeldIs DEF Mem
  <2>5. Mem(q2) /\ q2.mem = new.m
    BY <1>13, <2>3 DEF Mem
  <2> HIDE DEF q2
  <2>6. free \in Nat /\ free + Held(new.m) = kk.free + Held(q.mem)
    <3> DEFINE a == new.free
               b == Held(new.m)
               d == Held(q.mem)
    <3>1. a \in Nat /\ b \in Nat /\ d \in Nat /\ a + b = left + d /\ free = a + argc
      BY <2>3, <2>4
    <3> HIDE DEF a, b, d, free
    <3>2. free \in Nat /\ free + b = kk.free + d
      BY <1>11, <1>13, <2>1, <3>1
    <3> QED BY <3>2 DEF b, d
  <2> QED BY <2>5, <2>6
<1> HIDE DEF q2, free, new
<1>8. ASSUME ~(argc > kk.free), new.ok
      PROVE  Good(kk, pr, u, Ret(k2, q2, argc))
  BY <1>5, <1>7, <1>8, <1>13, PagesGood
<1>9. \A t, r : Even(kk, t) => Good(kk, pr, u, Ret(t, q, r))
  BY <1>2, GoodEven
<1> HIDE DEF q, k2
<1>10. Good(kk, pr, u, y)
  BY <1>1, <1>5, <1>6, <1>8, <1>9, EvenSame
<1> QED BY <1>10 DEF y, q

\* A pipe is written over.
PutPipe(s, i, r) == [s EXCEPT !.pipe[i] = r]

LEMMA PutPipeIs ==
  ASSUME NEW s, Shape(s), NEW i \in 1 .. NFILE, NEW r, OnePipe(r)
  PROVE  /\ Shape(PutPipe(s, i, r)) /\ PutPipe(s, i, r).file = s.file
         /\ PutPipe(s, i, r).inode = s.inode /\ PutPipe(s, i, r).panic = s.panic
         /\ PutPipe(s, i, r).pipe[i] = r
         /\ \A n \in 1 .. NFILE : n # i => PutPipe(s, i, r).pipe[n] = s.pipe[n]
<1> DEFINE v == [s.pipe EXCEPT ![i] = r]
           t == [s EXCEPT !.pipe = v]
<1>1. DOMAIN v = 1 .. NFILE /\ v[i] = r /\ \A n \in 1 .. NFILE : n # i => v[n] = s.pipe[n]
  BY DEF Shape, Pipes
<1>2. t.pipe = v /\ t.inode = s.inode /\ t.file = s.file /\ t.panic = s.panic
      /\ DOMAIN t = DOMAIN s
  <2> HIDE DEF v
  <2> QED BY DEF Shape, Fields
<1>3. PutPipe(s, i, r) = t
  BY DEF PutPipe
<1> HIDE DEF t, v
<1> QED BY <1>1, <1>2, <1>3 DEF Shape, Table, Pipes

\* The state with a new pipe and its two ends.
NewPipe(s, i, r, f0, e0, f1, e1) ==
  [s EXCEPT !.free = @ - 1, !.pipe[i] = r, !.file[f0] = e0, !.file[f1] = e1]

LEMMA NewPipeIs ==
  ASSUME NEW s, Shape(s), NEW i \in 1 .. NFILE, NEW r, OnePipe(r),
         NEW f0 \in Files, NEW e0, File(e0), NEW f1 \in Files, NEW e1, File(e1), f0 # f1,
         NEW t, t = NewPipe(s, i, r, f0, e0, f1, e1)
  PROVE  /\ Shape(t) /\ t.file[f0] = e0 /\ t.file[f1] = e1 /\ t.pipe[i] = r
         /\ \A g \in Files \ {f0, f1} : t.file[g] = s.file[g]
         /\ \A n \in 1 .. NFILE : n # i => t.pipe[n] = s.pipe[n]
         /\ t.inode = s.inode /\ t.panic = s.panic /\ t.free = s.free - 1
<1> DEFINE F == [s.file EXCEPT ![f0] = e0]
           G == [F EXCEPT ![f1] = e1]
           P == [s.pipe EXCEPT ![i] = r]
           w == [s EXCEPT !.free = s.free - 1, !.pipe = P, !.file = G]
<1>1. t = w
  BY DEF NewPipe
<1>2. /\ DOMAIN G = Files /\ G[f0] = e0 /\ G[f1] = e1
      /\ \A g \in Files \ {f0, f1} : G[g] = s.file[g]
  BY DEF Shape, Table
<1>3. DOMAIN P = 1 .. NFILE /\ P[i] = r /\ \A n \in 1 .. NFILE : n # i => P[n] = s.pipe[n]
  BY DEF Shape, Pipes
<1> HIDE DEF F, G, P
<1>4. w.file = G /\ w.pipe = P /\ w.inode = s.inode /\ w.panic = s.panic /\ DOMAIN w = DOMAIN s
      /\ w.free = s.free - 1
  BY DEF Shape, Fields
<1> HIDE DEF w
<1> QED BY <1>1, <1>2, <1>3, <1>4 DEF Shape, Table, Pipes

\* The only reference to an end of a pipe goes.
LEMMA CloseEnd ==
  ASSUME NEW s, Shape(s), NEW f \in Files, NEW i \in 1 .. NFILE, NEW w \in BOOLEAN,
         EndOf(s, f, i, w), s.file[f].ref = 1, NEW t, t = fileclose(s, f)
  PROVE  /\ Shape(t) /\ AlikeBut(s, t, {f}) /\ t.file[f].ref = 0
         /\ t.inode = s.inode /\ t.panic = s.panic
         /\ \A n \in 1 .. NFILE : n # i => t.pipe[n] = s.pipe[n]
         /\ t.pipe[i].readopen = (w /\ s.pipe[i].readopen)
         /\ t.pipe[i].writeopen = (~w /\ s.pipe[i].writeopen)
         /\ \/ PageOf(t, i) = 1 /\ t.free = s.free
            \/ PageOf(t, i) = 0 /\ t.free = s.free + 1
<1> DEFINE ff  == s.file[f]
           j   == PutFile(s, f, NoFile)
           pi  == pipeclose(j, ff.pipe, ff.writable)
           ino == iput(j, ff.ip)
           out == Panic(s, "fileclose")
           less == [s EXCEPT !.file[f].ref = @ - 1]
<1>1. t = CASE ff.ref < 1 -> out
            [] ff.ref > 1 -> less
            [] ff.ref = 1 /\ ff.type = "pipe" -> pi
            [] ff.ref = 1 /\ ff.type \in {"inode", "device"} -> ino
            [] OTHER -> j
  BY DEF fileclose, PutFile
<1>2. ff.ref = 1 /\ ff.type = "pipe" /\ ff.pipe = i /\ ff.writable = w
  BY DEF EndOf
<1> HIDE DEF out, less, ino
<1>3. t = pi
  <2> HIDE DEF pi, j, ff
  <2> QED BY <1>1, <1>2
<1>4. t = pipeclose(j, i, w)
  BY <1>2, <1>3
<1>5. /\ Shape(j) /\ AlikeBut(s, j, {f}) /\ j.file[f] = NoFile /\ j.inode = s.inode
      /\ j.pipe = s.pipe /\ j.panic = s.panic /\ j.free = s.free
  BY NoFileIs, PutFileIs
<1> HIDE DEF j, pi
<1>6. /\ Shape(t) /\ t.file = j.file /\ t.inode = j.inode /\ t.panic = j.panic
      /\ \A n \in 1 .. NFILE : n # i => t.pipe[n] = j.pipe[n]
      /\ t.pipe[i].readopen = (w /\ j.pipe[i].readopen)
      /\ t.pipe[i].writeopen = (~w /\ j.pipe[i].writeopen)
      /\ \/ PageOf(t, i) = 1 /\ t.free = j.free
         \/ PageOf(t, i) = 0 /\ t.free = j.free + 1
  BY <1>4, <1>5, PipecloseIs
<1> QED BY <1>5, <1>6, NoFileIs DEF AlikeBut

IsEnd(e, i, w) == File(e) /\ e.ref = 1 /\ e.type = "pipe" /\ e.pipe = i /\ e.writable = w
Shut(r)        == r.readopen = FALSE /\ r.writeopen = FALSE
BothOpen(r)    == OnePipe(r) /\ r.readopen = TRUE /\ r.writeopen = TRUE

\* Two descriptors for the two ends of a new pipe.
LEMMA PipeOpens ==
  ASSUME NEW kk, NEW pr, Counted(kk, pr), NEW i \in 1 .. NFILE,
         Shut(kk.pipe[i]), NEW f0 \in Files, NEW f1 \in Files, f0 # f1, kk.file[f0].ref = 0, kk.file[f1].ref = 0,
         NEW r, BothOpen(r), NEW e0, IsEnd(e0, i, FALSE), NEW e1, IsEnd(e1, i, TRUE),
         NEW j, j = NewPipe(kk, i, r, f0, e0, f1, e1),
         NEW pr1, NEW pr2, NEW p, NEW fd0, NEW fd1,
         Moves(pr, pr1, p, fd0, 0, f0), Moves(pr1, pr2, p, fd1, 0, f1)
  PROVE  Counted(j, pr2)
<1> DEFINE r1 == [readopen |-> TRUE, writeopen |-> FALSE, data |-> <<>>]
           s  == PutPipe(kk, i, r1)
           h  == PutFile(s, f0, e0)
<1>1. Shape(kk)
  BY DEF Counted, Shape
<1>2. OnePipe(r1) /\ r1.readopen = TRUE /\ r1.writeopen = FALSE
  BY DEF OnePipe
<1> HIDE DEF r1
<1>3. /\ Shape(s) /\ s.file = kk.file /\ s.inode = kk.inode /\ s.pipe[i] = r1
      /\ \A n \in 1 .. NFILE : n # i => s.pipe[n] = kk.pipe[n]
  BY <1>1, <1>2, PutPipeIs
<1> HIDE DEF s
<1>4. /\ Shape(h) /\ AlikeBut(s, h, {f0}) /\ h.file[f0] = e0 /\ h.inode = s.inode /\ h.pipe = s.pipe
  BY <1>3, PutFileIs DEF IsEnd
<1> HIDE DEF h
<1>5. AlikeBut(kk, h, {f0}) /\ EndOf(h, f0, i, FALSE) /\ h.file[f0].ref = 1
  BY <1>3, <1>4 DEF AlikeBut, EndOf, IsEnd
<1>6. h.pipe[i].readopen = TRUE /\ h.pipe[i].writeopen = kk.pipe[i].writeopen
  BY <1>2, <1>3, <1>4 DEF Shut
<1>7. h.inode = kk.inode /\ \A n \in 1 .. NFILE : n # i => h.pipe[n] = kk.pipe[n]
  BY <1>3, <1>4
<1>8. Counted(h, pr1)
  <2>1. FALSE \in BOOLEAN /\ (FALSE = TRUE => kk.pipe[i].writeopen = FALSE)
        /\ (FALSE = FALSE => kk.pipe[i].readopen = FALSE)
    BY DEF Shut
  <2> QED BY <1>4, <1>5, <1>6, <1>7, <2>1, EndOpens
<1>9. /\ Shape(j) /\ j.file[f0] = e0 /\ j.file[f1] = e1 /\ j.pipe[i] = r
      /\ \A g \in Files \ {f0, f1} : j.file[g] = kk.file[g]
      /\ \A n \in 1 .. NFILE : n # i => j.pipe[n] = kk.pipe[n]
      /\ j.inode = kk.inode
  BY <1>1, NewPipeIs DEF BothOpen, IsEnd
<1>10. h.file[f1].ref = 0
  BY <1>5 DEF AlikeBut, Alike
<1>11. AlikeBut(h, j, {f1}) /\ EndOf(j, f1, i, TRUE) /\ j.file[f1].ref = 1
  <2>1. \A g \in Files \ {f1} : Alike(h.file[g], j.file[g])
    <3>1. \A g \in Files \ {f0, f1} : Alike(h.file[g], j.file[g])
      BY <1>5, <1>9 DEF AlikeBut, Alike
    <3>2. Alike(h.file[f0], j.file[f0])
      BY <1>4, <1>9 DEF Alike
    <3> QED BY <3>1, <3>2
  <2>2. EndOf(j, f1, i, TRUE) /\ j.file[f1].ref = 1
    BY <1>9 DEF EndOf, IsEnd
  <2> QED BY <2>1, <2>2 DEF AlikeBut
<1>12. h.pipe[i].writeopen = FALSE /\ j.pipe[i].writeopen = TRUE
       /\ j.pipe[i].readopen = h.pipe[i].readopen
  BY <1>6, <1>9 DEF Shut, BothOpen
<1>13. j.inode = h.inode /\ \A n \in 1 .. NFILE : n # i => j.pipe[n] = h.pipe[n]
  BY <1>7, <1>9
<1> DEFINE w == TRUE
<1>14. /\ w \in BOOLEAN /\ (w = TRUE => h.pipe[i].writeopen = FALSE)
       /\ (w = FALSE => h.pipe[i].readopen = FALSE)
       /\ (w = TRUE => j.pipe[i].writeopen = TRUE /\ j.pipe[i].readopen = h.pipe[i].readopen)
       /\ (w = FALSE => j.pipe[i].readopen = TRUE /\ j.pipe[i].writeopen = h.pipe[i].writeopen)
       /\ EndOf(j, f1, i, w)
  BY <1>11, <1>12
<1>15. Shape(j) /\ AlikeBut(h, j, {f1}) /\ j.file[f1].ref = 1
  BY <1>9, <1>11
<1> HIDE DEF w
<1> QED BY <1>8, <1>10, <1>13, <1>14, <1>15, EndOpens

LEMMA PipeCallGood ==
  ASSUME NEW kk, NEW pr, Counted(kk, pr), NEW u \in UsersOf(pr), NEW c
  PROVE  Good(kk, pr, u, sys_pipe(kk, pr[u], c))
<1> DEFINE p    == pr[u]
           f0   == filealloc(kk)
           k0   == [kk EXCEPT !.file[f0].ref = 1]
           f1   == filealloc(k0)
           i    == Min({n \in DOMAIN kk.pipe : ~kk.pipe[n].readopen /\ ~kk.pipe[n].writeopen})
           end  == [NoFile EXCEPT !.ref = 1, !.type = "pipe", !.pipe = i]
           r    == [NoPipe EXCEPT !.readopen = TRUE, !.writeopen = TRUE]
           e0   == [end EXCEPT !.readable = TRUE]
           e1   == [end EXCEPT !.writable = TRUE]
           j    == NewPipe(kk, i, r, f0, e0, f1, e1)
           fd0  == fdalloc(p)
           q    == [p EXCEPT !.ofile[fd0] = f0]
           fd1  == fdalloc(q)
           a    == fileclose(j, f0)
           b    == fileclose(a, f1)
           fds  == <<fd0, fd1>>
           q2   == [q EXCEPT !.ofile[fd1] = f1, !.buf = fds]
           y    == sys_pipe(kk, p, c)
<1>1. \/ y = Ret(kk, p, -1)
      \/ f0 # 0 /\ f1 # 0 /\ kk.free # 0 /\ y = Ret(b, p, -1)
      \/ f0 # 0 /\ f1 # 0 /\ kk.free # 0 /\ ~(fd0 < 0) /\ ~(fd1 < 0) /\ y = Ret(j, q2, 0)
  BY DEF sys_pipe, NewPipe
<1>2. Owner(p) /\ p.st = "run" /\ Shape(kk) /\ Procs(pr) /\ Refs(kk) /\ SameOwner(p, p)
  BY UserOwns DEF Counted
<1>3. OnePipe(r) /\ r.readopen = TRUE /\ r.writeopen = TRUE
  BY DEF OnePipe, NoPipe
<1> HIDE DEF i
<1>4. /\ {"ref", "type", "ip", "pipe", "readable", "writable", "off"} \subseteq DOMAIN end
      /\ end.ref = 1 /\ end.type = "pipe" /\ end.pipe = i
      /\ end.readable = FALSE /\ end.writable = FALSE
  BY DEF NoFile
<1> HIDE DEF end
<1>5. e0.ref = 1 /\ e0.type = "pipe" /\ e0.pipe = i /\ e0.writable = FALSE /\ e0.readable = TRUE
      /\ FileFields \subseteq DOMAIN e0
  BY <1>4 DEF FileFields
<1>6. e1.ref = 1 /\ e1.type = "pipe" /\ e1.pipe = i /\ e1.writable = TRUE /\ e1.readable = FALSE
      /\ FileFields \subseteq DOMAIN e1
  BY <1>4 DEF FileFields
<1> HIDE DEF e0, e1, r, y
<1>7. ASSUME f0 # 0, f1 # 0
      PROVE  /\ f0 \in Files /\ f1 \in Files /\ f0 # f1
             /\ kk.file[f0].ref = 0 /\ kk.file[f1].ref = 0
             /\ i \in 1 .. NFILE /\ kk.pipe[i].readopen = FALSE /\ kk.pipe[i].writeopen = FALSE
             /\ File(e0) /\ File(e1)
  <2>1. f0 \in Files /\ kk.file[f0].ref = 0
    BY <1>7, FileallocIs
  <2>2. f1 \in Files /\ k0.file[f1].ref = 0
    <3> HIDE DEF k0
    <3> QED BY <1>7, FileallocIs
  <2> HIDE DEF f0
  <2>3. k0.file[f0].ref = 1 /\ \A g \in Files \ {f0} : k0.file[g] = kk.file[g]
    <3> DEFINE e == [kk.file[f0] EXCEPT !.ref = 1]
    <3>1. k0 = PutFile(kk, f0, e)
      BY DEF PutFile
    <3>2. e.ref = 1
      BY <1>2, <2>1 DEF Shape, Table, File, FileFields
    <3> DEFINE v == [kk.file EXCEPT ![f0] = e]
    <3>3. v[f0] = e /\ \A g \in Files \ {f0} : v[g] = kk.file[g]
      BY <1>2, <2>1 DEF Shape, Table
    <3> HIDE DEF e, k0, v
    <3>4. k0.file = v
      BY <1>2, <3>1 DEF PutFile, Shape, Fields, v
    <3> QED BY <3>2, <3>3, <3>4
  <2> HIDE DEF f1
  <2>4. f0 # f1 /\ kk.file[f1].ref = 0
    <3> HIDE DEF k0
    <3> QED BY <2>1, <2>2, <2>3
  <2>5. i \in 1 .. NFILE /\ kk.pipe[i].readopen = FALSE /\ kk.pipe[i].writeopen = FALSE
    BY <2>1, FreePipe DEF i
  <2>6. File(e0) /\ File(e1)
    <3>1. e0.writable = ~e0.readable /\ e1.writable = ~e1.readable
      BY <1>5, <1>6
    <3>2. e0.readable \in BOOLEAN /\ e1.readable \in BOOLEAN
      BY <1>5, <1>6
    <3> QED BY <1>5, <1>6, <2>5, <3>1, <3>2 DEF File
  <2> QED BY <2>1, <2>2, <2>4, <2>5, <2>6
<1>8. ASSUME f0 # 0, f1 # 0, kk.free # 0
      PROVE  Good(kk, pr, u, Ret(b, p, -1))
  <2> HIDE DEF f0, f1, j
  <2>1. /\ Shape(j) /\ j.file[f0] = e0 /\ j.file[f1] = e1 /\ j.pipe[i] = r
        /\ \A g \in Files \ {f0, f1} : j.file[g] = kk.file[g]
        /\ \A n \in 1 .. NFILE : n # i => j.pipe[n] = kk.pipe[n]
        /\ j.inode = kk.inode /\ j.panic = kk.panic /\ j.free = kk.free - 1
    BY <1>2, <1>3, <1>7, <1>8, NewPipeIs DEF j
  <2>2. EndOf(j, f0, i, FALSE) /\ j.file[f0].ref = 1
    BY <1>5, <2>1 DEF EndOf
  <2>3. /\ Shape(a) /\ AlikeBut(j, a, {f0}) /\ a.file[f0].ref = 0
        /\ a.inode = j.inode /\ a.panic = j.panic
        /\ \A n \in 1 .. NFILE : n # i => a.pipe[n] = j.pipe[n]
        /\ a.pipe[i].readopen = (FALSE /\ j.pipe[i].readopen)
        /\ a.pipe[i].writeopen = (~FALSE /\ j.pipe[i].writeopen)
        /\ \/ PageOf(a, i) = 1 /\ a.free = j.free
           \/ PageOf(a, i) = 0 /\ a.free = j.free + 1
    <3> DEFINE w == FALSE
    <3>1. w \in BOOLEAN /\ EndOf(j, f0, i, w)
      BY <2>2
    <3> HIDE DEF w, a
    <3>4. a = fileclose(j, f0)
      BY DEF a
    <3>3. Shape(j) /\ f0 \in Files /\ i \in 1 .. NFILE /\ j.file[f0].ref = 1
      BY <1>7, <1>8, <2>1, <2>2
    <3>2. /\ Shape(a) /\ AlikeBut(j, a, {f0}) /\ a.file[f0].ref = 0
          /\ a.inode = j.inode /\ a.panic = j.panic
          /\ \A n \in 1 .. NFILE : n # i => a.pipe[n] = j.pipe[n]
          /\ a.pipe[i].readopen = (w /\ j.pipe[i].readopen)
          /\ a.pipe[i].writeopen = (~w /\ j.pipe[i].writeopen)
          /\ \/ PageOf(a, i) = 1 /\ a.free = j.free
             \/ PageOf(a, i) = 0 /\ a.free = j.free + 1
      BY <3>1, <3>3, <3>4, CloseEnd
    <3> QED BY <3>2 DEF w
  <2> HIDE DEF a
  <2>4. Alike(j.file[f1], a.file[f1])
    BY <1>7, <1>8, <2>3 DEF AlikeBut
  <2>5. EndOf(a, f1, i, TRUE) /\ a.file[f1].ref = 1
    BY <1>6, <2>1, <2>4 DEF EndOf, Alike
  <2>6. /\ Shape(b) /\ AlikeBut(a, b, {f1}) /\ b.file[f1].ref = 0
        /\ b.inode = a.inode /\ b.panic = a.panic
        /\ \A n \in 1 .. NFILE : n # i => b.pipe[n] = a.pipe[n]
        /\ b.pipe[i].readopen = (TRUE /\ a.pipe[i].readopen)
        /\ b.pipe[i].writeopen = (~TRUE /\ a.pipe[i].writeopen)
        /\ \/ PageOf(b, i) = 1 /\ b.free = a.free
           \/ PageOf(b, i) = 0 /\ b.free = a.free + 1
    <3> DEFINE w == TRUE
    <3>1. w \in BOOLEAN /\ EndOf(a, f1, i, w)
      BY <2>5
    <3> HIDE DEF w, b
    <3>4. b = fileclose(a, f1)
      BY DEF b
    <3>3. Shape(a) /\ f1 \in Files /\ i \in 1 .. NFILE /\ a.file[f1].ref = 1
      BY <1>7, <1>8, <2>3, <2>5
    <3>2. /\ Shape(b) /\ AlikeBut(a, b, {f1}) /\ b.file[f1].ref = 0
          /\ b.inode = a.inode /\ b.panic = a.panic
          /\ \A n \in 1 .. NFILE : n # i => b.pipe[n] = a.pipe[n]
          /\ b.pipe[i].readopen = (w /\ a.pipe[i].readopen)
          /\ b.pipe[i].writeopen = (~w /\ a.pipe[i].writeopen)
          /\ \/ PageOf(b, i) = 1 /\ b.free = a.free
             \/ PageOf(b, i) = 0 /\ b.free = a.free + 1
      BY <3>1, <3>3, <3>4, CloseEnd
    <3> QED BY <3>2 DEF w
  <2> HIDE DEF b
  <2>7. AlikeBut(kk, b, {})
    <3>1. ASSUME NEW g \in Files
          PROVE  Alike(kk.file[g], b.file[g])
      <4>1. CASE g = f1
        BY <1>7, <1>8, <2>6, <4>1 DEF Alike
      <4>2. CASE g = f0
        BY <1>7, <1>8, <2>3, <2>6, <4>2 DEF Alike, AlikeBut
      <4>3. CASE g \in Files \ {f0, f1}
        BY <2>1, <2>3, <2>6, <4>3 DEF Alike, AlikeBut
      <4> QED BY <4>1, <4>2, <4>3
    <3> QED BY <3>1 DEF AlikeBut
  <2>8. SamePipes(kk, b)
    <3>1. b.pipe[i].readopen = FALSE /\ b.pipe[i].writeopen = FALSE
      BY <2>3, <2>6
    <3>2. \A n \in 1 .. NFILE : n # i => b.pipe[n] = kk.pipe[n]
      BY <2>1, <2>3, <2>6
    <3> QED BY <1>7, <1>8, <3>1, <3>2 DEF SamePipes
  <2>9. Kept(kk, b) /\ b.panic = kk.panic
    BY <1>2, <2>1, <2>3, <2>6 DEF Kept, Refs
  <2>10. SameOwners(pr, [pr EXCEPT ![u] = p])
    BY <1>2, OwnerStays
  <2>11. Counted(b, [pr EXCEPT ![u] = p])
    BY <2>6, <2>7, <2>8, <2>9, <2>10, CountsSame
  <2>12. Fair(kk, pr[u], b, p)
    <3>1. ASSUME kk.free \in Nat
          PROVE  b.free = kk.free
      <4>1. a.pipe[i].writeopen = TRUE
        BY <1>3, <2>1, <2>3
      <4>2. PageOf(a, i) = 1 /\ a.free = kk.free - 1
        BY <2>1, <2>3, <4>1 DEF PageOf
      <4>3. b.pipe[i].readopen = FALSE /\ b.pipe[i].writeopen = FALSE
        BY <2>3, <2>6
      <4>4. PageOf(b, i) = 0
        BY <4>3 DEF PageOf
      <4> QED BY <2>6, <3>1, <4>2, <4>4
    <3>2. OpenPipes(b) = OpenPipes(kk)
      BY <2>8, PipesSteady
    <3> QED BY <3>1, <3>2 DEF Fair, Room
  <2> HIDE DEF p
  <2> QED BY <1>2, <2>11, <2>12, GoodIf
<1>9. ASSUME f0 # 0, f1 # 0, kk.free # 0, ~(fd0 < 0), ~(fd1 < 0)
      PROVE  Good(kk, pr, u, Ret(j, q2, 0))
  <2> DEFINE pr1 == [pr EXCEPT ![u] = q]
  <2>1. fd0 \in 0 .. NOFILE - 1
    BY <1>2, <1>9, FdallocIs
  <2>2. Moves(pr, pr1, u, fd0, 0, f0) /\ q.st = "run" /\ Owner(q) /\ SameMem(p, q)
    BY <1>7, <1>9, <2>1, TakesFd
  <2>3. pr1[u] = q /\ u \in Slots
    BY <1>2 DEF Procs, UsersOf
  <2>4. [pr1 EXCEPT ![u] = q2] = [pr EXCEPT ![u] = q2]
    <3> HIDE DEF q2, q
    <3> QED BY <1>2, <2>3 DEF Procs
  <2> HIDE DEF pr1, q, fds
  <2>5. Procs(pr1) /\ u \in UsersOf(pr1)
    BY <2>2 DEF Moves
  <2>6. fd1 \in 0 .. NOFILE - 1 /\ q.ofile[fd1] = 0
    BY <1>9, <2>2, FdallocIs
  <2>7. f1 \in 0 .. NFILE
    BY <1>7, <1>9, Constants DEF Files
  <2> HIDE DEF fd1, f1, f0
  <2>12. SameMem(q, q2)
    <3> DEFINE v == [q.ofile EXCEPT ![fd1] = f1]
    <3>1. q2 = [q EXCEPT !.ofile = v, !.buf = fds]
      OBVIOUS
    <3> HIDE DEF v, q2
    <3> QED BY <3>1 DEF SameMem, Mem
  <2>8. q2.st = "run" /\ q2.cwd = q.cwd /\ q2.ofile = [q.ofile EXCEPT ![fd1] = f1]
    <3> DEFINE v == [q.ofile EXCEPT ![fd1] = f1]
    <3>1. q2 = [q EXCEPT !.ofile = v, !.buf = fds]
      OBVIOUS
    <3> HIDE DEF v, q2
    <3>2. q2.st = "run" /\ q2.cwd = q.cwd /\ q2.ofile = v
      BY <2>2, <3>1 DEF Owner
    <3> QED BY <3>2 DEF v
  <2>9. Owner(q2)
    <3>1. DOMAIN q2 = DOMAIN q
      OBVIOUS
    <3> HIDE DEF q2
    <3> QED BY <2>2, <2>6, <2>7, <2>8, <3>1 DEF Owner
  <2> HIDE DEF q2
  <2>10. Moves(pr1, [pr1 EXCEPT ![u] = q2], u, fd1, 0, f1)
    BY <2>3, <2>5, <2>6, <2>8, <2>9, OwnerMoves
  <2> HIDE DEF j
  <2>11. Counted(j, [pr EXCEPT ![u] = q2])
    <3>1. BothOpen(r) /\ IsEnd(e0, i, FALSE) /\ IsEnd(e1, i, TRUE) /\ Shut(kk.pipe[i])
      BY <1>3, <1>5, <1>6, <1>7, <1>9 DEF BothOpen, IsEnd, Shut
    <3> QED BY <1>7, <1>9, <2>2, <2>4, <2>10, <3>1, PipeOpens DEF j
  <2>13. ASSUME kk.free \in Nat
         PROVE  j.free \in Nat /\ Room(j) = Room(kk)
    <3>1. /\ j.pipe[i] = r /\ j.free = kk.free - 1
          /\ \A n \in 1 .. NFILE : n # i => j.pipe[n] = kk.pipe[n]
      BY <1>2, <1>3, <1>7, <1>9, NewPipeIs DEF j
    <3>2. PageOf(j, i) = 1 /\ PageOf(kk, i) = 0
      BY <1>3, <1>7, <1>9, <3>1 DEF PageOf
    <3>3. j.free \in Nat /\ j.free + PageOf(j, i) = kk.free + PageOf(kk, i)
      BY <1>9, <2>13, <3>1, <3>2
    <3> QED BY <1>7, <1>9, <2>13, <3>1, <3>3, RoomMoves
  <2>14. Fair(kk, p, j, q2)
    BY <2>2, <2>12, <2>13 DEF Fair, SameMem
  <2> QED BY <2>8, <2>11, <2>14, GoodIf
<1>10. Good(kk, pr, u, Ret(kk, p, -1))
  BY GoodNothing
<1> HIDE DEF p, f0, f1, fd0, fd1, j, q2, b
<1>11. Good(kk, pr, u, y)
  BY <1>1, <1>8, <1>9, <1>10
<1> QED BY <1>11 DEF y, p

----------------------------------------------------------------------------
(* fork() and exit().                                                      *)

\* Process n comes to hold what process u holds.
Forks(pr, pr2, u, n) ==
  /\ Procs(pr2) /\ UsersOf(pr2) = UsersOf(pr) \cup {n} /\ n \notin UsersOf(pr)
  /\ u \in UsersOf(pr) /\ n \in Slots
  /\ \A m \in UsersOf(pr) : pr2[m].ofile = pr[m].ofile /\ pr2[m].cwd = pr[m].cwd
  /\ pr2[n].ofile = pr[u].ofile /\ pr2[n].cwd = pr[u].cwd

LEMMA ForkOpens ==
  ASSUME NEW pr, NEW pr2, NEW u, NEW n, Forks(pr, pr2, u, n), NEW f
  PROVE  /\ IsFiniteSet(Fds(pr[u], f)) /\ Cardinality(Fds(pr[u], f)) \in Nat
         /\ Cardinality(OpenedBy(pr2, f)) = Cardinality(OpenedBy(pr, f)) + Cardinality(Fds(pr[u], f))
<1> DEFINE S == OpenedBy(pr, f)
           D == Fds(pr[u], f)
           T == {n} \X D
<1>1. IsFiniteSet(S) /\ Cardinality(S) \in Nat
  BY FiniteCounts, FS_CardinalityType
<1>2. IsFiniteSet(D) /\ Cardinality(D) \in Nat
  <2>1. IsFiniteSet(0 .. NOFILE - 1) /\ D \subseteq 0 .. NOFILE - 1
    BY Constants, FS_Interval DEF Fds
  <2> QED BY <2>1, FS_Subset, FS_CardinalityType
<1>3. IsFiniteSet({n}) /\ Cardinality({n}) = 1
  BY FS_Singleton
<1>4. IsFiniteSet(T) /\ Cardinality(T) = 1 * Cardinality(D)
  <2> HIDE DEF D
  <2> QED BY <1>2, <1>3, FS_Product
<1>5. OpenedBy(pr2, f) = S \cup T
  <2>1. ASSUME NEW m, NEW d
        PROVE  <<m, d>> \in OpenedBy(pr2, f) <=> <<m, d>> \in S \/ <<m, d>> \in T
    BY DEF OpenedBy, Forks, Fds
  <2>2. OpenedBy(pr2, f) \subseteq Slots \X (0 .. NOFILE - 1)
    BY DEF OpenedBy, UsersOf
  <2>3. S \subseteq Slots \X (0 .. NOFILE - 1) /\ T \subseteq Slots \X (0 .. NOFILE - 1)
    BY DEF OpenedBy, UsersOf, Fds, Forks
  <2> HIDE DEF S, T
  <2> QED BY <2>1, <2>2, <2>3
<1>6. S \cap T = {}
  BY DEF OpenedBy, Forks
<1> HIDE DEF S, T, D
<1>7. Cardinality(S \cup T) = Cardinality(S) + Cardinality(T) - Cardinality(S \cap T)
  BY <1>1, <1>4, FS_Union
<1>8. Cardinality(S \cap T) = 0
  BY <1>6, FS_EmptySet
<1>9. Cardinality(S \cup T) = Cardinality(S) + Cardinality(D)
  BY <1>1, <1>2, <1>4, <1>7, <1>8
<1> QED BY <1>2, <1>5, <1>9 DEF S, D

LEMMA ForkWithin ==
  ASSUME NEW pr, NEW pr2, NEW u, NEW n, Forks(pr, pr2, u, n), NEW i
  PROVE  /\ Cardinality(Within(pr, i)) \in Nat /\ Cardinality(Within(pr2, i)) \in Nat
         /\ Cardinality(Within(pr2, i)) = Cardinality(Within(pr, i)) + One(pr[u].cwd, i)
<1> DEFINE S == Within(pr, i)
           T == Within(pr2, i)
<1>1. IsFiniteSet(S)
  BY FiniteCounts
<1>2. \A y : y # n => (y \in S <=> y \in T)
  BY DEF Within, Forks
<1>3. n \notin S /\ (n \in T <=> pr[u].cwd = i)
  BY DEF Within, Forks
<1> HIDE DEF S, T
<1>4. /\ Cardinality(S) \in Nat /\ Cardinality(T) \in Nat
      /\ Cardinality(T) + (IF n \in S THEN 1 ELSE 0) = Cardinality(S) + (IF n \in T THEN 1 ELSE 0)
  BY <1>1, <1>2, SetCount
<1>5. Cardinality(T) = Cardinality(S) + One(pr[u].cwd, i)
  BY <1>3, <1>4 DEF One
<1> QED BY <1>4, <1>5 DEF S, T

\* Every descriptor of the child, and its directory, is one more reference.
LEMMA ForkCounted ==
  ASSUME NEW kk, NEW pr, Counted(kk, pr), NEW pr2, NEW u, NEW n, Forks(pr, pr2, u, n),
         NEW k2, Shape(k2), SamePipes(kk, k2), Gained(kk, k2, pr[u].cwd),
         \A f \in Files :
           /\ k2.file[f].ref = kk.file[f].ref + Cardinality(Fds(pr[u], f))
           /\ k2.file[f].type = kk.file[f].type /\ k2.file[f].ip = kk.file[f].ip
           /\ k2.file[f].pipe = kk.file[f].pipe /\ k2.file[f].writable = kk.file[f].writable
  PROVE  Counted(k2, pr2)
<1>1. ASSUME NEW f \in Files
      PROVE  /\ k2.file[f].ref = Cardinality(OpenedBy(pr2, f))
             /\ k2.file[f].ref > 0 <=> kk.file[f].ref > 0
  <2> DEFINE D == Fds(pr[u], f)
  <2>1. /\ IsFiniteSet(D) /\ Cardinality(D) \in Nat
        /\ Cardinality(OpenedBy(pr2, f)) = Cardinality(OpenedBy(pr, f)) + Cardinality(D)
    BY ForkOpens
  <2>2. kk.file[f].ref = Cardinality(OpenedBy(pr, f)) /\ kk.file[f].ref \in Nat
    BY DEF Counted, FilesCounted, Table, File
  <2>3. ASSUME Cardinality(D) # 0
        PROVE  kk.file[f].ref # 0
    <3>1. PICK d : d \in D
      BY <2>1, <2>3, FS_EmptySet
    <3>2. <<u, d>> \in OpenedBy(pr, f)
      BY <3>1 DEF OpenedBy, Fds, Forks
    <3>3. IsFiniteSet(OpenedBy(pr, f))
      BY FiniteCounts
    <3> QED BY <2>2, <3>2, <3>3, FS_EmptySet
  <2>4. k2.file[f].ref = kk.file[f].ref + Cardinality(D)
    OBVIOUS
  <2> HIDE DEF D
  <2> QED BY <2>1, <2>2, <2>3, <2>4
<1>2. InodesCounted(k2, pr2)
  <2>1. ASSUME NEW i \in Inums
        PROVE  k2.inode[i].ref = Cardinality(Stands(k2, i)) + Cardinality(Within(pr2, i))
    <3>1. Stands(k2, i) = Stands(kk, i)
      <4>1. \A f \in Files : f \in Stands(k2, i) <=> f \in Stands(kk, i)
        BY <1>1 DEF Stands
      <4> QED BY <4>1 DEF Stands
    <3>2. /\ Cardinality(Within(pr, i)) \in Nat
          /\ Cardinality(Within(pr2, i)) = Cardinality(Within(pr, i)) + One(pr[u].cwd, i)
      BY ForkWithin
    <3>3. kk.inode[i].ref = Cardinality(Stands(kk, i)) + Cardinality(Within(pr, i))
      BY DEF Counted, InodesCounted
    <3>4. k2.inode[i].ref = kk.inode[i].ref + One(pr[u].cwd, i)
      BY DEF Gained
    <3>5. Cardinality(Stands(kk, i)) \in Nat
      BY FiniteCounts, FS_CardinalityType
    <3> QED BY <3>1, <3>2, <3>3, <3>4, <3>5, OneIs
  <2> QED BY <2>1 DEF InodesCounted
<1>3. Ends(k2)
  <2>1. \A f \in Files : \A m, b : EndOf(k2, f, m, b) <=> EndOf(kk, f, m, b)
    BY <1>1 DEF EndOf
  <2> QED BY <2>1, EndsSame DEF Counted
<1>4. FilesCounted(k2, pr2)
  BY <1>1 DEF FilesCounted
<1>5. Refs(k2) /\ Procs(pr2)
  BY DEF Gained, Forks
<1> QED BY <1>2, <1>3, <1>4, <1>5 DEF Counted, Shape

LEMMA FdsHeld ==
  ASSUME NEW kk, NEW pr, Counted(kk, pr), NEW u \in UsersOf(pr), NEW f \in Files
  PROVE  /\ Cardinality(Fds(pr[u], f)) \in Nat /\ kk.file[f].ref \in Nat
         /\ kk.file[f].ref + Cardinality(Fds(pr[u], f)) > 0 => kk.file[f].ref > 0
<1> DEFINE D == Fds(pr[u], f)
<1>1. IsFiniteSet(D) /\ Cardinality(D) \in Nat
  <2>1. IsFiniteSet(0 .. NOFILE - 1) /\ D \subseteq 0 .. NOFILE - 1
    BY Constants, FS_Interval DEF Fds
  <2> QED BY <2>1, FS_Subset, FS_CardinalityType
<1>2. kk.file[f].ref = Cardinality(OpenedBy(pr, f)) /\ kk.file[f].ref \in Nat
  BY DEF Counted, FilesCounted, Table, File
<1>3. ASSUME Cardinality(D) # 0
      PROVE  kk.file[f].ref # 0
  <2>1. PICK d : d \in D
    BY <1>1, <1>3, FS_EmptySet
  <2>2. <<u, d>> \in OpenedBy(pr, f)
    BY <2>1 DEF OpenedBy, Fds
  <2>3. IsFiniteSet(OpenedBy(pr, f))
    BY FiniteCounts
  <2> QED BY <1>2, <2>2, <2>3, FS_EmptySet
<1> HIDE DEF D
<1>4. kk.file[f].ref + Cardinality(D) > 0 => kk.file[f].ref > 0
  BY <1>1, <1>2, <1>3
<1> QED BY <1>1, <1>2, <1>4 DEF D

\* The file table once a child has the descriptors of q too.
Dups(kk, q) == [kk EXCEPT !.file = [f \in Files |->
                  [kk.file[f] EXCEPT !.ref = @ + Cardinality(Fds(q, f))]]]

Forked(kk, k2, q) ==
  /\ Shape(k2) /\ SamePipes(kk, k2) /\ Gained(kk, k2, q.cwd) /\ k2.panic = kk.panic
  /\ \A f \in Files :
       /\ k2.file[f].ref = kk.file[f].ref + Cardinality(Fds(q, f))
       /\ k2.file[f].type = kk.file[f].type /\ k2.file[f].ip = kk.file[f].ip
       /\ k2.file[f].pipe = kk.file[f].pipe /\ k2.file[f].writable = kk.file[f].writable

\* The kernel of a fork() that succeeds: what it has of pages and numbers does not matter.
LEMMA ForkKernel ==
  ASSUME NEW kk, NEW pr, Counted(kk, pr), NEW u \in UsersOf(pr), NEW v, NEW w,
         NEW k2, k2 = [idup(Dups(kk, pr[u]), pr[u].cwd) EXCEPT !.free = v, !.nextpid = w]
  PROVE  Forked(kk, k2, pr[u])
<1> DEFINE new(f) == [kk.file[f] EXCEPT !.ref = @ + Cardinality(Fds(pr[u], f))]
           g == [f \in Files |-> new(f)]
           dup == Dups(kk, pr[u])
           j == idup(dup, pr[u].cwd)
<1>1. Shape(kk) /\ Refs(kk)
  BY DEF Counted, Shape
<1>2. ASSUME NEW f \in Files
      PROVE  /\ File(new(f)) /\ new(f).ref = kk.file[f].ref + Cardinality(Fds(pr[u], f))
             /\ new(f).type = kk.file[f].type /\ new(f).ip = kk.file[f].ip
             /\ new(f).pipe = kk.file[f].pipe /\ new(f).writable = kk.file[f].writable
  <2> DEFINE m == Cardinality(Fds(pr[u], f))
             r == kk.file[f]
  <2>1. m \in Nat /\ r.ref \in Nat /\ (r.ref + m > 0 => r.ref > 0)
    BY FdsHeld
  <2>2. File(r)
    BY <1>1 DEF Shape, Table
  <2>3. new(f) = [r EXCEPT !.ref = r.ref + m]
    OBVIOUS
  <2> HIDE DEF m, r, new
  <2>4. /\ new(f).ref = r.ref + m /\ new(f).type = r.type /\ new(f).ip = r.ip
        /\ new(f).pipe = r.pipe /\ new(f).writable = r.writable
        /\ new(f).readable = r.readable /\ DOMAIN new(f) = DOMAIN r
    BY <2>2, <2>3 DEF File, FileFields
  <2>5. File(new(f))
    BY <2>1, <2>2, <2>4 DEF File
  <2> QED BY <2>4, <2>5 DEF m, r
<1> HIDE DEF new
<1>3. DOMAIN g = Files /\ \A f \in Files : g[f] = new(f)
  OBVIOUS
<1>4. dup = [kk EXCEPT !.file = g]
  BY DEF new, Dups
<1> HIDE DEF g, dup
<1>5. /\ dup.file = g /\ dup.inode = kk.inode /\ dup.pipe = kk.pipe /\ dup.panic = kk.panic
      /\ DOMAIN dup = DOMAIN kk
  BY <1>1, <1>4 DEF Shape, Fields
<1>6. Refs(dup) /\ Fields \subseteq DOMAIN dup
  BY <1>1, <1>5 DEF Refs, Shape
<1>7. Frame(dup, j) /\ Gained(dup, j, pr[u].cwd)
  BY <1>6, IdupGains
<1>8. j.panic = dup.panic /\ Fields \subseteq DOMAIN j
  BY <1>6, <1>7, FrameOn DEF idup, Fields
<1> HIDE DEF j
<1>9. k2 = [j EXCEPT !.free = v, !.nextpid = w]
  BY DEF j, dup
<1>10. /\ k2.file = j.file /\ k2.inode = j.inode /\ k2.pipe = j.pipe /\ k2.panic = j.panic
       /\ DOMAIN k2 = DOMAIN j
  BY <1>8, <1>9 DEF Fields
<1>11. k2.file = g /\ k2.pipe = kk.pipe /\ k2.panic = kk.panic
  BY <1>5, <1>7, <1>8, <1>10 DEF Frame
<1>12. Gained(kk, k2, pr[u].cwd)
  BY <1>5, <1>7, <1>10 DEF Gained, Refs
<1>13. Shape(k2) /\ SamePipes(kk, k2)
  BY <1>1, <1>2, <1>3, <1>8, <1>10, <1>11 DEF Shape, Table, Pipes, SamePipes
<1> QED BY <1>2, <1>3, <1>11, <1>12, <1>13 DEF Forked

\* A kernel that has panicked stays so, also in fileclose().
LEMMA CloseFrame ==
  ASSUME NEW kk, NEW f, Fields \subseteq DOMAIN kk
  PROVE  /\ Fields \subseteq DOMAIN fileclose(kk, f)
         /\ Alive(fileclose(kk, f)) => Alive(kk)
<1> DEFINE On(t) == Fields \subseteq DOMAIN t /\ (Alive(t) => Alive(kk))
           ff   == kk.file[f]
           v    == [kk.file EXCEPT ![f] = NoFile]
           j    == [kk EXCEPT !.file = v]
           z    == [kk.file EXCEPT ![f].ref = @ - 1]
           less == [kk EXCEPT !.file = z]
           out  == Panic(kk, "fileclose")
           w    == ff.writable
           i    == ff.pipe
           pi   == pipeclose(j, i, w)
           ino  == iput(j, ff.ip)
           t    == fileclose(kk, f)
<1>1. t = CASE ff.ref < 1 -> out
            [] ff.ref > 1 -> less
            [] ff.ref = 1 /\ ff.type = "pipe" -> pi
            [] ff.ref = 1 /\ ff.type \in {"inode", "device"} -> ino
            [] OTHER -> j
  BY DEF fileclose
<1> HIDE DEF v, z, w, i
<1>2. On(j) /\ On(less) /\ j.panic = kk.panic
  BY DEF Alive, Fields
<1>3. On(out)
  BY PanicStays, FrameOn DEF Alive, Even
<1>4. On(ino)
  <2> HIDE DEF j
  <2>1. Frame(j, ino)
    BY <1>2, IputLoses
  <2> HIDE DEF ino
  <2> QED BY <1>2, <2>1 DEF Frame, Alive
<1>5. On(pi)
  <2> DEFINE a == IF w THEN [j.pipe[i] EXCEPT !.writeopen = FALSE]
                       ELSE [j.pipe[i] EXCEPT !.readopen = FALSE]
             b == [j.pipe EXCEPT ![i] = a]
             d == [j.pipe EXCEPT ![i] = NoPipe]
             m == j.free + 1
  <2> HIDE DEF j
  <2>1. pi = IF a.readopen \/ a.writeopen THEN [j EXCEPT !.pipe = b]
             ELSE [j EXCEPT !.pipe = d, !.free = m]
    BY DEF pipeclose
  <2> HIDE DEF pi, a, b, d, m
  <2>2. Fields \subseteq DOMAIN pi /\ pi.panic = j.panic
    <3>1. CASE a.readopen \/ a.writeopen
      BY <1>2, <2>1, <3>1 DEF Fields
    <3>2. CASE ~(a.readopen \/ a.writeopen)
      BY <1>2, <2>1, <3>2 DEF Fields
    <3> QED BY <3>1, <3>2
  <2> QED BY <1>2, <2>2 DEF Alive
<1> HIDE DEF On, out, pi, ino, j, less, t, ff
<1>6. On(t)
  <2>1. t \in {out, less, pi, ino, j}
    BY <1>1
  <2> QED BY <1>2, <1>3, <1>4, <1>5, <2>1
<1> QED BY <1>6 DEF On, t

\* Closings(s, q)[n]: the kernel when exit() has closed the first n descriptors.
Closings(s, q) ==
  LET closed[n \in Nat] ==
        IF n = 0 THEN s
        ELSE IF q.ofile[n - 1] = 0 THEN closed[n - 1]
        ELSE fileclose(closed[n - 1], q.ofile[n - 1])
  IN  closed

LEMMA ClosingsRun ==
  ASSUME NEW s, NEW q
  PROVE  /\ Closings(s, q)[0] = s
         /\ \A n \in Nat : Closings(s, q)[n + 1] =
              IF q.ofile[n] = 0 THEN Closings(s, q)[n]
              ELSE fileclose(Closings(s, q)[n], q.ofile[n])
<1> DEFINE F(v, m) == IF q.ofile[m - 1] = 0 THEN v ELSE fileclose(v, q.ofile[m - 1])
           Upto(g, n) == /\ g[0] = s
                         /\ \A m \in Nat : m < n => g[m + 1] = F(g[m], m + 1)
           G(n) == CHOOSE g : Upto(g, n)
           f == [n \in Nat |-> G(n)[n]]
           P(v) == v = [n \in Nat |-> IF n = 0 THEN s ELSE F(v[n - 1], n)]
<1>0. Closings(s, q) = CHOOSE v : P(v)
  BY DEF Closings
<1> HIDE DEF F
<1>1. \A n \in Nat : \E g : Upto(g, n)
  <2> DEFINE S == {n \in Nat : \E g : Upto(g, n)}
  <2>1. 0 \in S
    <3>1. Upto([m \in Nat |-> s], 0)
      OBVIOUS
    <3> QED BY <3>1
  <2>2. ASSUME NEW n \in Nat, n \in S
        PROVE  n + 1 \in S
    <3>1. PICK g : Upto(g, n)
      BY <2>2
    <3> DEFINE h == [m \in Nat |-> IF m = n + 1 THEN F(g[n], n + 1) ELSE g[m]]
    <3>2. h[0] = s
      BY <3>1
    <3>3. ASSUME NEW m \in Nat, m < n + 1
          PROVE  h[m + 1] = F(h[m], m + 1)
      <4>1. CASE m = n
        BY <4>1
      <4>2. CASE m < n
        BY <3>1, <4>2
      <4> QED BY <3>3, <4>1, <4>2
    <3>4. Upto(h, n + 1)
      BY <3>2, <3>3
    <3> HIDE DEF h, Upto
    <3> QED BY <3>4
  <2> HIDE DEF S
  <2>3. Nat \subseteq S
    BY <2>1, <2>2, NatInduct
  <2> QED BY <2>3 DEF S
<1>2. ASSUME NEW n \in Nat, NEW g, NEW h, Upto(g, n), Upto(h, n + 1)
      PROVE  g[n] = h[n]
  <2> DEFINE S == {m \in Nat : m <= n => g[m] = h[m]}
  <2>1. 0 \in S
    BY <1>2
  <2>2. ASSUME NEW m \in Nat, m \in S
        PROVE  m + 1 \in S
    BY <1>2, <2>2
  <2> HIDE DEF S
  <2>3. Nat \subseteq S
    BY <2>1, <2>2, NatInduct
  <2> QED BY <2>3 DEF S
<1>3. \A n \in Nat : Upto(G(n), n)
  BY <1>1
<1> HIDE DEF G
<1>4. f[0] = s
  BY <1>3
<1>5. ASSUME NEW n \in Nat
      PROVE  f[n + 1] = F(f[n], n + 1)
  <2>1. Upto(G(n), n) /\ Upto(G(n + 1), n + 1)
    BY <1>3
  <2>2. G(n)[n] = G(n + 1)[n]
    BY <1>2, <2>1
  <2> QED BY <2>1, <2>2
<1> HIDE DEF Upto
<1>6. P(f)
  <2>1. ASSUME NEW n \in Nat, n # 0
        PROVE  f[n] = F(f[n - 1], n)
    <3>1. n - 1 \in Nat /\ (n - 1) + 1 = n
      BY <2>1
    <3> HIDE DEF f
    <3> QED BY <1>5, <3>1
  <2> QED BY <1>4, <2>1
<1>7. P(Closings(s, q))
  BY <1>0, <1>6
<1> HIDE DEF f
<1>8. ASSUME NEW v, P(v)
      PROVE  v[0] = s /\ \A n \in Nat : v[n + 1] = F(v[n], n + 1)
  <2>1. v[0] = s
    BY <1>8
  <2>2. ASSUME NEW n \in Nat
        PROVE  v[n + 1] = F(v[n], n + 1)
    <3>1. v[n + 1] = IF n + 1 = 0 THEN s ELSE F(v[(n + 1) - 1], n + 1)
      BY <1>8
    <3>2. n + 1 # 0 /\ (n + 1) - 1 = n
      OBVIOUS
    <3> QED BY <3>1, <3>2
  <2> QED BY <2>1, <2>2
<1> HIDE DEF P
<1>9. /\ Closings(s, q)[0] = s
      /\ \A n \in Nat : Closings(s, q)[n + 1] = F(Closings(s, q)[n], n + 1)
  BY <1>7, <1>8
<1>10. \A n \in Nat : \A v : F(v, n + 1) = IF q.ofile[n] = 0 THEN v ELSE fileclose(v, q.ofile[n])
  <2>1. \A n \in Nat : (n + 1) - 1 = n
    OBVIOUS
  <2> QED BY <2>1 DEF F
<1> HIDE DEF F
<1> QED BY <1>9, <1>10

\* The table while exit() closes: user u has no descriptor under n left.
Lacking(pr, u, n) ==
  [pr EXCEPT ![u] = [pr[u] EXCEPT !.ofile = [fd \in 0 .. NOFILE - 1 |->
                                               IF fd < n THEN 0 ELSE pr[u].ofile[fd]]]]

LEMMA LackingIs ==
  ASSUME NEW pr, Procs(pr), NEW u \in UsersOf(pr), NEW n \in Nat
  PROVE  /\ Procs(Lacking(pr, u, n)) /\ UsersOf(Lacking(pr, u, n)) = UsersOf(pr)
         /\ \A m \in Slots : m # u => Lacking(pr, u, n)[m] = pr[m]
         /\ Lacking(pr, u, n)[u].cwd = pr[u].cwd
         /\ \A fd \in 0 .. NOFILE - 1 :
              Lacking(pr, u, n)[u].ofile[fd] = IF fd < n THEN 0 ELSE pr[u].ofile[fd]
<1> DEFINE q == pr[u]
           v == [fd \in 0 .. NOFILE - 1 |-> IF fd < n THEN 0 ELSE q.ofile[fd]]
           q2 == [q EXCEPT !.ofile = v]
           pr2 == [pr EXCEPT ![u] = q2]
<1>1. u \in Slots /\ Owner(q) /\ q.st = "run"
  BY DEF UsersOf, Procs
<1>2. v \in [0 .. NOFILE - 1 -> 0 .. NFILE]
  BY <1>1, Constants DEF Owner
<1>3. \A fd \in 0 .. NOFILE - 1 : v[fd] = IF fd < n THEN 0 ELSE q.ofile[fd]
  OBVIOUS
<1>4. Lacking(pr, u, n) = pr2
  BY DEF Lacking
<1> HIDE DEF v
<1>5. Owner(q2) /\ q2.st = "run" /\ q2.ofile = v /\ q2.cwd = q.cwd
  BY <1>1, <1>2 DEF Owner
<1> HIDE DEF q2
<1>6. DOMAIN pr2 = Slots /\ pr2[u] = q2 /\ \A m \in Slots : m # u => pr2[m] = pr[m]
  BY <1>1 DEF Procs
<1> HIDE DEF pr2
<1>7. Procs(pr2)
  BY <1>5, <1>6 DEF Procs
<1>8. UsersOf(pr2) = UsersOf(pr)
  <2>1. \A m \in Slots : m \in UsersOf(pr2) <=> m \in UsersOf(pr)
    BY <1>1, <1>5, <1>6 DEF UsersOf
  <2> QED BY <2>1 DEF UsersOf
<1> QED BY <1>3, <1>4, <1>5, <1>6, <1>7, <1>8

LEMMA SameFds ==
  ASSUME NEW q, NEW q2, Owner(q), Owner(q2),
         \A fd \in 0 .. NOFILE - 1 : q2.ofile[fd] = q.ofile[fd]
  PROVE  q2.ofile = q.ofile
<1> DEFINE f == q.ofile
           g == q2.ofile
           S == 0 .. NOFILE - 1
           T == 0 .. NFILE
<1>1. f \in [S -> T] /\ g \in [S -> T]
  BY DEF Owner
<1>2. \A x \in S : f[x] = g[x]
  OBVIOUS
<1> HIDE DEF f, g, S, T
<1>3. f = g
  BY <1>1, <1>2
<1> QED BY <1>3 DEF f, g

\* Only who owns what counts of the process table.
LEMMA CountsOwners ==
  ASSUME NEW kk, NEW pr, Counted(kk, pr), NEW pr2, SameOwners(pr, pr2)
  PROVE  Counted(kk, pr2)
<1>1. Shape(kk) /\ AlikeBut(kk, kk, {}) /\ SamePipes(kk, kk) /\ Kept(kk, kk)
  BY DEF Counted, Shape, AlikeBut, Alike, SamePipes, Kept
<1> QED BY <1>1, CountsSame

LEMMA ClosingsCounted ==
  ASSUME NEW kk, NEW pr, Counted(kk, pr), NEW u \in UsersOf(pr)
  PROVE  /\ Fields \subseteq DOMAIN Closings(kk, pr[u])[NOFILE]
         /\ Alive(Closings(kk, pr[u])[NOFILE]) =>
              /\ Counted(Closings(kk, pr[u])[NOFILE], Lacking(pr, u, NOFILE))
              /\ RoomKept(kk, Closings(kk, pr[u])[NOFILE])
<1> DEFINE q    == pr[u]
           C(n) == Closings(kk, q)[n]
           L(n) == Lacking(pr, u, n)
           S == {n \in Nat : n <= NOFILE =>
                   /\ Fields \subseteq DOMAIN C(n)
                   /\ Alive(C(n)) => Counted(C(n), L(n)) /\ RoomKept(kk, C(n))}
<1>1. Procs(pr) /\ Owner(q) /\ Fields \subseteq DOMAIN kk
  BY UserOwns
<1>2. C(0) = kk /\ \A n \in Nat : C(n + 1) = IF q.ofile[n] = 0 THEN C(n)
                                             ELSE fileclose(C(n), q.ofile[n])
  BY ClosingsRun
<1>3. ASSUME NEW n \in Nat
      PROVE  /\ Procs(L(n)) /\ UsersOf(L(n)) = UsersOf(pr)
             /\ \A m \in Slots : m # u => L(n)[m] = pr[m]
             /\ L(n)[u].cwd = pr[u].cwd
             /\ \A fd \in 0 .. NOFILE - 1 :
                  L(n)[u].ofile[fd] = IF fd < n THEN 0 ELSE q.ofile[fd]
  BY <1>1, LackingIs
<1>4. \A n \in Nat, m \in Slots : Owner(L(n)[m])
  BY <1>3 DEF Procs
<1>5. \A n \in Nat, m \in UsersOf(pr) : L(n)[m].cwd = pr[m].cwd
  BY <1>3 DEF UsersOf
<1> HIDE DEF C, L
<1>6. 0 \in S
  <2>1. \A m \in UsersOf(pr) : L(0)[m].ofile = pr[m].ofile
    <3>1. \A fd \in 0 .. NOFILE - 1 : L(0)[u].ofile[fd] = q.ofile[fd]
      BY <1>3
    <3>2. L(0)[u].ofile = q.ofile
      <4>1. u \in Slots
        BY DEF UsersOf
      <4> QED BY <1>1, <1>4, <3>1, <4>1, SameFds
    <3> QED BY <1>3, <3>2 DEF UsersOf
  <2>2. SameOwners(pr, L(0))
    BY <1>3, <1>5, <2>1 DEF SameOwners
  <2>3. Counted(kk, L(0)) /\ RoomKept(kk, kk)
    BY <2>2, CountsOwners DEF RoomKept
  <2> QED BY <1>1, <1>2, <2>3
<1>7. ASSUME NEW n \in Nat, n \in S
      PROVE  n + 1 \in S
  <2>1. SUFFICES ASSUME n + 1 <= NOFILE
                 PROVE  /\ Fields \subseteq DOMAIN C(n + 1)
                        /\ Alive(C(n + 1)) => /\ Counted(C(n + 1), L(n + 1))
                                              /\ RoomKept(kk, C(n + 1))
    OBVIOUS
  <2>2. n \in 0 .. NOFILE - 1 /\ NOFILE \in Nat
    BY <2>1, Constants
  <2>3. /\ Fields \subseteq DOMAIN C(n)
        /\ Alive(C(n)) => Counted(C(n), L(n)) /\ RoomKept(kk, C(n))
    BY <1>7, <2>2
  <2>4. /\ L(n)[u].ofile[n] = q.ofile[n] /\ L(n + 1)[u].ofile[n] = 0
        /\ \A fd \in 0 .. NOFILE - 1 : fd # n => L(n + 1)[u].ofile[fd] = L(n)[u].ofile[fd]
    BY <1>3, <2>2
  <2>5. \A m \in UsersOf(pr), fd \in 0 .. NOFILE - 1 :
          m # u \/ fd # n => L(n + 1)[m].ofile[fd] = L(n)[m].ofile[fd]
    BY <1>3, <2>4 DEF UsersOf
  <2>6. q.ofile[n] \in 0 .. NFILE
    BY <1>1, <2>2 DEF Owner
  <2>7. CASE q.ofile[n] = 0
    <3>1. L(n + 1)[u].ofile = L(n)[u].ofile
      <4>1. u \in Slots
        BY DEF UsersOf
      <4>2. \A fd \in 0 .. NOFILE - 1 : L(n + 1)[u].ofile[fd] = L(n)[u].ofile[fd]
        BY <2>4, <2>7
      <4> QED BY <1>4, <4>1, <4>2, SameFds
    <3>2. SameOwners(L(n), L(n + 1))
      BY <1>3, <1>5, <3>1 DEF SameOwners, UsersOf
    <3>3. C(n + 1) = C(n)
      BY <1>2, <2>7
    <3>4. Alive(C(n)) => Counted(C(n), L(n + 1))
      BY <2>3, <3>2, CountsOwners
    <3> QED BY <2>3, <3>3, <3>4
  <2>8. CASE q.ofile[n] # 0
    <3> DEFINE f == q.ofile[n]
    <3>1. f \in Files
      BY <2>6, <2>8, Constants DEF Files
    <3>2. C(n + 1) = fileclose(C(n), f)
      BY <1>2, <2>8
    <3>3. Moves(L(n), L(n + 1), u, n, f, 0)
      BY <1>3, <1>5, <2>2, <2>4, <2>5 DEF Moves
    <3> HIDE DEF f
    <3>4. Fields \subseteq DOMAIN C(n + 1) /\ (Alive(C(n + 1)) => Alive(C(n)))
      BY <2>3, <3>2, CloseFrame
    <3>5. ASSUME Alive(C(n + 1))
          PROVE  Counted(C(n + 1), L(n + 1)) /\ RoomKept(kk, C(n + 1))
      <4>1. Counted(C(n), L(n)) /\ Alive(fileclose(C(n), f)) /\ RoomKept(kk, C(n))
        BY <2>3, <3>2, <3>4, <3>5
      <4>2. Counted(fileclose(C(n), f), L(n + 1))
        BY <3>1, <3>3, <4>1, CloseCounted
      <4>3. RoomKept(C(n), fileclose(C(n), f))
        BY <3>1, <4>1, CloseRoom DEF RoomKept
      <4>4. RoomKept(kk, C(n + 1))
        BY <3>2, <4>1, <4>3, RoomKeptOn
      <4> QED BY <3>2, <4>2, <4>4
    <3> QED BY <3>4, <3>5
  <2> QED BY <2>7, <2>8
<1> HIDE DEF S
<1>8. Nat \subseteq S
  BY <1>6, <1>7, NatInduct
<1>9. NOFILE \in Nat /\ NOFILE <= NOFILE
  BY Constants
<1>10. /\ Fields \subseteq DOMAIN C(NOFILE)
       /\ Alive(C(NOFILE)) => Counted(C(NOFILE), L(NOFILE)) /\ RoomKept(kk, C(NOFILE))
  <2>1. NOFILE \in S
    BY <1>8, <1>9
  <2> QED BY <1>9, <2>1 DEF S
<1> QED BY <1>10 DEF C, L

\* A process without open files leaves, and its directory is put.
LEMMA LeaveCounted ==
  ASSUME NEW kk, NEW pr, Counted(kk, pr), NEW u \in UsersOf(pr),
         \A fd \in 0 .. NOFILE - 1 : pr[u].ofile[fd] = 0,
         NEW t, t = iput(kk, pr[u].cwd), Alive(t), NEW pr2, Procs(pr2),
         UsersOf(pr2) = UsersOf(pr) \ {u},
         \A m \in UsersOf(pr) \ {u} : pr2[m].ofile = pr[m].ofile /\ pr2[m].cwd = pr[m].cwd
  PROVE  Counted(t, pr2) /\ RoomKept(kk, t)
<1> DEFINE b == pr[u].cwd
<1>1. Shape(kk) /\ Refs(kk) /\ Ends(kk) /\ Fields \subseteq DOMAIN kk
  BY DEF Counted, Shape
<1>2. b \in Inums => kk.inode[b].ref > 0
  BY WithinHolds
<1>3. t = iput(kk, b)
  OBVIOUS
<1> HIDE DEF b
<1>4. Frame(kk, t) /\ Lost(kk, t, b)
  BY <1>1, <1>2, <1>3, IputLoses DEF Alive
<1>5. Shape(t) /\ t.file = kk.file /\ t.pipe = kk.pipe
  BY <1>1, <1>4 DEF Frame, Shape, Table, Pipes
<1>6. FilesCounted(t, pr2)
  <2>1. ASSUME NEW f \in Files
        PROVE  OpenedBy(pr2, f) = OpenedBy(pr, f)
    <3> DEFINE S == OpenedBy(pr, f)
               T == OpenedBy(pr2, f)
    <3>1. f # 0
      BY DEF Files
    <3>2. ASSUME NEW m, NEW fd
          PROVE  <<m, fd>> \in T <=> <<m, fd>> \in S
      BY <3>1 DEF OpenedBy
    <3>3. S \subseteq Slots \X (0 .. NOFILE - 1) /\ T \subseteq Slots \X (0 .. NOFILE - 1)
      BY DEF OpenedBy, UsersOf
    <3> HIDE DEF S, T
    <3>4. \A x : x \in S <=> x \in T
      <4>1. ASSUME NEW x \in Slots \X (0 .. NOFILE - 1)
            PROVE  x \in S <=> x \in T
        <5>1. x = <<x[1], x[2]>>
          OBVIOUS
        <5> QED BY <3>2, <5>1
      <4> QED BY <3>3, <4>1
    <3>5. S = T
      BY <3>4
    <3> QED BY <3>5 DEF S, T
  <2> QED BY <1>5, <2>1 DEF FilesCounted, Counted
<1>7. InodesCounted(t, pr2)
  <2>1. ASSUME NEW i \in Inums
        PROVE  t.inode[i].ref = Cardinality(Stands(t, i)) + Cardinality(Within(pr2, i))
    <3> DEFINE V == Within(pr, i)
               W == Within(pr2, i)
    <3>1. Stands(t, i) = Stands(kk, i)
      BY <1>5 DEF Stands
    <3>2. IsFiniteSet(V) /\ Cardinality(Stands(kk, i)) \in Nat
      BY FiniteCounts, FS_CardinalityType
    <3>3. \A y : y # u => (y \in V <=> y \in W)
      BY DEF Within
    <3>4. (u \in V <=> b = i) /\ u \notin W
      BY DEF Within, b
    <3>5. kk.inode[i].ref = Cardinality(Stands(kk, i)) + Cardinality(V)
      BY DEF Counted, InodesCounted
    <3> HIDE DEF V, W
    <3>6. /\ Cardinality(V) \in Nat /\ Cardinality(W) \in Nat
          /\ Cardinality(W) + (IF u \in V THEN 1 ELSE 0) = Cardinality(V) + (IF u \in W THEN 1 ELSE 0)
      BY <3>2, <3>3, SetCount
    <3>7. Cardinality(W) + One(b, i) = Cardinality(V)
      BY <3>4, <3>6 DEF One
    <3>8. t.inode[i].ref = kk.inode[i].ref - One(b, i)
      BY <1>4 DEF Lost
    <3>9. t.inode[i].ref = Cardinality(Stands(kk, i)) + Cardinality(W)
      BY <3>2, <3>5, <3>6, <3>7, <3>8, OneIs
    <3> QED BY <3>1, <3>9 DEF W
  <2> QED BY <2>1 DEF InodesCounted
<1>8. Ends(t)
  <2>1. \A f \in Files : \A n, w : EndOf(t, f, n, w) <=> EndOf(kk, f, n, w)
    BY <1>5 DEF EndOf
  <2>2. SamePipes(kk, t)
    BY <1>5 DEF SamePipes
  <2> QED BY <1>1, <2>1, <2>2, EndsSame
<1>9. Refs(t)
  BY <1>4 DEF Lost
<1>10. RoomKept(kk, t)
  BY <1>4, FrameSteady, SteadyRoom
<1> QED BY <1>5, <1>6, <1>7, <1>8, <1>9, <1>10 DEF Counted, Shape

\* A process exits: its files are closed one by one, then its directory is put.
LEMMA ExitCounted ==
  ASSUME NEW kk, NEW pr, Counted(kk, pr), NEW u \in UsersOf(pr), NEW t,
         t = sys_exit(kk, pr[u]).k, Alive(t), NEW pr2, Procs(pr2),
         UsersOf(pr2) = UsersOf(pr) \ {u},
         \A m \in UsersOf(pr) \ {u} : pr2[m].ofile = pr[m].ofile /\ pr2[m].cwd = pr[m].cwd
  PROVE  Counted(t, pr2) /\ RoomKept(kk, t)
<1> DEFINE C == Closings(kk, pr[u])[NOFILE]
           L == Lacking(pr, u, NOFILE)
<1>1. t = iput(C, pr[u].cwd)
  BY DEF sys_exit, Closings, Ret
<1>2. Procs(pr) /\ Fields \subseteq DOMAIN kk /\ NOFILE \in Nat
  BY UserOwns, Constants
<1>3. /\ Procs(L) /\ UsersOf(L) = UsersOf(pr) /\ L[u].cwd = pr[u].cwd
      /\ \A m \in Slots : m # u => L[m] = pr[m]
      /\ \A fd \in 0 .. NOFILE - 1 : L[u].ofile[fd] = IF fd < NOFILE THEN 0 ELSE pr[u].ofile[fd]
  BY <1>2, LackingIs
<1>4. Fields \subseteq DOMAIN C /\ (Alive(C) => Counted(C, L) /\ RoomKept(kk, C))
  BY ClosingsCounted
<1>5. \A fd \in 0 .. NOFILE - 1 : L[u].ofile[fd] = 0
  BY <1>2, <1>3
<1>6. UsersOf(pr2) = UsersOf(L) \ {u} /\ u \in UsersOf(L)
  BY <1>3
<1>7. \A m \in UsersOf(L) \ {u} : pr2[m].ofile = L[m].ofile /\ pr2[m].cwd = L[m].cwd
  BY <1>3 DEF UsersOf
<1> HIDE DEF C, L
<1>8. Alive(C)
  BY <1>1, <1>4, IputLoses DEF Frame, Alive
<1>9. t = iput(C, L[u].cwd) /\ Counted(C, L)
  BY <1>1, <1>3, <1>4, <1>8
<1>10. Counted(t, pr2) /\ RoomKept(C, t)
  BY <1>5, <1>6, <1>7, <1>9, LeaveCounted
<1> QED BY <1>4, <1>8, <1>10, RoomKeptOn

----------------------------------------------------------------------------
(* The machine: what a step makes of the result of a call.                 *)

LEMMA SequenceWalks ==
  ASSUME NEW x, Sequence(x)
  PROVE  Walkable(x) /\ \E D : x \in Seq(D)
BY SeqWalkable DEF Sequence

\* After any system call but fork() and exit(), which are about two processes.
LEMMA SyscallGood ==
  ASSUME NEW kk, NEW pr, Counted(kk, pr), NEW u \in UsersOf(pr), NEW c, Typed(c),
         c.op \notin {"fork", "exit", "wait", "kill", "touch", "spin"}
  PROVE  Good(kk, pr, u, syscall(kk, pr[u], c))
<1>1. CASE c.op = "open"
  BY <1>1, SequenceWalks, OpenGood DEF Typed, syscall
<1>2. CASE c.op = "close"
  BY <1>2, CloseGood DEF syscall
<1>3. CASE c.op = "dup"
  BY <1>3, DupGood DEF syscall
<1>4. CASE c.op = "read"
  BY <1>4, ReadGood DEF syscall
<1>5. CASE c.op = "write"
  <2>1. PICK D : c.data \in Seq(D)
    BY <1>5, SequenceWalks DEF Typed
  <2> QED BY <1>5, <2>1, WriteGood DEF syscall
<1>6. CASE c.op = "fstat"
  BY <1>6, FstatGood DEF syscall
<1>7. CASE c.op = "link"
  BY <1>7, SequenceWalks, LinkGood DEF Typed, syscall
<1>8. CASE c.op = "unlink"
  BY <1>8, SequenceWalks, UnlinkGood DEF Typed, syscall
<1>9. CASE c.op = "mkdir"
  BY <1>9, SequenceWalks, MakeNodeGood DEF Typed, syscall, sys_mkdir
<1>10. CASE c.op = "mknod"
  BY <1>10, SequenceWalks, MakeNodeGood DEF Typed, syscall, sys_mknod
<1>11. CASE c.op = "chdir"
  BY <1>11, SequenceWalks, ChdirGood DEF Typed, syscall
<1>12. CASE c.op = "pipe"
  BY <1>12, PipeCallGood DEF syscall
<1>13. CASE c.op = "exec"
  <2>1. PICK D : c.argv \in Seq(D)
    BY <1>13, SequenceWalks DEF Typed
  <2> QED BY <1>13, <2>1, SequenceWalks, ExecGood DEF Typed, syscall
<1>14. CASE c.op = "sbrk"
  BY <1>14, SbrkGood DEF Typed, syscall
<1>15. CASE c.op = "getpid"
  BY <1>15, GoodNothing DEF syscall
<1>16. CASE c.op = "sleep"
  BY <1>16, GoodNothing DEF syscall
<1>17. c.op \in {"open", "close", "dup", "read", "write", "fstat", "link", "unlink", "mkdir",
                 "mknod", "chdir", "pipe", "exec", "sbrk", "getpid", "sleep"}
  BY DEF Typed
<1> QED BY <1>1, <1>2, <1>3, <1>4, <1>5, <1>6, <1>7, <1>8, <1>9, <1>10, <1>11, <1>12,
           <1>13, <1>14, <1>15, <1>16, <1>17

PagedStays(kk, pr, k2, pr2) == Paged(kk, pr) => Paged(k2, pr2)

\* Two slots change, one of them not in its pages.
LEMMA PagedSlots ==
  ASSUME NEW kk, NEW pr, Paged(kk, pr), Procs(pr), NEW u \in Slots, NEW n \in Slots, u # n,
         NEW q, SameOwner(pr[u], q), NEW z, Mem(z), NEW k2, k2.free \in Nat,
         Room(k2) + PagesOf(z) = Room(kk) + PagesOf(pr[n])
  PROVE  Paged(k2, [pr EXCEPT ![u] = q, ![n] = z])
<1> DEFINE pr2 == [pr EXCEPT ![u] = q, ![n] = z]
<1>1. pr2[u] = q /\ pr2[n] = z /\ \A m \in Slots : m # u /\ m # n => pr2[m] = pr[m]
  BY DEF Procs
<1> HIDE DEF pr2
<1>2. Mem(pr[u]) /\ \A m \in Slots : Mem(pr[m])
  BY DEF Paged, Memories
<1>3. Mem(q) /\ PagesOf(q) = PagesOf(pr[u])
  BY <1>2, PagesSame DEF SameOwner, SameHolder
<1>4. Memories(pr2) /\ \A m \in Slots \ {n} : PagesOf(pr2[m]) = PagesOf(pr[m])
  BY <1>1, <1>2, <1>3 DEF Memories
<1>5. Room(k2) + PagesOf(pr2[n]) = Room(kk) + PagesOf(pr[n])
  BY <1>1
<1>6. Paged(k2, pr2)
  BY <1>4, <1>5, PagedMoves
<1> QED BY <1>6 DEF pr2

LEMMA PagedOwners ==
  ASSUME NEW kk, NEW pr, NEW k2, RoomKept(kk, k2), NEW pr2, SamePages(pr, pr2)
  PROVE  PagedStays(kk, pr, k2, pr2)
BY PagedSame DEF PagedStays

\* Only the numbers of processes go on.
LEMMA RoomStays ==
  ASSUME NEW kk, Fields \subseteq DOMAIN kk, NEW v
  PROVE  RoomKept(kk, kk) /\ RoomKept(kk, [kk EXCEPT !.nextpid = v])
<1> DEFINE k2 == [kk EXCEPT !.nextpid = v]
<1>1. k2.free = kk.free /\ k2.pipe = kk.pipe
  BY DEF Fields
<1> HIDE DEF k2
<1>2. RoomKept(kk, k2)
  BY <1>1, FileSteady, SteadyRoom
<1> QED BY <1>2 DEF RoomKept, k2

\* The rest of a step changes the program, the registers and the buffer.
LEMMA AfterGood ==
  ASSUME NEW kk, NEW pr, NEW u \in UsersOf(pr), Procs(pr), NEW x, Good(kk, pr, u, x), Alive(x.k),
         NEW q2, Owner(x.p) => SameOwner(x.p, q2)
  PROVE  /\ Counted(x.k, [pr EXCEPT ![u] = q2])
         /\ PagedStays(kk, pr, x.k, [pr EXCEPT ![u] = q2])
<1> DEFINE pr1 == [pr EXCEPT ![u] = x.p]
           pr2 == [pr EXCEPT ![u] = q2]
<1>1. Counted(x.k, pr1) /\ x.p.st = "run" /\ Fair(kk, pr[u], x.k, x.p)
  BY DEF Good, Alive
<1>2. u \in Slots /\ DOMAIN pr = Slots
  BY DEF UsersOf, Procs
<1>3. pr1[u] = x.p /\ pr2 = [pr1 EXCEPT ![u] = q2]
  BY <1>2
<1>7. pr2[u] = q2 /\ \A n \in Slots : n # u => pr2[n] = pr[n]
  BY <1>2
<1> HIDE DEF pr1, pr2
<1>4. Procs(pr1) /\ Owner(x.p) /\ u \in UsersOf(pr1)
  BY <1>1, <1>2, <1>3 DEF Counted, Procs, UsersOf
<1>5. SameOwners(pr1, pr2)
  BY <1>1, <1>3, <1>4, OwnerStays DEF SameOwner, SameHolder
<1>6. Counted(x.k, pr2)
  BY <1>1, <1>5, CountsOwners
<1>8. ASSUME Paged(kk, pr)
      PROVE  Paged(x.k, pr2)
  <2>1. kk.free \in Nat /\ Mem(pr[u])
    BY <1>2, <1>8 DEF Paged, Memories
  <2>2. x.k.free \in Nat /\ Mem(x.p) /\ Room(x.k) + Held(x.p.mem) = Room(kk) + Held(pr[u].mem)
    BY <1>1, <2>1 DEF Fair
  <2>3. SameMem(x.p, q2) /\ q2.st = x.p.st
    BY <1>4 DEF SameOwner, SameHolder
  <2>4. Mem(q2) /\ PagesOf(q2) = PagesOf(x.p)
    BY <2>2, <2>3, PagesSame
  <2>5. PagesOf(x.p) = 1 + Held(x.p.mem) /\ PagesOf(pr[u]) = 1 + Held(pr[u].mem)
    BY <1>1, PagesLive DEF UsersOf, TRAPFRAMEPAGE
  <2>6. /\ Held(x.p.mem) \in Nat /\ Held(pr[u].mem) \in Nat
        /\ Room(kk) \in Nat /\ Room(x.k) \in Nat
    BY <2>1, <2>2, HeldIs, RoomIs DEF Mem
  <2>7. Room(x.k) + PagesOf(pr2[u]) = Room(kk) + PagesOf(pr[u])
    BY <1>7, <2>2, <2>4, <2>5, <2>6
  <2>8. Memories(pr2) /\ \A n \in Slots \ {u} : PagesOf(pr2[n]) = PagesOf(pr[n])
    BY <1>7, <1>8, <2>4 DEF Memories, Paged
  <2> QED BY <1>2, <1>8, <2>2, <2>7, <2>8, PagedMoves
<1> QED BY <1>6, <1>8 DEF pr2, PagedStays

LEMMA WentOwner ==
  ASSUME NEW q, Owner(q), NEW c, NEW r
  PROVE  SameOwner(q, Went(q, c, r))
<1>1. PICK a, b, d : Went(q, c, r) = [q EXCEPT !.todo = a, !.reg = b, !.buf = d]
  BY DEF Went
<1> QED BY <1>1 DEF SameOwner, SameHolder, SameMem, Mem, Owner

LEMMA PartlyOwner ==
  ASSUME NEW q, Owner(q), NEW n
  PROVE  SameOwner(q, Partly(q, n))
<1>1. PICK a : Partly(q, n) = [q EXCEPT !.todo = a]
  BY DEF Partly
<1> QED BY <1>1 DEF SameOwner, SameHolder, SameMem, Mem, Owner

\* Other fields of a process do not count.
LEMMA SetOwner ==
  ASSUME NEW q, Owner(q), NEW v, NEW w, NEW z
  PROVE  /\ SameOwner(q, [q EXCEPT !.reg = v]) /\ SameOwner(q, [q EXCEPT !.todo = v])
         /\ SameOwner(q, [q EXCEPT !.killed = v]) /\ SameOwner(q, [q EXCEPT !.parent = v])
         /\ SameOwner(q, [q EXCEPT !.todo = v, !.reg = w, !.buf = z])
BY DEF SameOwner, SameHolder, SameMem, Mem, Owner

LEMMA SameOwnerTwice ==
  ASSUME NEW q, NEW q1, NEW q2, SameOwner(q, q1), SameOwner(q1, q2)
  PROVE  SameOwner(q, q2)
BY DEF SameOwner, SameHolder, SameMem

LEMMA ReadyUser ==
  ASSUME NEW p \in Slots, Ready(p)
  PROVE  Alive(k) /\ p \in UsersOf(proc)
BY DEF Ready, Alive, UsersOf

\* What the machine calls is the dispatch of kernel/syscall.c.
KernelIs == \A kk, q, c : Kernel(kk, q, c) = syscall(kk, q, c)

LEMMA CallCounted ==
  ASSUME KernelIs, Counted(k, proc), NEW p \in Slots, Typed(Cur(p)), Call(p), Alive(k')
  PROVE  Counted(k', proc') /\ PagedStays(k, proc, k', proc')
<1> DEFINE c == Cur(p)
           x == syscall(k, proc[p], c)
           q2 == IF x.r <= -2 THEN Partly(x.p, -2 - x.r) ELSE Went(x.p, c, x.r)
<1>1. /\ Ready(p) /\ c.op \notin {"exec", "pipe", "fork", "exit", "wait", "kill", "touch", "spin"}
      /\ k' = x.k /\ proc' = [proc EXCEPT ![p] = q2]
  BY DEF Call, KernelIs
<1>2. p \in UsersOf(proc) /\ Procs(proc)
  BY <1>1, ReadyUser, UserOwns
<1>3. Good(k, proc, p, x)
  BY <1>1, <1>2, SyscallGood
<1> HIDE DEF x
<1>4. Owner(x.p) => SameOwner(x.p, q2)
  BY WentOwner, PartlyOwner
<1> HIDE DEF q2
<1>5. Alive(x.k)
  BY <1>1
<1>6. /\ Counted(x.k, [proc EXCEPT ![p] = q2])
      /\ PagedStays(k, proc, x.k, [proc EXCEPT ![p] = q2])
  BY <1>2, <1>3, <1>4, <1>5, AfterGood
<1> QED BY <1>1, <1>6

LEMMA MakePipeCounted ==
  ASSUME KernelIs, Counted(k, proc), NEW p \in Slots, Typed(Cur(p)), MakePipe(p), Alive(k')
  PROVE  Counted(k', proc') /\ PagedStays(k, proc, k', proc')
<1> DEFINE c == Cur(p)
           x == syscall(k, proc[p], c)
           q == IF x.r < 0 THEN x.p
                ELSE [x.p EXCEPT !.reg = (c.fds[1] :> x.p.buf[1]) @@ (c.fds[2] :> x.p.buf[2]) @@ @]
           q2 == Went(q, c, x.r)
<1>1. Ready(p) /\ c.op = "pipe" /\ k' = x.k /\ proc' = [proc EXCEPT ![p] = q2]
  BY DEF MakePipe, KernelIs
<1>2. p \in UsersOf(proc) /\ Procs(proc)
  BY <1>1, ReadyUser, UserOwns
<1>3. Good(k, proc, p, x)
  BY <1>1, <1>2, SyscallGood
<1> HIDE DEF x
<1>4. ASSUME Owner(x.p)
      PROVE  SameOwner(x.p, q2)
  <2>1. SameOwner(x.p, q)
    <3> DEFINE v == (c.fds[1] :> x.p.buf[1]) @@ (c.fds[2] :> x.p.buf[2]) @@ x.p.reg
    <3>1. q = x.p \/ q = [x.p EXCEPT !.reg = v]
      OBVIOUS
    <3> HIDE DEF v, q
    <3>2. SameOwner(x.p, x.p)
      BY <1>4 DEF SameOwner, SameHolder, SameMem
    <3>3. SameOwner(x.p, [x.p EXCEPT !.reg = v])
      BY <1>4, SetOwner
    <3> QED BY <3>1, <3>2, <3>3
  <2> HIDE DEF q
  <2>2. Owner(q)
    BY <2>1 DEF SameOwner, SameHolder
  <2> QED BY <2>1, <2>2, WentOwner, SameOwnerTwice
<1> HIDE DEF q2
<1>5. Alive(x.k)
  BY <1>1
<1>6. /\ Counted(x.k, [proc EXCEPT ![p] = q2])
      /\ PagedStays(k, proc, x.k, [proc EXCEPT ![p] = q2])
  BY <1>2, <1>3, <1>4, <1>5, AfterGood
<1> QED BY <1>1, <1>6

LEMMA DoExecCounted ==
  ASSUME KernelIs, Counted(k, proc), NEW p \in Slots, Typed(Cur(p)), DoExec(p), Alive(k')
  PROVE  Counted(k', proc') /\ PagedStays(k, proc, k', proc')
<1> DEFINE c == Cur(p)
           x == syscall(k, proc[p], c)
           prog == UserMain(x.p.buf[1], c.argv)
           new  == [x.p EXCEPT !.todo = prog, !.reg = StdRegs, !.buf = <<>>]
           q2   == IF x.r < 0 THEN Went(x.p, c, x.r) ELSE new
<1>1. Ready(p) /\ c.op = "exec" /\ k' = x.k /\ proc' = [proc EXCEPT ![p] = q2]
  BY DEF DoExec, KernelIs
<1>2. p \in UsersOf(proc) /\ Procs(proc)
  BY <1>1, ReadyUser, UserOwns
<1>3. Good(k, proc, p, x)
  BY <1>1, <1>2, SyscallGood
<1> HIDE DEF x, prog
<1>4. ASSUME Owner(x.p)
      PROVE  SameOwner(x.p, q2)
  <2>1. SameOwner(x.p, new)
    BY <1>4, SetOwner
  <2> QED BY <1>4, <2>1, WentOwner
<1> HIDE DEF q2
<1>5. Alive(x.k)
  BY <1>1
<1>6. /\ Counted(x.k, [proc EXCEPT ![p] = q2])
      /\ PagedStays(k, proc, x.k, [proc EXCEPT ![p] = q2])
  BY <1>2, <1>3, <1>4, <1>5, AfterGood
<1> QED BY <1>1, <1>6

LEMMA SlotStays ==
  ASSUME NEW pr, Procs(pr), NEW m \in Slots, NEW r, SameOwner(pr[m], r)
  PROVE  SameOwners(pr, [pr EXCEPT ![m] = r]) /\ SamePages(pr, [pr EXCEPT ![m] = r])
<1> DEFINE pr2 == [pr EXCEPT ![m] = r]
<1>1. DOMAIN pr2 = Slots /\ pr2[m] = r /\ \A n \in Slots : n # m => pr2[n] = pr[n]
  BY DEF Procs
<1> HIDE DEF pr2
<1>2. Procs(pr2)
  BY <1>1 DEF Procs, SameOwner, SameHolder
<1>3. UsersOf(pr2) = UsersOf(pr)
  <2>1. \A n \in Slots : n \in UsersOf(pr2) <=> n \in UsersOf(pr)
    BY <1>1 DEF UsersOf, SameOwner, SameHolder
  <2> QED BY <2>1 DEF UsersOf
<1>4. \A n \in UsersOf(pr) : pr2[n].ofile = pr[n].ofile /\ pr2[n].cwd = pr[n].cwd
  BY <1>1 DEF UsersOf, SameOwner, SameHolder
<1>5. SamePages(pr, pr2)
  <2>1. Mem(pr[m]) => Mem(r) /\ PagesOf(r) = PagesOf(pr[m])
    BY PagesSame DEF SameOwner, SameHolder
  <2> QED BY <1>1, <2>1 DEF SamePages, Memories
<1> QED BY <1>2, <1>3, <1>4, <1>5 DEF SameOwners, pr2

LEMMA OwnersTwice ==
  ASSUME NEW pr, NEW pr1, NEW pr2, SameOwners(pr, pr1), SameOwners(pr1, pr2)
  PROVE  SameOwners(pr, pr2)
BY DEF SameOwners

\* A slot that is not in use, or that of a zombie, may hold anything.
LEMMA IdleStays ==
  ASSUME NEW pr, Procs(pr), NEW m \in Slots \ UsersOf(pr), NEW z, Owner(z), z.st # "run"
  PROVE  SameOwners(pr, [pr EXCEPT ![m] = z])
<1> DEFINE pr2 == [pr EXCEPT ![m] = z]
<1>1. DOMAIN pr2 = Slots /\ pr2[m] = z /\ \A n \in Slots : n # m => pr2[n] = pr[n]
  BY DEF Procs
<1> HIDE DEF pr2
<1>2. Procs(pr2)
  BY <1>1 DEF Procs
<1>3. UsersOf(pr2) = UsersOf(pr)
  <2>1. \A n \in Slots : n \in UsersOf(pr2) <=> n \in UsersOf(pr)
    BY <1>1 DEF UsersOf
  <2> QED BY <2>1 DEF UsersOf
<1>4. \A n \in UsersOf(pr) : pr2[n].ofile = pr[n].ofile /\ pr2[n].cwd = pr[n].cwd
  BY <1>1 DEF UsersOf
<1> QED BY <1>2, <1>3, <1>4 DEF SameOwners, pr2

\* The free pages and the next process number do not count.
LEMMA CountsRest ==
  ASSUME NEW kk, NEW pr, Counted(kk, pr), NEW v
  PROVE  Counted([kk EXCEPT !.free = v], pr) /\ Counted([kk EXCEPT !.nextpid = v], pr)
<1>1. ASSUME NEW k2, k2.file = kk.file, k2.inode = kk.inode, k2.pipe = kk.pipe,
             DOMAIN k2 = DOMAIN kk
      PROVE  Counted(k2, pr)
  <2>1. Shape(k2) /\ AlikeBut(kk, k2, {}) /\ SamePipes(kk, k2) /\ Kept(kk, k2)
    BY <1>1 DEF Counted, Shape, Table, Pipes, AlikeBut, Alike, SamePipes, Kept, Refs
  <2>2. SameOwners(pr, pr)
    BY DEF Counted, SameOwners
  <2> QED BY <2>1, <2>2, CountsSame
<1>2. Fields \subseteq DOMAIN kk
  BY DEF Counted
<1> DEFINE a == [kk EXCEPT !.free = v]
           b == [kk EXCEPT !.nextpid = v]
<1>3. a.file = kk.file /\ a.inode = kk.inode /\ a.pipe = kk.pipe /\ DOMAIN a = DOMAIN kk
  BY <1>2 DEF Fields
<1>4. b.file = kk.file /\ b.inode = kk.inode /\ b.pipe = kk.pipe /\ DOMAIN b = DOMAIN kk
  BY <1>2 DEF Fields
<1> HIDE DEF a, b
<1>5. Counted(a, pr) /\ Counted(b, pr)
  BY <1>1, <1>3, <1>4
<1> QED BY <1>5 DEF a, b

LEMMA ForksIs ==
  ASSUME NEW pr, Procs(pr), NEW u \in UsersOf(pr), NEW n \in Slots \ UsersOf(pr),
         NEW q, SameOwner(pr[u], q), NEW child, SameHolder(pr[u], child)
  PROVE  Forks(pr, [pr EXCEPT ![u] = q, ![n] = child], u, n)
<1> DEFINE pr2 == [pr EXCEPT ![u] = q, ![n] = child]
<1>1. u \in Slots /\ u # n /\ pr[u].st = "run"
  BY DEF UsersOf
<1>2. /\ DOMAIN pr2 = Slots /\ pr2[u] = q /\ pr2[n] = child
      /\ \A m \in Slots : m # u /\ m # n => pr2[m] = pr[m]
  BY <1>1 DEF Procs
<1> HIDE DEF pr2
<1>3. Procs(pr2)
  <2>1. ASSUME NEW m \in Slots
        PROVE  Owner(pr2[m])
    <3>1. CASE m = u \/ m = n
      BY <1>2, <3>1 DEF SameOwner, SameHolder
    <3>2. CASE m # u /\ m # n
      BY <1>2, <3>2 DEF Procs
    <3> QED BY <3>1, <3>2
  <2> QED BY <1>2, <2>1 DEF Procs
<1>4. UsersOf(pr2) = UsersOf(pr) \cup {n}
  <2>1. \A m \in Slots : m \in UsersOf(pr2) <=> m \in UsersOf(pr) \/ m = n
    BY <1>1, <1>2 DEF UsersOf, SameOwner, SameHolder
  <2> QED BY <2>1 DEF UsersOf
<1>5. \A m \in UsersOf(pr) : pr2[m].ofile = pr[m].ofile /\ pr2[m].cwd = pr[m].cwd
  BY <1>1, <1>2 DEF UsersOf, SameOwner, SameHolder
<1>6. pr2[n].ofile = pr[u].ofile /\ pr2[n].cwd = pr[u].cwd
  BY <1>2 DEF SameOwner, SameHolder
<1> QED BY <1>1, <1>3, <1>4, <1>5, <1>6 DEF Forks, pr2

\* The first of some slots is one of them.
LEMMA FirstSlot ==
  ASSUME NEW S, S \subseteq Slots, S # {}
  PROVE  Min(S) \in S
<1>1. S \subseteq Nat
  BY DEF Slots
<1>2. \E x \in S : \A y \in S : x <= y
  BY <1>1, LeastIn
<1> QED BY <1>2 DEF Min

LEMMA ForkDomain ==
  ASSUME NEW kk, Fields \subseteq DOMAIN kk, NEW q, NEW i
  PROVE  "free" \in DOMAIN idup(Dups(kk, q), i)
<1>1. "free" \in DOMAIN kk
  BY DEF Fields
<1>2. PICK m, n : idup(Dups(kk, q), i) = [Dups(kk, q) EXCEPT !.inode[m].ref = n]
  BY DEF idup
<1> QED BY <1>1, <1>2 DEF Dups

\* A slot that is not in use has no files.
LEMMA IdleSlot == Owner(NoProc) /\ NoProc.st = "unused"
BY Constants DEF Owner, NoProc

LEMMA DoForkCounted ==
  ASSUME KernelIs, Counted(k, proc), NEW p \in Slots, DoFork(p), Alive(k')
  PROVE  Counted(k', proc') /\ PagedStays(k, proc, k', proc')
<1> DEFINE c     == Cur(p)
           q     == proc[p]
           free  == {n \in Slots : proc[n].st = "unused"}
           n     == Min(free)
           copy  == uvmcopy(k.free, q.mem)
           dup   == [k EXCEPT !.file = [f \in Files |->
                       [k.file[f] EXCEPT !.ref = @ + Cardinality(Fds(q, f))]]]
           got   == copy.m
           v     == copy.free
           j     == idup(dup, q.cwd)
           q1    == [q EXCEPT !.mem = got]
           x     == syscall(k, q, c)
           qf    == Went(q, c, -1)
           qs    == Went(q, c, k.nextpid)
           child == [Went(x.p, c, 0) EXCEPT
                       !.pid = k.nextpid, !.parent = p, !.killed = proc[n].killed,
                       !.todo = IF "child" \in DOMAIN c THEN c.child ELSE @]
<1>1. /\ Ready(p) /\ c.op = "fork"
      /\ \/ k' = k /\ proc' = [proc EXCEPT ![p] = qf]
         \/ /\ free # {} /\ k' = [x.k EXCEPT !.nextpid = x.k.nextpid + 1]
            /\ \/ x.r < 0 /\ proc' = [proc EXCEPT ![p] = qf, ![n] = NoProc]
               \/ ~(x.r < 0) /\ proc' = [proc EXCEPT ![p] = qs, ![n] = child]
  BY DEF DoFork, KernelIs
<1>2. p \in UsersOf(proc) /\ Procs(proc) /\ Owner(q)
  BY <1>1, ReadyUser, UserOwns
<1>3. \/ copy.ok /\ x = Ret([j EXCEPT !.free = v], q1, 0)
      \/ x = Ret(k, q, -1)
  BY <1>1 DEF syscall, sys_fork
<1>9. ASSUME copy.ok, k.free \in Nat, Mem(q)
      PROVE  v \in Nat /\ HasMem(got) /\ v + (TRAPFRAMEPAGE + Held(got)) = k.free
  <2>1. HasMem(q.mem)
    BY <1>9 DEF Mem
  <2> HIDE DEF copy
  <2> QED BY <1>9, <2>1, CopyFits DEF copy
<1>10. Fields \subseteq DOMAIN k
  BY DEF Counted
<1>4. SameOwner(q, qf) /\ SameOwner(q, qs)
  BY <1>2, WentOwner
<1>5. SameOwners(proc, [proc EXCEPT ![p] = qf]) /\ SamePages(proc, [proc EXCEPT ![p] = qf])
  BY <1>2, <1>4, SlotStays
<1> HIDE DEF qf, qs, v, got
<1>6. CASE k' = k /\ proc' = [proc EXCEPT ![p] = qf]
  BY <1>5, <1>6, <1>10, CountsOwners, RoomStays, PagedOwners
<1>7. CASE /\ free # {} /\ x.r < 0 /\ k' = [x.k EXCEPT !.nextpid = x.k.nextpid + 1]
           /\ proc' = [proc EXCEPT ![p] = qf, ![n] = NoProc]
  <2>1. x.k = k
    <3>1. ~(Ret([j EXCEPT !.free = v], q1, 0).r < 0)
      BY DEF Ret
    <3>2. x = Ret(k, q, -1)
      BY <1>3, <1>7, <3>1
    <3> QED BY <3>2 DEF Ret
  <2> DEFINE w == x.k.nextpid + 1
  <2>2. k' = [k EXCEPT !.nextpid = w]
    BY <1>7, <2>1
  <2> HIDE DEF w, x
  <2>3. Counted(k', proc) /\ RoomKept(k, k')
    BY <1>10, <2>2, CountsRest, RoomStays
  <2> DEFINE t  == [proc EXCEPT ![p] = qf]
             t2 == [t EXCEPT ![n] = NoProc]
  <2>4. n \in Slots /\ proc[n].st = "unused"
    BY <1>7, FirstSlot
  <2>5. p # n /\ p \in Slots
    BY <1>2, <2>4 DEF UsersOf
  <2>6. proc' = t2
    BY <1>7
  <2>7. SameOwners(proc, t) /\ SamePages(proc, t)
    BY <1>5
  <2>8. t[n] = proc[n] /\ DOMAIN t = Slots
    BY <1>2, <2>5 DEF Procs
  <2> HIDE DEF t, n
  <2>9. SameOwners(t, t2)
    <3>1. Procs(t) /\ n \in Slots \ UsersOf(t)
      BY <2>4, <2>7, <2>8 DEF SameOwners, UsersOf
    <3> QED BY <3>1, IdleSlot, IdleStays
  <2>10. SamePages(t, t2)
    <3>1. Mem(NoProc) /\ PagesOf(NoProc) = 0 /\ PagesOf(t[n]) = 0
      BY <2>4, <2>8, IdleSlot DEF PagesOf, NoProc, Mem, HasMem, proc_pagetable
    <3>2. t2[n] = NoProc /\ \A m \in Slots : m # n => t2[m] = t[m]
      BY <2>4, <2>8
    <3> HIDE DEF t2
    <3> QED BY <3>1, <3>2 DEF SamePages, Memories
  <2> QED BY <2>3, <2>6, <2>7, <2>9, <2>10, CountsOwners, PagedOwners, OwnersTwice, SamePagesTwice
<1>8. CASE /\ free # {} /\ ~(x.r < 0) /\ k' = [x.k EXCEPT !.nextpid = x.k.nextpid + 1]
           /\ proc' = [proc EXCEPT ![p] = qs, ![n] = child]
  <2>1. x.k = [j EXCEPT !.free = v] /\ x.p = q1 /\ copy.ok
    <3>1. Ret(k, q, -1).r < 0
      BY DEF Ret
    <3>2. copy.ok /\ x = Ret([j EXCEPT !.free = v], q1, 0)
      BY <1>3, <1>8, <3>1
    <3> QED BY <3>2 DEF Ret
  <2>2. n \in free
    BY <1>8, FirstSlot
  <2>3. n \in Slots \ UsersOf(proc) /\ proc[n].st = "unused"
    BY <2>2 DEF UsersOf
  <2>4. /\ SameHolder(q, child)
        /\ Mem(q) /\ HasMem(got) => Mem(child) /\ child.mem = got
    <3>1. SameHolder(q, x.p) /\ (Mem(q) /\ HasMem(got) => Mem(x.p) /\ x.p.mem = got)
      BY <1>2, <2>1 DEF SameHolder, Owner, Mem
    <3> HIDE DEF x
    <3> DEFINE went == Went(x.p, c, 0)
    <3>2. SameOwner(x.p, went)
      BY <3>1, WentOwner DEF SameHolder
    <3>3. \E a, b, d, e : child = [went EXCEPT !.pid = a, !.parent = b, !.killed = d, !.todo = e]
      OBVIOUS
    <3> HIDE DEF went, child
    <3>4. SameOwner(went, child)
      BY <3>2, <3>3 DEF SameOwner, SameHolder, SameMem, Mem, Owner
    <3>5. SameOwner(x.p, child)
      BY <3>2, <3>4, SameOwnerTwice
    <3> QED BY <3>1, <3>5 DEF SameOwner, SameHolder, SameMem
  <2> DEFINE w == x.k.nextpid + 1
             pr2 == [proc EXCEPT ![p] = qs, ![n] = child]
  <2>5. k' = [[j EXCEPT !.free = v] EXCEPT !.nextpid = w]
    BY <1>8, <2>1
  <2> HIDE DEF w, x, child
  <2>6. k' = [j EXCEPT !.free = v, !.nextpid = w]
    BY <2>5
  <2>7. Forks(proc, pr2, p, n)
    BY <1>2, <1>4, <2>3, <2>4, ForksIs
  <2>11. ASSUME Paged(k, proc), k'.free = v, SamePipes(k, k')
         PROVE  Paged(k', pr2)
    <3>1. k.free \in Nat /\ Mem(q)
      BY <1>2, <2>11 DEF Paged, Memories, UsersOf
    <3>2. v \in Nat /\ HasMem(got) /\ v + (TRAPFRAMEPAGE + Held(got)) = k.free
      BY <1>9, <2>1, <3>1
    <3>3. Mem(child) /\ child.mem = got /\ child.st # "unused"
      BY <1>2, <2>4, <3>1, <3>2 DEF SameHolder, UsersOf
    <3>4. PagesOf(child) = TRAPFRAMEPAGE + Held(got) /\ PagesOf(proc[n]) = 0
      BY <2>3, <3>3 DEF PagesOf
    <3>5. OpenPipes(k') = OpenPipes(k) /\ Cardinality(OpenPipes(k)) \in Nat
      BY <2>11, PipesSteady, PipesAre
    <3>6. Held(got) \in Nat /\ TRAPFRAMEPAGE \in Nat
      BY <3>2, HeldIs DEF TRAPFRAMEPAGE
    <3> HIDE DEF n, child, q
    <3>7. Room(k') + PagesOf(child) = Room(k) + PagesOf(proc[n])
      BY <2>11, <3>1, <3>2, <3>4, <3>5, <3>6 DEF Room
    <3>8. p # n /\ n \in Slots /\ k'.free \in Nat
      BY <1>2, <2>3, <2>11, <3>2
    <3>9. SameOwner(proc[p], qs)
      BY <1>4 DEF q
    <3> QED BY <1>2, <2>11, <3>3, <3>7, <3>8, <3>9, PagedSlots
  <2> HIDE DEF n
  <2>8. proc' = pr2
    BY <1>8
  <2> HIDE DEF pr2
  <2>9. Forked(k, k', proc[p]) /\ k'.free = v
    <3>1. dup = Dups(k, proc[p])
      BY DEF Dups
    <3> HIDE DEF dup
    <3>2. k' = [idup(Dups(k, proc[p]), proc[p].cwd) EXCEPT !.free = v, !.nextpid = w]
      BY <2>6, <3>1
    <3>3. Forked(k, k', proc[p])
      BY <1>2, <3>2, ForkKernel
    <3>4. "free" \in DOMAIN idup(Dups(k, proc[p]), proc[p].cwd)
      BY <1>10, ForkDomain
    <3>5. k'.free = v
      BY <3>2, <3>4
    <3> QED BY <3>3, <3>5
  <2>10. Counted(k', pr2)
    BY <2>7, <2>9, ForkCounted DEF Forked
  <2>12. PagedStays(k, proc, k', pr2)
    BY <2>9, <2>11 DEF Forked, PagedStays
  <2> QED BY <2>8, <2>10, <2>12
<1> QED BY <1>1, <1>6, <1>7, <1>8

LEMMA PanicIsLast ==
  ASSUME NEW kk, "panic" \in DOMAIN kk
  PROVE  ~Alive(Panic(kk, "init exiting"))
BY DEF Alive, Panic

LEMMA ExitsCounted ==
  ASSUME KernelIs, Counted(k, proc), NEW p \in UsersOf(proc), NEW status, Exits(p, status), Alive(k')
  PROVE  Counted(k', proc') /\ PagedStays(k, proc, k', proc')
<1> DEFINE q == proc[p]
           z == [NoProc EXCEPT !.st = "zombie", !.pid = q.pid, !.parent = q.parent,
                               !.killed = q.killed, !.xs = status, !.mem = q.mem]
           call == [op |-> "exit"]
           t == sys_exit(k, proc[p]).k
<1>1. p # initproc
  <2>1. "panic" \in DOMAIN k
    BY DEF Counted, Fields
  <2>2. p = initproc => ~Alive(k')
    BY <2>1, PanicIsLast DEF Exits
  <2> QED BY <2>2
<1>2. syscall(k, q, call) = sys_exit(k, q)
  BY DEF syscall
<1>3. /\ k' = t
      /\ proc' = [n \in Slots |->
                    IF n = p THEN z
                    ELSE IF proc[n].parent = p THEN [proc[n] EXCEPT !.parent = initproc]
                    ELSE proc[n]]
  BY <1>1, <1>2 DEF Exits, KernelIs
<1>4. Owner(z) /\ z.st # "run" /\ z.st # "unused" /\ z.mem = q.mem /\ "mem" \in DOMAIN z
  BY IdleSlot DEF Owner, NoProc
<1> HIDE DEF z, t
<1>5. Procs(proc) /\ p \in Slots
  BY DEF Counted, UsersOf
<1>6. ASSUME NEW n \in Slots, n # p
      PROVE  SameOwner(proc[n], proc'[n])
  <2>1. Owner(proc[n])
    BY <1>5 DEF Procs
  <2>2. proc'[n] = [proc[n] EXCEPT !.parent = initproc] \/ proc'[n] = proc[n]
    BY <1>3, <1>6
  <2> QED BY <2>1, <2>2 DEF SameOwner, SameHolder, SameMem, Mem, Owner
<1>7. proc'[p] = z /\ DOMAIN proc' = Slots
  BY <1>3, <1>5
<1>8. Procs(proc')
  BY <1>4, <1>6, <1>7 DEF Procs, SameOwner, SameHolder
<1>9. UsersOf(proc') = UsersOf(proc) \ {p}
  <2>1. \A n \in Slots : n \in UsersOf(proc') <=> n \in UsersOf(proc) /\ n # p
    BY <1>4, <1>6, <1>7 DEF UsersOf, SameOwner, SameHolder
  <2> QED BY <2>1 DEF UsersOf
<1>10. \A m \in UsersOf(proc) \ {p} : proc'[m].ofile = proc[m].ofile /\ proc'[m].cwd = proc[m].cwd
  BY <1>6 DEF UsersOf, SameOwner, SameHolder
<1> DEFINE pr2 == proc'
<1> HIDE DEF pr2
<1>12. SamePages(proc, pr2)
  <2>1. ASSUME Memories(proc), NEW n \in Slots
        PROVE  Mem(pr2[n]) /\ PagesOf(pr2[n]) = PagesOf(proc[n])
    <3>1. Mem(proc[n])
      BY <2>1 DEF Memories
    <3>2. CASE n = p
      <4>1. Mem(z)
        BY <1>4, <3>1, <3>2 DEF Mem
      <4>2. PagesOf(z) = PagesOf(proc[p])
        <5>1. proc[p].st # "unused"
          BY DEF UsersOf
        <5> QED BY <1>4, <5>1, PagesLive
      <4> QED BY <1>7, <3>2, <4>1, <4>2 DEF pr2
    <3>3. CASE n # p
      <4>1. SameMem(proc[n], pr2[n]) /\ pr2[n].st = proc[n].st
        BY <1>6, <3>3 DEF SameOwner, SameHolder, pr2
      <4> QED BY <3>1, <4>1, PagesSame
    <3> QED BY <3>2, <3>3
  <2> QED BY <2>1 DEF SamePages, Memories
<1>11. Counted(t, pr2) /\ RoomKept(k, t)
  <2>1. /\ Procs(pr2) /\ UsersOf(pr2) = UsersOf(proc) \ {p}
        /\ \A m \in UsersOf(proc) \ {p} : pr2[m].ofile = proc[m].ofile /\ pr2[m].cwd = proc[m].cwd
    BY <1>8, <1>9, <1>10 DEF pr2
  <2> QED BY <1>3, <2>1, ExitCounted DEF t
<1>13. PagedStays(k, proc, t, pr2)
  BY <1>11, <1>12, PagedOwners
<1> QED BY <1>3, <1>11, <1>13 DEF pr2

LEMMA DoExitCounted ==
  ASSUME KernelIs, Counted(k, proc), NEW p \in Slots, DoExit(p), Alive(k')
  PROVE  Counted(k', proc') /\ PagedStays(k, proc, k', proc')
<1>1. Ready(p) /\ \E status : Exits(p, status)
  BY DEF DoExit
<1> QED BY <1>1, ReadyUser, ExitsCounted

LEMMA DieKilledCounted ==
  ASSUME KernelIs, Counted(k, proc), NEW p \in Slots, DieKilled(p), Alive(k')
  PROVE  Counted(k', proc') /\ PagedStays(k, proc, k', proc')
<1>1. p \in UsersOf(proc) /\ \E status : Exits(p, status)
  BY DEF DieKilled, UsersOf
<1> QED BY <1>1, ExitsCounted

LEMMA DoTouchCounted ==
  ASSUME Counted(k, proc), NEW p \in Slots, DoTouch(p), Alive(k')
  PROVE  Counted(k', proc') /\ PagedStays(k, proc, k', proc')
<1> DEFINE q == proc[p]
<1>1. Ready(p) /\ k' = k
  BY DEF DoTouch
<1>2. PICK r : proc' = [proc EXCEPT ![p] = r] /\ (r = Went(q, Cur(p), 0) \/ r = [q EXCEPT !.killed = TRUE])
  BY DEF DoTouch
<1>3. Procs(proc) /\ Owner(q)
  BY <1>1, ReadyUser, UserOwns
<1>4. SameOwner(q, r)
  <2>1. SameOwner(q, Went(q, Cur(p), 0))
    BY <1>3, WentOwner
  <2> DEFINE w == TRUE
  <2> HIDE DEF w, q
  <2>2. SameOwner(q, [q EXCEPT !.killed = w])
    BY <1>3, SetOwner
  <2> QED BY <1>2, <2>1, <2>2 DEF w
<1>5. SameOwners(proc, proc') /\ SamePages(proc, proc')
  <2>1. SameOwners(proc, [proc EXCEPT ![p] = r]) /\ SamePages(proc, [proc EXCEPT ![p] = r])
    BY <1>3, <1>4, SlotStays
  <2> QED BY <1>2, <2>1
<1>6. RoomKept(k, k')
  BY <1>1 DEF RoomKept
<1> QED BY <1>1, <1>5, <1>6, CountsOwners, PagedOwners


\* kill() sets a flag of the first process it finds.
LEMMA DoKillCounted ==
  ASSUME Counted(k, proc), NEW p \in Slots, DoKill(p), Alive(k')
  PROVE  Counted(k', proc') /\ PagedStays(k, proc, k', proc')
<1> DEFINE c    == Cur(p)
           q    == proc[p]
           hits == {n \in Slots : proc[n].pid = q.reg[c.reg]}
           q2   == Went(q, c, IF hits = {} THEN -1 ELSE 0)
           t    == [proc EXCEPT ![p] = q2]
           m    == Min(hits)
           r    == [t[m] EXCEPT !.killed = TRUE]
<1>1. Ready(p) /\ k' = k /\ proc' = IF hits = {} THEN t ELSE [t EXCEPT ![m].killed = TRUE]
  BY DEF DoKill
<1>2. Procs(proc) /\ Owner(q)
  BY <1>1, ReadyUser, UserOwns
<1>3. SameOwner(q, q2)
  BY <1>2, WentOwner
<1>4. hits \subseteq Slots
  OBVIOUS
<1> HIDE DEF q2, hits
<1>5. SameOwners(proc, t) /\ SamePages(proc, t)
  BY <1>2, <1>3, SlotStays
<1> HIDE DEF t
<1>6. ASSUME hits # {}
      PROVE  /\ SameOwners(t, [t EXCEPT ![m].killed = TRUE])
             /\ SamePages(t, [t EXCEPT ![m].killed = TRUE])
  <2>1. m \in Slots
    BY <1>4, <1>6, FirstSlot
  <2>2. Procs(t) /\ Owner(t[m])
    BY <1>5, <2>1 DEF SameOwners, Procs
  <2>3. SameOwner(t[m], r)
    BY <2>2, SetOwner
  <2> HIDE DEF m, r
  <2>4. SameOwners(t, [t EXCEPT ![m] = r]) /\ SamePages(t, [t EXCEPT ![m] = r])
    BY <2>1, <2>2, <2>3, SlotStays
  <2>5. [t EXCEPT ![m].killed = TRUE] = [t EXCEPT ![m] = r]
    BY DEF r
  <2> QED BY <2>4, <2>5
<1>7. SameOwners(proc, proc') /\ SamePages(proc, proc')
  <2>1. CASE hits = {}
    BY <1>1, <1>5, <2>1
  <2>2. CASE hits # {}
    <3>1. SameOwners(t, proc') /\ SamePages(t, proc')
      BY <1>1, <1>6, <2>2
    <3> QED BY <1>5, <3>1, OwnersTwice, SamePagesTwice
  <2> QED BY <2>1, <2>2
<1>8. RoomKept(k, k')
  BY <1>1 DEF RoomKept
<1> QED BY <1>1, <1>7, <1>8, CountsOwners, PagedOwners

\* wait() frees a zombie, which has neither files nor a directory any more.
LEMMA DoWaitCounted ==
  ASSUME Counted(k, proc), NEW p \in Slots, DoWait(p), Alive(k')
  PROVE  Counted(k', proc') /\ PagedStays(k, proc, k', proc')
<1> DEFINE c    == Cur(p)
           q    == proc[p]
           kids == {n \in Slots : proc[n].parent = p /\ proc[n].st # "unused"}
           dead == {n \in kids : proc[n].st = "zombie"}
           np   == Min(dead)
           told == [q EXCEPT !.reg = ("xstatus" :> proc[np].xs) @@ @]
           seen == /\ "status" \in DOMAIN c => proc[np].xs \in c.status
                   /\ "reg" \in DOMAIN c => proc[np].pid = q.reg[c.reg]
           next == IF "no" \in DOMAIN c THEN c.no ELSE Fail
           q1   == Went(q, c, -1)
           q2   == IF seen THEN Went(told, c, proc[np].pid) ELSE [told EXCEPT !.todo = next]
           left == k.free + TRAPFRAMEPAGE + Held(proc[np].mem)
<1>1. /\ Ready(p)
      /\ \/ k' = k /\ proc' = [proc EXCEPT ![p] = q1]
         \/ /\ dead # {}
            /\ k' = [k EXCEPT !.free = left]
            /\ proc' = [proc EXCEPT ![p] = q2, ![np] = NoProc]
  BY DEF DoWait
<1>2. p \in UsersOf(proc) /\ Procs(proc) /\ Owner(q)
  BY <1>1, ReadyUser, UserOwns
<1>3. SameOwner(q, q1) /\ SameOwner(q, q2)
  <2>1. SameOwner(q, told) /\ Owner(told)
    BY <1>2 DEF SameOwner, SameHolder, SameMem, Mem, Owner
  <2>2. SameOwner(told, [told EXCEPT !.todo = next])
    <3> HIDE DEF told, next
    <3> QED BY <2>1, SetOwner
  <2> HIDE DEF told, next, seen
  <2>3. SameOwner(told, Went(told, c, proc[np].pid))
    BY <2>1, WentOwner
  <2>4. SameOwner(told, q2)
    <3>1. CASE seen
      BY <2>3, <3>1
    <3>2. CASE ~seen
      BY <2>2, <3>2
    <3> QED BY <3>1, <3>2
  <2> HIDE DEF q2
  <2>5. SameOwner(q, q2)
    BY <2>1, <2>4, SameOwnerTwice
  <2> QED BY <1>2, <2>5, WentOwner
<1>4. dead \subseteq Slots /\ \A n \in dead : proc[n].st = "zombie"
  OBVIOUS
<1> HIDE DEF q1, q2, left, dead
<1>5. /\ SameOwners(proc, [proc EXCEPT ![p] = q1]) /\ SameOwners(proc, [proc EXCEPT ![p] = q2])
      /\ SamePages(proc, [proc EXCEPT ![p] = q1])
  BY <1>2, <1>3, SlotStays
<1>6. CASE k' = k /\ proc' = [proc EXCEPT ![p] = q1]
  <2>1. RoomKept(k, k')
    BY <1>6 DEF RoomKept
  <2> QED BY <1>5, <1>6, <2>1, CountsOwners, PagedOwners
<1>7. CASE dead # {} /\ k' = [k EXCEPT !.free = left] /\ proc' = [proc EXCEPT ![p] = q2, ![np] = NoProc]
  <2> DEFINE t == [proc EXCEPT ![p] = q2]
  <2>1. np \in Slots \ UsersOf(proc) /\ np # p /\ proc[np].st = "zombie"
    BY <1>2, <1>4, <1>7, FirstSlot DEF UsersOf
  <2>7. ASSUME Paged(k, proc)
        PROVE  Paged(k', proc')
    <3>1. k.free \in Nat /\ Mem(proc[np])
      BY <2>1, <2>7 DEF Paged, Memories
    <3>2. Held(proc[np].mem) \in Nat /\ TRAPFRAMEPAGE \in Nat
      BY <3>1, HeldIs DEF TRAPFRAMEPAGE, Mem
    <3>3. Fields \subseteq DOMAIN k
      BY DEF Counted
    <3>4. k'.free = left /\ k'.pipe = k.pipe
      BY <1>7, <3>3 DEF Fields
    <3>5. left = k.free + (TRAPFRAMEPAGE + Held(proc[np].mem)) /\ left \in Nat
      BY <3>1, <3>2 DEF left
    <3>6. /\ PagesOf(proc[np]) = TRAPFRAMEPAGE + Held(proc[np].mem) /\ PagesOf(NoProc) = 0
          /\ Mem(NoProc)
      BY <2>1, IdleSlot DEF PagesOf, NoProc, Mem, HasMem, proc_pagetable
    <3>7. OpenPipes(k') = OpenPipes(k) /\ Cardinality(OpenPipes(k)) \in Nat
      BY <3>4, PipesAre DEF OpenPipes
    <3> HIDE DEF np
    <3>8. Room(k') + PagesOf(NoProc) = Room(k) + PagesOf(proc[np])
      BY <3>1, <3>2, <3>4, <3>5, <3>6, <3>7 DEF Room
    <3>9. Paged(k', [proc EXCEPT ![p] = q2, ![np] = NoProc])
      BY <1>2, <1>3, <2>1, <2>7, <3>4, <3>5, <3>6, <3>8, PagedSlots
    <3> QED BY <1>7, <3>9
  <2>2. Procs(t) /\ UsersOf(t) = UsersOf(proc)
    BY <1>5 DEF SameOwners
  <2>3. proc' = [t EXCEPT ![np] = NoProc]
    BY <1>7
  <2> HIDE DEF t, np
  <2>4. SameOwners(t, [t EXCEPT ![np] = NoProc])
    <3>1. NoProc.st # "run" /\ Owner(NoProc) /\ np \in Slots \ UsersOf(t)
      BY <2>1, <2>2, IdleSlot
    <3> QED BY <2>2, <3>1, IdleStays
  <2>5. SameOwners(proc, proc')
    <3>1. SameOwners(proc, t)
      BY <1>5 DEF t
    <3> QED BY <2>3, <2>4, <3>1, OwnersTwice
  <2>6. Counted(k', proc)
    BY <1>7, CountsRest
  <2> QED BY <2>5, <2>6, <2>7, CountsOwners DEF PagedStays
<1> QED BY <1>1, <1>6, <1>7

LEMMA BootIs ==
  ASSUME NEW files
  PROVE  /\ Fields \subseteq DOMAIN Boot(files)
         /\ Boot(files).file = [f \in Files |-> NoFile]
         /\ Boot(files).pipe = [n \in 1 .. NFILE |-> NoPipe]
         /\ Boot(files).inode = [i \in Inums |-> NoInode]
         /\ Boot(files).free = NPAGES - TRAPFRAMEPAGE - Held(Loaded)
<1> DEFINE im == Image(files)
           is == [i \in Inums |-> NoInode]
<1>1. im.inode = is
  BY DEF Image
<1> HIDE DEF im, is
<1>2. Boot(files).inode = im.inode
  BY DEF Boot, im
<1>3. /\ Fields \subseteq DOMAIN Boot(files)
      /\ Boot(files).file = [f \in Files |-> NoFile]
      /\ Boot(files).pipe = [n \in 1 .. NFILE |-> NoPipe]
      /\ Boot(files).free = NPAGES - TRAPFRAMEPAGE - Held(Loaded)
  BY DEF Boot, Fields
<1> QED BY <1>1, <1>2, <1>3 DEF is

LEMMA NoInodeIs == "ref" \in DOMAIN NoInode /\ NoInode.ref = 0
BY DEF NoInode, Inode, NoDinode

LEMMA NoPipeIs == OnePipe(NoPipe) /\ NoPipe.readopen = FALSE /\ NoPipe.writeopen = FALSE
BY DEF OnePipe, NoPipe

\* When init starts, only its directory is held.
LEMMA StartsCounted ==
  ASSUME NEW files, NEW prog, Starts(files, prog), Alive(k)
  PROVE  Counted(k, proc)
<1> DEFINE boot == Boot(files)
           q == [NoProc EXCEPT !.st = "run", !.pid = 1, !.cwd = ROOTINO, !.mem = Loaded,
                               !.reg = StdRegs, !.todo = OpenConsole \o prog]
<1>1. k = iget(boot, ROOTINO) /\ proc = [p \in Slots |-> IF p = initproc THEN q ELSE NoProc]
  BY DEF Starts
<1>2. Owner(q) /\ q.st = "run" /\ q.cwd = ROOTINO /\ q.ofile = [fd \in 0 .. NOFILE - 1 |-> 0]
  BY IdleSlot DEF Owner, NoProc
<1> HIDE DEF q
<1>3. /\ Fields \subseteq DOMAIN boot
      /\ boot.file = [f \in Files |-> NoFile] /\ boot.pipe = [n \in 1 .. NFILE |-> NoPipe]
      /\ boot.inode = [i \in Inums |-> NoInode]
  BY BootIs
<1> HIDE DEF boot
<1>4. Refs(boot) /\ \A i \in Inums : boot.inode[i].ref = 0
  BY <1>3, NoInodeIs DEF Refs
<1>5. Frame(boot, k) /\ Gained(boot, k, ROOTINO)
  BY <1>1, <1>3, <1>4, IgetGains DEF Alive
<1>6. /\ Fields \subseteq DOMAIN k /\ k.file = boot.file /\ k.pipe = boot.pipe
      /\ Refs(k) /\ \A i \in Inums : k.inode[i].ref = One(ROOTINO, i)
  <2>1. \A i \in Inums : One(ROOTINO, i) \in Nat
    BY DEF One
  <2>2. \A i \in Inums : k.inode[i].ref = boot.inode[i].ref + One(ROOTINO, i)
    BY <1>5 DEF Gained
  <2>3. \A i \in Inums : k.inode[i].ref = One(ROOTINO, i)
    BY <1>4, <2>1, <2>2
  <2>4. Fields \subseteq DOMAIN k /\ k.file = boot.file /\ k.pipe = boot.pipe /\ Refs(k)
    BY <1>3, <1>5 DEF Frame, Gained
  <2> QED BY <2>3, <2>4
<1>7. /\ DOMAIN k.file = Files /\ DOMAIN k.pipe = 1 .. NFILE
      /\ \A f \in Files : k.file[f] = NoFile
      /\ \A n \in 1 .. NFILE : k.pipe[n] = NoPipe
  BY <1>3, <1>6
<1>8. Table(k) /\ Pipes(k) /\ \A f \in Files : k.file[f].ref = 0
  BY <1>7, NoFileIs, NoPipeIs DEF Table, Pipes
<1>9. Ends(k)
  <2>1. \A f \in Files : \A n, b : ~EndOf(k, f, n, b)
    BY <1>8 DEF EndOf
  <2> QED BY <1>7, <2>1, NoPipeIs DEF Ends
<1>10. initproc \in Slots
  BY Constants DEF Slots, initproc
<1>11. Procs(proc) /\ UsersOf(proc) = {initproc} /\ proc[initproc] = q
  <2>1. Procs(proc) /\ proc[initproc] = q
    BY <1>1, <1>2, <1>10, IdleSlot DEF Procs
  <2>2. \A p \in Slots : p \in UsersOf(proc) <=> p = initproc
    BY <1>1, <1>2, IdleSlot DEF UsersOf
  <2>3. UsersOf(proc) \subseteq Slots
    BY DEF UsersOf
  <2> QED BY <1>10, <2>1, <2>2, <2>3
<1>12. FilesCounted(k, proc)
  <2>1. ASSUME NEW f \in Files
        PROVE  k.file[f].ref = Cardinality(OpenedBy(proc, f))
    <3>1. f # 0
      BY DEF Files
    <3>2. OpenedBy(proc, f) = {}
      BY <1>2, <1>11, <3>1 DEF OpenedBy
    <3> QED BY <1>8, <3>2, FS_EmptySet
  <2> QED BY <2>1 DEF FilesCounted
<1>13. InodesCounted(k, proc)
  <2>1. ASSUME NEW i \in Inums
        PROVE  k.inode[i].ref = Cardinality(Stands(k, i)) + Cardinality(Within(proc, i))
    <3>1. Stands(k, i) = {}
      BY <1>8 DEF Stands
    <3>2. Within(proc, i) = IF i = ROOTINO THEN {initproc} ELSE {}
      BY <1>2, <1>11 DEF Within
    <3>3. Cardinality(Within(proc, i)) = One(ROOTINO, i)
      BY <3>2, FS_EmptySet, FS_Singleton DEF One
    <3>4. Cardinality(Stands(k, i)) = 0
      BY <3>1, FS_EmptySet
    <3>5. One(ROOTINO, i) \in Nat
      BY DEF One
    <3> QED BY <1>6, <3>3, <3>4, <3>5
  <2> QED BY <2>1 DEF InodesCounted
<1> QED BY <1>6, <1>8, <1>9, <1>11, <1>12, <1>13 DEF Counted

LEMMA NoProcMem == Mem(NoProc) /\ NoProc.st = "unused" /\ "mem" \in DOMAIN NoProc
BY DEF NoProc, Mem, HasMem, proc_pagetable

\* At the start every page is free but those of program init.
LEMMA StartsPaged ==
  ASSUME NEW files, NEW prog, Starts(files, prog), Alive(k)
  PROVE  Paged(k, proc)
<1> DEFINE boot == Boot(files)
           q == [NoProc EXCEPT !.st = "run", !.pid = 1, !.cwd = ROOTINO, !.mem = Loaded,
                               !.reg = StdRegs, !.todo = OpenConsole \o prog]
           none == [p \in Slots |-> NoProc]
           left == NPAGES - TRAPFRAMEPAGE - Held(Loaded)
<1>1. k = iget(boot, ROOTINO) /\ proc = [p \in Slots |-> IF p = initproc THEN q ELSE NoProc]
  BY DEF Starts
<1>2. q.st # "unused" /\ q.mem = Loaded /\ "mem" \in DOMAIN q
  BY NoProcMem
<1> HIDE DEF q
<1>3. /\ Fields \subseteq DOMAIN boot
      /\ boot.pipe = [n \in 1 .. NFILE |-> NoPipe]
      /\ boot.inode = [i \in Inums |-> NoInode] /\ boot.free = left
  BY BootIs
<1> HIDE DEF boot
<1>4. Refs(boot)
  BY <1>3, NoInodeIs DEF Refs
<1>5. k.free = left /\ k.pipe = boot.pipe
  BY <1>1, <1>3, <1>4, IgetGains DEF Alive, Frame
<1>6. left \in Nat /\ left + (TRAPFRAMEPAGE + Held(Loaded)) = NPAGES
  BY MachineAssumption, LoadedIs DEF TRAPFRAMEPAGE
<1> HIDE DEF left
<1>7. OpenPipes(k) = {}
  BY <1>3, <1>5, NoPipeIs DEF OpenPipes
<1>8. Room(k) = left
  BY <1>5, <1>6, <1>7, FS_EmptySet DEF Room
<1>9. /\ Memories(none) /\ \A p \in Slots : PagesOf(none[p]) = 0
      /\ Taken(none)[NPROC] = 0
  <2>1. \A p \in Slots : none[p] = NoProc
    OBVIOUS
  <2> HIDE DEF none
  <2>2. Memories(none) /\ \A p \in Slots : PagesOf(none[p]) = 0
    BY <2>1, NoProcMem DEF Memories, PagesOf
  <2> QED BY <2>2, TakenNone
<1>10. initproc \in Slots
  BY Constants DEF Slots, initproc
<1>11. Mem(q) /\ PagesOf(q) = TRAPFRAMEPAGE + Held(Loaded)
  BY <1>2, LoadedIs, PagesLive DEF Mem
<1>12. /\ proc[initproc] = q
       /\ \A p \in Slots \ {initproc} : proc[p] = none[p]
  BY <1>1, <1>10
<1> HIDE DEF none
<1>13. Memories(proc) /\ \A p \in Slots \ {initproc} : PagesOf(proc[p]) = PagesOf(none[p])
  BY <1>9, <1>11, <1>12 DEF Memories
<1> DEFINE pr2 == proc
<1> HIDE DEF pr2
<1>14. Taken(pr2)[NPROC] + PagesOf(none[initproc]) = Taken(none)[NPROC] + PagesOf(pr2[initproc])
  BY <1>9, <1>10, <1>13, TakenMoves DEF pr2
<1>15. Taken(pr2)[NPROC] = TRAPFRAMEPAGE + Held(Loaded)
  <2>1. PagesOf(none[initproc]) = 0 /\ pr2[initproc] = q
    BY <1>9, <1>10, <1>12 DEF pr2
  <2>2. Taken(pr2)[NPROC] \in Nat /\ PagesOf(q) \in Nat
    BY <1>11, <1>13, TakenIs, PagesOfIs DEF pr2
  <2> QED BY <1>9, <1>11, <1>14, <2>1, <2>2
<1> QED BY <1>5, <1>6, <1>8, <1>13, <1>15 DEF Paged, pr2

\* Every step of a process keeps the counts.
LEMMA StepCounted ==
  ASSUME KernelIs, Counted(k, proc), NEW p \in Slots, Ready(p) => Typed(Cur(p)), Step(p), Alive(k')
  PROVE  Counted(k', proc') /\ PagedStays(k, proc, k', proc')
<1>1. ASSUME Call(p) \/ MakePipe(p) \/ DoExec(p)
      PROVE  Typed(Cur(p))
  BY <1>1 DEF Call, MakePipe, DoExec
<1>2. CASE Call(p)
  BY <1>1, <1>2, CallCounted
<1>3. CASE MakePipe(p)
  BY <1>1, <1>3, MakePipeCounted
<1>4. CASE DoExec(p)
  BY <1>1, <1>4, DoExecCounted
<1>5. CASE DoFork(p)
  BY <1>5, DoForkCounted
<1>6. CASE DoExit(p)
  BY <1>6, DoExitCounted
<1>7. CASE DieKilled(p)
  BY <1>7, DieKilledCounted
<1>8. CASE DoWait(p)
  BY <1>8, DoWaitCounted
<1>9. CASE DoKill(p)
  BY <1>9, DoKillCounted
<1>10. CASE DoTouch(p)
  BY <1>10, DoTouchCounted
<1> QED BY <1>2, <1>3, <1>4, <1>5, <1>6, <1>7, <1>8, <1>9, <1>10 DEF Step

\* A step is one of a kernel that goes on.
LEMMA StepAlive ==
  ASSUME NEW p \in Slots, Step(p)
  PROVE  Alive(k)
BY DEF Step, Call, MakePipe, DoExec, DoFork, DoExit, DieKilled, DoWait, DoKill, DoTouch, Ready, Alive

\* The counts are exact while the kernel goes on.
Accounted == Alive(k) => Counted(k, proc) /\ Paged(k, proc)

LEMMA AccountedNext ==
  ASSUME KernelIs, Accounted, CallsTyped, [Next]_vars
  PROVE  Accounted'
<1>1. CASE Next
  <2>1. PICK p \in Slots : Step(p)
    BY <1>1 DEF Next
  <2>2. Counted(k, proc) /\ Paged(k, proc)
    BY <2>1, StepAlive DEF Accounted
  <2>3. Ready(p) => Typed(Cur(p))
    BY DEF CallsTyped
  <2>4. Alive(k') => Counted(k', proc') /\ PagedStays(k, proc, k', proc')
    BY <2>1, <2>2, <2>3, StepCounted
  <2> QED BY <2>2, <2>4 DEF Accounted, PagedStays
<1>2. CASE UNCHANGED vars
  BY <1>2 DEF Accounted, vars
<1> QED BY <1>1, <1>2

LEMMA PagedCounts ==
  ASSUME Counted(k, proc), Paged(k, proc)
  PROVE  PagesCounted
<1> DEFINE pipes == {n \in DOMAIN k.pipe : k.pipe[n].readopen \/ k.pipe[n].writeopen}
<1>1. DOMAIN k.pipe = 1 .. NFILE
  BY DEF Counted, Pipes
<1>2. pipes = OpenPipes(k)
  BY <1>1 DEF OpenPipes
<1> HIDE DEF pipes
<1>3. k.free \in Nat /\ (k.free + Cardinality(pipes)) + Taken(proc)[NPROC] = NPAGES
  BY <1>2 DEF Paged, Room
<1>4. Cardinality(pipes) \in Nat /\ Taken(proc)[NPROC] \in Nat
  BY <1>2, PipesAre, TakenIs DEF Paged
<1>5. k.free + Taken(proc)[NPROC] + Cardinality(pipes) = NPAGES
  BY <1>3, <1>4
<1> QED BY <1>3, <1>5 DEF PagesCounted, pipes

LEMMA AccountedCounts == Accounted => (k.panic = "" => NothingLeaks)
BY CountsRefs, PagedCounts DEF Accounted, Alive, NothingLeaks

LEMMA StartsAccounted ==
  ASSUME NEW files, NEW prog, Starts(files, prog)
  PROVE  Accounted
BY StartsCounted, StartsPaged DEF Accounted

LEMMA InitAccounted == Init => Accounted
<1> SUFFICES ASSUME Init PROVE Accounted
  OBVIOUS
<1>1. PICK test \in Tests : Starts(Disk, init(Command(test)))
  BY DEF Init
<1> DEFINE d == Disk
           prog == init(Command(test))
<1> HIDE DEF d, prog
<1>2. Starts(d, prog)
  BY <1>1 DEF d, prog
<1> QED BY <1>2, StartsAccounted

\* Whatever files the disk has and whatever program init runs, as long as its calls
\* have the arguments user.h asks for: every reference that is counted is there, every
\* one there is counted, and so is every page, until the kernel
\* panics (file.c:44-90, fs.c:240-375, proc.c:305-409, vm.c:219-348).
THEOREM AnyProgramCounted ==
  ASSUME KernelIs, NEW CONSTANT files, NEW CONSTANT prog
  PROVE  Starts(files, prog) /\ [][Next]_vars /\ []CallsTyped
           => [](k.panic = "" => NothingLeaks)
<1>1. Starts(files, prog) => Accounted
  BY StartsAccounted
<1>2. Accounted /\ CallsTyped /\ [Next]_vars => Accounted'
  BY AccountedNext
<1> QED BY <1>1, <1>2, AccountedCounts, PTL

\* The same of the tests (usertests.c:2700-2930): nothing leaks, whatever call fails half
\* way, and however many processes, descriptors, files, inodes, pipes and pages there are.
THEOREM NothingLeaksCorrect ==
  ASSUME KernelIs
  PROVE  Spec /\ []CallsTyped => [](k.panic = "" => NothingLeaks)
<1>1. Accounted /\ CallsTyped /\ [Next]_vars => Accounted'
  BY AccountedNext
<1> QED BY <1>1, InitAccounted, AccountedCounts, PTL DEF Spec
=============================================================================
