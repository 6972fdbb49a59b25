-------------------------------- MODULE Inode --------------------------------
(***************************************************************************)
(* Processes that create, open, link and unlink files of one directory at  *)
(* the same time: the locks inside the calls of kernel/sysfile.c and       *)
(* kernel/fs.c, of which module Syscalls has the outcome. A critical       *)
(* section of itable.lock is one action, so is the read or write of an     *)
(* inode on the disk, whose buffer is locked (module Bio). The directory   *)
(* is the root, which nobody removes. That a call is one transaction is    *)
(* the matter of module Log.                                               *)
(***************************************************************************)
EXTENDS Naturals, FiniteSets

CONSTANTS
  Procs, Names,
  Inums,
  Nobody

\* Assumed where the module is instantiated (Storage).
Parameters ==
  /\ Inums \subseteq Nat \ {0}
  /\ Cardinality(Inums) >= Cardinality(Procs)

VARIABLES
  dinode,              \* the inodes on the disk: allocated or not, and nlink
  dir, dirlock,        \* the directory, and its sleep lock
  ref, valid, ip, lock,\* itable: ref and ip->lock of an inode, its copy
  panic,
  pc, call,            \* a process, its call and the arguments
  ino, fresh           \* the inode it has, and whether it came from ialloc()

tableVars == <<ref, valid, ip, lock>>
vars == <<dinode, dir, dirlock, tableVars, panic, pc, call, ino, fresh>>

Free  == [used |-> FALSE, nlink |-> 0]
NoIno == 0
NoCall == [op |-> "none"]
Calls  == [op : {"open", "unlink"}, name : Names] \cup [op : {"link"}, name : Names, new : Names]

Init ==
  /\ dinode = [i \in Inums |-> Free]
  /\ dir = [n \in Names |-> NoIno]
  /\ dirlock = Nobody
  /\ ref = [i \in Inums |-> 0]
  /\ valid = [i \in Inums |-> FALSE]
  /\ ip = [i \in Inums |-> Free]
  /\ lock = [i \in Inums |-> Nobody]
  /\ panic = FALSE
  /\ pc = [p \in Procs |-> "idle"]
  /\ call = [p \in Procs |-> NoCall]
  /\ ino = [p \in Procs |-> NoIno]
  /\ fresh = [p \in Procs |-> FALSE]

Goto(p, here, there) ==
  /\ ~panic
  /\ pc[p] = here
  /\ pc' = [pc EXCEPT ![p] = there]

\* Bound: a file is created only while ialloc() will not run out of inodes.
EnoughInodes == Cardinality({i \in Inums : ~dinode[i].used}) >= Cardinality(Procs)

Call(p) ==
  /\ Goto(p, "idle", "dir")
  /\ \E c \in Calls :
       /\ c.op = "open" => EnoughInodes
       /\ call' = [call EXCEPT ![p] = c]
  /\ UNCHANGED <<dinode, dir, dirlock, tableVars, panic, ino, fresh>>

----------------------------------------------------------------------------
(* fs.c                                                                    *)

LockDir(p) ==
  /\ dirlock = Nobody
  /\ dirlock' = p
  /\ Goto(p, "dir", "look") \/ Goto(p, "dir2", "link")
  /\ UNCHANGED <<dinode, dir, tableVars, panic, call, ino, fresh>>

\* iget() of inode i: one reference more, the entry new when there was none.
Iget(i) ==
  /\ ref' = [ref EXCEPT ![i] = @ + 1]
  /\ valid' = [valid EXCEPT ![i] = @ /\ ref[i] > 0]
  /\ UNCHANGED <<ip, lock>>

Ialloc(p) ==
  /\ Goto(p, "ialloc", "iget")
  /\ \E i \in Inums :
       /\ ~dinode[i].used
       /\ \A j \in Inums : ~dinode[j].used => i <= j
       /\ dinode' = [dinode EXCEPT ![i] = [used |-> TRUE, nlink |-> 0]]
       /\ ino' = [ino EXCEPT ![p] = i]
  /\ fresh' = [fresh EXCEPT ![p] = TRUE]
  /\ UNCHANGED <<dir, dirlock, tableVars, panic, call>>

IallocReturn(p) ==
  /\ Goto(p, "iget", "ilock")
  /\ Iget(ino[p])
  /\ UNCHANGED <<dinode, dir, dirlock, panic, call, ino, fresh>>

\* ilock(): also that of sys_link() when it has failed.
Ilock(p) ==
  LET i == ino[p] IN
  /\ Goto(p, "ilock", "have") \/ Goto(p, "bad", "undo")
  /\ lock[i] = Nobody
  /\ lock' = [lock EXCEPT ![i] = p]
  /\ ip' = [ip EXCEPT ![i] = IF valid[i] THEN @ ELSE dinode[i]]
  /\ valid' = [valid EXCEPT ![i] = TRUE]
  /\ panic' = (~valid[i] /\ ~dinode[i].used)         \* "ilock: no type"
  /\ UNCHANGED <<dinode, dir, dirlock, ref, call, ino, fresh>>

\* nlink of the locked inode becomes n, iupdate(), and maybe iunlock().
SetLinks(i, n, owner) ==
  /\ ip' = [ip EXCEPT ![i].nlink = n]
  /\ dinode' = [dinode EXCEPT ![i] = ip'[i]]
  /\ lock' = [lock EXCEPT ![i] = owner]
  /\ UNCHANGED <<ref, valid>>

\* The call ends.
Idle(p) ==
  /\ ino' = [ino EXCEPT ![p] = NoIno]
  /\ fresh' = [fresh EXCEPT ![p] = FALSE]
  /\ call' = [call EXCEPT ![p] = NoCall]

\* ref--: the last one gives the entry up.
PutRef(p) ==
  LET i == ino[p] IN
  /\ ref' = [ref EXCEPT ![i] = @ - 1]
  /\ valid' = [valid EXCEPT ![i] = @ /\ ref[i] > 1]
  /\ ip' = [ip EXCEPT ![i] = IF ref[i] > 1 THEN @ ELSE Free]
  /\ Idle(p)

\* Mutant of LastRef: itable.lock is let go before the references are counted.
LastRefAny(i) == valid[i] /\ ip[i].nlink = 0

LastRef(i) == ref[i] = 1 /\ valid[i] /\ ip[i].nlink = 0

Iput(p) ==
  /\ Goto(p, "iput", "idle")
  /\ ~LastRef(ino[p])
  /\ PutRef(p)
  /\ UNCHANGED <<dinode, dir, dirlock, lock, panic>>

\* acquiresleep(&ip->lock), itable.lock let go.
IputLast(p) ==
  LET i == ino[p] IN
  /\ Goto(p, "iput", "free")
  /\ LastRef(i)
  /\ lock[i] = Nobody
  /\ lock' = [lock EXCEPT ![i] = p]
  /\ UNCHANGED <<dinode, dir, dirlock, ref, valid, ip, panic, call, ino, fresh>>

\* itrunc(), ip->type = 0, iupdate(): from here on ialloc() may take it.
IputFree(p) ==
  LET i == ino[p] IN
  /\ Goto(p, "free", "invalid")
  /\ ip' = [ip EXCEPT ![i].used = FALSE]
  /\ dinode' = [dinode EXCEPT ![i] = ip'[i]]
  /\ UNCHANGED <<dir, dirlock, ref, valid, lock, panic, call, ino, fresh>>

\* Mutant of IputInvalid: ip->valid stays.
IputStillValid(p) ==
  /\ Goto(p, "invalid", "put")
  /\ lock' = [lock EXCEPT ![ino[p]] = Nobody]
  /\ UNCHANGED <<dinode, dir, dirlock, ref, valid, ip, panic, call, ino, fresh>>

IputInvalid(p) ==
  /\ Goto(p, "invalid", "put")
  /\ valid' = [valid EXCEPT ![ino[p]] = FALSE]
  /\ lock' = [lock EXCEPT ![ino[p]] = Nobody]
  /\ UNCHANGED <<dinode, dir, dirlock, ref, ip, panic, call, ino, fresh>>

IputReturn(p) ==
  /\ Goto(p, "put", "idle")
  /\ PutRef(p)
  /\ UNCHANGED <<dinode, dir, dirlock, lock, panic>>

----------------------------------------------------------------------------
(* sysfile.c                                                               *)

Found(p) == dir[call[p].name] # NoIno

\* The name is there: its inode is referred to before the directory is let go,
\* which unlink does not do.
LookFound(p) ==
  LET i == dir[call[p].name] IN
  /\ Goto(p, "look", "ilock")
  /\ Found(p)
  /\ Iget(i)
  /\ ino' = [ino EXCEPT ![p] = i]
  /\ dirlock' = IF call[p].op = "unlink" THEN p ELSE Nobody
  /\ UNCHANGED <<dinode, dir, panic, call, fresh>>

LookCreate(p) ==
  /\ Goto(p, "look", "ialloc")
  /\ ~Found(p)
  /\ call[p].op = "open"
  /\ UNCHANGED <<dinode, dir, dirlock, tableVars, panic, call, ino, fresh>>

LookFails(p) ==
  /\ Goto(p, "look", "idle")
  /\ ~Found(p)
  /\ call[p].op # "open"
  /\ dirlock' = Nobody
  /\ Idle(p)
  /\ UNCHANGED <<dinode, dir, tableVars, panic>>

\* create(): one link, then the entry; the file is open.
CreateInit(p) ==
  /\ Goto(p, "have", "enter")
  /\ call[p].op = "open" /\ fresh[p]
  /\ SetLinks(ino[p], 1, p)
  /\ UNCHANGED <<dir, dirlock, panic, call, ino, fresh>>

CreateEnter(p) ==
  /\ Goto(p, "enter", "open")
  /\ dir' = [dir EXCEPT ![call[p].name] = ino[p]]
  /\ dirlock' = Nobody
  /\ lock' = [lock EXCEPT ![ino[p]] = Nobody]
  /\ UNCHANGED <<dinode, ref, valid, ip, panic, call, ino, fresh>>

OpenFound(p) ==
  /\ Goto(p, "have", "open")
  /\ call[p].op = "open" /\ ~fresh[p]
  /\ lock' = [lock EXCEPT ![ino[p]] = Nobody]
  /\ UNCHANGED <<dinode, dir, dirlock, ref, valid, ip, panic, call, ino, fresh>>

Close(p) ==
  /\ Goto(p, "open", "iput")
  /\ UNCHANGED <<dinode, dir, dirlock, tableVars, panic, call, ino, fresh>>

Unlink(p) ==
  /\ Goto(p, "have", "drop")
  /\ call[p].op = "unlink"
  /\ panic' = (ip[ino[p]].nlink < 1)                 \* "unlink: nlink < 1"
  /\ dir' = [dir EXCEPT ![call[p].name] = NoIno]
  /\ dirlock' = Nobody
  /\ UNCHANGED <<dinode, tableVars, call, ino, fresh>>

UnlinkDrop(p) ==
  /\ Goto(p, "drop", "iput")
  /\ SetLinks(ino[p], ip[ino[p]].nlink - 1, Nobody)
  /\ UNCHANGED <<dir, dirlock, panic, call, ino, fresh>>

\* Mutant of Link: the inode is unlocked with nlink raised in memory only.
LinkNoUpdate(p) ==
  /\ Goto(p, "have", "dir2")
  /\ call[p].op = "link"
  /\ ip' = [ip EXCEPT ![ino[p]].nlink = @ + 1]
  /\ lock' = [lock EXCEPT ![ino[p]] = Nobody]
  /\ UNCHANGED <<dinode, dir, dirlock, ref, valid, panic, call, ino, fresh>>

\* The link counts before its entry is there.
Link(p) ==
  /\ Goto(p, "have", "dir2")
  /\ call[p].op = "link"
  /\ SetLinks(ino[p], ip[ino[p]].nlink + 1, Nobody)
  /\ UNCHANGED <<dir, dirlock, panic, call, ino, fresh>>

LinkEnter(p) ==
  /\ Goto(p, "link", "iput")
  /\ dir[call[p].new] = NoIno
  /\ dir' = [dir EXCEPT ![call[p].new] = ino[p]]
  /\ dirlock' = Nobody
  /\ UNCHANGED <<dinode, tableVars, panic, call, ino, fresh>>

\* dirlink() finds the name taken: goto bad.
LinkFails(p) ==
  /\ Goto(p, "link", "bad")
  /\ dir[call[p].new] # NoIno
  /\ dirlock' = Nobody
  /\ UNCHANGED <<dinode, dir, tableVars, panic, call, ino, fresh>>

LinkUndo(p) ==
  /\ Goto(p, "undo", "iput")
  /\ SetLinks(ino[p], ip[ino[p]].nlink - 1, Nobody)
  /\ UNCHANGED <<dir, dirlock, panic, call, ino, fresh>>

----------------------------------------------------------------------------

\* The steps a process makes, and those for which it may have to wait.
Inside(p) ==
  \/ Ialloc(p) \/ IallocReturn(p)
  \/ Iput(p) \/ IputFree(p) \/ IputInvalid(p) \/ IputReturn(p)
  \/ LookFound(p) \/ LookCreate(p) \/ LookFails(p)
  \/ CreateInit(p) \/ CreateEnter(p) \/ OpenFound(p) \/ Close(p)
  \/ Unlink(p) \/ UnlinkDrop(p)
  \/ Link(p) \/ LinkEnter(p) \/ LinkFails(p) \/ LinkUndo(p)

Locking(p) == LockDir(p) \/ Ilock(p) \/ IputLast(p)

Next == \E p \in Procs : Call(p) \/ Inside(p) \/ Locking(p)

Spec == Init /\ [][Next]_vars

\* A process in a call goes on, closes what it opens, and gets a sleep lock that
\* is free again and again.
Fairness == \A p \in Procs : WF_vars(Inside(p)) /\ SF_vars(Locking(p))

FairSpec == Spec /\ Fairness

----------------------------------------------------------------------------

\* Links that are counted without an entry, and entries that are gone and still
\* counted, because a call is half way.
Pending(i) == Cardinality({p \in Procs : ino[p] = i /\ pc[p] \in
                             {"enter", "dir2", "link", "bad", "undo", "drop"}})

\* A name stands for an allocated inode, whose links are the names and what the
\* calls under way add.
NamesAndLinks ==
  \A i \in Inums :
    LET names == {n \in Names : dir[n] = i} IN
    /\ names # {} => dinode[i].used
    /\ dinode[i].used => dinode[i].nlink = Cardinality(names) + Pending(i)

\* The references are those of the calls under way; the copy in memory is the
\* inode on the disk, until iput() lets ialloc() have it again.
TableAndDisk ==
  \A i \in Inums :
    /\ ref[i] = Cardinality({p \in Procs : ino[p] = i /\ pc[p] # "iget"})
    /\ ref[i] > 0 /\ valid[i] /\ (\A p \in Procs : ino[p] = i => pc[p] # "invalid")
         => ip[i] = dinode[i]

\* Whatever several calls do to one name at a time, no name leads to a free inode,
\* links and references are counted, ialloc() gives out an inode iput() has freed
\* without taking its old copy for the new one, and the panics "ilock: no type" and
\* "unlink: nlink < 1" are never met (fs.c:325-352; sysfile.c:118-166, 184-284).
InodeKept == ~panic /\ NamesAndLinks /\ TableAndDisk

\* "If that was the last reference and the inode has no links to it, free the
\* inode (and its content) on disk" (fs.c:321-322, of iput()).
LastPutFrees ==
  \A i \in Inums :
    dinode[i].used /\ dinode[i].nlink = 0 => \E p \in Procs : ino[p] = i

InCall(p) == pc[p] # "idle"
=============================================================================
