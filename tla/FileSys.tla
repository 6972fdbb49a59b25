------------------------------ MODULE FileSys ------------------------------
(***************************************************************************)
(* The file system of kernel/fs.c as functions of its state. An operator   *)
(* named after a C function takes the state s before the call and gives    *)
(* the state after it, or [s |-> state, r |-> result] when the function    *)
(* returns something. The state is any record with the fields              *)
(*   used    the blocks whose bit is set in the bitmap                     *)
(*   blk     the contents of the blocks, cell by cell                      *)
(*   dinode  the inodes on the disk                                        *)
(*   inode   the in-memory copies (itable), ref = 0 when there is none     *)
(*   panic   "" or the message of the panic() that stopped the kernel      *)
(* A block has BSIZE cells; a cell is one datum of a file, one directory   *)
(* entry <<name, inum>> or one block number of an indirect block. A path   *)
(* is the sequence of its elements, <<"/", ...>> when it is absolute.      *)
(* One call runs to its end here: which lock guards what is the business   *)
(* of the modules Bio and Inode.                                           *)
(***************************************************************************)
EXTENDS Integers, Sequences, FiniteSets, FiniteSetsExt, SequencesExt, Functions

CONSTANTS NINODES,     \* inodes on the disk, inode 0 unused
          NINODE,      \* entries of the in-memory table
          FSSIZE,      \* blocks of the disk that hold data
          BSIZE,       \* cells of a block
          NDIRECT, NINDIRECT

ASSUME FileSysAssumption ==
  /\ {NINODES, NINODE, FSSIZE, BSIZE, NDIRECT, NINDIRECT} \subseteq Nat \ {0}
  /\ NINDIRECT <= BSIZE

ROOTINO == 1
MAXFILE == NDIRECT + NINDIRECT
Inums   == 1 .. NINODES - 1
Blocks  == 1 .. FSSIZE

NoDinode == [type |-> "none", major |-> 0, nlink |-> 0, size |-> 0,
             addrs |-> [b \in 0 .. NDIRECT |-> 0]]
Inode(ref, valid, d) == [ref |-> ref, valid |-> valid, type |-> d.type, major |-> d.major,
                         nlink |-> d.nlink, size |-> d.size, addrs |-> d.addrs]
NoInode == Inode(0, FALSE, NoDinode)

Panic(s, why) == IF s.panic = "" THEN [s EXCEPT !.panic = why] ELSE s

----------------------------------------------------------------------------
(* Blocks.                                                                 *)

balloc(s) ==
  LET free == Blocks \ s.used
      b    == Min(free)
  IN  IF free = {} THEN [s |-> Panic(s, "balloc: out of blocks"), r |-> 1]
      ELSE [s |-> [s EXCEPT !.used = @ \cup {b},
                            !.blk[b] = [c \in 0 .. BSIZE - 1 |-> 0]],
            r |-> b]

\* One call for each of n blocks: none may be free already, or come twice.
bfree(s, blocks, n) ==
  IF blocks \subseteq s.used /\ Cardinality(blocks) = n
  THEN [s EXCEPT !.used = @ \ blocks]
  ELSE Panic(s, "freeing free block")

----------------------------------------------------------------------------
(* Inodes.                                                                 *)

iupdate(s, i) ==
  LET ip == s.inode[i]
  IN  [s EXCEPT !.dinode[i] = [type |-> ip.type, major |-> ip.major, nlink |-> ip.nlink,
                               size |-> ip.size, addrs |-> ip.addrs]]

iget(s, i) ==
  IF s.inode[i].ref > 0 THEN [s EXCEPT !.inode[i].ref = @ + 1]
  ELSE IF Cardinality({j \in Inums : s.inode[j].ref > 0}) = NINODE
    THEN Panic(s, "iget: no inodes")
  ELSE [s EXCEPT !.inode[i] = [NoInode EXCEPT !.ref = 1]]

idup(s, i) == [s EXCEPT !.inode[i].ref = @ + 1]

ialloc(s, type) ==
  LET free == {i \in Inums : s.dinode[i].type = "none"}
      i    == Min(free)
  IN  IF free = {} THEN [s |-> Panic(s, "ialloc: no inodes"), r |-> ROOTINO]
      ELSE [s |-> iget([s EXCEPT !.dinode[i] = [NoDinode EXCEPT !.type = type]], i),
            r |-> i]

ilock(s, i) ==
  IF s.inode[i].ref < 1 THEN Panic(s, "ilock")
  ELSE IF s.inode[i].valid THEN s
  ELSE LET t == [s EXCEPT !.inode[i] = Inode(@.ref, TRUE, s.dinode[i])]
       IN  IF s.dinode[i].type = "none" THEN Panic(t, "ilock: no type") ELSE t

\* The data blocks and the indirect block are freed, whatever the size says.
itrunc(s, i) ==
  LET addrs == s.inode[i].addrs
      ind   == addrs[NDIRECT]
      own   == {n \in 0 .. NDIRECT : addrs[n] # 0}
      deep  == {n \in 0 .. NINDIRECT - 1 : ind # 0 /\ s.blk[ind][n] # 0}
      t     == bfree(s, {addrs[n] : n \in own} \cup {s.blk[ind][n] : n \in deep},
                     Cardinality(own) + Cardinality(deep))
  IN  iupdate([t EXCEPT !.inode[i] = [@ EXCEPT !.addrs = NoDinode.addrs, !.size = 0]], i)

\* ip->ref--: without references the entry of the table is free.
Drop(s, i) == IF s.inode[i].ref = 1 THEN [s EXCEPT !.inode[i] = NoInode]
                                    ELSE [s EXCEPT !.inode[i].ref = @ - 1]

\* The last reference to an inode without links frees it.
Free(s, i) == iupdate([itrunc(s, i) EXCEPT !.inode[i].type = "none"], i)

iput(s, i) ==
  LET ip == s.inode[i]
  IN  Drop(IF ip.ref = 1 /\ ip.valid /\ ip.nlink = 0 THEN Free(s, i) ELSE s, i)

----------------------------------------------------------------------------
(* The contents of an inode.                                               *)

\* The block of block number bn of inode i, allocated if there is none.
bmap(s, i, bn) ==
  LET slot == IF bn < NDIRECT THEN bn ELSE NDIRECT
      a    == IF s.inode[i].addrs[slot] # 0
              THEN [s |-> s, r |-> s.inode[i].addrs[slot]]
              ELSE LET b == balloc(s)
                   IN  [s |-> [b.s EXCEPT !.inode[i].addrs[slot] = b.r], r |-> b.r]
      n    == bn - NDIRECT
      d    == balloc(a.s)
  IN  CASE bn < NDIRECT        -> a
        [] n >= NINDIRECT      -> [s |-> Panic(s, "bmap: out of range"), r |-> 1]
        [] n \in 0 .. NINDIRECT - 1 /\ a.s.blk[a.r][n] # 0
                               -> [s |-> a.s, r |-> a.s.blk[a.r][n]]
        [] OTHER               -> [s |-> [d.s EXCEPT !.blk[a.r][n] = d.r], r |-> d.r]

Cell(s, i, off) == s.blk[bmap(s, i, off \div BSIZE).r][off % BSIZE]

\* n cells from off; canCopy is FALSE when the user's buffer is not there.
\* Below the size every block is allocated, so bmap changes nothing.
readi(s, i, off, n, canCopy) ==
  LET size == s.inode[i].size
      m    == IF off > size THEN 0 ELSE Min({n, size - off})
  IN  [data |-> [c \in 1 .. m |-> Cell(s, i, off + c - 1)],
       r    |-> IF m > 0 /\ ~canCopy THEN -1 ELSE m]

PutCell(s, i, off, cell) ==
  LET b == bmap(s, i, off \div BSIZE)
  IN  [b.s EXCEPT !.blk[b.r][off % BSIZE] = cell]

\* The cells are written block by block, until the buffer is bad: its first good
\* cells can be copied. The block that comes next is allocated all the same, and
\* stays with the inode beyond its size.
writei(s, i, off, cells, good) ==
  LET n   == Len(cells)
      put[c \in Nat] ==
        IF c = 0 THEN s
        ELSE PutCell(put[c - 1], i, off + c - 1, cells[c])
      whole == {c \in 1 .. n : good >= n \/ ((off + c - 1) \div BSIZE + 1) * BSIZE <= off + good}
      tot == Cardinality(whole)
      t   == IF tot = n THEN put[n] ELSE bmap(put[tot], i, (off + tot) \div BSIZE).s
  IN  IF off > s.inode[i].size \/ off + n > MAXFILE * BSIZE
      THEN [s |-> s, r |-> -1]
      ELSE [s |-> iupdate([t EXCEPT !.inode[i].size = Max({@, off + tot})], i),
            r |-> tot]

----------------------------------------------------------------------------
(* Directories and paths.                                                  *)

FREE == <<"", 0>>                          \* an unused directory entry
Entries(s, d) == [n \in 1 .. s.inode[d].size |-> Cell(s, d, n - 1)]

\* DIRSIZ bytes of a name count: the one long name the programs use is cut.
skipelem(name) == IF name = "123456789012345" THEN "12345678901234" ELSE name

\* [s, r, off]: the inode the name stands for, held, or r = 0.
dirlookup(s, d, name) ==
  LET ents == Entries(s, d)
      hits == {n \in DOMAIN ents : ents[n][2] # 0 /\ ents[n][1] = name}
      n    == Min(hits)
  IN  IF s.inode[d].type # "dir"
      THEN [s |-> Panic(s, "dirlookup not DIR"), r |-> 0, off |-> 0]
      ELSE IF hits = {} THEN [s |-> s, r |-> 0, off |-> 0]
      ELSE [s |-> iget(s, ents[n][2]), r |-> ents[n][2], off |-> n - 1]

\* The offset of the first unused entry, or the end of the directory.
FreeEntry(s, d) ==
  LET ents == Entries(s, d)
      free == {n \in DOMAIN ents : ents[n][2] = 0}
  IN  IF free = {} THEN Len(ents) ELSE Min(free) - 1

dirlink(s, d, name, inum) ==
  LET old == dirlookup(s, d, name)
      w   == writei(s, d, FreeEntry(s, d), <<<<name, inum>>>>, 1)
  IN  IF old.r # 0 THEN [s |-> iput(old.s, old.r), r |-> -1]
      ELSE IF w.r # 1 THEN [s |-> Panic(s, "dirlink"), r |-> -1]
      ELSE [s |-> w.s, r |-> 0]

\* One turn of the loop of namex(): w.r, the inode it has come to, is looked into
\* for the next element, or, when it is the parent of the last one, kept.
Enter(w, elem, last) ==
  LET t    == ilock(w.s, w.r)
      next == dirlookup(t, w.r, elem)
  IN  IF ~w.on THEN w
      ELSE IF t.inode[w.r].type # "dir"
        THEN [s |-> iput(t, w.r), r |-> 0, name |-> "", on |-> FALSE]
      ELSE IF last THEN [s |-> t, r |-> w.r, name |-> elem, on |-> FALSE]
      ELSE [s |-> iput(next.s, w.r), r |-> next.r, name |-> "", on |-> next.r # 0]

\* [s, r, name]: the inode of the path, or of its parent with the last
\* element; r = 0 when there is none. cwd is the caller's directory.
namex(s, cwd, path, parent) ==
  LET rooted == path # <<>> /\ Head(path) = "/"
      elems  == IF rooted THEN Tail(path) ELSE path
      start  == [s |-> IF rooted THEN iget(s, ROOTINO) ELSE idup(s, cwd),
                 r |-> IF rooted THEN ROOTINO ELSE cwd, name |-> "", on |-> TRUE]
      way[n \in Nat] ==
        IF n = 0 THEN start
        ELSE Enter(way[n - 1], skipelem(elems[n]), parent /\ n = Len(elems))
      w == way[Len(elems)]
  IN  IF w.on /\ parent THEN [w EXCEPT !.s = iput(w.s, w.r), !.r = 0] ELSE w

namei(s, cwd, path)       == namex(s, cwd, path, FALSE)
nameiparent(s, cwd, path) == namex(s, cwd, path, TRUE)
=============================================================================
