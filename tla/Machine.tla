------------------------------ MODULE Machine ------------------------------
(***************************************************************************)
(* Processes that run programs on the kernel of Syscalls: kernel/proc.c    *)
(* (fork, exit, wait, kill), kernel/sysproc.c and kernel/trap.c at the     *)
(* grain of one system call. Any process may be the next to make a call,   *)
(* which stands for every schedule of every scheduler; a call is one step, *)
(* except that write() is one step per transaction or per filling of a     *)
(* pipe, and that read, write and wait are not possible while they would   *)
(* sleep. (Module Proc has the steps inside fork, exit, wait and kill.)    *)
(*   k     the kernel of Syscalls, with nextpid                            *)
(*   proc  the process table; slot 1 is init. todo is the program a        *)
(*         process has left, reg its variables, buf the data last read     *)
(***************************************************************************)
EXTENDS Syscalls

----------------------------------------------------------------------------
(* User programs. A program is a sequence of statements; a statement makes *)
(* one system call, or touches memory, and says what the C program expects *)
(* of the result. A statement is a record with                             *)
(*   op    the call; path, mode, n, data ... its arguments                 *)
(*   fd    the register that holds the descriptor, to: the one that gets   *)
(*         the result                                                      *)
(*   want  <<lo, hi>>: the program goes on when the result is in lo .. hi, *)
(*         and runs "no" instead of the rest when it is not: by default    *)
(*         printf(...); exit(1)                                            *)
(*   or    instead of "no": a program to run before the rest               *)
(*   gets  the set of data the call may have delivered                     *)
(* A loop statement [op |-> "loop", call, body] makes the call again after *)
(* body as long as the result is wanted; what its reads delivered is then  *)
(* checked against gets, lists, least, and its length is left in count.    *)

Ok       == <<0, 1000>>
Whatever == <<-1, 1000>>

Fails(c)      == [c EXCEPT !.want = <<-1, -1>>]     \* the program insists on -1
Try(c)        == [c EXCEPT !.want = Whatever]       \* the result is not looked at
Some(c)       == [c EXCEPT !.want = <<1, 1000>>]
AtMost(c, n)  == [c EXCEPT !.want = <<-1, n>>]
Gives(c, n)   == [c EXCEPT !.want = <<n, n>>]
Gets(c, data) == Gives([gets |-> {data}] @@ c, Len(data))
To(c, reg)    == [to |-> reg] @@ c                  \* reg = call
Else(c, prog) == [no |-> prog] @@ c                 \* if(call fails) prog, which exits
Or(c, prog)   == [or |-> prog] @@ c                 \* if(call fails) prog
From(c, addr) == [at |-> addr] @@ c                 \* the buffer or string is at addr
Span(c, addr, len) == [at |-> addr, len |-> len] @@ c

Loop(c, body)      == [op |-> "loop", call |-> c, body |-> body]
Reading(c, set)    == [op |-> "loop", call |-> Some(c), body |-> <<>>, gets |-> set]
Listing(c, names)  == [op |-> "loop", call |-> Some(c), body |-> <<>>, lists |-> names]
Counting(c, reg)   == [op |-> "loop", call |-> Some(c), body |-> <<>>, count |-> reg]
NoLess(c, reg)     == [op |-> "loop", call |-> Some(c), body |-> <<>>, least |-> reg]

\* The program of the iterations Body(1), ..., Body(n) of a for loop.
For(n, Body(_)) == FlattenSeq([i \in 1 .. n |-> Body(i)])

Open(fd, path, mode) == [op |-> "open", path |-> path, mode |-> mode, to |-> fd, want |-> Ok]
Close(fd)            == [op |-> "close", fd |-> fd, want |-> Whatever]
Dup(fd, to)          == [op |-> "dup", fd |-> fd, to |-> to, want |-> Ok]
Read(fd, n)          == [op |-> "read", fd |-> fd, n |-> n, want |-> Whatever]
Write(fd, data)      == [op |-> "write", fd |-> fd, data |-> data, done |-> 0,
                         want |-> <<Len(data), Len(data)>>]
Fstat(fd)            == [op |-> "fstat", fd |-> fd, want |-> Ok]
Unlink(path)         == [op |-> "unlink", path |-> path, want |-> Ok]
Link(path, path2)    == [op |-> "link", path |-> path, path2 |-> path2, want |-> Ok]
Mkdir(path)          == [op |-> "mkdir", path |-> path, want |-> Ok]
Mknod(path, major)   == [op |-> "mknod", path |-> path, n |-> major, want |-> Ok]
Chdir(path)          == [op |-> "chdir", path |-> path, want |-> Ok]
Pipe(fds)            == [op |-> "pipe", fds |-> fds, want |-> Ok]
Exec(path, argv)     == [op |-> "exec", path |-> path, argv |-> argv, argat |-> 0,
                         lens |-> [n \in DOMAIN argv |-> 1], want |-> Ok]
Fork(child)          == [op |-> "fork", child |-> child, want |-> Ok]
ForkBoth             == [op |-> "fork", want |-> Ok]             \* both go on alike
Exit(status)         == [op |-> "exit", n |-> status, want |-> Whatever]
ExitStatus           == [op |-> "exit", reg |-> "xstatus", want |-> Whatever]
Wait                 == [op |-> "wait", want |-> Ok]
WaitAny              == Try(Wait)
WaitPid(reg)         == [op |-> "wait", reg |-> reg, want |-> Ok]
WaitFor(statuses)    == [op |-> "wait", status |-> statuses, want |-> Whatever]
Kill(pid)            == [op |-> "kill", reg |-> pid, want |-> Whatever]
Sbrk(n)              == [op |-> "sbrk", n |-> n, want |-> Ok]
Sleep                == [op |-> "sleep", want |-> Whatever]
Getpid(reg)          == [op |-> "getpid", to |-> reg, want |-> Whatever]
Touch(addr)          == [op |-> "touch", at |-> addr, want |-> Whatever]   \* *addr, read or written
TouchIn(reg, off)    == [op |-> "touch", reg |-> reg, at |-> off, want |-> Whatever]
Spin                 == [op |-> "spin", want |-> Whatever]                 \* for(;;) ;

Fail   == <<Exit(1)>>
RDONLY == {}
CREATE(flags) == {"CREATE"} \cup flags

----------------------------------------------------------------------------
(* mkfs/mkfs.c: the disk image the kernel boots from. The image d is       *)
(*   dinode, blk  the disk                                                 *)
(*   freeinode, freeblock  the next inode and the next block to hand out:  *)
(*                nothing is ever freed while the image is made            *)
(* A file is [name, data]; it is written in pieces of BSIZE cells.         *)

mkfs_ialloc(d, type) ==
  [d EXCEPT !.dinode[d.freeinode] = [NoDinode EXCEPT !.type = type, !.nlink = 1],
            !.freeinode = @ + 1]

\* The cell at offset off, in a direct block or behind the indirect one.
AppendCell(i, d, cell) ==
  LET off  == d.dinode[i].size
      fbn  == off \div BSIZE
      slot == IF fbn < NDIRECT THEN fbn ELSE NDIRECT
      a    == IF d.dinode[i].addrs[slot] # 0 THEN d
              ELSE [d EXCEPT !.dinode[i].addrs[slot] = d.freeblock, !.freeblock = @ + 1]
      top  == a.dinode[i].addrs[slot]
      n    == fbn - NDIRECT
      b    == IF fbn < NDIRECT THEN a
              ELSE IF a.blk[top][n] # 0 THEN a
              ELSE [a EXCEPT !.blk[top][n] = a.freeblock, !.freeblock = @ + 1]
      x    == IF fbn < NDIRECT THEN top ELSE b.blk[top][n]
  IN  [b EXCEPT !.blk[x][off % BSIZE] = cell, !.dinode[i].size = @ + 1]

iappend(d, i, cells) == FoldLeft(LAMBDA e, cell : AppendCell(i, e, cell), d, cells)

AddFile(d, file) ==
  LET inum == d.freeinode
      e    == mkfs_ialloc(d, "file")
  IN  iappend(iappend(e, ROOTINO, <<<<file.name, inum>>>>), inum, file.data)

\* The size of the root directory is rounded up to whole blocks; what lies
\* beyond the entries written reads as zeroes, which is an unused entry. (A size
\* that was whole blocks would get a block that is not there; no image here.)
FixRoot(d) ==
  LET size == d.dinode[ROOTINO].size
      new  == (size \div BSIZE + 1) * BSIZE
  IN  [iappend(d, ROOTINO, [n \in 1 .. new - size |-> FREE]) EXCEPT
         !.dinode[ROOTINO].size = new]

Image(files) ==
  LET zero == [dinode |-> [i \in Inums |-> NoDinode],
               blk |-> [b \in Blocks |-> [c \in 0 .. BSIZE - 1 |-> 0]],
               freeinode |-> ROOTINO, freeblock |-> 1]
      root == iappend(mkfs_ialloc(zero, "dir"), ROOTINO, <<<<".", ROOTINO>>, <<"..", ROOTINO>>>>)
      d    == FixRoot(FoldLeft(AddFile, root, files))
  IN  [dinode |-> d.dinode, blk |-> d.blk, used |-> 1 .. d.freeblock - 1,
       inode |-> [i \in Inums |-> NoInode], panic |-> ""]

----------------------------------------------------------------------------
(* The machine *)

CONSTANTS NPROC, NPAGES,
          Kernel(_, _, _),  \* what a call makes of the kernel and its caller: syscall()
          UserMain(_, _)    \* the program a file and its arguments stand for

\* There is memory for the program that runs first.
ASSUME MachineAssumption ==
  /\ NPROC \in Nat \ {0, 1}
  /\ NPAGES \in Nat /\ NPAGES >= TRAPFRAMEPAGE + Held(Loaded)

VARIABLES k, proc
vars == <<k, proc>>

Slots == 1 .. NPROC
initproc == 1

NoProc == [st |-> "unused", pid |-> 0, parent |-> 0, killed |-> FALSE, xs |-> 0,
           cwd |-> 0, ofile |-> [fd \in 0 .. NOFILE - 1 |-> 0],
           mem |-> proc_pagetable, todo |-> <<>>, buf |-> <<>>, reg |-> <<>>]

\* Descriptors 0, 1 and 2 of every program, and one nobody has.
StdRegs == [r \in {"0", "1", "2", "-1"} |->
              CASE r = "0" -> 0 [] r = "1" -> 1 [] r = "2" -> 2 [] OTHER -> -1]


----------------------------------------------------------------------------
(* Programs.                                                               *)

\* The call to make next, its descriptor taken from the register.
Cur(p) ==
  LET s == Head(proc[p].todo)
      c == IF s.op = "loop" THEN s.call ELSE s
  IN  IF "fd" \in DOMAIN c THEN [c EXCEPT !.fd = proc[p].reg[c.fd]] ELSE c

\* The data a statement has read are what the program expects: one of
\* s.gets, a directory with each name of s.lists once, or enough of them.
Expected(q, s) ==
  /\ "gets" \in DOMAIN s  => q.buf \in s.gets
  /\ "lists" \in DOMAIN s => \A name \in s.lists :
       Cardinality({n \in DOMAIN q.buf : q.buf[n][1] = name /\ q.buf[n][2] # 0}) = 1
  /\ "least" \in DOMAIN s => Len(q.buf) >= q.reg[s.least]

\* Where process record q goes when its statement c has returned r.
Went(q, c, r) ==
  LET s     == Head(q.todo)
      loop  == s.op = "loop"
      hit   == r \in c.want[1] .. c.want[2] /\ Expected(q, c)
      rest  == IF loop
               THEN IF hit THEN s.body \o q.todo
                    ELSE IF Expected(q, s) THEN Tail(q.todo) ELSE Fail
               ELSE IF hit THEN Tail(q.todo)
               ELSE IF "or" \in DOMAIN c THEN c.or \o Tail(q.todo)
               ELSE IF "no" \in DOMAIN c THEN c.no ELSE Fail
      told  == IF "to" \in DOMAIN c THEN (c.to :> r) @@ q.reg ELSE q.reg
  IN  [q EXCEPT !.todo = rest,
                !.reg  = IF loop /\ ~hit /\ "count" \in DOMAIN s
                         THEN (s.count :> Len(q.buf)) @@ @ ELSE told,
                !.buf  = IF loop /\ hit THEN @ ELSE <<>>]

\* A write that goes on: n cells of it are done.
Partly(q, n) == [q EXCEPT !.todo[1].data = SubSeq(@, n + 1, Len(@)), !.todo[1].done = @ + n]

Executable(p) == walkaddr(proc[p].mem, 0)
\* A killed process finishes the transactions of its write() before it looks.
Midway(p) == /\ proc[p].todo # <<>>
             /\ Cur(p).op = "write"
             /\ Cur(p).done > 0
             /\ k.file[argfd(proc[p], Cur(p).fd)].type = "inode"
Ready(p)  == /\ k.panic = ""
             /\ proc[p].st = "run"
             /\ proc[p].todo # <<>>
             /\ Executable(p)
             /\ proc[p].killed => Midway(p)

----------------------------------------------------------------------------
(* System calls on files, names, pipes and memory.                         *)

Call(p) ==
  LET c == Cur(p)
      x == Kernel(k, proc[p], c)
  IN  /\ Ready(p)
      /\ c.op \notin {"exec", "pipe", "fork", "exit", "wait", "kill", "touch", "spin"}
      /\ c.op \in {"read", "write"} => ~Sleeps(k, proc[p], c)
      /\ k' = x.k
      /\ proc' = [proc EXCEPT ![p] = IF x.r <= -2 THEN Partly(x.p, -2 - x.r)
                                                 ELSE Went(x.p, c, x.r)]

MakePipe(p) ==
  LET c == Cur(p)
      x == Kernel(k, proc[p], c)
      q == IF x.r < 0 THEN x.p
           ELSE [x.p EXCEPT !.reg = (c.fds[1] :> x.p.buf[1]) @@ (c.fds[2] :> x.p.buf[2]) @@ @]
  IN  /\ Ready(p)
      /\ c.op = "pipe"
      /\ k' = x.k
      /\ proc' = [proc EXCEPT ![p] = Went(q, c, x.r)]

\* The new program starts with the descriptors and the directory of the old one.
DoExec(p) ==
  LET c == Cur(p)
      x == Kernel(k, proc[p], c)
  IN  /\ Ready(p)
      /\ c.op = "exec"
      /\ k' = x.k
      /\ proc' = [proc EXCEPT ![p] =
                    IF x.r < 0 THEN Went(x.p, c, x.r)
                    ELSE [x.p EXCEPT !.todo = UserMain(x.p.buf[1], c.argv),
                                     !.reg = StdRegs, !.buf = <<>>]]

----------------------------------------------------------------------------
(* Processes.                                                              *)

DoFork(p) ==
  LET c     == Cur(p)
      q     == proc[p]
      free  == {n \in Slots : proc[n].st = "unused"}
      x     == Kernel(k, q, c)
      child == [Went(x.p, c, 0) EXCEPT
                  !.pid = k.nextpid, !.parent = p, !.killed = proc[Min(free)].killed,
                  !.todo = IF "child" \in DOMAIN c THEN c.child ELSE @]
  IN  /\ Ready(p)
      /\ c.op = "fork"
      /\ IF free = {}
         THEN k' = k /\ proc' = [proc EXCEPT ![p] = Went(q, c, -1)]
         ELSE /\ k' = [x.k EXCEPT !.nextpid = @ + 1]
              /\ proc' = IF x.r < 0
                         THEN [proc EXCEPT ![p] = Went(q, c, -1), ![Min(free)] = NoProc]
                         ELSE [proc EXCEPT ![p] = Went(q, c, k.nextpid), ![Min(free)] = child]

\* exit(): the files, the directory, the children, then a zombie.
Exits(p, status) ==
  LET q == proc[p]
      z == [NoProc EXCEPT !.st = "zombie", !.pid = q.pid, !.parent = q.parent,
                          !.killed = q.killed, !.xs = status, !.mem = q.mem]
  IN  IF p = initproc
      THEN k' = Panic(k, "init exiting") /\ UNCHANGED proc
      ELSE /\ k' = Kernel(k, q, [op |-> "exit"]).k
           /\ proc' = [n \in Slots |->
                         IF n = p THEN z
                         ELSE IF proc[n].parent = p THEN [proc[n] EXCEPT !.parent = initproc]
                         ELSE proc[n]]

DoExit(p) ==
  LET c == Cur(p)
  IN  /\ Ready(p)
      /\ c.op = "exit"
      /\ Exits(p, IF "reg" \in DOMAIN c THEN proc[p].reg[c.reg] ELSE c.n)

\* usertrap() finds the process killed, on its way into a call or out of one,
\* also out of a sleep; or the process had no instruction to fetch.
DieKilled(p) ==
  /\ k.panic = ""
  /\ proc[p].st = "run"
  /\ proc[p].killed \/ ~Executable(p)
  /\ ~Midway(p)
  /\ Exits(p, -1)

\* wait(): the first zombie child goes, with its memory. With children that
\* live, the caller sleeps; without any, -1.
DoWait(p) ==
  LET c    == Cur(p)
      q    == proc[p]
      kids == {n \in Slots : proc[n].parent = p /\ proc[n].st # "unused"}
      dead == {n \in kids : proc[n].st = "zombie"}
      np   == Min(dead)
      told == [q EXCEPT !.reg = ("xstatus" :> proc[np].xs) @@ @]
      seen == /\ "status" \in DOMAIN c => proc[np].xs \in c.status
              /\ "reg" \in DOMAIN c => proc[np].pid = q.reg[c.reg]
  IN  /\ Ready(p)
      /\ c.op = "wait"
      /\ kids = {} \/ dead # {}
      /\ IF kids = {} \/ ~copyout(q.mem, At(c), 1)
         THEN /\ proc' = [proc EXCEPT ![p] = Went(q, c, -1)]
              /\ k' = k
         ELSE /\ proc' = [proc EXCEPT
                            ![p] = IF seen THEN Went(told, c, proc[np].pid)
                                           ELSE [told EXCEPT !.todo = IF "no" \in DOMAIN c THEN c.no ELSE Fail],
                            ![np] = NoProc]
              /\ k' = [k EXCEPT !.free = @ + TRAPFRAMEPAGE + Held(proc[np].mem)]

\* kill() looks at every slot, also at the unused ones, whose pid is 0.
DoKill(p) ==
  LET c    == Cur(p)
      q    == proc[p]
      hits == {n \in Slots : proc[n].pid = q.reg[c.reg]}
      t    == [proc EXCEPT ![p] = Went(q, c, IF hits = {} THEN -1 ELSE 0)]
  IN  /\ Ready(p)
      /\ c.op = "kill"
      /\ proc' = IF hits = {} THEN t ELSE [t EXCEPT ![Min(hits)].killed = TRUE]
      /\ UNCHANGED k

\* A load or a store; a page fault kills the process.
DoTouch(p) ==
  LET c == Cur(p)
      q == proc[p]
      a == c.at + (IF "reg" \in DOMAIN c THEN q.reg[c.reg] ELSE 0)
  IN  /\ Ready(p)
      /\ c.op = "touch"
      /\ proc' = [proc EXCEPT ![p] = IF walkaddr(q.mem, a) THEN Went(q, c, 0)
                                     ELSE [q EXCEPT !.killed = TRUE]]
      /\ UNCHANGED k

Step(p) == \/ Call(p) \/ MakePipe(p) \/ DoExec(p) \/ DoFork(p) \/ DoExit(p)
           \/ DieKilled(p) \/ DoWait(p) \/ DoKill(p) \/ DoTouch(p)

Next == \E p \in Slots : Step(p)

----------------------------------------------------------------------------
(* The machine when init starts: it opens the console and goes on with     *)
(* program prog, on the disk of mkfs with files and the memory that is     *)
(* left.                                                                   *)

\* What init does before it starts the shell.
OpenConsole == << Or(Open("0", <<"console">>, {"RDWR"}),
                     <<Try(Mknod(<<"console">>, CONSOLE)), Try(Open("0", <<"console">>, {"RDWR"}))>>),
                  Try(Dup("0", "1")), Try(Dup("0", "2")) >>

Boot(files) ==
  LET image == Image(files)
  IN  [dinode |-> image.dinode, blk |-> image.blk, used |-> image.used,
       inode |-> image.inode, panic |-> image.panic,
       file |-> [f \in Files |-> NoFile], pipe |-> [n \in 1 .. NFILE |-> NoPipe],
       free |-> NPAGES - TRAPFRAMEPAGE - Held(Loaded), nextpid |-> 2]

Starts(files, prog) ==
  LET q == [NoProc EXCEPT !.st = "run", !.pid = 1, !.cwd = ROOTINO, !.mem = Loaded,
                          !.reg = StdRegs, !.todo = OpenConsole \o prog]
  IN  /\ k = iget(Boot(files), ROOTINO)
      /\ proc = [p \in Slots |-> IF p = initproc THEN q ELSE NoProc]
=============================================================================
