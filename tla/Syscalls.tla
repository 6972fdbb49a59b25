------------------------------ MODULE Syscalls ------------------------------
(***************************************************************************)
(* The system calls of kernel/sysfile.c over kernel/file.c, the calls of   *)
(* kernel/pipe.c and kernel/exec.c, and sbrk. The kernel k is the state of *)
(* FileSys and                                                             *)
(*   file  the system-wide file table (NFILE entries, ref = 0 when free)   *)
(*   pipe  the pipes, one page each, free when both ends are closed        *)
(*   free  the free pages                                                  *)
(* and p is the record of the calling process: cwd, ofile (0: closed) and  *)
(* mem among others. A call takes k, p and its arguments c, and gives      *)
(* [k, p, r]; -1 is failure. c.at is the address of the user's buffer or   *)
(* string and c.len its length there, in units. What fork() and exit() do  *)
(* to files and memory is here, what they do to the process table is in    *)
(* module Machine.                                                         *)
(***************************************************************************)
EXTENDS FileSys, Memory

CONSTANTS NFILE, NOFILE, PIPESIZE, CONSOLE, NDEV, MAXARG,
          CHUNK        \* the blocks filewrite() writes in one transaction

ASSUME SyscallsAssumption ==
  {NFILE, NOFILE, PIPESIZE, CONSOLE, NDEV, MAXARG, CHUNK} \subseteq Nat \ {0}

Ret(k, p, r)  == [k |-> k, p |-> p, r |-> r]
At(c)         == IF "at" \in DOMAIN c THEN c.at ELSE 0
Units(c)      == IF "len" \in DOMAIN c THEN c.len ELSE 1

NoFile == [ref |-> 0, type |-> "none", ip |-> 0, pipe |-> 0, major |-> 0,
           readable |-> FALSE, writable |-> FALSE, off |-> 0]
NoPipe == [data |-> <<>>, readopen |-> FALSE, writeopen |-> FALSE]
Files  == 1 .. NFILE

\* The path is too long for the kernel's buffer of MAXPATH characters.
TooLong == <<"a path of MAXPATH characters">>
MAXPATH == 4
argstr(p, c) == c.path # TooLong /\ copyinstr(p.mem, At(c), Units(c), MAXPATH)

----------------------------------------------------------------------------
(* The file table.                                                         *)

\* 0 when the table is full, otherwise the entry that is now taken.
filealloc(k) == LET free == {f \in Files : k.file[f].ref = 0}
                IN  IF free = {} THEN 0 ELSE Min(free)

filedup(k, f) == IF k.file[f].ref < 1 THEN Panic(k, "filedup")
                 ELSE [k EXCEPT !.file[f].ref = @ + 1]

\* Mutant of pipeclose: the page is kept until the reader goes.
pipecloseReader(k, i, writable) ==
  IF writable THEN k ELSE [k EXCEPT !.pipe[i] = NoPipe, !.free = @ + 1]

pipeclose(k, i, writable) ==
  LET pi == IF writable THEN [k.pipe[i] EXCEPT !.writeopen = FALSE]
                        ELSE [k.pipe[i] EXCEPT !.readopen = FALSE]
  IN  IF pi.readopen \/ pi.writeopen THEN [k EXCEPT !.pipe[i] = pi]
      ELSE [k EXCEPT !.pipe[i] = NoPipe, !.free = @ + 1]

fileclose(k, f) ==
  LET ff == k.file[f]
      j  == [k EXCEPT !.file[f] = NoFile]
  IN  CASE ff.ref < 1            -> Panic(k, "fileclose")
        [] ff.ref > 1            -> [k EXCEPT !.file[f].ref = @ - 1]
        [] ff.ref = 1 /\ ff.type = "pipe" -> pipeclose(j, ff.pipe, ff.writable)
        [] ff.ref = 1 /\ ff.type \in {"inode", "device"} -> iput(j, ff.ip)
        [] OTHER                 -> j

\* argfd() gives the file or 0, fdalloc() the descriptor or -1.
argfd(p, fd) == IF fd \in 0 .. NOFILE - 1 THEN p.ofile[fd] ELSE 0
fdalloc(p)   == LET free == {fd \in 0 .. NOFILE - 1 : p.ofile[fd] = 0}
                IN  IF free = {} THEN -1 ELSE Min(free)

sys_dup(k, p, c) ==
  LET f == argfd(p, c.fd)
      n == fdalloc(p)
  IN  IF f = 0 \/ n < 0 THEN Ret(k, p, -1)
      ELSE Ret(filedup(k, f), [p EXCEPT !.ofile[n] = f], n)

sys_close(k, p, c) ==
  LET f == argfd(p, c.fd)
  IN  IF f = 0 THEN Ret(k, p, -1)
      ELSE Ret(fileclose(k, f), [p EXCEPT !.ofile[c.fd] = 0], 0)

\* stat: the inode, its type, its links and its size.
sys_fstat(k, p, c) ==
  LET f == argfd(p, c.fd)
      j == ilock(k, k.file[f].ip)
      i == j.inode[k.file[f].ip]
  IN  IF f = 0 THEN Ret(k, p, -1)
      ELSE IF k.file[f].type \notin {"inode", "device"} THEN Ret(k, p, -1)
      ELSE IF ~copyout(p.mem, At(c), 1) THEN Ret(j, p, -1)
      ELSE Ret(j, [p EXCEPT !.buf = <<k.file[f].ip, i.type, i.nlink, i.size>>], 0)

----------------------------------------------------------------------------
(* Reading and writing.                                                    *)

\* A reader of an empty pipe waits while there is a writer, a writer of a
\* full one while there is a reader; the call is then not possible.
Sleeps(k, p, c) ==
  LET f  == argfd(p, c.fd)
      pi == k.pipe[k.file[f].pipe]
  IN  /\ f # 0
      /\ k.file[f].type = "pipe"
      /\ IF c.op = "read"
         THEN k.file[f].readable /\ pi.data = <<>> /\ pi.writeopen
         ELSE /\ k.file[f].writable /\ c.data # <<>>
              /\ Len(pi.data) = PIPESIZE /\ pi.readopen

\* What is there is taken, up to n; a datum that cannot be copied out is
\* taken from the pipe all the same.
piperead(k, p, c, i) ==
  LET pi  == k.pipe[i]
      m   == Min({c.n, Len(pi.data)})
      bad == m > 0 /\ ~copyout(p.mem, At(c), 1)
      n   == IF bad THEN 0 ELSE m
      cut == IF bad THEN 1 ELSE m
  IN  Ret([k EXCEPT !.pipe[i].data = SubSeq(@, cut + 1, Len(@))],
          [p EXCEPT !.buf = @ \o SubSeq(pi.data, 1, n)], n)

\* One turn of pipewrite() between two sleeps: r = -2 when the rest waits.
pipewrite(k, p, c, i) ==
  LET pi   == k.pipe[i]
      room == Min({Len(c.data), PIPESIZE - Len(pi.data)})
  IN  CASE c.data = <<>> -> Ret(k, p, c.done)
        [] c.data # <<>> /\ ~pi.readopen -> Ret(k, p, -1)
        [] c.data # <<>> /\ pi.readopen /\ ~copyin(p.mem, At(c), 1) -> Ret(k, p, c.done)
        [] OTHER -> Ret([k EXCEPT !.pipe[i].data = @ \o SubSeq(c.data, 1, room)], p,
                        IF room = Len(c.data) THEN c.done + room ELSE -2 - room)

\* consoleread() waits for the terminal, which module Console describes;
\* no program below reads it. consolewrite() takes everything.
sys_read(k, p, c) ==
  LET f    == argfd(p, c.fd)
      file == k.file[f]
      j    == ilock(k, file.ip)
      got  == readi(j, file.ip, file.off, c.n, copyout(p.mem, At(c), Units(c)))
  IN  IF f = 0 THEN Ret(k, p, -1)
      ELSE CASE ~file.readable -> Ret(k, p, -1)
        [] file.readable /\ file.type = "pipe"   -> piperead(k, p, c, file.pipe)
        [] file.readable /\ file.type = "device" -> Ret(k, p, IF file.major = CONSOLE THEN 0 ELSE -1)
        [] OTHER -> Ret([j EXCEPT !.file[f].off = @ + Max({got.r, 0})],
                        [p EXCEPT !.buf = IF got.r > 0 THEN @ \o got.data ELSE @], got.r)

\* The first cells of the buffer that can be copied, its n cells being spread over
\* its units.
copied(p, c, n) ==
  IF copyin(p.mem, At(c), Units(c)) THEN n
  ELSE Max({g \in 0 .. n - 1 :
              \A x \in 1 .. g : walkaddr(p.mem, At(c) + ((x - 1) * Units(c)) \div n)})

\* One transaction of filewrite(), -2 - n when n cells are written and the rest follows.
Transaction(k, p, c, f) ==
  LET n1 == Min({Len(c.data), CHUNK * BSIZE})
      j  == ilock(k, k.file[f].ip)
      w  == writei(j, k.file[f].ip, k.file[f].off, SubSeq(c.data, 1, n1),
                   copied(p, c, Len(c.data)))
      l  == [w.s EXCEPT !.file[f].off = @ + Max({w.r, 0})]
  IN  CASE c.data = <<>>       -> Ret(k, p, c.done)
        [] c.data # <<>> /\ w.r # n1 -> Ret(l, p, -1)
        [] OTHER -> Ret(l, p, IF n1 = Len(c.data) THEN c.done + n1 ELSE -2 - n1)

sys_write(k, p, c) ==
  LET f    == argfd(p, c.fd)
      file == k.file[f]
  IN  IF f = 0 THEN Ret(k, p, -1)
      ELSE CASE ~file.writable -> Ret(k, p, -1)
        [] file.writable /\ file.type = "pipe"   -> pipewrite(k, p, c, file.pipe)
        [] file.writable /\ file.type = "device" ->
             Ret(k, p, IF file.major # CONSOLE THEN -1
                       ELSE IF copyin(p.mem, At(c), 1) THEN Len(c.data) ELSE 0)
        [] OTHER -> Transaction(k, p, c, f)
----------------------------------------------------------------------------
(* Names.                                                                  *)

sys_link(k, p, c) ==
  LET old == namei(k, p.cwd, c.path)
      i   == old.r
      j   == ilock(old.s, i)
      up  == iupdate([j EXCEPT !.inode[i].nlink = @ + 1], i)
      dp  == nameiparent(up, p.cwd, c.path2)
      l   == dirlink(ilock(dp.s, dp.r), dp.r, dp.name, i)
      bad(s) == iput(iupdate([s EXCEPT !.inode[i].nlink = @ - 1], i), i)
  IN  CASE ~argstr(p, c)     -> Ret(k, p, -1)
        [] argstr(p, c) /\ i = 0 -> Ret(old.s, p, -1)
        [] argstr(p, c) /\ i # 0 /\ j.inode[i].type = "dir" -> Ret(iput(j, i), p, -1)
        [] OTHER -> IF dp.r = 0 THEN Ret(bad(dp.s), p, -1)
                    ELSE IF l.r < 0 THEN Ret(bad(iput(l.s, dp.r)), p, -1)
                    ELSE Ret(iput(iput(l.s, dp.r), i), p, 0)

\* Mutant of isdirempty: it starts one entry too late.
isdiremptyLate(s, d) == \A n \in 4 .. s.inode[d].size : Entries(s, d)[n][2] = 0

isdirempty(s, d) == \A n \in 3 .. s.inode[d].size : Entries(s, d)[n][2] = 0

sys_unlink(k, p, c) ==
  LET dp  == nameiparent(k, p.cwd, c.path)
      d   == dp.r
      e   == dirlookup(ilock(dp.s, d), d, dp.name)
      i   == e.r
      j   == ilock(e.s, i)
      dir == j.inode[i].type = "dir"
      w   == writei(j, d, e.off, <<FREE>>, 1)
      t   == IF w.r # 1 THEN Panic(w.s, "unlink: writei")
             ELSE IF dir THEN iupdate([w.s EXCEPT !.inode[d].nlink = @ - 1], d)
             ELSE w.s
      u   == iupdate([iput(t, d) EXCEPT !.inode[i].nlink = @ - 1], i)
  IN  IF ~argstr(p, c) THEN Ret(k, p, -1)
      ELSE IF d = 0 THEN Ret(dp.s, p, -1)
      ELSE IF dp.name \in {".", ".."} THEN Ret(iput(ilock(dp.s, d), d), p, -1)
      ELSE IF i = 0 THEN Ret(iput(e.s, d), p, -1)
      ELSE IF j.inode[i].nlink < 1 THEN Ret(Panic(j, "unlink: nlink < 1"), p, -1)
      ELSE IF dir /\ ~isdirempty(j, i) THEN Ret(iput(iput(j, i), d), p, -1)
      ELSE Ret(iput(u, i), p, 0)

\* The inode created, or the existing file when one is asked for; r = 0 otherwise.
create(k, p, path, type, major) ==
  LET dp   == nameiparent(k, p.cwd, path)
      d    == dp.r
      old  == dirlookup(ilock(dp.s, d), d, dp.name)
      o    == ilock(iput(old.s, d), old.r)
      new  == ialloc(old.s, type)
      i    == new.r
      j    == ilock(new.s, i)
      made == iupdate([j EXCEPT !.inode[i] = [@ EXCEPT !.nlink = 1, !.major = major]], i)
      up   == iupdate([made EXCEPT !.inode[d].nlink = @ + 1], d)
      dots == dirlink(dirlink(up, i, ".", i).s, i, "..", d).s
      l    == dirlink(IF type = "dir" THEN dots ELSE made, d, dp.name, i)
  IN  IF d = 0 THEN [s |-> dp.s, r |-> 0]
      ELSE IF old.r # 0
        THEN IF type = "file" /\ o.inode[old.r].type \in {"file", "device"}
             THEN [s |-> o, r |-> old.r]
             ELSE [s |-> iput(o, old.r), r |-> 0]
      ELSE IF l.r < 0 THEN [s |-> Panic(l.s, "create: dirlink"), r |-> i]
      ELSE [s |-> iput(l.s, d), r |-> i]

\* c.mode is the set of the flags among O_CREATE, O_TRUNC, O_WRONLY, O_RDWR.
sys_open(k, p, c) ==
  LET made == create(k, p, c.path, "file", 0)
      old  == namei(k, p.cwd, c.path)
      got  == IF "CREATE" \in c.mode THEN made
              ELSE [s |-> IF old.r = 0 THEN old.s ELSE ilock(old.s, old.r), r |-> old.r]
      i    == got.r
      ip   == got.s.inode[i]
      f    == filealloc(got.s)
      fd   == fdalloc(p)
      file == [NoFile EXCEPT !.ref = 1, !.ip = i, !.major = ip.major,
                 !.type = IF ip.type = "device" THEN "device" ELSE "inode",
                 !.readable = "WRONLY" \notin c.mode,
                 !.writable = c.mode \cap {"WRONLY", "RDWR"} # {}]
      j    == [got.s EXCEPT !.file[f] = file]
      fail == Ret(iput(got.s, i), p, -1)
  IN  IF ~argstr(p, c) THEN Ret(k, p, -1)
      ELSE IF i = 0 THEN Ret(got.s, p, -1)
      ELSE IF "CREATE" \notin c.mode /\ ip.type = "dir" /\ c.mode # {} THEN fail
      ELSE IF ip.type = "device" /\ ip.major \notin 0 .. NDEV - 1 THEN fail
      ELSE IF f = 0 \/ fd < 0 THEN fail
      ELSE Ret(IF "TRUNC" \in c.mode /\ ip.type = "file" THEN itrunc(j, i) ELSE j,
               [p EXCEPT !.ofile[fd] = f], fd)

\* mkdir(), and mknod() with its major number.
MakeNode(k, p, c, type, major) ==
  LET new == create(k, p, c.path, type, major)
  IN  IF ~argstr(p, c) THEN Ret(k, p, -1)
      ELSE IF new.r = 0 THEN Ret(new.s, p, -1)
      ELSE Ret(iput(new.s, new.r), p, 0)

sys_mkdir(k, p, c) == MakeNode(k, p, c, "dir", 0)
sys_mknod(k, p, c) == MakeNode(k, p, c, "device", c.n)

\* Mutant of sys_chdir: the old directory is not put.
sys_chdirKept(k, p, c) ==
  LET new == namei(k, p.cwd, c.path)
      j   == ilock(new.s, new.r)
  IN  IF ~argstr(p, c) \/ new.r = 0 THEN Ret(k, p, -1)
      ELSE IF j.inode[new.r].type # "dir" THEN Ret(iput(j, new.r), p, -1)
      ELSE Ret(j, [p EXCEPT !.cwd = new.r], 0)

sys_chdir(k, p, c) ==
  LET new == namei(k, p.cwd, c.path)
      j   == ilock(new.s, new.r)
  IN  IF ~argstr(p, c) THEN Ret(k, p, -1)
      ELSE IF new.r = 0 THEN Ret(new.s, p, -1)
      ELSE IF j.inode[new.r].type # "dir" THEN Ret(iput(j, new.r), p, -1)
      ELSE Ret(iput(j, p.cwd), [p EXCEPT !.cwd = new.r], 0)

----------------------------------------------------------------------------
(* Pipes, programs and memory.                                             *)

\* The two descriptors are reported through p.buf.
sys_pipe(k, p, c) ==
  LET f0   == filealloc(k)
      k0   == [k EXCEPT !.file[f0].ref = 1]
      f1   == filealloc(k0)
      i    == Min({n \in DOMAIN k.pipe : ~k.pipe[n].readopen /\ ~k.pipe[n].writeopen})
      end  == [NoFile EXCEPT !.ref = 1, !.type = "pipe", !.pipe = i]
      j    == [k EXCEPT !.free = @ - 1,
                        !.pipe[i] = [NoPipe EXCEPT !.readopen = TRUE, !.writeopen = TRUE],
                        !.file[f0] = [end EXCEPT !.readable = TRUE],
                        !.file[f1] = [end EXCEPT !.writable = TRUE]]
      fd0  == fdalloc(p)
      q    == [p EXCEPT !.ofile[fd0] = f0]
      fd1  == fdalloc(q)
      undo == Ret(fileclose(fileclose(j, f0), f1), p, -1)
  IN  IF f0 = 0 THEN Ret(k, p, -1)
      ELSE IF f1 = 0 \/ k.free = 0 THEN Ret(k, p, -1)
      ELSE IF fd0 < 0 THEN undo
      ELSE IF fd1 < 0 \/ ~copyout(p.mem, At(c), 1) THEN undo
      ELSE Ret(j, [q EXCEPT !.ofile[fd1] = f1, !.buf = <<fd0, fd1>>], 0)

\* c.argv: the arguments, c.lens their lengths, c.argat where the pointers are.
\* Each is copied through a page of its own, then onto the new stack. A program
\* is a file of "ELF" and its name, which goes to p.buf; argc is returned.
sys_exec(k, p, c) ==
  LET argc == Len(c.argv)
      file == namei(k, p.cwd, c.path)
      j    == ilock(file.s, file.r)
      head == readi(j, file.r, 0, 2, TRUE)
      elf  == head.r = 2 /\ head.data[1] = "ELF"
      args == FoldSeq(LAMBDA len, sum : len + sum, 0, c.lens)
      new  == execimage(j.free - argc, p.mem)
      done == iput(j, file.r)
  IN  IF \/ ~argstr(p, c) \/ argc >= MAXARG \/ argc > k.free
         \/ ~copyin(p.mem, c.argat, 1) \/ \E n \in 1 .. argc : c.lens[n] > PGSIZE
      THEN Ret(k, p, -1)
      ELSE IF file.r = 0 THEN Ret(file.s, p, -1)
      ELSE IF ~elf \/ ~new.ok \/ args > PGSIZE THEN Ret(done, p, -1)
      ELSE Ret([done EXCEPT !.free = new.free + argc],
               [p EXCEPT !.mem = new.m, !.buf = <<head.data[2]>>], argc)

sys_sbrk(k, p, c) ==
  LET g == growproc(k.free, p.mem, c.n)
  IN  Ret([k EXCEPT !.free = g.free], [p EXCEPT !.mem = g.m],
          IF g.ok THEN p.mem.sz ELSE -1)

----------------------------------------------------------------------------
(* The open files and the memory in fork() and exit().                     *)

Fds(p, f) == {fd \in 0 .. NOFILE - 1 : p.ofile[fd] = f}

\* Every descriptor of the child is one more reference to its file. The result
\* is the child's record; -1 when its memory does not fit.
sys_fork(k, p) ==
  LET copy == uvmcopy(k.free, p.mem)
      dup  == [k EXCEPT !.file = [f \in Files |->
                 [k.file[f] EXCEPT !.ref = @ + Cardinality(Fds(p, f))]]]
      j    == idup(dup, p.cwd)
  IN  IF copy.ok THEN Ret([j EXCEPT !.free = copy.free], [p EXCEPT !.mem = copy.m], 0)
                 ELSE Ret(k, p, -1)

\* The descriptors are closed one by one, then the directory is put.
sys_exit(k, p) ==
  LET closed[n \in Nat] ==
        IF n = 0 THEN k
        ELSE IF p.ofile[n - 1] = 0 THEN closed[n - 1]
        ELSE fileclose(closed[n - 1], p.ofile[n - 1])
  IN  Ret(iput(closed[NOFILE], p.cwd),
          [p EXCEPT !.ofile = [fd \in 0 .. NOFILE - 1 |-> 0], !.cwd = 0], 0)

syscall(k, p, c) ==
  LET num == c.op IN
  CASE num = "open"   -> sys_open(k, p, c)
    [] num = "close"  -> sys_close(k, p, c)
    [] num = "dup"    -> sys_dup(k, p, c)
    [] num = "read"   -> sys_read(k, p, c)
    [] num = "write"  -> sys_write(k, p, c)
    [] num = "fstat"  -> sys_fstat(k, p, c)
    [] num = "link"   -> sys_link(k, p, c)
    [] num = "unlink" -> sys_unlink(k, p, c)
    [] num = "mkdir"  -> sys_mkdir(k, p, c)
    [] num = "mknod"  -> sys_mknod(k, p, c)
    [] num = "chdir"  -> sys_chdir(k, p, c)
    [] num = "pipe"   -> sys_pipe(k, p, c)
    [] num = "exec"   -> sys_exec(k, p, c)
    [] num = "sbrk"   -> sys_sbrk(k, p, c)
    [] num = "fork"   -> sys_fork(k, p)
    [] num = "exit"   -> sys_exit(k, p)
    [] num = "getpid" -> Ret(k, p, p.pid)
    [] num = "sleep"  -> Ret(k, p, 0)
=============================================================================
