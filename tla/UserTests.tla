------------------------------ MODULE UserTests ------------------------------
(***************************************************************************)
(* user/usertests.c on the machine: init starts "usertests <test>", for    *)
(* any test of the list, and waits for orphans. What one test does is a    *)
(* program of FileTests or ProcessTests; main() runs it in a child between *)
(* two counts of the free pages.                                           *)
(***************************************************************************)
EXTENDS FileTests, ProcessTests

\* echo.c: the arguments, with a blank between them and a newline at the end.
echo(args) ==
  For(Len(args), LAMBDA i :
    <<Try(Write("1", <<args[i]>>)), Try(Write("1", <<IF i < Len(args) THEN " " ELSE "newline">>))>>)
  \o <<Exit(0)>>

UserProgram(name, argv) == CASE name = "echo" -> echo(Tail(argv))
                             [] OTHER -> <<Exit(1)>>

\* A child takes all the memory and reports each page; the parent counts.
countfree(count) ==
  << Pipe(<<"in", "out">>),
     Fork(<< Close("in"),
             Loop(To(Sbrk(PGSIZE), "a"), <<TouchIn("a", PGSIZE - 1), Write("out", <<"x">>)>>),
             Exit(0) >>),
     Close("out"), count, Close("in"), WaitAny >>

run(prog) == <<Fork(Append(prog, Exit(0))), WaitFor({0})>>

init(prog) == <<Fork(prog), Loop(WaitAny, <<>>)>>

\* The tests that leave no process behind when they end ...
Quiet ==
  [ MAXVAplus |-> MAXVAplus, manywrites |-> manywrites, execout |-> execout,
    copyin |-> copyinTest, copyout |-> copyoutTest, copyinstr1 |-> copyinstr1,
    copyinstr2 |-> copyinstr2, copyinstr3 |-> copyinstr3, rwsbrk |-> rwsbrk,
    truncate1 |-> truncate1, truncate2 |-> truncate2, truncate3 |-> truncate3,
    pgbug |-> pgbug, sbrkbugs |-> sbrkbugs, badwrite |-> badwrite, badarg |-> badarg,
    twochildren |-> twochildren, forkfork |-> forkfork, argptest |-> argptest,
    createdelete |-> createdelete, linkunlink |-> linkunlink, linktest |-> linktest,
    unlinkread |-> unlinkread, concreate |-> concreate, subdir |-> subdir,
    fourfiles |-> fourfiles, sharedfd |-> sharedfd, dirtest |-> dirtest,
    exectest |-> exectest, bigargtest |-> bigargtest, bigwrite |-> bigwrite,
    sbrkbasic |-> sbrkbasic, sbrkmuch |-> sbrkmuch, kernmem |-> kernmem,
    sbrkfail |-> sbrkfail, sbrkarg |-> sbrkarg, sbrklast |-> sbrklast,
    sbrk8000 |-> sbrk8000, validatetest |-> validatetest, stacktest |-> stacktest,
    opentest |-> opentest, writetest |-> writetest, writebig |-> writebig,
    createtest |-> createtest, openiput |-> openiputtest, exitiput |-> exitiputtest,
    iput |-> iputtest, mem |-> mem, pipe1 |-> pipe1, killstatus |-> killstatus,
    preempt |-> preempt, exitwait |-> exitwait, rmdot |-> rmdot, fourteen |-> fourteen,
    bigfile |-> bigfile, dirfile |-> dirfile, iref |-> iref, forktest |-> forktest,
    bigdir |-> bigdir ]

\* ... and those whose grandchildren may go on, so that the second count
\* would depend on how far init has got with them.
Orphans == [ reparent |-> reparent, reparent2 |-> reparent2, forkforkfork |-> forkforkfork ]

main(test) ==
  IF test \in DOMAIN Orphans THEN run(Orphans[test]) \o <<Exit(0)>>
  ELSE countfree(Counting(Read("in", 1), "free0")) \o run(Quiet[test])
       \o countfree(NoLess(Read("in", 1), "free0")) \o <<Exit(0)>>

\* forkforkfork fills the process table; it is run from a script of sh,
\* which takes a slot, so that the table is full a little sooner.
Command(test) == IF test = "forkforkfork" THEN <<Fork(main(test)), WaitFor({0}), Exit(0)>>
                 ELSE main(test)

Tests == DOMAIN Quiet \cup DOMAIN Orphans
Disk  == LET File(name, data) == [name |-> name, data |-> data]
         IN  << File("README", <<"r", "e">>), File("echo", <<"ELF", "echo">>),
                File("init", <<"ELF", "init", "x">>), File("cat", <<"ELF", "cat">>) >>

Init == \E test \in Tests : Starts(Disk, init(Command(test)))
Spec == Init /\ [][Next]_vars

----------------------------------------------------------------------------
\* user.h: the calls there are; a string or a buffer is a sequence.
Sequence(x) == x \in Seq({x[n] : n \in DOMAIN x})
Typed(c) ==
  /\ c.op \in {"open", "close", "dup", "read", "write", "fstat", "link", "unlink", "mkdir",
               "mknod", "chdir", "pipe", "exec", "sbrk", "fork", "exit", "getpid", "sleep",
               "wait", "kill", "touch", "spin"}
  /\ c.op \in {"open", "link", "unlink", "mkdir", "mknod", "chdir", "exec"} => Sequence(c.path)
  /\ c.op = "link" => Sequence(c.path2)
  /\ c.op = "write" => Sequence(c.data)
  /\ c.op = "exec" => Sequence(c.argv)
  /\ c.op = "sbrk" => c.n \in Int
CallsTyped == \A p \in Slots : Ready(p) => Typed(Cur(p))

Users == {p \in Slots : proc[p].st = "run"}

\* A process that cannot go on by itself: it sleeps in a pipe, in wait() or in
\* a loop of sleep() or getpid(), or spins, and is not killed.
Waits(p) ==
  LET kids == {n \in Slots : proc[n].parent = p /\ proc[n].st # "unused"}
  IN  /\ Ready(p)
      /\ \/ Cur(p).op \in {"read", "write"} /\ Sleeps(k, proc[p], Cur(p))
         \/ /\ Cur(p).op = "wait"
            /\ kids # {} \/ p = initproc
            /\ \A n \in kids : proc[n].st = "run"
         \/ Head(proc[p].todo).op = "loop" /\ Cur(p).op \in {"sleep", "getpid"}
         \/ Cur(p).op = "spin"

\* "ALL TESTS PASSED": the kernel has not stopped, and what init started has not
\* exited with an error, be it of a test or of the count of the free pages
\* (usertests.c:2877-2885; panic() of exec.c, fs.c, vm.c, file.c, sysfile.c). And not
\* everyone waits for everyone: when no process can go on, the test is over and all
\* its processes are gone, none left asleep, spinning or uncollected.
TestsPass ==
  /\ CallsTyped
  /\ k.panic = ""
  /\ \A p \in Slots : proc[p].st = "zombie" /\ proc[p].pid = 2 => proc[p].xs = 0
  /\ (\A p \in Users : Waits(p)) => \A p \in Slots \ {initproc} : proc[p].st = "unused"

Opened(f) == {x \in Users \X (0 .. NOFILE - 1) : proc[x[1]].ofile[x[2]] = f}
OpenFiles == {f \in Files : k.file[f].ref > 0}

\* Every reference counted is there, and every one there is counted, also after a
\* call that failed half way: a file has as many as there are descriptors for it, an
\* inode as many as files and current directories stand for it, a pipe is open at an
\* end while a file is it (filealloc(), filedup(), fileclose(), iget(), iput()).
RefsCounted ==
  /\ \A f \in Files : k.file[f].ref = Cardinality(Opened(f))
  /\ \A i \in Inums : k.inode[i].ref =
       Cardinality({f \in OpenFiles : k.file[f].type # "pipe" /\ k.file[f].ip = i})
       + Cardinality({p \in Users : proc[p].cwd = i})
  /\ \A n \in DOMAIN k.pipe :
       LET ends == {f \in OpenFiles : k.file[f].type = "pipe" /\ k.file[f].pipe = n}
       IN  /\ k.pipe[n].readopen  <=> \E f \in ends : k.file[f].readable
           /\ k.pipe[n].writeopen <=> \E f \in ends : k.file[f].writable

\* The links of an inode are the entries of the directories that are still in
\* the tree, "." left out; an inode without links lives while it is held, a
\* copy in memory agrees with the disk, and an inode that is in use has a type.
LinksCounted ==
  LET dirs == {d \in Inums : k.dinode[d].type = "dir" /\ k.dinode[d].nlink > 0}
      ents(d) == Entries([k EXCEPT !.inode = k.dinode], d)
      names(i, d) == {n \in DOMAIN ents(d) : ents(d)[n][2] = i /\ ents(d)[n][1] # "."}
      live == {i \in Inums : k.dinode[i].type # "none"}
  IN  /\ \A i \in live :
           /\ k.dinode[i].nlink = MapThenSumSet(LAMBDA d : Cardinality(names(i, d)), dirs)
           /\ k.dinode[i].nlink = 0 => k.inode[i].ref > 0
      /\ \A i \in Inums : k.inode[i].valid =>
           k.inode[i] = Inode(k.inode[i].ref, TRUE, k.dinode[i])
      /\ \A i \in Inums \ live : k.inode[i].ref = 0 /\ \A d \in dirs : names(i, d) = {}

\* A block is in use exactly when one inode, or one indirect block, has it.
BlocksOwnedOnce ==
  LET of(i)  == [n \in 0 .. NDIRECT |-> k.dinode[i].addrs[n]]
      ind(i) == k.dinode[i].addrs[NDIRECT]
      places == {x \in Inums \X (0 .. NDIRECT) : of(x[1])[x[2]] # 0}
      deep   == {x \in Inums \X (0 .. NINDIRECT - 1) :
                   ind(x[1]) # 0 /\ k.blk[ind(x[1])][x[2]] # 0}
      owned  == {of(x[1])[x[2]] : x \in places} \cup {k.blk[ind(x[1])][x[2]] : x \in deep}
  IN  k.used = owned /\ Cardinality(owned) = Cardinality(places) + Cardinality(deep)

\* The pages of a process, and of the first n processes of a table.
PagesOf(q) == IF q.st = "unused" THEN 0 ELSE TRAPFRAMEPAGE + Held(q.mem)
Taken(pr) ==
  LET taken[n \in Nat] == IF n = 0 THEN 0 ELSE taken[n - 1] + PagesOf(pr[n])
  IN  taken

\* No page is lost and none given back twice, also after a call that failed half way:
\* a page is free, or it is of a process that wait() has not yet collected, or of a
\* pipe (uvmalloc(), uvmcopy(), exec(), pipealloc(), pipeclose(), freeproc()).
PagesCounted ==
  LET pipes == {n \in DOMAIN k.pipe : k.pipe[n].readopen \/ k.pipe[n].writeopen}
  IN  k.free \in Nat /\ k.free + Taken(proc)[NPROC] + Cardinality(pipes) = NPAGES

\* What countfree() asks of the pages at the end of every test (usertests.c:2709-2776,
\* 2926) holds after every call, also one that failed half way, and of references too.
NothingLeaks == RefsCounted /\ PagesCounted

\* After every call, also one that failed half way, no link is missing and no block is
\* lost or in use twice (itrunc(), bmap(), writei(), sys_link(), sys_unlink(), create()).
DiskSound == LinksCounted /\ BlocksOwnedOnce
=============================================================================
