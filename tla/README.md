# Verification of the OS and networks coursework

This directory holds TLA+ models of the programs in this repository, the TLC
configurations that check them on small instances, and theorems checked with
TLAPS. Every definition is translated from the source; `PROJECT.json` names the
lines each one stands for.

Contents: [the system](#the-system), [modules](#the-modules),
[runs](#the-runs), [fairness](#fairness), [bounds](#bounds), [proofs](#proofs),
[findings](#findings), [what is left out](#not-modelled), [plan](#plan).

## The system

The repository is the coursework of one student. Its programs are independent of
each other.

### OSN_Assignment4: xv6 for RISC-V, with new schedulers

A multi-core kernel in C (`kernel/`), its user programs (`user/`), and `mkfs/`.
The scheduler is chosen at build time (`SCHEDULER ?= RR` in the Makefile; FCFS,
PBS and MLFQ are the others).

| Component | State | Operations | Hard because |
|---|---|---|---|
| processes (`proc.c`, `trap.c`) | `proc[NPROC]` with a lock each, `wait_lock`, `nextpid`, one `struct cpu` per hart | fork, exit, wait, kill, sleep, wakeup, yield, scheduler | every loop over the table locks one slot at a time; `p->lock` is kept across `swtch`; a parent sleeps while its child leaves |
| FCFS, PBS, MLFQ (`proc.c:649-855`, `trap.c:86-98`) | `ctime`, `DP`, `num_sched`, `niceness`, `SP`; `priority`, `index`, `c[5]`, `q_rtime`, `q_wait` | pick a process, demote, age, set_priority | the choice reads slots without their locks; unsigned comparisons; counters that meet array bounds |
| clock (`trap.c:192-199`, `proc.c:480-571`) | `ticks`, `rtime`, `wtime`, `stime`, `ctime`, `etime` | clockintr, update_time, waitx, sys_sleep | times are read without `tickslock` and subtracted as unsigned |
| log (`log.c`) | `log.lh`, `outstanding`, `committing`, the header block on disk | begin_op, log_write, end_op, recovery | crashes between any two disk writes, operations that wait for room |
| buffer cache (`bio.c`, `sleeplock.c`) | a list of buffers with `refcnt`, `valid`, `dev`, `blockno`, a sleep lock each | bget, bread, bwrite, brelse, bpin, bunpin | the lock on the list is dropped before the buffer's lock is taken |
| pipes (`pipe.c`) | `nread`, `nwrite`, `readopen`, `writeopen`, a ring of 512 bytes | pipewrite, piperead, pipeclose | readers and writers sleep on each other; counters wrap |
| inodes, directories (`fs.c`) | `itable`, bitmap, inodes and directory entries | ialloc, iget, iput, itrunc, writei, dirlink, namex | references against links, locks taken in tree order |
| file table (`file.c`, `sysfile.c`) | `ftable`, `ofile[]` | open, dup, close, link, unlink, create | several steps that may each fail, undone by hand |
| disk driver (`virtio_disk.c`) | descriptors, `free[]`, `info[]`, rings | virtio_disk_rw, virtio_disk_intr | completion in any order, waiting for descriptors |
| console, UART (`console.c`, `uart.c`) | an input ring with indices r, w, e; an output ring | consoleread, consoleintr, uartputc, uartstart | interrupt handlers against readers and writers |
| memory (`kalloc.c`, `vm.c`) | a free list, page tables | kalloc, kfree, uvmcopy, uvmunmap | failure half way through a copy |
| system calls, exec | `syscalls[]`, the argument page | syscall, argstr, exec, sbrk | many ways to fail half way |
| user programs (`usertests.c`, `init.c`, `mkfs.c`) | descriptors, children, the image | some fifty tests of the kernel | what the kernel is expected to do under any schedule |
| spin locks, boot | `noff` and `intena` | acquire, push_off | little shared state above the instruction |

Components meet in these places: every sleeping operation uses `sleep`/`wakeup`
of `proc.c` with its own lock; the file calls run inside `begin_op`/`end_op`;
inodes are read and written through the buffer cache and `log_write`, and the
cache through the disk driver; the timer interrupt drives `clockintr` on hart 0
and `yield` on every hart.

### OSN_ass5: three simulations with POSIX threads

| Component | State | Operations | Hard because |
|---|---|---|---|
| q1, course registration | courses, labs, TAs, students, a lock each, condition variables | assign a TA, fill a tutorial, decide | counts taken without locks, wake-ups sent while nobody waits |
| q2, stadium | a semaphore of seats per zone, spectators with a lock and a one-shot semaphore each, goals, the clock | enter a zone within patience, watch, leave | a timeout races with a seat; waits without a predicate loop |
| q3, dictionary server | 101 entries with a lock each, a queue of clients | insert, delete, update, concat, fetch | an entry is read outside its lock; the queue and its signal |

`OSNevals` is a byte-identical copy of `OSN_ass5`.

### OS_Assignment2, OS_Assignments

A Linux shell (a list of background jobs that a SIGCHLD handler edits, a history
file, pipelines), and file-reversal exercises.

## The modules

### Processes

`Proc` models the RR build. `state`, `pid`, `parent`, `killed`, `chan` are the
fields of `struct proc`, indexed by slot; `lock` and `wait_lock` say which hart
holds a lock *where that can be seen*; `cur` is `c->proc`, `mode` is what a
hart executes, `scan` its cursor in `scheduler()`. `pc`, `at`, `wat`, `arg` and
`havekids` are the kernel stack of a process: the point it is at, its cursor in a
loop over the table, the cursor of the `wakeup()` it calls, and its locals.

The grain is the lock. A critical section on one lock is one action, because
nothing else can see its middle. The loops of fork, wait, kill, wakeup and
scheduler lock one slot at a time, so each is one action per slot. What is kept
longer is visible: `p->lock` from `SchedPick` to `Resume` and from `Sched` to
`SchedBack`, `wait_lock` over the whole of exit's and wait's work. `reparent()` and
the scan of wait() look at `parent` under `wait_lock` only, as in the code.

What is abstract: a system call is entered and left in one step each (`Syscall`,
`UserRet`); closing the files in exit, copying memory in fork and `copyout` in wait
are either invisible or a choice between success and failure (`ForkNoMemory`,
`WaitBadAddress`). The only sleepers are those in wait(). `init` neither exits nor
gets killed: the kernel panics, by design, if it does (`KillPids` excludes pid
1). `Fault` is the exception in user mode.

`ProcTree` is what fork, exit and wait promise: a tree of pids. A process leaves by
handing each child to init, becomes a zombie once it has none, and is reaped once,
by its parent. The last section of `Proc` maps one to the other: a slot stands
for the process whose pid it holds from the moment it is linked to its parent
until it is freed.

`ProcProofs` states the inductive invariant and proves it.

### Schedulers

`Dispatch` holds what FCFS, PBS and MLFQ share: a hart goes over the table once to
choose a pid and once more to find a RUNNABLE slot with that pid, runs it, and
finishes the second pass. `phase`, `scan`, `cur` and `minpid` are the hart's place in
this code. Each step is one turn of a loop, so the harts, the programs and the clock
interleave with the passes as they do in the kernel. Here fork() is one step, and
so are exit() together with the wait() that frees the slot: the schedulers look at
nothing in between. `waiting` is a history variable: the pids that have been
RUNNABLE since the hart began its first pass, those it has no excuse to pass over.

`Fcfs` splits the first pass further, into the read of `ctime` and the read of `pid`
(`ChooseOlder`, `TakePid`), because the pass takes no lock.

`Pbs` keeps the times and the arithmetic of `DP`, in words of 12 bits that wrap as
`uint` does. The first pass is one step per slot. The clock stops at `MaxTicks`. `SetPriority` has
the call to `scheduler()` in it: the hart begins a pass and the caller stays behind.

`Mlfq` has the queues `q` of the whole kernel and the counts `i` of each hart. The first pass
takes no lock, so its reads are steps of their own: the state of a slot (`Choose`), its priority as it is
put into a queue (`Queue`, `proc.c:802`), its priority again as it is counted (`Count`, `proc.c:804`),
the sort (`Sort`), the search for a head (`Pick`). A compiler may merge the two reads; nothing in the
source makes it. Inside the statement at line 802 `p->priority` is taken to be read once.
`clk` is the cursor of `update_time()` in the clock interrupt, which may fall anywhere
into the work of the other harts and between any two steps of its own. When it moves a process up between
`Queue` and `Count`, the process is in one queue and counted in the one above; the history variable
`split` says that this has happened in the pass. `bubbleSort()`
changes nothing, since `swap()` gets its arguments by value, but it looks at the index of each process
that is counted, and after a split one of them may be a null pointer: then the hart takes a page fault
and panics (`Panic`), unless the compiler has dropped the comparison, which has no effect. `Sort` allows both.
`Pick` may meet a null head in the same way. `q_wait` is only ever printed.

`Schedulers` is the three builds in one specification: `SCHEDULER`, the Makefile's
variable, is chosen in `Init` and never changes; a behaviour of it is a behaviour of
`Fcfs`, of `Pbs` or of `Mlfq`. The run `schedulers` checks each build's promise on one
hart, where they hold, that of MLFQ in the rounds without a split; `mlfq_level` shows what a split does,
and `mlfq_two` has two harts.

### Below the file system calls

`Storage` holds the layers of `fs.c:1-10` from the inode down to the disk: `Inode`,
`Log`, `Bio`, `Virtio`. Each is a module of its own, driven by processes that do whatever
the layers above may do. A behaviour of `Storage` is one of a single layer, chosen in
`Init`; the layers are put together by their promises: `Inode` changes the disk as
`AtomicDisk` does, which `Log` implements; `Log` uses blocks as `BlockStore` has them, which
`Bio` implements; `Bio` reads and writes the disk in one step, as `DoneOnReturn` says of
`Virtio`. Running all four in one state would multiply their states and show no more.

`Log`: `home`, `hdr` and `logblk` are the disk, `cache` and `pin` the buffers,
`lh`, `outstanding`, `committing` the fields of `log`; `pc` and `tail` are where a
process stands in begin_op(), its call or the commit, `boot` where recovery stands.
A section under `log.lock` is one action; a commit holds no lock and is one action
per disk write. `Crash` may come at any point, in recovery too, and leaves the disk
as it is: a block is written whole or not at all. `Evict` is the buffer cache
reusing an unpinned buffer. Changing a block and log_write() are one action, as the
process has the buffer locked over both.

`AtomicDisk` is what the log promises: calls change a view of the disk; between calls
the whole view becomes durable at once; a crash goes back to what is durable.
The refinement maps `durable` to what recovery would make of the disk.

`Bio` is the buffer cache: its list in order of use, `refcnt`, `valid`, and the sleep lock of
each buffer. A section under `bcache.lock` is one action, so that bget() drops that lock
before it takes the buffer's, as in the code; a read or a write of the disk is one action.
`BlockStore` is the promise: each block has its contents and at most one process that uses
it, though buffers are reused all the time. Nothing keeps `NBUF` large enough for what the processes and
the log take: in the kernel it is 30, `LOGSIZE` is 30 too, and each of 64 processes may hold two buffers.
bget() then panics (`NoBuffers`) and keeps `bcache.lock`: nobody gets or gives back a buffer any more, but
those who hold one go on with it on the other harts, and the promise still holds.

`Inode` has several processes create, open, link, unlink and close files of one directory:
the inode table (`ref`, `valid` under `itable.lock`), the inodes on the disk (`type`,
`nlink`), the directory, and the sleep lock of each inode. A place in the code between two
locks is a value of `pc`, so iget() and ilock(), the two halves of iput(), and the two
halves of sys_link() interleave with everything else. It is the fine grain of the calls whose
outcome `Syscalls` has.

`Virtio` is the disk driver and the device beside it. `free`, `desc`, `info` are the
fields of `disk`; `avail` and `used` what is in the two rings and not yet looked at by
the other side; `bdisk` and `data` the fields of the caller's buffer. A section under
`vdisk_lock` is one action, except that the device may complete requests between the
acknowledgement of an interrupt (`Acknowledge`) and the loop over the used ring
(`HandleUsed`). The device (`Complete`) follows the chain through the descriptors as
it finds them, so a chain that was changed under it would show. `Kill` is
`kill()`, which wakes sleepers of any kind.

### What a process sleeps for

`Endpoints` holds the places, besides wait() and the disk, where a process sleeps: `Pipe`,
`Console`, `Uart` and `Clock`. They share no variable, and a behaviour is one of a
single endpoint.

`Pipe`: `data`, `nread`, `nwrite`, `readopen`, `writeopen` and `lock` are the fields of
`struct pipe`; `rd` and `wr` stand for the reference counts of the two files; `pc` is
where a process is in pipewrite() or piperead(), `left` what it has still to copy.
The pipe's lock is a variable, not folded into the actions, because kill() does not
take it and may come between any two turns of a loop. fileclose() and the
pipeclose() it calls are two steps, since no lock covers both. The counters wrap at
`WORD`, which divides by `PIPESIZE` as 2^32 does by 512. `BoundedQueue` is what it promises: a
queue with end-of-file and broken pipe.

`Console` is console input: `buf`, `r`, `w`, `e` and `lock` are the fields of `cons`, `pc`,
`left` and `target` the reader's place in consoleread(). The counters wrap at `UINT`. It
implements `LineQueue`: a queue of finished lines and a line being edited.

`Uart` is console output: `tx` is the number of bytes in the ring, `fifo` that in the
chip, `at` the place of a writer or of the interrupt handler, `sync` that of a hart in
uartputc_sync(), which takes no lock. Reading LSR and writing THR are two steps.
It comes with its chip as the 16550 works: the transmit FIFO is enabled (`uart.c:71`),
"idle" means it is empty, and an empty FIFO interrupts.

`Clock` is the clock interrupt with update_time() going over the table one `p->lock` at a time
(`clk` is its cursor), under tickslock, which sys_sleep() takes as well and allocproc() and
exit() do not when they read `ticks`. `born`, `ran` and `ended` are `ctime`, `rtime` and `etime`.
Arithmetic is modulo `WORD`, and the clock starts just before it wraps. In sys_sleep() the look at `killed`
(`SysSleep`, `SleepAgain`) and the sleep (`Sleep`) are two steps, between which `sleeper` has tickslock; kill(),
which takes only `p->lock`, may come in between, and the process then sleeps, killed, until the next tick.

### The file system calls and `usertests`

Here the grain is one system call, and the calls are modelled in full.

| Module | Models |
|---|---|
| `FileSys` | `fs.c`: every function that changes state, as a function from a state to a state and a result: block and inode allocation, `bmap`, `itrunc`, `readi`, `writei`, directories, `namex` |
| `Memory` | `vm.c`, `kalloc.c`, `growproc`: free pages, sizes, page-table pages, the guard page, what a bad address does |
| `Syscalls` | `sysfile.c`, `file.c`, `pipe.c`, `exec.c`, `sbrk`: each call with every path to failure, its undoing included |
| `Machine` | in three sections: a language for user programs (calls, what is expected of their results, loops); `mkfs.c`, the image the kernel boots from; the process table, scheduling at the grain of a call, fork, exit, wait, kill |
| `FileTests`, `ProcessTests` | the tests of `usertests.c` as programs |
| `UserTests` | `main()` of `usertests.c` with `countfree()`, `echo.c`, init, and the properties |

Operators bear the names of the C functions. A state is a record (the kernel `k`: bitmap,
blocks, inodes on the disk and in memory, file table, pipes, free pages; the table `proc`);
a process has its program left (`todo`) and its registers. Any process that can go on may
make the next call, which stands for every schedule at that grain; what happens inside a
call is the matter of `Proc`, `Pipe`, `Inode` and `Storage`. A write is one step per
transaction, or per filling of a pipe. Sizes are scaled (below), and the loops of a test run
as often as still shows what the test is about: so often that a table, a file or the
memory is really exhausted where the test exhausts it.
`Kernel` is a constant that stands for the dispatch of the calls and has the value `syscall` in `UserTests.cfg`, so
that `Machine` can be read without the calls.

What is abstract: the contents of pages and of the text of a program; the walk through the
page tables, of which the number of pages remains (a table page, once there, stays with the process
until it exits); the superblock. Tests that leave orphans behind run
without the count of free pages, as an orphan may still hold some.

### The simulations

`Simulations` holds the three programs of `OSN_ass5`, of which a behaviour runs one. An action
is what a thread does between two points at which another can tell: a look without a
lock, a section under one, a wait.

`Course` (q1): a thread per course, per lab and per student. A course looks at a TA, locks it, looks
again (`Look`, `Take`), and conducts the tutorial: it counts the waiting students (`Count`), seats
as many one by one (`Search`, `Seat`), lets go of the TA for two seconds, releases the students
one by one (`Search`, `Decide`, `Move`), and frees the TA (`End`, `Free`, `Leave`). `tut` holds the
locals of its loops. Labs look at their TAs without locks (`Close`, `RaiseBonus`). `input` is what main() reads.

A student thread looks at its state (`Apply`), at its preference (`ReadPref`) and at the course (`Withdrawn`,
`Offered`), and only then takes its lock, to give up the preference (`ChangePref`) or to wait (`Wait`) until a
tutorial or the end of the course (`NotifyAll`) signals it. The two seconds of a tutorial are no promise that
it has got so far: `Finish` may come at any time. So a tutorial may signal a student that is on its way to the
wait, which then sleeps with nobody to wake it; and a student may give up another preference
than it has looked at. The history variable `late` says whose signal was `missed` and who has `skipped` a
preference. A look at the preference and then the state of a student (`q1/globals.c:164`, `180`, `202`, `course.c:17`), and
the loop that counts the applicants, are one step each: while a course looks, these change for its own students only
when it changes them itself, or in the cases named astray and skipped.
The model follows a tutorial that takes a student of another only as far as that (`astray`).

`Stadium` (q2): the spectators, a thread for each zone they may sit in, and the timer. `sem` is
the semaphore of a zone, `chosen` says that `spec_locks`, a semaphore of 1 that is never
posted, is taken. Any wait may time out while there is no seat; `left` is the time until `etime`,
which malloc() leaves to chance before somebody sits. The timer signals until it has seen a
spectator leave, so that a signal nobody waits for is repeated.

`Dictionary` (q3): client threads, which copy their command from one structure main() writes
over (`CopyArg`), the server's queue, and the pool. The values are left out and the keys kept.

## The runs

| run | module, configuration | bounds | checks | shows |
|---|---|---|---|---|
| `proc_safety` | `MCProc`, `MCProc_safety.cfg` | 3 slots, 2 harts, pids up to 4, kill(3): init, a child and a grandchild, the table full, one slot reused; harts are symmetric | `TypeOK`, `TreeSpec`, `OneHart`, `RunningIffOnHart`, `FreedOffStack`, `LiveParent`, `NoLostExit`, `UniquePids`, `KilledByRequest` | Every interleaving of fork, exit, wait, kill, faults and the RR schedulers on two harts and three slots, slots being reused, keeps the process table and the sleep/wakeup protocol intact, and implements the process tree of ProcTree, pids never being given out twice. |
| `proc_live` | `MCProc`, `MCProc_live.cfg` | 3 slots, 1 hart, pids up to 3, kill(2) | `ZombieReaped`, `RunnableRuns`, `KilledExits` | On one hart under the fairness of timer and locks, orphans are reaped, every RUNNABLE process runs, and a killed process reaches the end of exit(): no window between its test of killed and its sleep, interrupts being off. |
| `pbs_stuck` | `Pbs`, `Pbs_stuck.cfg` | 2 slots, 1 hart, priority 50 | `RunningOnHart` (violated) | set_priority() that lowers SP calls scheduler() and leaves the calling process RUNNING on no hart. |
| `mlfq_two` | `Mlfq`, `Mlfq_two.cfg` | 2 slots, 2 harts, 2 levels, aging after 1 tick | `TypeOK`, `RunningOnHart` | On two harts priorities stay within the five queues though demotion adds 1 without a test, and no process is run twice. |
| `mlfq_level` | `Mlfq`, `Mlfq_level.cfg` | 2 slots, 1 hart, 3 levels, aging after 2 ticks | `HighestFirst` (violated) | Aging between the two reads of a priority puts a process into one queue and counts it in the one above: a head of an earlier round is run, maybe from a lower queue than somebody waits in. |
| `schedulers` | `Schedulers`, `Schedulers.cfg` | 2 slots, 1 hart, 3 pids (a slot is reused), the clock up to 1, priorities 50 and 120 (cut to 100), 2 levels, aging after 2 ticks | `NoOvertaking`, `LeastDP`, `BestLevelFirst`, `PicksSomeone`, `AgedOrRuns` | On one hart, clock interrupts falling anywhere, each build keeps its promise: FCFS overtakes nobody, PBS runs the least DP and then the least often scheduled, MLFQ serves the highest queue and moves up whoever waits; and a round with somebody waiting finds somebody. Of MLFQ the choice is right in the rounds in which aging has not fallen between the two reads of a priority (mlfq_level). |
| `storage` | `Storage`, `Storage.cfg` | log: 2 processes, 2 blocks of 2 values, one block a call, a log that holds 2 (two calls in one group, a full log); cache: 2 processes, 4 blocks, one of them written, 2 buffers (bget() may find none), one block pinned; inodes: 2 processes, 2 names, 2 inodes; disk: 3 processes, 7 descriptors (two requests and one left over), 2 values, one process may be woken by kill() | `CallsAdmitted`, `InodeKept`, `RequestsKnown`, `CommittedOnReturn`, `DiskSpec`, `StoreSpec`, `DoneOnReturn`, `NobodyWaitsForEver` | Each layer below the file system calls, under every interleaving of the processes that use it: the log is an atomic disk whatever crashes, the buffer cache a store of blocks with one holder each, link counts and references of the inodes add up while names are created, linked and unlinked at once, the disk driver neither loses nor mixes up requests; and nobody waits for ever. |
| `inode_leak` | `Inode`, `Inode_leak.cfg` | 2 processes, 2 names, 2 inodes | `LastPutFrees` (violated) | iput() counts its reference down without another look: an inode freed by one process, allocated again and unlinked by another while the first is between the two halves of iput(), is never freed. |
| `endpoints` | `Endpoints`, `Endpoints.cfg` | 2 processes, one of which may be killed; a pipe of 2 bytes, counters modulo 4 (they wrap), calls of up to 3 bytes; an input ring of 3 with counters modulo 6, calls of up to 2 bytes; an output ring of 2, 2 harts that print 2 bytes each, room for 3 bytes in the chip; a clock of 8 that is at 7 and ticks twice, sleeps of 1 and of -1, 2 slots | `OpenWhileUsed`, `NobodySleepsInVain`, `NoOverrun`, `TimesAddUp`, `QueueSpec`, `LineSpec`, `WaitsEnd` | Two processes, one of which may be killed, at a pipe whose ends are inherited and closed in any order, at the console, or asleep until a tick: the pipe, with its wrapping counters, is a bounded queue that is not freed under a call; input is a queue of lines that do not change once handed over; output drains though echo and printf() write to the chip beside its lock; nobody sleeps without reason, run times are those of the life of the process though update_time() goes over the table while it changes, and calls return once the last writer has closed. |
| `usertests` | `UserTests`, `UserTests.cfg` | 7 processes, 72 pages of 3 units, a disk of 40 blocks of 4 cells and 23 inodes, 2 direct and 2 indirect blocks, 8 open files, 6 descriptors, pipes of 2; the loops of the tests shortened | `TestsPass`, `NothingLeaks`, `DiskSound` | The tests of usertests.c, each started by init on a fresh disk, on the model of the system calls: under every order of the calls of its processes each test ends and passes, the kernel does not panic, and after every call references, links, blocks and pages add up. |
| `simulations` | `MCSimulations`, `Simulations.cfg` | q1: 2 courses, and either 2 labs of 2 TAs with 2 TAships and of 1 with 1, or 2 labs of one TA with one TAship each, and 2 students that attend up to two tutorials, of 2 seats and of 1; q2: 2 spectators of one group and zone, one seat in each of two zones, a match of 1, a goal a team; q3: 2 threads in the pool, 1 key, two inputs of 3 commands with all five operations between them | `GivenOnce`, `NobodyAhead`, `ComesToAnEnd` | The three programs with threads: a TA serves one course, a seat of a tutorial has one student, one of the stadium one spectator, a key is there once; TAs of a lab serve equally often and groups leave together; and whatever the timeouts, the lost patience, the shared argument of the clients and the looks without a lock, each program ends, but for what follows in q1 from a tutorial that takes a student of another, a preference that is skipped, and a signal that comes before the wait. |
| `q1_signal` | `MCSimulations`, `Simulations_signal.cfg` | 2 courses with a lab each, one TA, one student that asks for one course only; 1 spectator, no command | `StudentsWake` (violated) | A student thread that is between its look at its course and its wait when the tutorial releases it misses the one signal, and sleeps for ever. |


## Fairness

`FairSpec` of `Proc` asks, with strong fairness, that the scheduler of each hart goes
on and the timer takes the hart back to it, that a process in the kernel goes on, and
that init calls wait(). Strong fairness stands for spin locks that are free again
and again, and for a timer that may come before each step. The timer fires for ever
on every hart (`kernelvec.S`, timervec), and `user/init.c:39-52` loops on wait().
Nothing a user program does otherwise is fair: it need not exit, fork or wait.

`Schedulers`: in the MLFQ build the clock goes on (`kernelvec.S`, timervec), and nothing else need; a process
need not give its hart away. When the hart of the clock has panicked there
are no ticks, and `AgedOrRuns` promises nothing more.

In `Storage` and `Endpoints` a behaviour has one layer only, so one conjunct for a process stands
for all it may be in.

- Log: a call ends, the steps of a commit and of recovery are taken, and a process in
  begin_op() that could get in again and again does (strong: it competes for
  `log.lock`). No fairness on crashes, evictions, or new calls.
- Inodes: a process inside a call goes on, and gets a sleep lock that is free
  again and again (strong). Nobody need make another call.
- Disk: the interrupt is taken, and the device and the processes do what is to be done for
  each request (strong, for `vdisk_lock` and the descriptors).
- Pipe: a process inside a call goes on (strong, for the pipe's lock), and a
  killed process closes its ends, because it exits when its call returns. Nobody else
  need close or call anything.
- Output: the chip sends, its interrupt is taken, and a writer gets `uart_tx_lock` if it is
  free again and again. Input and the clock have safety properties only.

`UserTests` has no fairness. That a test comes to its end is stated
as a part of the invariant `TestsPass`: when every process waits, none is left but init. A test that
goes on for ever without waiting would not be noticed; programs have finite loops, apart from
those that exec, sbrk or fork until they fail.

`Simulations`: a course that looks for a TA spins, and so does the timer that signals; each has
weak fairness of its own, since the operating system runs every thread. All other threads
take finitely many steps, and weak fairness to them together is as much as to each.
The lock of a TA is not granted fairly, and the timer's clock need not meet a goal.

## Proofs

Each theorem holds for every value of the constants that satisfies the named assumptions:
`ProcAssumption`, `DispatchAssumption`, `MlfqAssumption`, `SchedulersAssumption`, `EndpointsAssumption`,
`StorageAssumption`, `SimulationsAssumption`, `FileSysAssumption`, `MemoryAssumption`, `SyscallsAssumption`,
`MachineAssumption`, which TLC evaluates in the runs. What they ask
beyond types, and why the code allows it:

- counters of the pipe and the console are words whose range is a multiple of the ring
  (`uint` and 512 or 128), so that `%` finds the same place after they have wrapped;
- the transmit FIFO has room for a byte of each hart and one more (16 bytes, `NCPU` is 8);
- nobody lives through half a turn of the clock (2^31 ticks of a tenth of a second);
- the log area has no more blocks than `LOGSIZE` and its header; there are as many inodes as processes: with
  fewer ialloc() panics, by design, and nothing more is promised. The number of buffers may be any;
- there are pages for program init (128 MB less the kernel itself, memlayout.h:48): without them the kernel
  panics before there is a process;
- the names of courses are not among those the model uses for where a student is.

The modules of proofs are laid out alike: the invariant in named parts, one lemma for each
action or group of actions that preserve it, lemmas for what a step leaves alone (a frame),
and at the end the theorems, in a few lines of temporal reasoning each. TLC has checked each
inductive invariant on the run of its module before it was proved.

| Module | Theorems | Inductive invariant, and why it takes more than the property |
|---|---|---|
| `ProcProofs` | `TypeCorrect`, `InvariantCorrect`, `OneHartCorrect`, `RunningCorrect`, `FreedCorrect`, `LiveParentCorrect`, `NoLostExitCorrect`, `SleeperCorrect`, `UniquePidsCorrect`, `KilledCorrect`, `TreeImplemented` | `IInv`, in four layers, and two more facts for the refinement (below) |
| `MlfqProofs` | `TypeCorrect`, `RunningCorrect` | `MlfqInv`: a priority stays below `NLEVEL` because time in the lowest queue is not counted (`BottomInv`), so that a slice there is never used up; an index stays in its array because a hart counts a slot at most once per pass (`CountedInv`) |
| `SchedulersProofs` | `NoOvertakingCorrect`, `LeastDPCorrect`, `BestLevelFirstCorrect`, `PicksSomeoneCorrect` | `SchedulersInv`: pids belong to one process, the one that runs is the chosen one, and whoever has waited is RUNNABLE (`Table`); what the first pass has found comes no later than any it has gone past that waits (`FcfsInv`, `PbsInv`, `LevelInv`), and what the second pass looks for is what the first found (below) |
| `EndpointsProofs` | `PipeCorrect`, `PipeIsQueue`, `OpenWhileUsedCorrect`, `NobodySleepsInVainCorrect`, `NoOverrunCorrect`, `TimesAddUpCorrect`, `QueueCorrect`, `LineCorrect` | those of the four endpoints. Pipe (`PipeInv`): whose is `pi->lock` (`PipeLockInv`), what a loop has found out while it has it (`PipeLoopInv`), and that a sleeper was right to sleep, or someone who holds the lock is about to wake it (`PipeSleepInv`); the ring is mapped to a sequence, and the wrapping counters differ by its length. The chip is not overrun because each that is about to write has seen it empty once, and what it holds came from the others (`OutputInv`). Times: a process has run at most as long as it has lived, and one tick more if update_time() has passed it (`LivesInv`). Console: the three indices follow each other less than a turn apart (`CountersInv`), and a line being edited contains no end (`LineInv`) |
| `StorageProofs` | `CallsAdmittedCorrect`, `CommittedOnReturnCorrect`, `DiskSpecCorrect`, `RequestsKnownCorrect`, `DoneOnReturnCorrect`, `StoreSpecCorrect`, `InodeKeptCorrect` | those of the four layers. `LogInv`: for each phase of a commit and of recovery, which of the blocks on the list are in the log area, at home, cached and pinned (`UpInv`, `BootInv`). The refinement to `AtomicDisk` needs it at every disk write: whether a crash here loses or keeps the calls depends on the header only. `DiskInv`: each descriptor is free or in exactly one chain, each request in one ring. `CacheInv`: a buffer has one reference for each process that has it, counted, and one if its block is pinned, so it is not reused. `TreeInv`: links are names plus the links of calls half done, references are the processes that have one (`CountOf`) |
| `SimulationsProofs` | `GivenOnceCorrect`, `NobodyAheadCorrect` | `SimInv`, one invariant for each program (below) |
| `UserTestsProofs` | `NothingLeaksCorrect`, `AnyProgramCounted` | `Paged`: the pages of `PagesCounted`, with a size and a number of tables for every memory. `Counted`: the counts of `RefsCounted`, the shape of the file table, of the pipes and of the descriptors, and that each end of a pipe is one file only, so that `fileclose()` closes the end when the count of that file falls to zero (below) |
| `Numbers` | none listed | what the others keep needing: division with remainder, distances between wrapping counters, the least element of a set, sets that gain or lose one element |

Processes. (1) `HartInv`: a lock that is seen held is held across `swtch` by
the hart that switches; a process on a hart is RUNNING; fork() owns its child.
(2) `PointInv`: `wait_lock` is held exactly by the process inside exit's or
wait's section; what a point of the kernel says about `state`. (3) `TreeInv`:
everybody but init has a parent, and whoever is past `reparent()` has no child.
(4) `WakeInv`: the slots wait() has scanned hold no ZOMBIE child; the parent
whose slot exit's wakeup() has passed is not asleep; an orphan ZOMBIE of a
sleeping init is about to be announced. Layer 4 is why `NoLostExit` holds: it is
not inductive by itself, since it speaks only of states in which `wait_lock` is
free, while exit and wait do their work holding it. `KilledCorrect` has the extra
hypothesis that 0 is never passed to kill(): without it the property is false (see below).
`TreeImplemented` needs two facts on top of `IInv`: slots in the tree have pids of their own and
the parent of such a slot is in the tree (`OneToOne`), so that the map from slots to pids is one to
one and what a loop does to slots it does to processes; and a pid is left for each fork under way
(`Budget`), since the tree counts a process when it is linked and `nextpid` counts it earlier.

Schedulers. The four theorems have the hypothesis `OneHart`: with a second hart the promises
are false, since it may take what the first has chosen, and the slot may be reused (see below). The two about MLFQ speak
of the rounds in which no aging fell between the two reads of a priority (`split`); in the others
they are false, as the run `mlfq_level` shows.
The property speaks of the moment a process is dispatched, at the end of the second pass, so the
invariant has to carry what the first pass saw over to it: `Seen(s)` is a slot whose process has waited
since the pass began and which the cursor has gone past, `Wanted(s)` one the second pass will stop
at. In between clock interrupts may age a process into a higher queue, never a lower one while it waits:
`LevelInv` compares with the queue it was in when the pass began. `MlfqInv` of `MlfqProofs` is a part of it.
`PicksSomeoneCorrect` has one more hypothesis, `HighPriorities`: static priorities of 5 and more, so that
no DP wraps (`CappedInv`); with a lower one it is false (see below).

Simulations. Course registration (`CourseInv`): a TA says which course it serves from
Take to Leave, and while it looks free in between its lock is held (`ServiceInv`), so a
second course that looks finds it free only when it is. Its TAships are the
bonus of its lab or one less (`BonusInv`). A tutorial that is being filled has no more seats
left than applicants from the student on it looks at, and one that is being emptied has all it
still has to release from there on (`TutorialInv`): hence no loop runs past the array, though
no student is locked while it is looked at. This part holds until a tutorial goes astray, which
it does when it finds the student of another between preference and state, or a student skips a preference,
perhaps with a seat (`Lost`). Stadium
(`StadiumInv`): a spectator has a seat in as many zones as its state says, and a group leaves when
all are at the gate. Dictionary (`DictionaryInv`): a connection is in one place, with the
kernel, in the queue or with a thread, and a thread that has tested a key has its lock until it has
written.

System calls. The proof goes through the kernel from below. A function of `fs.c` keeps the counts of
all inodes (`Even`), or takes or drops one reference (`Gained`, `Lost`), or comes to hold the inodes it returns
(`Holds`); this is said of each, of `namex()` for paths of any length and of `create()` with its undoing. A
system call is then `Good`: it leaves the kernel and the caller's descriptors counted, whichever of
its failures it takes. fork() adds the child's descriptors to every file at once, exit() closes one after
the other (`Closings`). Pages are accounted for beside this: `Fair` says that what a call takes from the free pages or
gives back is in the memory of its caller or holds a pipe, with lemmas on the rounding of sizes under uvmalloc(),
uvmdealloc(), uvmcopy() and exec() and on their failures half way; hence `Paged`, that all pages add up. After a panic nothing is claimed: the kernel has stopped half way
through a call.
Two hypotheses: `KernelIs`, that calls are dispatched by `syscall`, as the run has it; and `CallsTyped`, which
says of the programs that a path is a sequence of names, that the data of a write() and the arguments of an exec() are
sequences and that of an sbrk() an integer. `TestsPass` has it as a part, so that TLC checks it for every test.

The refinements `TreeSpec`, `QueueSpec`, `LineSpec`, `DiskSpec` and `StoreSpec` are proved step by step from
these invariants: an initial state maps to an initial state, every step to a step or a stutter.

Model-checked only:

- liveness (`ZombieReaped`, `RunnableRuns`, `KilledExits`, `AgedOrRuns`, `NobodyWaitsForEver`, `WaitsEnd`,
  `ComesToAnEnd`), since fairness is out of the prover's reach;
- `TestsPass`: that each of some seventy programs ends as it should is a matter of what these
  programs compute, and has no inductive invariant shorter than their runs;
- `DiskSound`: links are added up over the entries of all directories, a fold with an operator as its argument;
  and that a call writes to the blocks of an inode, and not beside them, rests on directories that name
  only inodes in use, which is again the count of links.

## Findings

- `RunningOnHart` (pbs_stuck): REPORT.md says "if the SP decreases we call the scheduler function to reschedule as this is the only way DP can change" (src/OSN_Assignment4/REPORT.md:42). scheduler() sets c->proc to 0 and never returns (proc.c:637-642: "Scheduler never returns"); the process that called set_priority() keeps state RUNNING, so no hart ever picks it again and its parent waits for ever.
- `HighestFirst` (mlfq_level): REPORT.md says "after sorting the first process is chosen from the first non empty queue with the highest priority" (src/OSN_Assignment4/REPORT.md:62). The first pass takes no lock and leaves interrupts on: the clock may move a process up (proc.c:552-562) between q[p->priority][i[p->priority]] = p (proc.c:802) and i[p->priority]++ (proc.c:804). Then the higher queue is counted while its head is still the one of an earlier round, which may have been demoted since; that process is run from its lower queue while others wait above it, or, where the head sleeps or is null, nobody is run, or the hart takes a page fault.
- `LastPutFrees` (inode_leak): The comment over iput() says "If that was the last reference and the inode has no links to it, free the inode (and its content) on disk." (src/OSN_Assignment4/kernel/fs.c:321-322). iput() tests this once, before it lets go of itable.lock to truncate; the reference it drops afterwards, at line 351, may by then be the last one of a file that another process has created in the freed inode, unlinked and closed (its own iput() saw two references and freed nothing). The inode keeps its type with no name and no reference, and is never allocated again.
- `StudentsWake` (q1_signal): REPORT.md says "we keep signalling that specific thread till its state is changed (confirmation that the thread woke up)" (src/OSN_ass5/q1/REPORT.md:67). conduct_tutorial() signals once, at lines 182 and 204, whoever it finds by its state. A student thread that has seen itself waiting (q1/student.c:24-26) and has not got to pthread_cond_wait() (line 44) within the two seconds of the tutorial (line 197) is not there to be woken. It then waits with its course decided, and only waiting and attending students are ever signalled: it sleeps for ever, and main(), which joins it, does not return.

Seen while modelling, and kept out of the passing runs by their constants or by the
antecedent of a property:

- wait() reads `killed` without `p->lock` (`proc.c:469`). On two harts a kill() may
  fall between the test and the sleep: it finds the process RUNNING, does not wake
  it, and the process sleeps on. `KilledExits` is therefore checked on one hart. sys_sleep() has the same
  window (`sysproc.c:109-114`, where sleep() takes `p->lock`); there the next tick ends the sleep. `SleepsInTime`
  says that nobody sleeps past its time, not that nobody sleeps killed.
- kill(0) matches the first free slot (`proc.c:983`) and sets its `killed`; allocproc()
  does not clear it, so a process may be born killed.
- FCFS reads `ctime` and `pid` in two unlocked steps (`proc.c:661-664`). On two harts
  the slot may be reused in between and `NoOvertaking` fails.
- `DP` is computed in `uint` (`proc.c:746`): with a static priority below 5 it wraps and
  the process is never chosen. The runs use 50 and more.
- Nobody is preempted by a process that becomes RUNNABLE in a higher queue: the timer
  tests the slice of the running process only (`trap.c:87`), where REPORT.md:105
  says otherwise.
- log_write() panics at `LOGSIZE - 1` blocks (`log.c:220`) though begin_op() admits calls for
  `LOGSIZE` (`log.c:133`). The action `Panic` stops the machine, and recovery follows.
- A writer that is killed after it has put some bytes returns without wakeup
  (`pipe.c:85-88`). `NoLostWakeup`, its part of `NobodySleepsInVain`, speaks of pipes none of whose processes were killed.
- sys_waitx() hands `&wtime` to waitx() as `rtime` and `&rtime` as `wtime` (`sysproc.c:74`), and when waitx()
  fails it copies out two variables nobody has set.
- A process created, run and gone between `ticks++` and the look of update_time() is charged for
  a tick it has not lived: waitx() then reports a waiting time of -1. `TimesAddUp` says
  that it is never worse.
- `bubbleSort()` sorts nothing: swap() exchanges its own parameters (`proc.c:611-616`). Within a queue the process in
  the first slot runs, not the one that entered it first, as REPORT.md:61 has it.
- In the lowest queue nobody is made to yield: update_time() does not count `q_rtime` there (`proc.c:545`), so the test
  of the slice at `trap.c:87` never holds. REPORT.md:104 says that this queue is round robin.
- MLFQ: what `mlfq_level` shows has two more outcomes. If the head that is left from an earlier round sleeps, the
  round runs nobody though somebody waits; if nobody has been in that queue yet, the head is null and the hart panics.
  `BestLevelFirst` and `PicksSomeone` speak of the other rounds. The name of a queue is right again in the next.
- bget() panics when all of its 30 buffers are in use (`bio.c:86`). `StoreSpec` includes the panic.
- q1: while a student withdraws, its preference changes before its state (`q1/globals.c:219-220`). A tutorial of
  the new course that releases its students in between takes it for one of them
  (`q1/globals.c:202`), decides for it in its place, and releases one student too few, whose thread spins for
  ever (`q1/student.c:48`) unless a later tutorial happens to release it.
- q1: `ComesToAnEnd` and the seats of `GivenOnce` say nothing of what follows when a tutorial has taken a student
  of another, nor once a student has given up a preference it has not looked at
  (`q1/student.c:26-40` reads the course of one preference and then, maybe after a tutorial, gives up the next).
- q1: a student that has missed its signal (run `q1_signal`) sleeps for ever, unless another tutorial of that course finds
  it. A withdrawn course that it now prefers signals the condition of that preference, not the one it sleeps on, and
  never ends (`q1/course.c:17-20`); and the students behind it are not signalled either. `ComesToAnEnd` excepts these and
  nobody else.
- q1: a lab may close while its last TAship has only begun (`q1/lab.c:26-29` reads `taship` and `state`
  between `q1/globals.c:77` and `79`). Nothing depends on it.
- q2: `etime` is not set before somebody sits, and malloc() does not clear it: a spectator between
  `q2/globals.c:35` and `37` may be taken to be at the end of its time, and leave at once.
- q2: sem_trywait() is called even after a timeout (`q2/globals.c:29`): the thread that timed out may
  take the one chance of a spectator whose other thread has a seat.
- q2: a goal counts only in the second that equals its time (`q2/main.c:47`): one skipped second, and no
  later goal happens.
- q3: all client threads get the same structure (`q3/client_sim.cpp:172`, `195-198`): a command may be sent
  twice and another not at all, with the delay of yet another.
- q3: concat() writes both values after it has released both locks (`q3/dictionary.cpp:58-59`).
- shell: the SIGCHLD handler (`OS_Assignment2/main.c:35`, `commands/exec.c:169`) edits the list of jobs while exec() inserts into it.

## Bounds

The bounds of each run are in the table above. What they are chosen for:

- processes: three slots give a parent, a child and an orphan, two harts every race between
  two; what a third hart could add is covered by the proof for any number.
- log: two blocks in the log is the least at which two calls commit together and at which
  begin_op() has to wait; calls write one block each.
- cache: fewer buffers than blocks, so that buffers are reused, one of them pinned, and so few that both
  may be in use when a process asks for a third (`NoBuffers`).
- inodes: two of them, so that an inode freed by one process is handed to another
  (`EnoughInodes` keeps ialloc() from its panic).
- pipe, console, UART, clock: rings of two or three bytes with counters that wrap.
- `usertests`: sizes keep the order of the real ones (a file larger than the log, a
  path too long, a process larger than the memory), and every table is filled by the
  test that means to fill it.
- simulations: two courses compete for each lab, one lab has two rounds; two students
  move from one tutorial to the other; two spectators
  of a group compete for one seat and each has two threads that do; the pool is smaller than the
  number of clients.

Some runs do not check for deadlock, because the system may stop: `Endpoints` (both ends
of the pipe closed, the bounds of output and clock used up), both of `Simulations` (the programs
end), `UserTests` (init waits for children that will not come).

## Not modelled

See the components with status `not_modelled` or `partly` in `PROJECT.json`.

- Boot, register saving in assembly, the PLIC, `printf`, strings: nothing that interleaves
  above the instruction.
- Inside the spin locks: acquire() is one atomic swap, `push_off`/`pop_off` count what a hart does by
  itself.
- The contents of pages, the walk through page tables, ELF headers, `strace` output: data
  handling.
- `bsstest` looks at zeroed memory; `fsfull` is in no list of tests.
- q1 after a tutorial has taken a student of another.
- The values of q3: they are strings read and written at the same time by several threads, undefined.
- The Linux shell: its commands are sequential calls of Linux. What runs concurrently is the
  SIGCHLD handler, which calls malloc(), strtok() and printf() and edits the list exec() may be
  editing: there is no behaviour of it that the code promises.
- `OSNevals` is a copy of `OSN_ass5`.
- Other user programs (`sh.c`, `grind.c`, `schedulertest.c`) exercise calls that the modules have.

Condition variables are taken to wake only when signalled; the waits of q2 have no
loop around them and depend on it.

## Plan

Order of work, the most important behaviour first.

Done:

1. `Proc` with its proof and its abstract tree.
2. `Fcfs`, `Pbs`, `Mlfq`, together in `Schedulers`.
3. The layers of `Storage`: `Log` with crashes, implementing `AtomicDisk`; `Bio`, implementing
   `BlockStore`; `Inode`; `Virtio`.
4. The endpoints: `Pipe`, implementing `BoundedQueue`; `Console`, implementing `LineQueue`;
   `Uart`; `Clock`.
5. The system calls and `usertests`: `FileSys`, `Memory`, `Syscalls`, `Machine` and the tests.
6. The simulations: `Course`, `Stadium`, `Dictionary`.
7. Proofs of every invariant of the runs except `TestsPass` and `DiskSound` of `UserTests`, of
   `CommittedOnReturn` and `DoneOnReturn`, of the refinements of process table, pipe, console, log and buffer cache, and of the promises of
   the schedulers on one hart.

To do:

8. Models: the nesting of spin locks, sh.c with its pipelines.

