---------------------------- MODULE ProcessTests ----------------------------
(***************************************************************************)
(* The tests of user/usertests.c that are about processes, pipes and       *)
(* memory, as programs of module Machine (see FileTests). Every test starts  *)
(* in a process of TEXT units of memory: text and data, the page exec()    *)
(* takes from the user, the stack.                                         *)
(***************************************************************************)
EXTENDS Machine

CONSTANTS KERNBASE,    \* where the kernel's own memory starts
          BIG          \* more than half of the memory, less than all of it

MINUS1 == WORD - 1                         \* 0xffffffffffffffff
Wild   == <<KERNBASE, MINUS1>>             \* addrs[] of the copy tests

----------------------------------------------------------------------------
(* Ridiculous pointers and strings.                                        *)

copyinTest ==
  LET xx == <<"x", "x">>
  IN  For(2, LAMBDA ai :
        << Open("fd", <<"copyin1">>, CREATE({"WRONLY"})),
           Fails(From(Write("fd", xx), Wild[ai])), Close("fd"), Try(Unlink(<<"copyin1">>)),
           AtMost(From(Write("1", xx), Wild[ai]), 0),
           Pipe(<<"in", "out">>), AtMost(From(Write("out", xx), Wild[ai]), 0),
           Close("in"), Close("out") >>)

copyoutTest ==
  For(2, LAMBDA ai :
    << Open("fd", <<"README">>, RDONLY), AtMost(From(Read("fd", 2), Wild[ai]), 0), Close("fd"),
       Pipe(<<"in", "out">>), Write("out", <<"x">>),
       AtMost(From(Read("in", 2), Wild[ai]), 0), Close("in"), Close("out") >>)

copyinstr1 ==
  For(2, LAMBDA ai : <<Fails(From(Open("fd", <<"x">>, CREATE({"WRONLY"})), Wild[ai]))>>)

\* unlink, open, link and exec must refuse the string at addr.
Refused(path, addr, len) ==
  << Fails(Span(Unlink(path), addr, len)),
     Fails(Span(Open("fd", path, CREATE({"WRONLY"})), addr, len)),
     Fails(Span(Link(path, path), addr, len)),
     Fails(Span(Exec(path, <<"xx">>), addr, len)) >>

copyinstr2 ==
  LET big == [Exec(<<"echo">>, <<"x", "x", "x">>) EXCEPT !.lens = [n \in 1 .. 3 |-> PGSIZE + 1]]
  IN  Refused(TooLong, 0, 1) \o <<Fork(<<Fails(big), Exit(747)>>), WaitFor({747})>>

\* The string begins in the last unit of the memory and has no end there.
copyinstr3 ==
  <<Try(Sbrk(2 * PGSIZE)), Touch(TEXT + 2 * PGSIZE - 1)>>
  \o Refused(<<"x">>, TEXT + 2 * PGSIZE - 1, 2)

rwsbrk ==
  << Sbrk(2 * PGSIZE), Sbrk(-2 * PGSIZE),
     Open("fd", <<"rwsbrk">>, CREATE({"WRONLY"})),
     Fails(From(Write("fd", <<"x">>), TEXT + PGSIZE)), Close("fd"), Try(Unlink(<<"rwsbrk">>)),
     Open("fd", <<"README">>, RDONLY),
     Fails(From(Read("fd", 1), TEXT + PGSIZE)), Close("fd"), Exit(0) >>

\* The length is -1, a huge number: what is there of the file does not fit.
argptest ==
  <<Open("fd", <<"init">>, RDONLY), Span(Read("fd", 99), TEXT - 1, 2), Close("fd")>>

pgbug ==
  <<Try(From(Exec(<<"x">>, <<>>), WORD - 7)), Try(From(Pipe(<<"in", "out">>), WORD - 7)), Exit(0)>>

\* The argument is at an address that is not there: fetchstr() fails.
badarg ==
  For(2, LAMBDA i : <<Try([Exec(<<"echo">>, <<"x">>) EXCEPT !.lens = <<PGSIZE + 1>>])>>)
  \o <<Exit(0)>>

validatetest ==
  For(IMAGE + 4, LAMBDA i : <<Fails(From(Link(<<"nosuchfile">>, <<"x">>), (i - 1) * PGSIZE))>>)

stacktest ==
  << Try(Fork(<<Touch(IMAGE * PGSIZE), Exit(1)>>)), Else(WaitFor({-1}), <<ExitStatus>>), Exit(0) >>

----------------------------------------------------------------------------
(* Programs.                                                               *)

exectest ==
  LET ok == <<"echo-ok">>
  IN  << Try(Unlink(ok)),
         Fork(<< Close("1"), Gives(Open("fd", ok, CREATE({"WRONLY"})), 1),
                 Exec(<<"echo">>, <<"echo", "OK">>) >>),
         Else(WaitFor({0}), <<ExitStatus>>),
         Open("fd", ok, RDONLY), Gets(Read("fd", 1), <<"OK">>), Try(Unlink(ok)), Exit(0) >>

\* MAXARG - 1 arguments, together larger than a page.
bigargtest ==
  LET ok   == <<"bigarg-ok">>
      args == [n \in 1 .. MAXARG - 1 |-> "bigargs test: failed"]
      big  == [Exec(<<"echo">>, args) EXCEPT !.lens = [n \in DOMAIN args |-> PGSIZE]]
  IN  << Try(Unlink(ok)),
         Fork(<<Try(big), Try(Open("fd", ok, CREATE({}))), Close("fd"), Exit(0)>>),
         Else(WaitFor({0}), <<ExitStatus>>), Open("fd", ok, RDONLY), Close("fd") >>

\* exec() with avail pages left.
execout ==
  LET fill     == Loop(To(Sbrk(PGSIZE), "a"), <<TouchIn("a", PGSIZE - 1)>>)
      child(n) == <<fill>> \o For(n, LAMBDA i : <<Try(Sbrk(-PGSIZE))>>)
                  \o <<Close("1"), Try(Exec(<<"echo">>, <<"echo", "x">>)), Exit(0)>>
  IN  For(4, LAMBDA avail : <<Fork(child(4 * (avail - 1))), WaitAny>>) \o <<Exit(0)>>

----------------------------------------------------------------------------
(* Pipes, fork, exit, wait and kill.                                       *)

\* Five writes of more than a pipe holds become two; the reads get longer.
pipe1 ==
  LET SZ     == PIPESIZE + 1
      seq(n) == [c \in 1 .. SZ |-> (n - 1) * SZ + c]
  IN  << Pipe(<<"in", "out">>),
         Fork(<<Close("in"), Write("out", seq(1)), Write("out", seq(2)), Exit(0)>>),
         Close("out"), Gets(Read("in", 1), <<1>>),
         Reading(Read("in", 2), {[c \in 1 .. 2 * SZ - 1 |-> c + 1]}),
         Close("in"), WaitAny, ExitStatus >>

killstatus ==
  For(2, LAMBDA i :
    <<To(Fork(<<Loop(Getpid("me"), <<>>), Exit(0)>>), "pid1"), Sleep, Kill("pid1"), WaitFor({-1})>>)
  \o <<Exit(0)>>

preempt ==
  << To(Fork(<<Spin>>), "pid1"), To(Fork(<<Spin>>), "pid2"), Try(Pipe(<<"in", "out">>)),
     To(Fork(<<Close("in"), Try(Write("out", <<"x">>)), Close("out"), Spin>>), "pid3"),
     Close("out"), Else(Gives(Read("in", 9), 1), <<Exit(0)>>), Close("in"),
     Kill("pid1"), Kill("pid2"), Kill("pid3"), WaitAny, WaitAny, WaitAny >>

exitwait ==
  For(3, LAMBDA i :
    <<To(Fork(<<Exit(i - 1)>>), "pid"), [status |-> {i - 1}] @@ WaitPid("pid")>>)

reparent ==
  LET child == <<Else(ForkBoth, <<Kill("master"), Exit(1)>>), Exit(0)>>
  IN  <<Getpid("master")>>
      \o For(2, LAMBDA i : <<To(Fork(child), "pid"), WaitPid("pid")>>) \o <<Exit(0)>>

twochildren ==
  For(2, LAMBDA i : <<Fork(<<Exit(0)>>), Fork(<<Exit(0)>>), WaitAny, WaitAny>>)

forkfork ==
  LET child == For(2, LAMBDA j : <<Fork(<<Exit(0)>>), WaitAny>>) \o <<Exit(0)>>
  IN  For(2, LAMBDA i : <<Fork(child)>>) \o For(2, LAMBDA i : <<WaitFor({0})>>)

\* Everyone forks until no slot is left, or until the file is there.
forkforkfork ==
  LET stop  == <<"stopforking">>
      make  == <<Try(Open("fd", stop, CREATE({"RDWR"}))), Close("fd")>>
      again == Loop(Fails(Open("fd", stop, RDONLY)), <<Or(ForkBoth, make)>>)
  IN  <<Try(Unlink(stop)), Fork(<<again, Exit(0)>>), Sleep>> \o make \o <<WaitAny, Sleep>>

reparent2 ==
  For(2, LAMBDA i : <<Fork(<<Try(ForkBoth), Try(ForkBoth), Exit(0)>>), WaitAny>>) \o <<Exit(0)>>

\* fork() until it fails, which it must before the N-th; then as many children as forks.
forktest ==
  LET N        == 12
      waits(n) == For(n, LAMBDA i : <<Wait>>) \o <<Fails(Wait), Exit(0)>>
  IN  For(N, LAMBDA n : <<Else(Fork(<<Exit(0)>>), IF n = 1 THEN Fail ELSE waits(n - 1))>>)
      \o Fail

----------------------------------------------------------------------------
(* sbrk(). What is too much, 1 GB or 10 * BIG of the 128 MB there are, is   *)
(* 3 * BIG: more than all the memory when BIG is more than half of it.     *)

\* malloc() grows the memory until that fails; the second one finds free blocks.
mem ==
  << Try(Fork(<<Loop(To(Sbrk(2 * PGSIZE), "m2"), <<TouchIn("m2", 0)>>), Exit(0)>>)),
     Else(WaitFor({-1}), <<ExitStatus>>), Exit(0) >>

\* Unit by unit over more than a page; the fork leaves both to grow once more.
sbrkbasic ==
  LET TOOMUCH == 3 * BIG
      a       == TEXT + PGSIZE + 1
      post    == <<Try(Sbrk(1)), Gives(Sbrk(1), a + 1)>>
  IN  << Fork(<<Else(Fails(Sbrk(TOOMUCH)), <<Touch(TEXT), Exit(1)>>), Exit(0)>>),
         WaitFor({0, -1}), Gives(Sbrk(0), TEXT) >>
      \o For(PGSIZE + 1, LAMBDA i : <<Gives(Sbrk(1), TEXT + i - 1), Touch(TEXT + i - 1)>>)
      \o <<Fork(Append(post, Exit(0)))>> \o post \o <<WaitAny, ExitStatus>>

sbrkmuch ==
  << Gives(Sbrk(BIG - TEXT), TEXT), Touch(TEXT), Touch(BIG - PGSIZE), Touch(BIG - 1),
     Sbrk(-PGSIZE), Gives(Sbrk(0), BIG - PGSIZE),
     Gives(Sbrk(PGSIZE), BIG - PGSIZE), Gives(Sbrk(0), BIG), Touch(BIG - 1),
     Gives(Sbrk(TEXT - BIG), BIG) >>

kernmem ==
  For(2, LAMBDA i : <<Fork(<<Touch(KERNBASE + i - 1), Exit(1)>>), WaitFor({-1})>>)

\* MAXVA, then its doubles that fit in a word.
MAXVAplus ==
  For(2, LAMBDA i : <<Fork(<<Touch(i * MAXVA), Exit(1)>>), WaitFor({-1})>>)

\* One child gets what it asks for, the next ones do not, and leave nothing taken.
sbrkfail ==
  LET N     == 2
      hog   == << Try(Sbrk(BIG - TEXT)), Try(Write("out", <<"x">>)), Loop(Sleep, <<>>) >>
      pid(i) == "pid" \o ToString(i)
  IN  <<Pipe(<<"in", "out">>)>>
      \o For(N, LAMBDA i : <<To(Fork(hog), pid(i)), Read("in", 1)>>)
      \o <<To(Try(Sbrk(PGSIZE)), "c")>>
      \o For(N, LAMBDA i : <<Kill(pid(i)), WaitAny>>)
      \o << Fork(<<Try(Sbrk(3 * BIG)), Touch(TEXT + 2 * PGSIZE), Exit(1)>>), WaitFor({-1, 2}) >>

sbrkarg ==
  << Try(Sbrk(PGSIZE)), Open("fd", <<"sbrk">>, CREATE({"WRONLY"})), Try(Unlink(<<"sbrk">>)),
     From(Write("fd", <<"x", "x", "x">>), TEXT), Close("fd"),
     Try(Sbrk(PGSIZE)), From(Pipe(<<"in", "out">>), TEXT + PGSIZE) >>

sbrkbugs ==
  LET with(prog) == <<Fork(Append(prog, Exit(0))), WaitAny>>
      mid        == (IMAGE + 3) * PGSIZE + PGSIZE - 1       \* inside a page
  IN  with(<<Try(Sbrk(-TEXT))>>)
      \o with(<<Try(Sbrk(-(TEXT - PGSIZE + 1)))>>)
      \o with(<<Try(Sbrk(mid - TEXT)), Try(Sbrk(-1))>>)
      \o <<Exit(0)>>

\* Above a page boundary, then below it: the page is still there.
sbrklast ==
  LET p == TEXT + PGSIZE - 2
  IN  << Try(Sbrk(PGSIZE)), Try(Sbrk(1)), Try(Sbrk(-2)), Touch(p),
         Try(Span(Open("fd", <<"x">>, CREATE({"RDWR"})), p, 1)),
         Try(From(Write("fd", <<"x">>), p)), Close("fd"),
         Try(Span(Open("fd", <<"x">>, {"RDWR"}), p, 1)), Gets(From(Read("fd", 1), p), <<"x">>) >>

sbrk8000 == <<Try(Sbrk(1 - WORD \div 2)), Touch(TEXT - 1)>>
=============================================================================
