------------------------------ MODULE FileTests ------------------------------
(***************************************************************************)
(* The tests of user/usertests.c that are about files, links and           *)
(* directories, as programs of module Machine. Loops run as few times as     *)
(* still show what the test is about; sizes are in cells, and a test that  *)
(* writes "larger than the log" writes more than one transaction holds. A  *)
(* definition is the body of the C function, which run() follows with      *)
(* exit(0).                                                                *)
(***************************************************************************)
EXTENDS Machine

Cells(x, n)  == [c \in 1 .. n |-> x]
Create(fd, path)  == Open(fd, path, CREATE({"RDWR"}))
OpenRead(fd, path) == Open(fd, path, RDONLY)
\* close(open(path, mode))
OpenClose(path, mode) == <<Try(Open("fd", path, mode)), Close("fd")>>

----------------------------------------------------------------------------
(* Truncation, and inodes that are put while they are in use.              *)

truncate1 ==
  << Try(Unlink(<<"truncfile">>)),
     Try(Open("fd1", <<"truncfile">>, CREATE({"WRONLY", "TRUNC"}))),
     Try(Write("fd1", <<"a", "b", "c", "d">>)),
     Close("fd1"),
     Try(OpenRead("fd2", <<"truncfile">>)),
     Gives(Read("fd2", 9), 4),
     Try(Open("fd1", <<"truncfile">>, {"WRONLY", "TRUNC"})),
     Try(OpenRead("fd3", <<"truncfile">>)),
     Gives(Read("fd3", 9), 0),
     Gives(Read("fd2", 9), 0),
     Try(Write("fd1", <<"a", "b", "c", "d", "e", "f">>)),
     Gives(Read("fd3", 9), 6),
     Gives(Read("fd2", 9), 2),
     Try(Unlink(<<"truncfile">>)), Close("fd1"), Close("fd2"), Close("fd3") >>

truncate2 ==
  << Try(Unlink(<<"truncfile">>)),
     Try(Open("fd1", <<"truncfile">>, CREATE({"WRONLY", "TRUNC"}))),
     Try(Write("fd1", <<"a", "b", "c", "d">>)),
     Try(Open("fd2", <<"truncfile">>, {"WRONLY", "TRUNC"})),
     Fails(Write("fd1", <<"x">>)),
     Try(Unlink(<<"truncfile">>)), Close("fd1"), Close("fd2") >>

truncate3 ==
  LET child  == For(2, LAMBDA i :
                  << Open("fd", <<"truncfile">>, {"WRONLY"}),
                     Write("fd", Cells("0", 3)), Close("fd"),
                     Try(OpenRead("fd", <<"truncfile">>)), Read("fd", 5), Close("fd") >>)
      parent == For(2, LAMBDA i :
                  << Open("fd", <<"truncfile">>, CREATE({"WRONLY", "TRUNC"})),
                     Write("fd", Cells("x", 2)), Close("fd") >>)
  IN  OpenClose(<<"truncfile">>, CREATE({"WRONLY", "TRUNC"}))
      \o <<Fork(Append(child, Exit(0)))>> \o parent
      \o <<WaitAny, Try(Unlink(<<"truncfile">>)), ExitStatus>>

iputtest ==
  << Mkdir(<<"iputdir">>), Chdir(<<"iputdir">>), Unlink(<<"..", "iputdir">>), Chdir(<<"/">>) >>

exitiputtest ==
  << Fork(<<Mkdir(<<"iputdir">>), Chdir(<<"iputdir">>), Unlink(<<"..", "iputdir">>), Exit(0)>>),
     WaitAny, ExitStatus >>

openiputtest ==
  << Mkdir(<<"oidir">>),
     Fork(<<Fails(Open("fd", <<"oidir">>, {"RDWR"})), Exit(0)>>),
     Sleep, Unlink(<<"oidir">>), WaitAny, ExitStatus >>

----------------------------------------------------------------------------
(* One process, one or many files.                                         *)

opentest == << OpenRead("fd", <<"echo">>), Close("fd"), Fails(OpenRead("fd", <<"doesnotexist">>)) >>

writetest ==
  <<Create("fd", <<"small">>)>>
  \o For(2, LAMBDA i : <<Write("fd", Cells("a", 2)), Write("fd", Cells("b", 2))>>)
  \o << Close("fd"), OpenRead("fd", <<"small">>), Gives(Read("fd", 8), 8), Close("fd"),
        Unlink(<<"small">>) >>

\* A file of MAXFILE blocks, each with its number.
writebig ==
  <<Create("fd", <<"big">>)>>
  \o For(MAXFILE, LAMBDA i : <<Write("fd", Cells(i, BSIZE))>>)
  \o << Close("fd"), OpenRead("fd", <<"big">>) >>
  \o For(MAXFILE, LAMBDA i : <<Gets(Read("fd", BSIZE), Cells(i, BSIZE))>>)
  \o << Gives(Read("fd", BSIZE), 0), Close("fd"), Unlink(<<"big">>) >>

createtest ==
  LET name(i) == <<"a" \o ToString(i)>>
  IN  For(3, LAMBDA i : OpenClose(name(i), CREATE({"RDWR"})))
      \o For(3, LAMBDA i : <<Try(Unlink(name(i)))>>)

dirtest == << Mkdir(<<"dir0">>), Chdir(<<"dir0">>), Chdir(<<"..">>), Unlink(<<"dir0">>) >>

unlinkread ==
  << Create("fd", <<"unlinkread">>), Try(Write("fd", <<"h", "e", "l", "l", "o">>)), Close("fd"),
     Open("fd", <<"unlinkread">>, {"RDWR"}), Unlink(<<"unlinkread">>),
     Try(Create("fd1", <<"unlinkread">>)), Try(Write("fd1", Cells("y", 3))), Close("fd1"),
     Gets(Read("fd", 9), <<"h", "e", "l", "l", "o">>),
     Write("fd", Cells("h", 4)), Close("fd"), Try(Unlink(<<"unlinkread">>)) >>

linktest ==
  << Try(Unlink(<<"lf1">>)), Try(Unlink(<<"lf2">>)),
     Create("fd", <<"lf1">>), Write("fd", <<"h", "e", "l", "l", "o">>), Close("fd"),
     Link(<<"lf1">>, <<"lf2">>), Try(Unlink(<<"lf1">>)),
     Fails(OpenRead("fd", <<"lf1">>)),
     OpenRead("fd", <<"lf2">>), Gives(Read("fd", 9), 5), Close("fd"),
     Fails(Link(<<"lf2">>, <<"lf2">>)), Try(Unlink(<<"lf2">>)),
     Fails(Link(<<"lf2">>, <<"lf1">>)), Fails(Link(<<".">>, <<"lf1">>)) >>

\* One inode with more links than a direct block of the directory has entries.
bigdir ==
  LET N       == 2 * BSIZE
      name(i) == <<"x" \o ToString(i)>>
  IN  << Try(Unlink(<<"bd">>)), Open("fd", <<"bd">>, CREATE({})), Close("fd") >>
      \o For(N, LAMBDA i : <<Link(<<"bd">>, name(i))>>)
      \o <<Try(Unlink(<<"bd">>))>>
      \o For(N, LAMBDA i : <<Unlink(name(i))>>)

bigwrite ==
  <<Try(Unlink(<<"bigwrite">>))>>
  \o For(3, LAMBDA i :
       <<Create("fd", <<"bigwrite">>)>>
       \o For(2, LAMBDA j : <<Write("fd", Cells("w", 3 * i - 1))>>)
       \o <<Close("fd"), Try(Unlink(<<"bigwrite">>))>>)

bigfile ==
  LET N == 2
      SZ == 2 * (BSIZE \div 2 + 1)
  IN  <<Try(Unlink(<<"bigfile.dat">>)), Create("fd", <<"bigfile.dat">>)>>
      \o For(N, LAMBDA i : <<Write("fd", Cells(i - 1, SZ))>>)
      \o <<Close("fd"), OpenRead("fd", <<"bigfile.dat">>)>>
      \o For(2 * N, LAMBDA i :
           <<Gets(Read("fd", SZ \div 2), Cells((i - 1) \div 2, SZ \div 2))>>)
      \o <<Gives(Read("fd", SZ \div 2), 0), Close("fd"), Try(Unlink(<<"bigfile.dat">>))>>

\* Names of fourteen and of fifteen characters, which the kernel cuts.
fourteen ==
  LET n14 == "12345678901234"
      n15 == "123456789012345"
  IN  << Mkdir(<<n14>>), Mkdir(<<n14, n15>>),
         Open("fd", <<n15, n15, n15>>, CREATE({})), Close("fd"),
         OpenRead("fd", <<n14, n14, n14>>), Close("fd"),
         Fails(Mkdir(<<n14, n14>>)), Fails(Mkdir(<<n15, n14>>)),
         Try(Unlink(<<n15, n14>>)), Try(Unlink(<<n14, n14>>)),
         Try(Unlink(<<n14, n14, n14>>)), Try(Unlink(<<n15, n15, n15>>)),
         Try(Unlink(<<n14, n15>>)), Try(Unlink(<<n14>>)) >>

rmdot ==
  << Mkdir(<<"dots">>), Chdir(<<"dots">>), Fails(Unlink(<<".">>)), Fails(Unlink(<<"..">>)),
     Chdir(<<"/">>), Fails(Unlink(<<"dots", ".">>)), Fails(Unlink(<<"dots", "..">>)),
     Unlink(<<"dots">>) >>

dirfile ==
  LET xx == <<"dirfile", "xx">>
  IN  << Open("fd", <<"dirfile">>, CREATE({})), Close("fd"),
         Fails(Chdir(<<"dirfile">>)), Fails(OpenRead("fd", xx)),
         Fails(Open("fd", xx, CREATE({}))), Fails(Mkdir(xx)), Fails(Unlink(xx)),
         Fails(Link(<<"README">>, xx)), Unlink(<<"dirfile">>),
         Fails(Open("fd", <<".">>, {"RDWR"})), Try(OpenRead("fd", <<".">>)),
         AtMost(Write("fd", <<"x">>), 0), Close("fd") >>

\* One directory deeper each time, as often as there are in-memory inodes and once more.
iref ==
  LET deep == For(NINODE + 1, LAMBDA i :
        << Mkdir(<<"irefd">>), Chdir(<<"irefd">>), Try(Mkdir(<<>>)), Try(Link(<<"README">>, <<>>)),
           Or(Fails(Open("fd", <<>>, CREATE({}))), <<Close("fd")>>),
           Or(Fails(Open("fd", <<"xx">>, CREATE({}))), <<Close("fd")>>),
           Try(Unlink(<<"xx">>)) >>)
  IN  deep \o For(NINODE + 1, LAMBDA i : <<Try(Chdir(<<"..">>)), Try(Unlink(<<"irefd">>))>>)
      \o <<Try(Chdir(<<"/">>))>>

----------------------------------------------------------------------------
(* A tree of directories.                                                  *)

subdir_make ==
  << Try(Unlink(<<"ff">>)), Mkdir(<<"dd">>),
     Create("fd", <<"dd", "ff">>), Try(Write("fd", <<"f", "f">>)), Close("fd"),
     Fails(Unlink(<<"dd">>)),
     Mkdir(<<"/", "dd", "dd">>),
     Create("fd", <<"dd", "dd", "ff">>), Try(Write("fd", <<"F", "F">>)), Close("fd"),
     OpenRead("fd", <<"dd", "dd", "..", "ff">>), Gets(Read("fd", 9), <<"f", "f">>), Close("fd"),
     Link(<<"dd", "dd", "ff">>, <<"dd", "dd", "ffff">>), Unlink(<<"dd", "dd", "ff">>),
     Fails(OpenRead("fd", <<"dd", "dd", "ff">>)) >>

subdir_walk ==
  << Chdir(<<"dd">>), Chdir(<<"dd", "..", "..", "dd">>), Chdir(<<"dd", "..", "..", "..", "dd">>),
     Chdir(<<".", "..">>),
     OpenRead("fd", <<"dd", "dd", "ffff">>), Gives(Read("fd", 9), 2), Close("fd"),
     Fails(OpenRead("fd", <<"dd", "dd", "ff">>)) >>

subdir_refuse ==
  << Fails(Create("fd", <<"dd", "ff", "ff">>)), Fails(Create("fd", <<"dd", "xx", "ff">>)),
     Fails(Open("fd", <<"dd">>, CREATE({}))), Fails(Open("fd", <<"dd">>, {"RDWR"})),
     Fails(Open("fd", <<"dd">>, {"WRONLY"})),
     Fails(Link(<<"dd", "ff", "ff">>, <<"dd", "dd", "xx">>)),
     Fails(Link(<<"dd", "xx", "ff">>, <<"dd", "dd", "xx">>)),
     Fails(Link(<<"dd", "ff">>, <<"dd", "dd", "ffff">>)),
     Fails(Mkdir(<<"dd", "ff", "ff">>)), Fails(Mkdir(<<"dd", "xx", "ff">>)),
     Fails(Mkdir(<<"dd", "dd", "ffff">>)),
     Fails(Unlink(<<"dd", "xx", "ff">>)), Fails(Unlink(<<"dd", "ff", "ff">>)),
     Fails(Chdir(<<"dd", "ff">>)), Fails(Chdir(<<"dd", "xx">>)) >>

subdir ==
  subdir_make \o subdir_walk \o subdir_refuse
  \o << Unlink(<<"dd", "dd", "ffff">>), Unlink(<<"dd", "ff">>), Fails(Unlink(<<"dd">>)),
        Unlink(<<"dd", "dd">>), Unlink(<<"dd">>) >>

----------------------------------------------------------------------------
(* Several processes in one directory, or at one descriptor.               *)

\* Parent and child write to one offset: as many c's as p's, in any order.
sharedfd ==
  LET N     == 2
      SZ    == 2
      write(x) == For(N, LAMBDA i : <<Write("fd", Cells(x, SZ))>>)
      fair  == {b \in [1 .. 2 * N * SZ -> {"c", "p"}] :
                  Cardinality({n \in DOMAIN b : b[n] = "c"}) = N * SZ}
  IN  << Try(Unlink(<<"sharedfd">>)), Create("fd", <<"sharedfd">>),
         Try(Fork(Append(write("c"), Exit(0)))) >>
      \o write("p")
      \o << Else(WaitFor({0}), <<ExitStatus>>), Close("fd"), OpenRead("fd", <<"sharedfd">>),
            Reading(Read("fd", SZ), fair), Close("fd"), Try(Unlink(<<"sharedfd">>)), Exit(0) >>

fourfiles ==
  LET NCHILD  == 2
      N       == 2
      SZ      == 3
      name(i) == <<"f" \o ToString(i)>>
      child(i) == <<Create("fd", name(i))>> \o For(N, LAMBDA n : <<Write("fd", Cells(i, SZ))>>)
                  \o <<Exit(0)>>
  IN  For(NCHILD, LAMBDA i : <<Try(Unlink(name(i))), Fork(child(i))>>)
      \o For(NCHILD, LAMBDA i : <<Else(WaitFor({0}), <<ExitStatus>>)>>)
      \o For(NCHILD, LAMBDA i :
           << Try(OpenRead("fd", name(i))), Reading(Read("fd", 9), {Cells(i, N * SZ)}),
              Close("fd"), Try(Unlink(name(i))) >>)

\* The last loop takes both characters of the name from i: most files stay.
createdelete ==
  LET N      == 4
      NCHILD == 2
      name(pi, i) == <<"p" \o ToString(pi) \o ToString(i)>>
      child(pi) ==
        For(N, LAMBDA i :
          <<Create("fd", name(pi, i - 1)), Close("fd")>>
          \o IF i > 1 /\ (i - 1) % 2 = 0 THEN <<Unlink(name(pi, (i - 1) \div 2))>> ELSE <<>>)
        \o <<Exit(0)>>
      look(pi, i) == IF i = 0 \/ i >= N \div 2
                     THEN <<OpenRead("fd", name(pi, i)), Close("fd")>>
                     ELSE <<Fails(OpenRead("fd", name(pi, i)))>>
  IN  For(NCHILD, LAMBDA pi : <<Fork(child(pi - 1))>>)
      \o For(NCHILD, LAMBDA pi : <<WaitFor({0})>>)
      \o For(N, LAMBDA i : For(NCHILD, LAMBDA pi : look(pi - 1, i - 1)))
      \o For(N, LAMBDA i : For(NCHILD, LAMBDA pi : <<Try(Unlink(name(i - 1, i - 1)))>>))

\* Parent and child create, or link, the same name; then open and remove it.
concreate ==
  LET N       == 3
      file(i) == <<"C" \o ToString(i)>>
      link(i) == <<Try(Link(file(0), file(i)))>>
      make(i) == <<Create("fd", file(i)), Close("fd")>>
      first(i) == << Try(Unlink(file(i))),
                     Try(Fork((IF i % 5 = 1 THEN link(i) ELSE make(i)) \o <<Exit(0)>>)) >>
                  \o (IF i % 3 = 1 THEN link(i) ELSE make(i))
                  \o <<WaitFor({0})>>
      open(i)  == OpenClose(file(i), RDONLY) \o OpenClose(file(i), RDONLY)
      rm(i)    == <<Try(Unlink(file(i))), Try(Unlink(file(i)))>>
      second(i) == <<Fork((IF i % 3 = 0 THEN open(i) ELSE rm(i)) \o <<Exit(0)>>)>>
                   \o (IF i % 3 = 1 THEN open(i) ELSE rm(i)) \o <<WaitAny>>
  IN  For(N, LAMBDA i : first(i - 1))
      \o << Try(OpenRead("fd", <<".">>)),
            Listing(Read("fd", 1), {"C" \o ToString(i) : i \in 0 .. N - 1}), Close("fd") >>
      \o For(N, LAMBDA i : second(i - 1))

\* What the first values of the two random sequences make each process do.
linkunlink ==
  LET x    == <<"x">>
      turn(n) == CASE n = 0 -> OpenClose(x, CREATE({"RDWR"}))
                   [] n = 1 -> <<Try(Link(<<"cat">>, x))>>
                   [] n = 2 -> <<Try(Unlink(x))>>
      parent == <<0, 2, 1, 0>>
      child  == <<0, 1, 1, 0>>
  IN  <<Try(Unlink(x)), Fork(For(4, LAMBDA i : turn(child[i])) \o <<Exit(0)>>)>>
      \o For(4, LAMBDA i : turn(parent[i])) \o <<WaitAny>>

\* Each child writes, and removes, its own file again and again.
manywrites ==
  LET name(ci) == <<"b" \o ToString(ci)>>
      rm(ci)   == <<Try(Unlink(name(ci)))>>
      once(ci) == << Create("fd", name(ci)), Write("fd", Cells("w", CHUNK * BSIZE + 1)),
                     Close("fd") >>
      child(ci) == rm(ci) \o For(2, LAMBDA iters : For(ci, LAMBDA i : once(ci)) \o rm(ci))
                   \o rm(ci) \o <<Exit(0)>>
  IN  For(2, LAMBDA ci : <<Fork(child(ci))>>)
      \o For(2, LAMBDA ci : <<Else(WaitFor({0}), <<ExitStatus>>)>>)
      \o <<Exit(0)>>

\* A write from a bad address must not leave a block behind.
badwrite ==
  LET junk == <<"junk">>
  IN  <<Try(Unlink(junk))>>
      \o For(3, LAMBDA i :
           << Open("fd", junk, CREATE({"WRONLY"})), Try(From(Write("fd", <<"x">>), WORD - 1)),
              Close("fd"), Try(Unlink(junk)) >>)
      \o << Open("fd", junk, CREATE({"WRONLY"})), Write("fd", <<"x">>), Close("fd"),
            Try(Unlink(junk)), Exit(0) >>
=============================================================================
