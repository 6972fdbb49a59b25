------------------------------ MODULE Console ------------------------------
(***************************************************************************)
(* Console input of kernel/console.c: the ring cons.buf with its three     *)
(* indices, filled and edited by the interrupt handler, read by            *)
(* consoleread().  cons.lock is a variable, as kill() does not take it;    *)
(* consoleintr() holds it from beginning to end and is one action.  The    *)
(* echo is output (see Uart), and so is the process list of ^P.            *)
(***************************************************************************)
EXTENDS Naturals

CONSTANTS
  Readers,
  KillSet,    \* those that may be killed
  Chars,      \* ordinary characters
  Newline, Eof, Backspace, KillLine,
  INPUT_BUF,  \* 128
  UINT,       \* 2^32, the counters are uint
  MaxN,       \* bound: the most bytes a call asks for
  NoReader

\* Assumed where the module is instantiated (Endpoints).
Parameters ==
  /\ Readers # {} /\ NoReader \notin Readers /\ KillSet \subseteq Readers
  /\ Chars # {}
  /\ INPUT_BUF \in Nat \ {0}
  /\ UINT \in Nat /\ UINT > INPUT_BUF + 1 /\ UINT % INPUT_BUF = 0
  /\ MaxN \in Nat \ {0}

Stored == Chars \cup {Newline, Eof}

VARIABLES
  buf, r, w, e,
  lock,       \* cons.lock
  pc,         \* where a process is in consoleread(), or "user"
  left, target, \* its n and target
  killed

cons == <<buf, r, w, e>>
vars == <<cons, lock, pc, left, target, killed>>

Init ==
  \* What is not between r and e is never looked at.
  /\ buf = [k \in 0 .. INPUT_BUF - 1 |-> Newline]
  /\ r = 0 /\ w = 0 /\ e = 0
  /\ lock = NoReader
  /\ pc = [p \in Readers |-> "user"]
  /\ left = [p \in Readers |-> 0]
  /\ target = [p \in Readers |-> 0]
  /\ killed = [p \in Readers |-> FALSE]

Goto(p, l) == pc' = [pc EXCEPT ![p] = l]

\* b - a, as uint.
Minus(b, a) == (b + UINT - a) % UINT
Slot(k) == k % INPUT_BUF

----------------------------------------------------------------------------
(* consoleread() *)

Read(p, n) ==
  /\ pc[p] = "user"
  /\ ~killed[p]
  /\ left' = [left EXCEPT ![p] = n]
  /\ target' = [target EXCEPT ![p] = n]
  /\ Goto(p, "lock")
  /\ UNCHANGED <<cons, lock, killed>>

\* acquire(), at the beginning or at the end of sleep().
Lock(p) ==
  /\ pc[p] = "lock"
  /\ lock = NoReader
  /\ lock' = p
  /\ Goto(p, "loop")
  /\ UNCHANGED <<cons, left, target, killed>>

\* Release the lock and return to the program.
Return(p) ==
  /\ lock' = NoReader
  /\ Goto(p, "user")
  /\ left' = [left EXCEPT ![p] = 0]
  /\ target' = [target EXCEPT ![p] = 0]

\* Nothing has been handed over.
MustWait == r = w

Killed(p) ==
  /\ pc[p] = "loop"
  /\ MustWait
  /\ killed[p]
  /\ Return(p)
  /\ UNCHANGED <<cons, killed>>

TestKilled(p) ==
  /\ pc[p] = "loop"
  /\ MustWait
  /\ ~killed[p]
  /\ Goto(p, "sleep")
  /\ UNCHANGED <<cons, lock, left, target, killed>>

Sleep(p) ==
  /\ pc[p] = "sleep"
  /\ lock' = NoReader
  /\ Goto(p, "asleep")
  /\ UNCHANGED <<cons, left, target, killed>>

\* End-of-file ends the call; if the call has something to return, it stays for
\* the next one.
TakeEof(p) ==
  /\ pc[p] = "loop"
  /\ ~MustWait
  /\ buf[Slot(r)] = Eof
  /\ r' = IF left[p] < target[p] THEN r ELSE (r + 1) % UINT
  /\ Return(p)
  /\ UNCHANGED <<buf, w, e, killed>>

\* A character is copied out, or lost if copyout fails; the call ends with the
\* line, with n, or with the failure.
TakeByte(p, ok) ==
  LET c == buf[Slot(r)] IN
  /\ pc[p] = "loop"
  /\ ~MustWait
  /\ c # Eof
  /\ r' = (r + 1) % UINT
  /\ IF ok /\ c # Newline /\ left[p] > 1
     THEN /\ left' = [left EXCEPT ![p] = @ - 1]
          /\ UNCHANGED <<lock, pc, target>>
     ELSE Return(p)
  /\ UNCHANGED <<buf, w, e, killed>>

----------------------------------------------------------------------------
(* consoleintr() *)

Woken == [p \in Readers |-> IF pc[p] = "asleep" THEN "lock" ELSE pc[p]]

\* Mutant of LineEnds: a line that fills the buffer is not handed over.
LineEndsNever(k) == k \in {Newline, Eof}

\* With k stored the line is handed over.
LineEnds(k) == k \in {Newline, Eof} \/ Minus(e + 1, r) = INPUT_BUF

Store(k) ==
  /\ lock = NoReader
  /\ Minus(e, r) < INPUT_BUF
  /\ buf' = [buf EXCEPT ![Slot(e)] = k]
  /\ e' = (e + 1) % UINT
  /\ IF LineEnds(k)
     THEN w' = e' /\ pc' = Woken
     ELSE UNCHANGED <<w, pc>>
  /\ UNCHANGED <<r, lock, left, target, killed>>

\* Mutant of Editable: backspace reaches into what was handed over.
EditableAll == e # r

Editable == e # w

EraseOne ==
  /\ lock = NoReader
  /\ Editable
  /\ e' = Minus(e, 1)
  /\ UNCHANGED <<buf, r, w, lock, pc, left, target, killed>>

\* ^U goes back to w, or to a newline.
EraseLine ==
  /\ lock = NoReader
  /\ Editable
  /\ \E n \in 1 .. Minus(e, w) :
       /\ \A k \in 1 .. n : buf[Slot(Minus(e, k))] # Newline
       /\ n = Minus(e, w) \/ buf[Slot(Minus(e, n + 1))] = Newline
       /\ e' = Minus(e, n)
  /\ UNCHANGED <<buf, r, w, lock, pc, left, target, killed>>

ConsoleIntr(k) ==
  CASE k = Backspace -> EraseOne
    [] k = KillLine -> EraseLine
    [] OTHER -> Store(k)

----------------------------------------------------------------------------

Kill(p) ==
  /\ p \in KillSet
  /\ ~killed[p]
  /\ killed' = [killed EXCEPT ![p] = TRUE]
  /\ Goto(p, IF pc[p] = "asleep" THEN "lock" ELSE pc[p])
  /\ UNCHANGED <<cons, lock, left, target>>

Inside(p) ==
  \/ Lock(p) \/ Killed(p) \/ TestKilled(p) \/ Sleep(p) \/ TakeEof(p)
  \/ \E ok \in BOOLEAN : TakeByte(p, ok)

Next ==
  \/ \E p \in Readers :
       \/ \E n \in 1 .. MaxN : Read(p, n)
       \/ Inside(p)
       \/ Kill(p)
  \/ \E k \in Stored \cup {Backspace, KillLine} : ConsoleIntr(k)

Spec == Init /\ [][Next]_vars

----------------------------------------------------------------------------

\* Every variable keeps its type; of the ring, which the counters go round in
\* UINT, r is followed by w and w by e, less than a turn ahead.
TypeOK ==
  /\ buf \in [0 .. INPUT_BUF - 1 -> Stored]
  /\ r \in 0 .. UINT - 1 /\ w \in 0 .. UINT - 1 /\ e \in 0 .. UINT - 1
  /\ Minus(w, r) <= Minus(e, r) /\ Minus(e, r) <= INPUT_BUF
  /\ lock \in Readers \cup {NoReader}
  /\ pc \in [Readers -> {"user", "lock", "loop", "sleep", "asleep"}]
  /\ left \in [Readers -> 0 .. MaxN] /\ target \in [Readers -> 0 .. MaxN]
  /\ killed \in [Readers -> BOOLEAN]

\* While a line is there, nobody sleeps for one (console.c:91-97, 168-172).
NobodySleepsOnALine == r # w => \A p \in Readers : pc[p] # "asleep"

\* A full buffer is handed over, so that it can be read and typing can go on
\* (console.c:168): the console never refuses keys with nothing to read.
NeverStuck == Minus(e, r) = INPUT_BUF => r # w

\* The ring is a queue of lines that cannot be changed any more, and the line
\* that is being edited.
Between(a, b) == [k \in 1 .. Minus(b, a) |-> buf[Slot(a + k - 1)]]

Lines == INSTANCE LineQueue WITH
  Keys <- Stored, Capacity <- INPUT_BUF,
  committed <- Between(r, w), line <- Between(w, e)

LineSpec == Lines!Spec
=============================================================================
