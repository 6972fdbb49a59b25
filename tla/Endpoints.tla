------------------------------ MODULE Endpoints -------------------------------
(***************************************************************************)
(* What a process sleeps for, apart from its children and the disk: pipes, *)
(* and the console with its input and its output (where fileread() and     *)
(* filewrite() end up unless in an inode, kernel/file.c:106-170), and the  *)
(* clock.  Each has its own lock and sleepers; what the two halves of the  *)
(* console share is the chip the echo is written to: for output the echo   *)
(* is one of the printing harts.  A behaviour is one of a single one.      *)
(***************************************************************************)
EXTENDS Naturals

CONSTANTS
  Procs, KillSet, MaxN, Nobody,
  First, Bytes, PIPESIZE, WORD, MaxBytes,
  Chars, Newline, Eof, Backspace, KillLine, INPUT_BUF, UINT,
  Printers, Handler, UART_TX_BUF_SIZE, FIFO, MaxPrints,
  NPROC, KillSlots, TICKWORD, BootTicks, MaxTicks, MaxSleep

VARIABLES
  endpoint,
  data, nread, nwrite, readopen, writeopen, lock, rd, wr, pc, left, killed,
  buf, r, w, e, conslock, reader, unread, target, hit,
  tx, txlock, fifo, txirq, sender, unsent, sync, prints,
  ticks, clk, pstate, born, ran, ended, ticks0, length, sleeper, dying

pipeVars   == <<data, nread, nwrite, readopen, writeopen, lock, rd, wr, pc, left, killed>>
inputVars  == <<buf, r, w, e, conslock, reader, unread, target, hit>>
outputVars == <<tx, txlock, fifo, txirq, sender, unsent, sync, prints>>
clockVars  == <<ticks, clk, pstate, born, ran, ended, ticks0, length, sleeper, dying>>
vars == <<endpoint, pipeVars, inputVars, outputVars, clockVars>>

APipe == INSTANCE Pipe WITH NoProc <- Nobody, MaxN <- MaxBytes
Input == INSTANCE Console WITH
  Readers <- Procs, NoReader <- Nobody,
  lock <- conslock, pc <- reader, left <- unread, killed <- hit
Output == INSTANCE Uart WITH
  Writers <- Procs, lock <- txlock, at <- sender, left <- unsent
Timer == INSTANCE Clock WITH
  KillSet <- KillSlots, WORD <- TICKWORD, MaxN <- MaxSleep, hit <- dying

ASSUME EndpointsAssumption ==
  /\ APipe!Parameters
  /\ Input!Parameters
  /\ Output!Parameters
  /\ Timer!Parameters

Init ==
  /\ endpoint \in {"pipe", "input", "output", "clock"}
  /\ APipe!Init
  /\ Input!Init
  /\ Output!Init
  /\ Timer!Init
  \* What is in the pipe's page makes a difference to it only.
  /\ endpoint # "pipe" => data[0] = CHOOSE x \in Bytes : TRUE

OnlyPipe   == endpoint = "pipe" /\ UNCHANGED <<endpoint, inputVars, outputVars, clockVars>>
OnlyInput  == endpoint = "input" /\ UNCHANGED <<endpoint, pipeVars, outputVars, clockVars>>
OnlyOutput == endpoint = "output" /\ UNCHANGED <<endpoint, pipeVars, inputVars, clockVars>>
OnlyClock  == endpoint = "clock" /\ UNCHANGED <<endpoint, pipeVars, inputVars, outputVars>>

RunPipe   == OnlyPipe /\ APipe!Next
RunInput  == OnlyInput /\ Input!Next
RunOutput == OnlyOutput /\ Output!Next
RunClock  == OnlyClock /\ Timer!Next

Next == RunPipe \/ RunInput \/ RunOutput \/ RunClock

Spec == Init /\ [][Next]_vars

\* What a process does at the endpoint of the behaviour.
Goes(p) == (OnlyPipe /\ APipe!Continue(p)) \/ (OnlyOutput /\ Output!Consolewrite(p))

\* As in Pipe and Uart; no property of the input and of the clock needs any.
Fairness ==
  /\ \A p \in Procs : SF_vars(Goes(p))
  /\ WF_vars(OnlyOutput /\ Output!Transmit)
  /\ SF_vars(OnlyOutput /\ Output!Uartintr)
  /\ \A h \in Printers : WF_vars(OnlyOutput /\ Output!SyncThr(h))

FairSpec == Spec /\ Fairness

----------------------------------------------------------------------------

\* The page of the pipe, which pipeclose() frees when both ends are closed, is
\* not in use by a call (pipe.c:58-74).
OpenWhileUsed == APipe!OpenWhileUsed

\* Nobody sleeps in vain: not at the pipe for bytes or room that are there, unless
\* somebody is killed; not at the console for a line while there is one, nor for
\* room in the output ring while it is not full; not for ticks that have passed, killed
\* or not; and a full line buffer can be read (pipe.c:85-112; console.c:91-97, 168-172;
\* uart.c:97-100, 153-157; sysproc.c:105-116).
NobodySleepsInVain ==
  /\ APipe!NoLostWakeup
  /\ Input!NobodySleepsOnALine /\ Input!NeverStuck
  /\ Output!SleepsWhileFull
  /\ Timer!SleepsInTime

\* The ring of the pipe, with its wrapping counters, is a bounded queue
\* (pipe.c:76-130).
QueueSpec == APipe!QueueSpec

\* The console is a queue of lines that cannot be changed any more, and the line
\* being edited (console.c:79-179).
LineSpec == Input!LineSpec

\* No byte is lost in the chip, though writers of THR that share no lock see it
\* idle together (uart.c:125-128, 146-159).
NoOverrun == Output!NoOverrun

\* The run time waitx() subtracts is that of the life of the process, but for the
\* tick update_time() is counting (proc.c:160, 417, 505, 542).
TimesAddUp == Timer!TimesAddUp

\* What is waited for happens: what is in the output ring is sent, whoever else
\* writes to the chip meanwhile (uart.c:138-161, 180-194); a call at a pipe that has
\* lost its last writer ends (pipe.c:58-74).
WaitsEnd ==
  /\ Output!RingDrains
  /\ \A p \in Procs : APipe!AtEndOfFile(p) ~> ~APipe!AtEndOfFile(p)
=============================================================================
