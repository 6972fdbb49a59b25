-------------------------------- MODULE Uart --------------------------------
(***************************************************************************)
(* Console output of kernel/uart.c.  write() goes through a ring that the  *)
(* interrupt handler empties (uartputc, uartstart, uartintr); the echo and *)
(* printf() wait for the chip instead (uartputc_sync) and share nothing    *)
(* with the ring but the chip.  Both look at LSR first and write THR then, *)
(* and no lock is common to both.                                          *)
(*                                                                         *)
(* The chip has its transmit FIFO enabled (uart.c:71): THR takes bytes     *)
(* while there is room in it, and LSR_TX_IDLE says that it is empty.       *)
(* Bytes are counted, not told apart.                                      *)
(***************************************************************************)
EXTENDS Naturals, FiniteSets

CONSTANTS
  Writers,           \* processes in consolewrite()
  KillSet,           \* those that may be killed
  Printers,          \* harts in uartputc_sync(), for echo or printf()
  Handler,           \* uartintr()
  UART_TX_BUF_SIZE,  \* 32
  FIFO,              \* the room in the chip, 16
  MaxN,              \* bound: the most bytes of a call
  MaxPrints,         \* bound: the bytes a hart prints
  Nobody

\* Assumed where the module is instantiated (Endpoints).
Parameters ==
  /\ Handler \notin Writers /\ Nobody \notin Writers \cup {Handler}
  /\ KillSet \subseteq Writers
  /\ UART_TX_BUF_SIZE \in Nat \ {0}
  \* NCPU is 8.
  /\ IsFiniteSet(Printers) /\ FIFO \in Nat /\ Cardinality(Printers) < FIFO
  /\ MaxN \in Nat \ {0} /\ MaxPrints \in Nat

VARIABLES
  tx,      \* uart_tx_w - uart_tx_r
  lock,    \* uart_tx_lock
  fifo,    \* how many bytes the chip has to send
  txirq,   \* the interrupt of a transmitter that is ready
  at,      \* where a writer is, or the handler
  left,    \* the bytes a consolewrite() has to put
  sync,    \* a printer: "idle", "wait" or "thr"
  prints   \* how many bytes it has printed

callVars == <<at, left>>
syncVars == <<sync, prints>>
vars == <<tx, lock, fifo, txirq, callVars, syncVars>>

Senders == Writers \cup {Handler}

Init ==
  /\ tx = 0
  /\ lock = Nobody
  /\ fifo = 0
  /\ txirq = FALSE
  /\ at = [p \in Senders |-> "idle"]
  /\ left = [p \in Writers |-> 0]
  /\ sync = [h \in Printers |-> "idle"]
  /\ prints = [h \in Printers |-> 0]

Goto(p, l) == at' = [at EXCEPT ![p] = l]

\* LSR_TX_IDLE.
TxIdle == fifo = 0

----------------------------------------------------------------------------
(* consolewrite() and uartputc() *)

Write(p, n) ==
  /\ at[p] = "idle"
  /\ Goto(p, "copyin")
  /\ left' = [left EXCEPT ![p] = n]
  /\ UNCHANGED <<tx, lock, fifo, txirq, syncVars>>

Copyin(p) ==
  /\ at[p] = "copyin"
  /\ \/ Goto(p, "put") /\ UNCHANGED left
     \/ Goto(p, "idle") /\ left' = [left EXCEPT ![p] = 0]
  /\ UNCHANGED <<tx, lock, fifo, txirq, syncVars>>

Full == tx = UART_TX_BUF_SIZE

PutFull(p) ==
  /\ at[p] = "put"
  /\ lock = Nobody
  /\ Full
  /\ Goto(p, "asleep")
  /\ UNCHANGED <<tx, lock, fifo, txirq, left, syncVars>>

\* Mutant of Put: the byte is left to the interrupt handler.
PutOnly(p) ==
  /\ at[p] = "put"
  /\ lock = Nobody
  /\ ~Full
  /\ tx' = tx + 1
  /\ Goto(p, "idle")
  /\ UNCHANGED <<lock, fifo, txirq, left, syncVars>>

Put(p) ==
  /\ at[p] = "put"
  /\ lock = Nobody
  /\ ~Full
  /\ lock' = p
  /\ tx' = tx + 1
  /\ Goto(p, "start")
  /\ UNCHANGED <<fifo, txirq, left, syncVars>>

\* kill() wakes the sleeper, who looks at the ring again.
Kill(p) ==
  /\ p \in KillSet
  /\ at[p] = "asleep"
  /\ Goto(p, "put")
  /\ UNCHANGED <<tx, lock, fifo, txirq, left, syncVars>>

----------------------------------------------------------------------------
(* uartstart(), called with uart_tx_lock held *)

\* wakeup(&uart_tx_r).
Woken == [p \in Senders |-> IF at[p] = "asleep" THEN "put" ELSE at[p]]

\* The chip is ready: a byte leaves the ring.
StartByte(p) ==
  /\ at[p] = "start"
  /\ tx > 0 /\ TxIdle
  /\ tx' = tx - 1
  /\ at' = [Woken EXCEPT ![p] = "thr"]
  /\ UNCHANGED <<lock, fifo, txirq, left, syncVars>>

StartThr(p) ==
  /\ at[p] = "thr"
  /\ fifo' = fifo + 1
  /\ Goto(p, "start")
  /\ UNCHANGED <<tx, lock, txirq, left, syncVars>>

\* Nothing to send, or the chip is busy: uartputc() and uartintr() release the
\* lock; consolewrite() goes on with the next byte.
StartReturn(p) ==
  /\ at[p] = "start"
  /\ tx = 0 \/ ~TxIdle
  /\ lock' = Nobody
  /\ IF p = Handler
     THEN Goto(p, "idle") /\ UNCHANGED left
     ELSE /\ left' = [left EXCEPT ![p] = @ - 1]
          /\ Goto(p, IF left[p] > 1 THEN "copyin" ELSE "idle")
  /\ UNCHANGED <<tx, fifo, txirq, syncVars>>

----------------------------------------------------------------------------
(* uartintr(), as far as output goes *)

Interrupt ==
  /\ at[Handler] = "idle"
  /\ txirq
  /\ txirq' = FALSE
  /\ Goto(Handler, "lock")
  /\ UNCHANGED <<tx, lock, fifo, left, syncVars>>

\* An interrupt for input comes here as well.
Receive ==
  /\ at[Handler] = "idle"
  /\ ~txirq
  /\ Goto(Handler, "lock")
  /\ UNCHANGED <<tx, lock, fifo, txirq, left, syncVars>>

\* Mutant of IntrLock: the handler takes no lock.
IntrNoLock ==
  /\ at[Handler] = "lock"
  /\ Goto(Handler, "start")
  /\ UNCHANGED <<tx, lock, fifo, txirq, left, syncVars>>

IntrLock ==
  /\ at[Handler] = "lock"
  /\ lock = Nobody
  /\ lock' = Handler
  /\ Goto(Handler, "start")
  /\ UNCHANGED <<tx, fifo, txirq, left, syncVars>>

----------------------------------------------------------------------------
(* uartputc_sync() *)

PutSync(h) ==
  /\ sync[h] = "idle"
  /\ prints[h] < MaxPrints
  /\ sync' = [sync EXCEPT ![h] = "wait"]
  /\ prints' = [prints EXCEPT ![h] = @ + 1]
  /\ UNCHANGED <<tx, lock, fifo, txirq, callVars>>

SyncIdle(h) ==
  /\ sync[h] = "wait"
  /\ TxIdle
  /\ sync' = [sync EXCEPT ![h] = "thr"]
  /\ UNCHANGED <<tx, lock, fifo, txirq, callVars, prints>>

SyncThr(h) ==
  /\ sync[h] = "thr"
  /\ fifo' = fifo + 1
  /\ sync' = [sync EXCEPT ![h] = "idle"]
  /\ UNCHANGED <<tx, lock, txirq, callVars, prints>>

----------------------------------------------------------------------------

\* The chip sends what it has, and asks for more.
Transmit ==
  /\ fifo > 0
  /\ fifo' = 0
  /\ txirq' = TRUE
  /\ UNCHANGED <<tx, lock, callVars, syncVars>>

Start(p) == StartByte(p) \/ StartThr(p) \/ StartReturn(p)

Consolewrite(p) == Copyin(p) \/ PutFull(p) \/ Put(p) \/ Start(p)

Uartintr == Interrupt \/ IntrLock \/ Start(Handler)

UartputcSync(h) == SyncIdle(h) \/ SyncThr(h)

Next ==
  \/ \E p \in Writers : (\E n \in 1 .. MaxN : Write(p, n)) \/ Consolewrite(p) \/ Kill(p)
  \/ \E h \in Printers : PutSync(h) \/ UartputcSync(h)
  \/ Uartintr \/ Receive
  \/ Transmit

Spec == Init /\ [][Next]_vars

\* The chip sends, its interrupts are taken, and who wants uart_tx_lock gets it
\* if it is free again and again.
Fairness ==
  /\ WF_vars(Transmit)
  /\ SF_vars(Uartintr)
  /\ \A p \in Writers : SF_vars(Consolewrite(p))
  /\ \A h \in Printers : WF_vars(SyncThr(h))

FairSpec == Spec /\ Fairness

----------------------------------------------------------------------------

\* Every variable keeps its type, and the ring holds what it has room for.
TypeOK ==
  /\ tx \in 0 .. UART_TX_BUF_SIZE
  /\ lock \in Senders \cup {Nobody}
  /\ fifo \in Nat
  /\ txirq \in BOOLEAN
  /\ at \in [Senders -> {"idle", "copyin", "put", "asleep", "lock", "start", "thr"}]
  /\ left \in [Writers -> 0 .. MaxN]
  /\ sync \in [Printers -> {"idle", "wait", "thr"}]
  /\ prints \in [Printers -> 0 .. MaxPrints]

\* No byte is lost in the chip, though a hart that prints and the holder of the
\* lock may all have seen it idle before the first of them writes THR: that many
\* bytes find room in the FIFO (uart.c:125-128, 146-159).
NoOverrun == fifo <= FIFO

\* Whoever sleeps, sleeps for room in a ring that is full (uart.c:97-100,
\* 153-157).
SleepsWhileFull == (\E p \in Writers : at[p] = "asleep") => Full

\* What is in the ring is sent: the byte after it is, when the chip is ready,
\* whether a writer or the interrupt handler sees it, and whoever else writes to
\* the chip meanwhile (uart.c:138-161, 180-194).
RingDrains == tx > 0 ~> \E p \in Senders : at[p] = "thr"
=============================================================================
