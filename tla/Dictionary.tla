------------------------------ MODULE Dictionary ------------------------------
(***************************************************************************)
(* The dictionary server of src/OSN_ass5/q3 and the clients of its         *)
(* simulation.  main() of the server queues the connections it accepts;    *)
(* the threads of the pool take them off the queue and answer; each key    *)
(* has a lock.  main() of the client hands every thread its command in the *)
(* same structure, which the next command may overwrite before the thread  *)
(* has copied it.                                                          *)
(*                                                                         *)
(* What a value is, is left out: concat() and the last reads of fetch()    *)
(* and update() touch the strings without their locks.  The keys and the   *)
(* answers "it was there" remain.                                          *)
(***************************************************************************)
EXTENDS Naturals, FiniteSets, Sequences

CONSTANTS
  Workers,   \* the threads of the pool
  Keys,      \* of 0 .. MAX_SIZE - 1
  Inputs,    \* what main() of the client may read
  Nobody

\* Assumed where the module is instantiated (Simulations).
Parameters ==
  /\ Inputs \subseteq Seq([op   : {"insert", "delete", "update", "concat", "fetch"},
                           key  : Keys,
                           key2 : Keys])
  /\ Nobody \notin Workers
  /\ Workers # {}

VARIABLES
  commands,  \* its input: a command per thread
  arg,       \* how many commands main() of the client has written to arg
  client,    \* where a client thread is
  cmd,       \* the command it has copied
  answer,    \* "yes", "no", or "none" yet
  backlog,   \* connections the kernel holds for accept()
  thread_q,
  worker,    \* where a thread of the pool is
  conn,      \* the client it serves
  present,   \* diks[key].key # -1
  locks

clientVars == <<commands, arg, client, cmd>>
vars == <<clientVars, answer, backlog, thread_q, worker, conn, present, locks>>

Clients == 1 .. Len(commands)

Init ==
  /\ commands \in Inputs
  /\ arg = 0
  /\ client = [n \in Clients |-> "none"]
  /\ cmd = [n \in Clients |-> 0]
  /\ answer = [n \in Clients |-> "none"]
  /\ backlog = <<>>
  /\ thread_q = <<>>
  /\ worker = [w \in Workers |-> "loop"]
  /\ conn = [w \in Workers |-> 0]
  /\ present = [k \in Keys |-> FALSE]
  /\ locks = [k \in Keys |-> Nobody]

----------------------------------------------------------------------------
(* client_sim.cpp *)

\* main(): arg is written over and a thread created.
NewThread ==
  /\ arg < Len(commands)
  /\ arg' = arg + 1
  /\ client' = [client EXCEPT ![arg + 1] = "created"]
  /\ UNCHANGED <<commands, cmd, answer, backlog, thread_q, worker, conn, present, locks>>

\* init_thread(): the command in arg is that of the thread, or a later one, and a
\* copy of an arg that is being written is none of them: that is left out.
CopyArg(n) ==
  /\ client[n] = "created"
  /\ cmd' = [cmd EXCEPT ![n] = arg]
  /\ client' = [client EXCEPT ![n] = "asleep"]
  /\ UNCHANGED <<commands, arg, answer, backlog, thread_q, worker, conn, present, locks>>

\* begin_process() connects and sends.
Connect(n) ==
  /\ client[n] = "asleep"
  /\ client' = [client EXCEPT ![n] = "sent"]
  /\ backlog' = Append(backlog, n)
  /\ UNCHANGED <<commands, arg, cmd, answer, thread_q, worker, conn, present, locks>>

\* It prints the answer and closes the connection.
ReadAnswer(n) ==
  /\ client[n] = "replied"
  /\ client' = [client EXCEPT ![n] = "closed"]
  /\ UNCHANGED <<commands, arg, cmd, answer, backlog, thread_q, worker, conn, present, locks>>

----------------------------------------------------------------------------
(* main() and thread_function() of server_prog.cpp: what m protects is in one step *)

Asleep == {w \in Workers : worker[w] = "asleep"}

\* Mutant of WakeOne: nobody is.
WakeNobody == UNCHANGED worker

\* pthread_cond_signal(&c) wakes one of the sleepers.
WakeOne == IF Asleep = {} THEN UNCHANGED worker
           ELSE \E w \in Asleep : worker' = [worker EXCEPT ![w] = "loop"]

Accept ==
  /\ backlog # <<>>
  /\ backlog' = Tail(backlog)
  /\ thread_q' = Append(thread_q, Head(backlog))
  /\ WakeOne
  /\ UNCHANGED <<clientVars, answer, conn, present, locks>>

TakeConnection(w) ==
  /\ worker[w] = "loop"
  /\ IF thread_q = <<>>
     THEN worker' = [worker EXCEPT ![w] = "asleep"] /\ UNCHANGED <<thread_q, conn>>
     ELSE /\ conn' = [conn EXCEPT ![w] = Head(thread_q)]
          /\ thread_q' = Tail(thread_q)
          /\ worker' = [worker EXCEPT ![w] = "first"]
  /\ UNCHANGED <<clientVars, answer, backlog, present, locks>>

----------------------------------------------------------------------------
(* handle_connection(), with the operations of dictionary.cpp *)

Goto(w, l) == worker' = [worker EXCEPT ![w] = l]
Served(w) == commands[cmd[conn[w]]]
KeyOf(w) == IF worker[w] \in {"first", "test", "write"} THEN Served(w).key ELSE Served(w).key2

Answer(w, a) == answer' = [answer EXCEPT ![conn[w]] = a]

\* Mutant of LockKey: no lock.
LockNothing(w) ==
  /\ worker[w] \in {"first", "second"}
  /\ Goto(w, IF worker[w] = "first" THEN "test" ELSE "test2")
  /\ UNCHANGED <<clientVars, answer, backlog, thread_q, conn, present, locks>>

\* The lock of the key, or of the second one of concat().
LockKey(w) ==
  /\ worker[w] \in {"first", "second"}
  /\ locks[KeyOf(w)] = Nobody
  /\ locks' = [locks EXCEPT ![KeyOf(w)] = w]
  /\ Goto(w, IF worker[w] = "first" THEN "test" ELSE "test2")
  /\ UNCHANGED <<clientVars, answer, backlog, thread_q, conn, present>>

Unlock(w) == locks' = [locks EXCEPT ![KeyOf(w)] = Nobody]
Reply(w, a) == Answer(w, a) /\ Unlock(w) /\ Goto(w, "reply")

Insert(w) ==
  /\ Served(w).op = "insert"
  /\ IF present[KeyOf(w)] THEN Reply(w, "no")
     ELSE Goto(w, "write") /\ UNCHANGED <<answer, locks>>

Delet(w) ==
  /\ Served(w).op = "delete"
  /\ IF present[KeyOf(w)] THEN Goto(w, "write") /\ UNCHANGED <<answer, locks>>
     ELSE Reply(w, "no")

\* The value only, and once more without the lock.
Update(w) == Served(w).op = "update" /\ Reply(w, IF present[KeyOf(w)] THEN "yes" ELSE "no")
Fetch(w)  == Served(w).op = "fetch"  /\ Reply(w, IF present[KeyOf(w)] THEN "yes" ELSE "no")

\* It looks for one key after the other, and writes both values at the end.
Concat(w) ==
  /\ Served(w).op = "concat"
  /\ IF present[KeyOf(w)] /\ worker[w] = "test"
     THEN Unlock(w) /\ Goto(w, "second") /\ UNCHANGED answer
     ELSE Reply(w, IF present[KeyOf(w)] THEN "yes" ELSE "no")

Test(w) ==
  /\ worker[w] \in {"test", "test2"}
  /\ Insert(w) \/ Delet(w) \/ Update(w) \/ Fetch(w) \/ Concat(w)
  /\ UNCHANGED <<clientVars, backlog, thread_q, conn, present>>

\* diks[key].key = key, or -1.
Write(w) ==
  /\ worker[w] = "write"
  /\ present' = [present EXCEPT ![KeyOf(w)] = Served(w).op = "insert"]
  /\ Reply(w, "yes")
  /\ UNCHANGED <<clientVars, backlog, thread_q, conn>>

\* The thread reads the connection again,
Respond(w) ==
  /\ worker[w] = "reply"
  /\ client' = [client EXCEPT ![conn[w]] = "replied"]
  /\ Goto(w, "read")
  /\ UNCHANGED <<commands, arg, cmd, answer, backlog, thread_q, conn, present, locks>>

\* until it finds it closed.
CloseConnection(w) ==
  /\ worker[w] = "read"
  /\ client[conn[w]] = "closed"
  /\ conn' = [conn EXCEPT ![w] = 0]
  /\ Goto(w, "loop")
  /\ UNCHANGED <<clientVars, answer, backlog, thread_q, present, locks>>

----------------------------------------------------------------------------

HandleConnection(w) ==
  LockKey(w) \/ Test(w) \/ Write(w) \/ Respond(w) \/ CloseConnection(w)

Client == NewThread \/ \E n \in Clients : CopyArg(n) \/ Connect(n) \/ ReadAnswer(n)

Next == Client \/ Accept \/ \E w \in Workers : TakeConnection(w) \/ HandleConnection(w)

----------------------------------------------------------------------------

Answered(op, k) ==
  {n \in Clients : /\ answer[n] = "yes"
                   /\ commands[cmd[n]].op = op /\ commands[cmd[n]].key = k}

\* The answers add up: a key has been inserted as often as deleted, or once more
\* while it is there, whatever ran meanwhile (dictionary.cpp:8-25, 82-99).
KeysCounted ==
  \A k \in Keys : Cardinality(Answered("insert", k)) =
                  Cardinality(Answered("delete", k)) + (IF present[k] THEN 1 ELSE 0)

\* Every client has its answer: main() of the client ends.
Over == \A n \in Clients : client[n] = "closed"
=============================================================================
