---------------------------- MODULE BoundedQueue ----------------------------
(***************************************************************************)
(* What a pipe of kernel/pipe.c promises: bytes come out in the order in   *)
(* which they went in, at most Capacity of them are inside, nothing goes   *)
(* in once one end is closed, and a closed end stays closed.               *)
(***************************************************************************)
EXTENDS Naturals, Sequences

CONSTANTS Bytes, Capacity

VARIABLES queue, readopen, writeopen

vars == <<queue, readopen, writeopen>>

Init == queue = <<>> /\ readopen = TRUE /\ writeopen = TRUE

Put(x) ==
  /\ readopen /\ writeopen
  /\ Len(queue) < Capacity
  /\ queue' = Append(queue, x)
  /\ UNCHANGED <<readopen, writeopen>>

Get ==
  /\ readopen
  /\ queue # <<>>
  /\ queue' = Tail(queue)
  /\ UNCHANGED <<readopen, writeopen>>

CloseRead == readopen /\ readopen' = FALSE /\ UNCHANGED <<queue, writeopen>>

CloseWrite == writeopen /\ writeopen' = FALSE /\ UNCHANGED <<queue, readopen>>

Next == (\E x \in Bytes : Put(x)) \/ Get \/ CloseRead \/ CloseWrite

Spec == Init /\ [][Next]_vars
=============================================================================
