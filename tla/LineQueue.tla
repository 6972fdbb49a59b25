----------------------------- MODULE LineQueue -----------------------------
(***************************************************************************)
(* What the console promises its readers: keys go into a line that can     *)
(* still be edited; the end of the line, end-of-file, or a full buffer     *)
(* hands it over, and what is handed over is read in order, unchanged.     *)
(***************************************************************************)
EXTENDS Naturals, Sequences, SequencesExt

CONSTANTS Keys, Newline, Eof, Capacity

VARIABLES committed, line

vars == <<committed, line>>

Init == committed = <<>> /\ line = <<>>

Ends(k) == k \in {Newline, Eof}

Type(k) ==
  /\ Len(committed) + Len(line) < Capacity
  /\ IF Ends(k) \/ Len(committed) + Len(line) + 1 = Capacity
     THEN /\ committed' = committed \o Append(line, k)
          /\ line' = <<>>
     ELSE /\ line' = Append(line, k)
          /\ UNCHANGED committed

Erase ==
  /\ line # <<>>
  /\ line' = Front(line)
  /\ UNCHANGED committed

EraseAll ==
  /\ line' = <<>>
  /\ UNCHANGED committed

Take ==
  /\ committed # <<>>
  /\ committed' = Tail(committed)
  /\ UNCHANGED line

Next == (\E k \in Keys : Type(k)) \/ Erase \/ EraseAll \/ Take

Spec == Init /\ [][Next]_vars
=============================================================================
