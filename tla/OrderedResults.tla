--------------------------- MODULE OrderedResults ---------------------------
(***************************************************************************)
(* What a tool batch promises the transcript: every call gets exactly one  *)
(* outcome, outcomes become ready in any order, results enter the          *)
(* transcript in source order and never before every earlier call has its  *)
(* outcome, and the batch is over exactly when the last one is placed.     *)
(***************************************************************************)
EXTENDS Naturals, Sequences

VARIABLES n,        \* the number of calls, fixed with the batch
          outcome,  \* per source position, "none" until it is final
          placed,   \* the results in the transcript
          over

Calls == 1..n

Init == /\ n \in Nat \ {0}
        /\ outcome = [c \in Calls |-> "none"]
        /\ placed = <<>>
        /\ over = FALSE

Stage(c) ==
  /\ outcome[c] = "none"
  /\ \E o \in {"answer", "error", "aborted", "interrupted"} :
       outcome' = [outcome EXCEPT ![c] = o]
  /\ UNCHANGED <<n, placed, over>>

Place(upTo) ==
  /\ upTo > Len(placed)
  /\ \A c \in Calls : c <= upTo => outcome[c] # "none"
  /\ placed' = [i \in 1..upTo |-> i]
  /\ over' = (upTo = n)
  /\ UNCHANGED <<n, outcome>>

Next == \E c \in Calls : Stage(c) \/ Place(c)

Spec == Init /\ [][Next]_<<n, outcome, placed, over>>
=============================================================================
