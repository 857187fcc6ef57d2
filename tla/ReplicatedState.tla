--------------------------- MODULE ReplicatedState ---------------------------
(***************************************************************************)
(* What a remote view of a published state promises: it shows values the   *)
(* state has had, one after another without skipping or repeating any; a   *)
(* withdrawal clears it, and a view that was cleared starts again at a     *)
(* value no older than the last one it showed.                             *)
(***************************************************************************)
EXTENDS Naturals, Sequences

CONSTANTS Values, Absent

VARIABLES had,    \* everything published, in order: values and absences
          view,   \* the position of the value shown, 0 when there is none
          seen    \* the position of the value shown last

Init == (\E v \in Values : had = <<v>>) /\ view = 0 /\ seen = 0

Shows(k) == k \in DOMAIN had /\ had[k] \in Values /\ view' = k /\ seen' = k /\ UNCHANGED had

Publish == (\E v \in Values \cup Absent : had' = Append(had, v)) /\ UNCHANGED <<view, seen>>
Hydrate == view = 0 /\ \E k \in seen..Len(had) : Shows(k)
Advance == view > 0 /\ Shows(view + 1)
Clear == view' = 0 /\ UNCHANGED <<had, seen>>

Next == Publish \/ Hydrate \/ Advance \/ Clear
Spec == Init /\ [][Next]_<<had, view, seen>>
=============================================================================
