------------------------- MODULE OperationLifecycle -------------------------
(***************************************************************************)
(* What a lane promises about each operation id: at most one operation is  *)
(* open; an open operation runs, is cancelled at most once, and settles    *)
(* once and for good; cancellation that became durable decides the status. *)
(***************************************************************************)
CONSTANT Ops

VARIABLE status

Settled == {"completed", "declined", "failed", "aborted"}
Open == {"running", "cancelling"}

Init == status = [o \in Ops |-> "absent"]

Accept(o) ==
  /\ status[o] = "absent"
  /\ \A p \in Ops : status[p] \notin Open
  /\ status' = [status EXCEPT ![o] = "running"]

Cancel(o) ==
  /\ status[o] = "running"
  /\ status' = [status EXCEPT ![o] = "cancelling"]

Settle(o, outcome) ==
  /\ status[o] = IF outcome = "aborted" THEN "cancelling" ELSE "running"
  /\ status' = [status EXCEPT ![o] = outcome]

Next == \E o \in Ops : Accept(o) \/ Cancel(o) \/ \E s \in Settled : Settle(o, s)

Spec == Init /\ [][Next]_status
=============================================================================
