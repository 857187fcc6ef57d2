------------------------------ MODULE LaneInbox ------------------------------
(***************************************************************************)
(* The ordered inbox of a lane: steering, follow-up and next-run messages  *)
(* and deferred writes, their durable payloads, and every place that       *)
(* drains them: acceptance, direct append, the run boundary with its       *)
(* before_run_end hook, the structural boundary and the abort              *)
(* (runtime/lane.ts, drive/checkpoint.ts, drive/boundary.ts,               *)
(* drive/structural.ts).                                                   *)
(*                                                                         *)
(* Every action is one command of the mutation line.  Generation, tools    *)
(* and deferred responses are one leaf, "ready"; the messages they put on  *)
(* the branch are left out, and so are prompts.                            *)
(***************************************************************************)
EXTENDS Naturals, Sequences

CONSTANTS MaxItems,   \* bound: items queued or appended
          MaxHooks,   \* bound: follow-ups given by before_run_end
          MaxRounds   \* bound: operations accepted and responses received

ASSUME InboxAssumption == MaxItems \in Nat /\ MaxHooks \in Nat /\ MaxRounds \in Nat

\* A note is a custom entry without a projector: it triggers no response.
Kinds == {"steer", "followUp", "nextRun", "write", "note"}
Modes == {"all", "one"}
Items == [id: 1..MaxItems, kind: Kinds]
HookEntry == [id |-> 0, kind |-> "hook"]

Operations == [at: {"starting", "checkpoint", "ready", "structural"},
               ctl: {"running", "cancel_requested"},
               cont: {"need_assistant", "may_finish"},
               boundary: {"none", "finish", "resume_checkpoint"},
               steering: Modes, followUps: Modes]
NoOp == [at |-> "none", ctl |-> "running", cont |-> "need_assistant",
         boundary |-> "none", steering |-> "all", followUps |-> "all"]
NoPlan == [known |-> FALSE, entries |-> <<>>]

VARIABLES
  inbox,      \* the lane's queued items, oldest first
  payloads,   \* ids with a pendingEntry row
  branch,     \* items and hook follow-ups placed on the branch, in order
  gone,       \* ids cancelled or handed back by an abort
  operation,  \* the lane's operation, or NoOp
  last,       \* status of the last operation
  plan,       \* process memory: the verdict before_run_end was started with
  admitted, hooks, rounds   \* counters behind the bounds

vars == <<inbox, payloads, branch, gone, operation, last, plan, admitted, hooks, rounds>>

Ids(items) == {items[i].id : i \in DOMAIN items}
Active == operation # NoOp
Running == Active /\ operation.ctl = "running"

Init ==
  /\ inbox = <<>> /\ payloads = {} /\ branch = <<>> /\ gone = {}
  /\ operation = NoOp /\ last = "none" /\ plan = NoPlan
  /\ admitted = 0 /\ hooks = 0 /\ rounds = 0

-----------------------------------------------------------------------------
(***************************************************************************)
(* Selecting from the inbox.                                               *)
(***************************************************************************)
IsWrite(x) == x.kind \in {"write", "note"}
Projects(x) == x.kind # "note"
OfKind(kind) == {inbox[i].id : i \in {j \in DOMAIN inbox : inbox[j].kind = kind}}

\* The oldest item of the kind, or all of them.
Chosen(kind, mode) ==
  IF mode = "all" THEN OfKind(kind)
                  ELSE {x \in OfKind(kind) : \A y \in OfKind(kind) : x <= y}

\* The chosen items and the others, in inbox order, whatever the kinds.
Selection(items, ids) ==
  LET upTo[n \in 0..Len(items)] ==
        IF n = 0 THEN <<>>
        ELSE IF items[n].id \in ids THEN Append(upTo[n - 1], items[n]) ELSE upTo[n - 1]
  IN  upTo[Len(items)]
Taken(ids) == Selection(inbox, ids)
Left(ids) == Selection(inbox, Ids(inbox) \ ids)
Writes == {inbox[i].id : i \in {j \in DOMAIN inbox : IsWrite(inbox[j])}}

SelectAcceptedInbox(steering, followUps) ==
  Writes \cup OfKind("nextRun") \cup Chosen("steer", steering)
         \cup Chosen("followUp", followUps)

\* Follow-ups are considered only when nothing else triggers a response.
EverythingButQueues ==               \* mutant: all that is neither steer nor follow-up
  Ids(inbox) \ (OfKind("steer") \cup OfKind("followUp"))
BoundaryWrites == Writes             \* nextRun waits for the next acceptance

Triggers(ids) == \E i \in DOMAIN inbox : inbox[i].id \in ids /\ Projects(inbox[i])

PlanBoundaryInbox(followUpWhenNoTrigger) ==
  LET first == BoundaryWrites \cup Chosen("steer", operation.steering)
  IN  IF followUpWhenNoTrigger /\ ~Triggers(first)
        THEN first \cup Chosen("followUp", operation.followUps) ELSE first

\* The commit inserts the entries and deletes their payloads and inbox items.
PayloadsWithout(ids) == payloads \ ids
Place(ids, more) ==
  /\ branch' = branch \o Taken(ids) \o more
  /\ inbox' = Left(ids)
  /\ payloads' = PayloadsWithout(ids)
  /\ UNCHANGED gone
NothingPlaced == UNCHANGED <<inbox, payloads, branch, gone>>

-----------------------------------------------------------------------------
(***************************************************************************)
(* The lane's own operations.                                              *)
(***************************************************************************)
NextItem(kind) == [id |-> admitted + 1, kind |-> kind]
Admit == admitted < MaxItems /\ admitted' = admitted + 1

Stage(kind) ==
  /\ inbox' = Append(inbox, NextItem(kind))
  /\ payloads' = payloads \cup {admitted + 1}
  /\ UNCHANGED <<branch, gone, operation, last, plan, hooks, rounds>>

\* steer, followUp, nextRun: accepted in every state of the lane.
Enqueue == Admit /\ \E kind \in {"steer", "followUp", "nextRun"} : Stage(kind)

\* appendMessage, appendCustom: staged while an operation is open; otherwise
\* placed at once, behind the writes that are still queued.
WritesLeftBehind == {}               \* mutant: the new entry overtakes them
EarlierWrites == Writes

AppendStaged == Admit /\ Active /\ \E kind \in {"write", "note"} : Stage(kind)
AppendDirect ==
  /\ Admit /\ ~Active
  /\ \E kind \in {"write", "note"} : Place(EarlierWrites, <<NextItem(kind)>>)
  /\ UNCHANGED <<operation, last, plan, hooks, rounds>>

Remove(ids) ==
  /\ inbox' = Left(ids) /\ payloads' = PayloadsWithout(ids) /\ gone' = gone \cup ids
  /\ UNCHANGED branch

CancelQueued ==
  /\ \E x \in Ids(inbox) : Remove({x})
  /\ UNCHANGED <<operation, last, plan, admitted, hooks, rounds>>

Round == rounds < MaxRounds /\ rounds' = rounds + 1

\* A run needs a prompt or a captured message; otherwise InvalidMessage.
AcceptRun ==
  /\ ~Active /\ Round
  /\ \E steering, followUps \in Modes, prompt \in BOOLEAN :
       LET ids == SelectAcceptedInbox(steering, followUps) IN
       /\ prompt \/ ~(ids \subseteq Writes)
       /\ Place(ids, <<>>)
       /\ operation' = [NoOp EXCEPT !.at = "starting", !.steering = steering,
                                    !.followUps = followUps]
  /\ UNCHANGED <<last, plan, admitted, hooks>>

\* compaction and navigation leave the inbox alone.
AcceptStructural ==
  /\ ~Active /\ Round
  /\ operation' = [NoOp EXCEPT !.at = "structural", !.boundary = "finish"]
  /\ NothingPlaced /\ UNCHANGED <<last, plan, admitted, hooks>>

\* The marker and the drain of steer and followUp are one commit; a pass that
\* waits for its hook learns of it in its next command.
RequestAbort ==
  /\ Running
  /\ operation' = [operation EXCEPT !.ctl = "cancel_requested"]
  /\ Remove(OfKind("steer") \cup OfKind("followUp"))
  /\ UNCHANGED <<last, plan, admitted, hooks, rounds>>

-----------------------------------------------------------------------------
(***************************************************************************)
(* The pass: one procedure at a time.                                      *)
(***************************************************************************)
Dispatches(at) == Running /\ plan = NoPlan /\ operation.at = at

Go(at) == operation' = [operation EXCEPT !.at = at, !.boundary = "none"]
GoReady == Go("ready") /\ UNCHANGED last
Compact(cont) ==
  /\ operation' = [operation EXCEPT !.at = "structural", !.cont = cont,
                                    !.boundary = "resume_checkpoint"]
  /\ UNCHANGED last
Finish(status) == operation' = NoOp /\ last' = status

StartRun ==
  /\ Dispatches("starting") /\ Go("checkpoint")
  /\ NothingPlaced /\ UNCHANGED <<last, plan, admitted, hooks, rounds>>

\* The verdict that the run may finish is not committed: the hook runs first.
FinishPending(ids) ==
  /\ plan' = [known |-> TRUE, entries |-> Taken(ids)]
  /\ NothingPlaced /\ UNCHANGED <<operation, last>>

\* Whether the transcript has reached the compaction threshold is open.
RunCheckpoint ==
  /\ Dispatches("checkpoint")
  /\ \E threshold \in BOOLEAN :
       LET ids == PlanBoundaryInbox(~threshold /\ operation.cont = "may_finish") IN
       \/ Triggers(ids) /\ Place(ids, <<>>) /\ GoReady /\ UNCHANGED plan
       \/ /\ ~Triggers(ids) /\ threshold
          /\ Place(ids, <<>>) /\ Compact(operation.cont) /\ UNCHANGED plan
       \/ /\ ~Triggers(ids) /\ ~threshold /\ operation.cont = "need_assistant"
          /\ Place(ids, <<>>) /\ GoReady /\ UNCHANGED plan
       \/ /\ ~Triggers(ids) /\ ~threshold /\ operation.cont = "may_finish"
          /\ FinishPending(ids)
  /\ UNCHANGED <<admitted, hooks, rounds>>

\* finishRunBoundary after before_run_end: replan, then renewed work, the
\* hook's follow-up if the plan it saw is still current, or the end of the run.
Replanned == PlanBoundaryInbox(TRUE)
AnyPlan(ids) == TRUE                 \* mutant: the hook's answer is never stale
HookPlanIsCurrent(ids) == Taken(ids) = plan.entries

FinishRunBoundary ==
  /\ Running /\ plan.known /\ plan' = NoPlan
  /\ LET ids == Replanned IN
       \/ Triggers(ids) /\ Place(ids, <<>>) /\ GoReady /\ UNCHANGED hooks
       \/ /\ ~Triggers(ids) /\ HookPlanIsCurrent(ids) /\ hooks < MaxHooks
          /\ hooks' = hooks + 1
          /\ Place(ids, <<HookEntry>>) /\ GoReady
       \* no follow-up, or one that is not current
       \/ ~Triggers(ids) /\ Place(ids, <<>>) /\ Finish("completed") /\ UNCHANGED hooks
  /\ UNCHANGED <<admitted, rounds>>

\* A response: it ends the turn, asks for tools whose results come back,
\* overflows the context, or fails the run.
Respond ==
  /\ Dispatches("ready") /\ Round
  /\ \/ /\ \E cont \in {"need_assistant", "may_finish"} :
             operation' = [operation EXCEPT !.at = "checkpoint", !.cont = cont]
        /\ UNCHANGED last
     \/ Compact("need_assistant")
     \/ Finish("failed")
  /\ NothingPlaced /\ UNCHANGED <<plan, admitted, hooks>>

\* publishStructuralOutcome of a compaction inside a run: what was planned at
\* the checkpoint is planned again, without follow-ups after a compaction.
PublishResume ==
  /\ Dispatches("structural") /\ operation.boundary = "resume_checkpoint"
  /\ \E declined \in BOOLEAN :
       LET ids == PlanBoundaryInbox(declined /\ operation.cont = "may_finish") IN
       \/ /\ Triggers(ids) \/ operation.cont = "need_assistant"
          /\ Place(ids, <<>>) /\ GoReady /\ UNCHANGED plan
       \/ /\ ~Triggers(ids) /\ operation.cont = "may_finish" /\ ~declined
          /\ Place(ids, <<>>) /\ Go("checkpoint") /\ UNCHANGED <<last, plan>>
       \/ /\ ~Triggers(ids) /\ operation.cont = "may_finish" /\ declined
          /\ FinishPending(ids)
  /\ UNCHANGED <<admitted, hooks, rounds>>

\* A failed compaction ends its run; a standalone operation ends either way
\* (declined counts as failed here).
PublishTerminal ==
  /\ Dispatches("structural")
  /\ \/ Finish("failed")
     \/ operation.boundary = "finish" /\ Finish("completed")
  /\ NothingPlaced /\ UNCHANGED <<plan, admitted, hooks, rounds>>

PlanAfterAbort == NoPlan
\* The cancelled operation ends; what is left in the inbox stays there.
Reconcile ==
  /\ Active /\ operation.ctl = "cancel_requested"
  /\ Finish("aborted") /\ plan' = PlanAfterAbort
  /\ NothingPlaced /\ UNCHANGED <<admitted, hooks, rounds>>

\* The process is lost while the hook runs: the next pass starts again from
\* the leaf.
Crash ==
  /\ plan.known /\ plan' = NoPlan
  /\ UNCHANGED <<inbox, payloads, branch, gone, operation, last, admitted, hooks, rounds>>

Next ==
  \/ Enqueue \/ AppendStaged \/ AppendDirect \/ CancelQueued
  \/ AcceptRun \/ AcceptStructural \/ RequestAbort
  \/ StartRun \/ RunCheckpoint \/ FinishRunBoundary \/ Respond
  \/ PublishResume \/ PublishTerminal \/ Reconcile \/ Crash

Spec == Init /\ [][Next]_vars

-----------------------------------------------------------------------------
(***************************************************************************)
(* Properties.                                                             *)
(***************************************************************************)
\* Every variable has its type; a plan is known only at a leaf that may finish.
TypeOK ==
  /\ inbox \in Seq(Items) /\ branch \in Seq(Items \cup {HookEntry})
  /\ payloads \subseteq 1..MaxItems /\ gone \subseteq 1..MaxItems
  /\ operation \in Operations \cup {NoOp}
  /\ last \in {"none", "completed", "failed", "aborted"}
  /\ plan.known \in BOOLEAN /\ plan.entries \in Seq(Items)
  /\ plan.known => operation.at \in {"checkpoint", "structural"} /\ operation.cont = "may_finish"
  /\ admitted \in 0..MaxItems /\ hooks \in 0..MaxHooks /\ rounds \in 0..MaxRounds

Placed == {x \in Ids(branch) : x # 0}

\* Every admitted item is in exactly one place: queued with its payload row,
\* on the branch, or given back; no drain loses, keeps or repeats one.
OnePlace ==
  /\ TypeOK
  /\ payloads = Ids(inbox)
  /\ 1..admitted = Ids(inbox) \cup Placed \cup gone
  /\ Ids(inbox) \cap Placed = {} /\ gone \cap (Ids(inbox) \cup Placed) = {}
  /\ \A i, j \in DOMAIN branch : branch[i].id = branch[j].id /\ branch[i].id # 0 => i = j
  /\ \A i, j \in DOMAIN inbox : i < j => inbox[i].id < inbox[j].id

\* Messages of one kind reach the branch in the order they were admitted,
\* whichever drains took them; writes and notes are one kind.
Class(x) == IF IsWrite(x) THEN "write" ELSE x.kind
FifoPerKind ==
  \A i, j \in DOMAIN branch :
    i < j /\ Class(branch[i]) = Class(branch[j]) /\ branch[i].kind # "hook" =>
      branch[i].id < branch[j].id

\* Five drains share one inbox: none of them loses, repeats or overtakes what
\* another one left (lane.ts, boundary.ts, checkpoint.ts, structural.ts).
InboxKept == OnePlace /\ FifoPerKind

Completes == /\ Active /\ operation' = NoOp /\ last' = "completed"
             /\ operation.boundary # "finish"
TakesHookFollowUp == hooks' # hooks

\* A run neither completes nor goes on with the hook's follow-up while input
\* for it is queued: what arrived during before_run_end is not left behind.
\* The follow-up is taken only behind exactly the entries planned when the hook
\* was started (docs/harness.md 3.12: stale hook output is discarded).
UserInputFirst ==
  [][/\ Completes \/ TakesHookFollowUp => \A x \in Ids(inbox') :
          \E i \in DOMAIN inbox' : inbox'[i].id = x /\ inbox'[i].kind = "nextRun"
     /\ TakesHookFollowUp => branch' = branch \o plan.entries \o <<HookEntry>>]_vars

\* A next-run message enters the branch only when a run is accepted: no
\* boundary of the run it was queued behind consumes it.
NextRunWaits ==
  [][\A i \in DOMAIN branch' :
       i > Len(branch) /\ branch'[i].kind = "nextRun" =>
         ~Active /\ operation'.at = "starting"]_vars
=============================================================================
