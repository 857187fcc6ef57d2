------------------------------ MODULE LaneDrive ------------------------------
(***************************************************************************)
(* One lane of an AgentHarness: durable operation state, the Session       *)
(* mutation line, the installed drive pass with its effect gate, and       *)
(* durable cancellation (runtime/lane.ts, runtime/drive.ts, runtime/drive/ *)
(* and execution/effect-gate.ts).                                          *)
(*                                                                         *)
(* A step is the synchronous code between two awaits.  A command runs      *)
(* alone on the mutation line: its plan, its commit and the publication of *)
(* `lane.state` are one step.  accept reads nothing before its command and *)
(* runs without passing through `line`: an idle lane has no other command  *)
(* whose order with it matters.                                            *)
(***************************************************************************)
EXTENDS OperationLeaves, Sequences

CONSTANTS MaxPasses,    \* bound: drive passes installed
          MaxAborts,    \* bound: requestAbort calls
          MaxCrashes    \* bound: losses of the process memory

ASSUME DriveAssumption == MaxPasses \in Nat /\ MaxAborts \in Nat /\ MaxCrashes \in Nat

VARIABLES
  \* durable
  operation,  \* the lane's operation state, or NoOperation
  results,    \* operation results, "none" until a terminal transaction
  outcomes,   \* per reserved id: the response entry, staged tool result or usage row
  frames,     \* ids whose pendingAssistantFrames list is not empty
  \* process memory
  line,       \* queued commands of the Session mutation line, oldest first
  drive,      \* the activeDrive and where its continuation stands
  \* history and bounds
  sent,       \* per reserved id: invocations admitted to the outside world
  reserved,   \* ids reserved so far
  passes, aborts, crashes

durable == <<operation, results, outcomes, frames>>
vars == <<operation, results, outcomes, frames, line, drive, sent, reserved,
          passes, aborts, crashes>>

CommandPcs == {"read", "publish", "intent", "nested", "settle", "clear", "stage",
               "place", "boundaryRead", "boundaryPublish", "recover", "terminal"}
GatePcs == {"entry", "gate", "responseGate", "boundaryGate"}
Pcs == CommandPcs \cup GatePcs \cup
       {"none", "hook", "dispatch", "select", "admit", "inflight", "sleepGate",
        "sleeping", "cancelRemote", "parked", "done", "fault"}
LocalResults == {"none", "prepared", "misconfigured", "interrupted", "answer",
                 "aborted", "blocked"}
Outcomes == {"none", "answer", "error", "aborted", "usage"}
Passes == 1..MaxPasses

Drives == [pass: Passes \cup {0}, op: Ops \cup {None}, at: Leaves \cup {"none"},
           pc: Pcs, resume: Pcs, res: LocalResults,
           wait: BOOLEAN, permits: {0, 1},
           gate: {"open", "aborting", "signalled"}, released: BOOLEAN,
           ran: BOOLEAN,    \* history: a command of this pass has run
           moved: BOOLEAN]  \* lane.state.operation.state replaced since dispatch

NoDrive == [pass |-> 0, op |-> None, at |-> "none", pc |-> "none",
            resume |-> "none", res |-> "none", wait |-> FALSE, permits |-> 0,
            gate |-> "open", released |-> FALSE, ran |-> FALSE, moved |-> TRUE]

\* A queued command: the pass's next procedure step, a frame append, the claim
\* of a drive() call, an abort.  `pass` is the pass it acts for or captured,
\* `own` says that this abort call closed that pass's gate.
Jobs == [k: {"drive", "frame", "claim", "abort"}, op: Ops, pass: Passes \cup {0},
         own: BOOLEAN, wait: BOOLEAN, permits: {0, 1}, eff: Effects \cup {NoEffect}]

Job(k, op, pass) == [k |-> k, op |-> op, pass |-> pass, own |-> FALSE,
                     wait |-> FALSE, permits |-> 0, eff |-> NoEffect]
DriveJob(d) == Job("drive", d.op, d.pass)
Pending(k) == \E i \in DOMAIN line : line[i].k = k

Cancelled == operation.ctl = "cancel_requested"
IsCurrent(d) == operation.id = d.op

Init ==
  /\ operation = NoOperation
  /\ results = [o \in Ops |-> "none"]
  /\ outcomes = [e \in Effects |-> "none"]
  /\ frames = {}
  /\ line = <<>>
  /\ drive = NoDrive
  /\ sent = [e \in Effects |-> 0]
  /\ reserved = 0 /\ passes = 0 /\ aborts = 0 /\ crashes = 0

-----------------------------------------------------------------------------
(***************************************************************************)
(* The continuation of the pass goes to a new point; a command is queued   *)
(* by the step that reaches it.                                            *)
(***************************************************************************)
Goto(d, rest) ==
  /\ drive' = d
  /\ line' = IF d.pc \in CommandPcs THEN Append(rest, DriveJob(d)) ELSE rest

To(pc) == [drive EXCEPT !.pc = pc, !.resume = "none"]
ToWith(pc, res) == [To(pc) EXCEPT !.res = res]
Ran(d) == [d EXCEPT !.ran = TRUE]
Park(resume, res) == [drive EXCEPT !.pc = "parked", !.resume = resume, !.res = res]

\* The oldest queued command is the pass's own, at `pc`.
Runs(pc) == drive.pc = pc /\ line # <<>> /\ Head(line).k = "drive"

\* continueOperation finds cancelled control: {kind: "cancel_requested"}.
Back == Goto(Ran(To("dispatch")), Tail(line))

\* The frame list goes with the response's settlement or the terminal cleanup.
FramesNotCleaned(s) == frames       \* mutant: the list outlives its response
FramesAfterCleanup(s) ==
  IF s.at \in {"assistant.effect_pending", "deferred.effect_pending"}
    THEN frames \ {s.eff} ELSE frames

\* settleOperation's commit and finish branches, and the local
\* BoundaryFinishPending, which commits nothing.
Decide(o) ==
  /\ CASE o.status = "none" ->
            /\ operation' = o.state
            /\ frames' = FramesAfterCleanup(operation)
            /\ Goto([Ran(To("dispatch")) EXCEPT !.moved = TRUE], Tail(line))
            /\ UNCHANGED results
       [] o.status = "finish_pending" ->
            /\ Goto(Ran(To("boundaryRead")), Tail(line))
            /\ UNCHANGED <<operation, results, frames>>
       [] OTHER ->
            /\ operation' = NoOperation
            /\ results' = [results EXCEPT ![operation.id] = o.status]
            /\ frames' = FramesAfterCleanup(operation)
            /\ Goto(Ran(To("done")), Tail(line))

\* A SessionInvariantError thrown by the pass: onFault closes the harness.
Fault == Goto(To("fault"), line)

-----------------------------------------------------------------------------
(***************************************************************************)
(* Callers of the lane.                                                    *)
(***************************************************************************)

\* accept: LaneBusy unless idle; commits the operation's first leaf.
Accept(id, kind, leaf) ==
  /\ operation.id = None
  /\ results[id] = "none"
  /\ leaf \in InitialLeaves(kind)
  /\ operation' = InitialOperation(id, kind, leaf)
  /\ UNCHANGED <<results, outcomes, frames, line, drive, sent, reserved,
                 passes, aborts, crashes>>

\* drive() queues its claim.
CallDrive(id, wait, permits) ==
  /\ passes < MaxPasses
  /\ operation.id = id
  /\ passes' = passes + 1
  /\ line' = Append(line, [Job("claim", id, passes + 1) EXCEPT !.wait = wait,
                                                              !.permits = permits])
  /\ UNCHANGED <<durable, drive, sent, reserved, aborts, crashes>>

\* The claim installs a pass for the lane's operation.  Observing an installed
\* pass, a settled operation or a mismatch changes nothing.
RunClaim ==
  /\ line # <<>> /\ Head(line).k = "claim"
  /\ LET job == Head(line)
     IN  drive' = IF operation.id = job.op /\ drive.pc = "none"
                    THEN [NoDrive EXCEPT !.pass = job.pass, !.op = job.op, !.pc = "entry",
                                         !.wait = job.wait, !.permits = job.permits]
                    ELSE drive
  /\ line' = Tail(line)
  /\ UNCHANGED <<durable, sent, reserved, passes, aborts, crashes>>

\* EffectGate.beginAbort: admissions are refused from here, the signal still
\* waits for the durable marker.
SignalAtOnce(gate) == "signalled"            \* mutant
BeginAbort(gate) == IF gate = "open" THEN "aborting" ELSE gate

\* requestOperationAbort up to its command: the active pass is read and its
\* gate begun before the command joins the line.
RequestAbort(id) ==
  LET mine == drive.op = id
  IN  /\ aborts < MaxAborts
      /\ operation.id = id \/ results[id] # "none"
      /\ aborts' = aborts + 1
      /\ drive' = IF mine THEN [drive EXCEPT !.gate = BeginAbort(@)] ELSE drive
      /\ line' = Append(line, [Job("abort", id, IF mine THEN drive.pass ELSE 0)
                                 EXCEPT !.own = mine /\ drive.gate = "open"])
      /\ UNCHANGED <<operation, results, outcomes, frames, sent, reserved,
                     passes, crashes>>

\* Whether this call's settleGate resolves the cancellation a pass awaits.
ResolvesOnlyNewMarker(job, fresh) == job.own /\ fresh        \* mutant
ResolvesCancellation(job, fresh) == job.own

\* Whether the command commits the durable marker.
NewMarker(job) == operation.id = job.op /\ operation.ctl = "running"

\* The abort command: commit the marker, observe it, or find a mismatch.
\* settleGate resolves this call's cancellation and, except on a mismatch,
\* signals the pass it captured.
RunAbort ==
  /\ line # <<>> /\ Head(line).k = "abort"
  /\ LET job == Head(line)
         hit == operation.id = job.op
         fresh == NewMarker(job)
         captured == job.pass # 0 /\ job.pass = drive.pass
     IN  /\ operation' = IF fresh THEN [operation EXCEPT !.ctl = "cancel_requested"]
                                  ELSE operation
         /\ drive' = [drive EXCEPT
              !.released = @ \/ (captured /\ ResolvesCancellation(job, fresh)),
              !.gate = IF captured /\ hit /\ @ = "aborting" THEN "signalled" ELSE @,
              !.moved = @ \/ fresh]
  /\ line' = Tail(line)
  /\ UNCHANGED <<results, outcomes, frames, sent, reserved, passes, aborts, crashes>>

\* The process dies, or the harness is closed or faulted: memory is lost and
\* createAgentHarness restores the lane without driving it.
Crash ==
  /\ crashes < MaxCrashes
  /\ crashes' = crashes + 1
  /\ line' = <<>>
  /\ drive' = NoDrive
  /\ UNCHANGED <<operation, results, outcomes, frames, sent, reserved, passes, aborts>>

-----------------------------------------------------------------------------
(***************************************************************************)
(* The gate: hooks, effects and the retry wait are admitted synchronously  *)
(* while it is open; otherwise the pass waits for the cancellation that    *)
(* began the abort.                                                        *)
(***************************************************************************)
AfterHook ==
  CASE drive.pc = "entry"        -> "dispatch"
    [] drive.pc = "boundaryGate" -> "boundaryPublish"
    [] drive.pc = "responseGate" -> IF drive.at = "tools" THEN "stage" ELSE "settle"
    [] OTHER -> CASE drive.at \in {"starting", "summary.deciding"} -> "publish"
                  [] drive.at = "assistant.effect_pending" -> "admit"
                  [] drive.at = "summary.effect_pending"   -> "nested"
                  [] OTHER -> "intent"

\* Where a pass goes once the cancellation of a refused hook or effect is
\* resolved: the tool procedures and after_response go on, all others unwind
\* to the driver loop.
RefusalPoint == CASE drive.pc = "responseGate" -> "settle"
                  [] drive.pc # "responseGate" /\ drive.at = "tools" -> "stage"
                  [] OTHER -> "dispatch"
RefusalResult ==           \* a refused replay is an interrupted call
  IF RefusalPoint = "stage" /\ drive.res # "interrupted" THEN "aborted" ELSE drive.res
AfterRefusal == Park(RefusalPoint, RefusalResult)

\* driveOperation reads control before before_drive.
EnterCancelled ==
  /\ drive.pc = "entry" /\ IsCurrent(drive) /\ Cancelled
  /\ drive' = To("dispatch")
  /\ UNCHANGED <<durable, line, sent, reserved, passes, aborts, crashes>>

AdmitHook ==
  /\ drive.pc \in GatePcs
  /\ drive.pc = "entry" => IsCurrent(drive) /\ ~Cancelled
  /\ drive.gate = "open"
  /\ drive' = [drive EXCEPT !.pc = "hook", !.resume = AfterHook]
  /\ UNCHANGED <<durable, line, sent, reserved, passes, aborts, crashes>>

\* after_tool is the one hook whose refusal waits for nothing.
RefuseHook ==
  /\ drive.pc \in GatePcs
  /\ drive.pc = "entry" => IsCurrent(drive) /\ ~Cancelled
  /\ drive.gate # "open"
  /\ IF drive.pc = "responseGate" /\ drive.at = "tools"
       THEN Goto(To("stage"), line)
       ELSE Goto(AfterRefusal, line)
  /\ UNCHANGED <<durable, sent, reserved, passes, aborts, crashes>>

HookReturns ==
  /\ drive.pc = "hook"
  /\ \/ Goto(To(drive.resume), line)
     \/ /\ drive.at = "tools" /\ drive.resume = "intent"   \* before_tool blocks
        /\ Goto(ToWith("stage", "blocked"), line)
  /\ UNCHANGED <<durable, sent, reserved, passes, aborts, crashes>>

CancellationResolves ==
  /\ drive.pc = "parked" /\ drive.released
  /\ Goto(To(drive.resume), line)
  /\ UNCHANGED <<durable, sent, reserved, passes, aborts, crashes>>

-----------------------------------------------------------------------------
(***************************************************************************)
(* The driver loop of driveOperation.                                      *)
(***************************************************************************)
Stuck == ~IsCurrent(drive) \/ (~drive.moved /\ ~Cancelled)

Enter(pc, res) ==
  Goto([drive EXCEPT !.pc = pc, !.res = res, !.at = operation.at, !.moved = FALSE], line)

\* One dispatched leaf, up to its first await.
DispatchRunning ==
  LET at == operation.at IN
  \/ /\ at \in {"starting", "checkpoint", "assistant.ready", "assistant.effect_pending",
                "tools", "deferred.suspended", "deferred.effect_pending",
                "summary.deciding", "summary.ready"}
     /\ Enter("read", "none")
  \/ at = "checkpoint" /\ Enter("publish", "none")             \* compaction off
  \/ at = "assistant.ready" /\ Enter("publish", "misconfigured")
  \/ at = "summary.effect_pending" /\ Enter("publish", "interrupted")
  \/ at = "navigation.ready_to_commit" /\ Enter("publish", "none")
  \/ /\ at \in {"assistant.retry_wait", "summary.retry_wait"}
     /\ \/ Enter("publish", "none")                            \* notBefore reached
        \/ Enter(IF drive.wait THEN "sleepGate" ELSE "done", "none")

\* What reconcileOperation does with each leaf.
TerminalForAll(at) == "terminal"             \* mutant: the open effect is dropped
ReconcilePoint(at) ==
  CASE at \in {"assistant.effect_pending", "deferred.suspended",
               "deferred.effect_pending"} -> "recover"
    [] at = "tools" -> "read"
    [] OTHER -> "terminal"

\* reconcileOperation closes its own gate before anything else.
DispatchCancelled ==
  Goto([drive EXCEPT !.pc = ReconcilePoint(operation.at), !.res = "none",
                     !.at = operation.at, !.moved = FALSE, !.gate = "signalled",
                     !.released = @ \/ drive.gate = "open"], line)

Dispatch ==
  /\ drive.pc = "dispatch"
  /\ IF Stuck THEN Fault
     ELSE IF Cancelled THEN DispatchCancelled ELSE DispatchRunning
  /\ UNCHANGED <<durable, sent, reserved, passes, aborts, crashes>>

\* A settled or waiting pass resolves its completion and leaves activeDrive.
Complete ==
  /\ drive.pc = "done"
  /\ drive' = NoDrive
  /\ UNCHANGED <<durable, line, sent, reserved, passes, aborts, crashes>>

\* The retry wait: gate.admit(waitUntil(notBefore, gate.signal)).
Sleep ==
  /\ drive.pc = "sleepGate"
  /\ drive' = IF drive.gate = "open" THEN To("sleeping") ELSE Park("dispatch", "none")
  /\ UNCHANGED <<durable, line, sent, reserved, passes, aborts, crashes>>

WakeByTime ==
  /\ drive.pc = "sleeping"
  /\ Goto(To("publish"), line)
  /\ UNCHANGED <<durable, sent, reserved, passes, aborts, crashes>>

WakeByAbort ==
  /\ drive.pc = "sleeping" /\ drive.gate = "signalled"
  /\ drive' = Park("dispatch", "none")
  /\ UNCHANGED <<durable, line, sent, reserved, passes, aborts, crashes>>
-----------------------------------------------------------------------------
(***************************************************************************)
(* Commands that only read.                                                *)
(***************************************************************************)

\* continueOperation returning a value: the prompt, the bounded context, the
\* committed frames, the deferred handle or the structural preparation.
RunRead ==
  /\ Runs("read") /\ drive.at # "tools"
  /\ IF Cancelled THEN Back
     ELSE \/ /\ drive.at \in {"starting", "assistant.ready", "summary.deciding"}
             /\ Goto(Ran(To("gate")), Tail(line))
          \/ /\ drive.at = "checkpoint"
             /\ Goto(Ran(ToWith("publish", "prepared")), Tail(line))
          \/ /\ drive.at = "assistant.effect_pending"
             /\ Goto(Ran(ToWith("settle", "interrupted")), Tail(line))
          \/ /\ drive.at \in {"deferred.suspended", "deferred.effect_pending"}
             /\ IF drive.permits = 0 THEN Goto(Ran(To("done")), Tail(line))
                ELSE \/ Goto(Ran(To("gate")), Tail(line))
                     \/ Goto(Ran(ToWith("publish", "misconfigured")), Tail(line))
          \/ /\ drive.at = "summary.ready"
             /\ \/ Goto(Ran(To("intent")), Tail(line))
                \/ Goto(Ran(ToWith("publish", "misconfigured")), Tail(line))
  /\ UNCHANGED <<durable, sent, reserved, passes, aborts, crashes>>

\* readToolBatchSource and readPlacement do not look at control.
RunToolRead ==
  /\ Runs("read") /\ drive.at = "tools"
  /\ Goto(Ran(To(IF operation.call = "outcome_ready" THEN "place" ELSE "select")),
          Tail(line))
  /\ UNCHANGED <<durable, sent, reserved, passes, aborts, crashes>>

RunBoundaryRead ==
  /\ Runs("boundaryRead")
  /\ IF Cancelled THEN Back ELSE Goto(Ran(To("boundaryGate")), Tail(line))
  /\ UNCHANGED <<durable, sent, reserved, passes, aborts, crashes>>

\* readDeferredHandle, or the frame read of recoverCancelledAssistantEffect.
RunRecover ==
  /\ Runs("recover")
  /\ IF drive.at = "assistant.effect_pending"
       THEN Goto(Ran(ToWith("settle", "interrupted")), Tail(line))
       ELSE Goto(Ran(To("cancelRemote")), Tail(line))
  /\ UNCHANGED <<durable, sent, reserved, passes, aborts, crashes>>

\* cancelDeferredBestEffort returns or throws; both are ignored.
CancelRemote ==
  /\ drive.pc = "cancelRemote"
  /\ IF drive.at = "deferred.suspended" THEN Goto(To("terminal"), line)
                                        ELSE Goto(ToWith("settle", "interrupted"), line)
  /\ UNCHANGED <<durable, sent, reserved, passes, aborts, crashes>>

-----------------------------------------------------------------------------
(***************************************************************************)
(* Publishing commands under running control (continueOperation).          *)
(***************************************************************************)
PublishOutcomes(s) ==
  CASE drive.at = "starting"              -> StartRunOutcomes(s)
    [] drive.at = "checkpoint" ->
         UNION {RunCheckpointOutcomes(s, plan) :
                  plan \in {"none"} \cup IF drive.res = "prepared" /\ ~s.guarded
                                           THEN {"threshold"} ELSE {}}
    [] drive.at \in {"assistant.ready", "deferred.suspended",
                     "deferred.effect_pending"} -> {Finish("failed")}
    [] drive.at = "assistant.retry_wait"  -> RetryWaitOutcomes(s, "assistant.ready")
    [] drive.at = "summary.retry_wait"    -> RetryWaitOutcomes(s, "summary.ready")
    [] drive.at = "summary.deciding"      ->
         UNION {DecisionOutcomes(s, d) : d \in {"ready", "declined", "result"}}
    [] drive.at = "summary.ready"         -> StructuralOutcomes(s, "failed")
    [] drive.at = "summary.effect_pending" ->
         UNION {AttemptOutcomes(s, r) :
                  r \in IF drive.res = "answer" THEN {"result", "retryable", "failed"}
                                                ELSE {"interrupted"}}
    [] OTHER                              -> {Finish("completed")}  \* commitNavigation

\* Mutant: the plan commits without reading control.
PublishWithoutControl ==
  /\ Runs("publish")
  /\ \E o \in PublishOutcomes(operation) : Decide(o)
  /\ UNCHANGED <<outcomes, sent, reserved, passes, aborts, crashes>>

RunPublish ==
  /\ Runs("publish")
  /\ IF Cancelled THEN Back /\ UNCHANGED <<operation, results, frames>>
                  ELSE \E o \in PublishOutcomes(operation) : Decide(o)
  /\ UNCHANGED <<outcomes, sent, reserved, passes, aborts, crashes>>

RunBoundaryPublish ==
  /\ Runs("boundaryPublish")
  /\ IF Cancelled THEN Back /\ UNCHANGED <<operation, results, frames>>
                  ELSE \E o \in FinishRunBoundaryOutcomes(operation) : Decide(o)
  /\ UNCHANGED <<outcomes, sent, reserved, passes, aborts, crashes>>

-----------------------------------------------------------------------------
(***************************************************************************)
(* Intents: the durable record that an effect is about to be admitted.     *)
(***************************************************************************)
Reserve == reserved < MaxEffects /\ reserved' = reserved + 1

\* Mutant: the pass goes on with the capability it had before the intent.
IntendKeepingOldLeaf(s, pc, permits) ==
  /\ operation' = s
  /\ Goto([Ran(To(pc)) EXCEPT !.moved = TRUE, !.permits = permits], Tail(line))

Intend(s, pc, permits) ==
  /\ operation' = s
  /\ Goto([Ran(To(pc)) EXCEPT !.at = s.at, !.moved = TRUE, !.permits = permits], Tail(line))

RunIntent ==
  /\ Runs("intent")
  /\ ~Cancelled
  /\ \/ /\ drive.at = "assistant.ready"      \* publishGenerationIntent
        /\ Reserve
        /\ Intend([operation EXCEPT !.at = "assistant.effect_pending", !.eff = reserved'],
                  "gate", drive.permits)
        /\ UNCHANGED frames
     \/ /\ drive.at \in {"deferred.suspended", "deferred.effect_pending"}
        /\ Reserve                           \* publishPollIntent
        /\ frames' = FramesAfterCleanup(operation)
        /\ Intend([operation EXCEPT !.at = "deferred.effect_pending", !.eff = reserved'],
                  "admit", 0)
     \/ /\ drive.at = "summary.ready"        \* publishAttemptIntent
        /\ Intend([operation EXCEPT !.at = "summary.effect_pending"], "gate", drive.permits)
        /\ UNCHANGED <<reserved, frames>>
     \/ /\ drive.at = "tools"                \* publishToolIntent
        /\ \E safe \in BOOLEAN :
             Intend([operation EXCEPT !.call = "effect_pending", !.safe = safe],
                    "admit", drive.permits)
        /\ UNCHANGED <<reserved, frames>>
  /\ UNCHANGED <<results, outcomes, sent, passes, aborts, crashes>>

RunIntentCancelled ==
  /\ Runs("intent") /\ Cancelled
  /\ IF drive.at = "tools" THEN Goto(Ran(ToWith("stage", "aborted")), Tail(line))
                           ELSE Back
  /\ UNCHANGED <<durable, sent, reserved, passes, aborts, crashes>>

\* publishNestedRequestIntent
RunNested ==
  /\ Runs("nested") /\ drive.at = "summary.effect_pending"
  /\ IF Cancelled
       THEN Back /\ UNCHANGED <<operation, reserved>>
       ELSE Reserve /\ Intend([operation EXCEPT !.eff = reserved'], "admit", drive.permits)
  /\ UNCHANGED <<results, outcomes, frames, sent, passes, aborts, crashes>>

-----------------------------------------------------------------------------
(***************************************************************************)
(* The effect: a provider stream, a deferred poll, a nested summary        *)
(* request or a tool execution, under the id its intent reserved.          *)
(***************************************************************************)
\* Mutant: the effect starts without asking the gate.
StartUngated ==
  /\ drive.pc = "admit"
  /\ drive' = To("inflight")
  /\ sent' = [sent EXCEPT ![operation.eff] = @ + 1]
  /\ UNCHANGED <<durable, line, reserved, passes, aborts, crashes>>

AdmitEffect ==
  /\ drive.pc = "admit" /\ drive.gate = "open"
  /\ drive' = To("inflight")
  /\ sent' = [sent EXCEPT ![operation.eff] = @ + 1]
  /\ UNCHANGED <<durable, line, reserved, passes, aborts, crashes>>

RefuseEffect ==
  /\ drive.pc = "admit" /\ drive.gate # "open"
  /\ Goto(AfterRefusal, line)
  /\ UNCHANGED <<durable, sent, reserved, passes, aborts, crashes>>

Streams == {"assistant.effect_pending", "deferred.effect_pending"}

\* progress.write: a frame append joins the line; one per response is kept.
WriteFrame ==
  /\ drive.pc = "inflight" /\ drive.at \in Streams
  /\ ~Pending("frame") /\ operation.eff \notin frames
  /\ line' = Append(line, [DriveJob(drive) EXCEPT !.k = "frame",
                                                !.eff = operation.eff])
  /\ UNCHANGED <<durable, drive, sent, reserved, passes, aborts, crashes>>

\* stillOwns in openFrameProgress
RunFrame ==
  /\ line # <<>> /\ Head(line).k = "frame"
  /\ frames' = IF operation.id # None /\ operation.at \in Streams
                    /\ operation.eff = Head(line).eff
                 THEN frames \cup {Head(line).eff} ELSE frames
  /\ line' = Tail(line)
  /\ UNCHANGED <<operation, results, outcomes, drive, sent, reserved, passes, aborts, crashes>>

\* The effect settles; its progress channel is sealed and drained.  A provider
\* reports an aborted response only to a signal that fired.
EffectReturns ==
  /\ drive.pc = "inflight" /\ ~Pending("frame")
  /\ \E res \in {"answer"} \cup IF drive.gate = "signalled" /\ drive.at # "tools"
                               THEN {"aborted"} ELSE {} :
       Goto(ToWith(IF drive.at = "summary.effect_pending" THEN "settle" ELSE "responseGate",
                   res), line)
  /\ UNCHANGED <<durable, sent, reserved, passes, aborts, crashes>>

-----------------------------------------------------------------------------
(***************************************************************************)
(* Settlements: commands that run under either control.                    *)
(***************************************************************************)
Record(outcome) == outcomes' = [outcomes EXCEPT ![operation.eff] = outcome]

ResponseResults ==
  IF drive.res = "interrupted" THEN {"interrupted"}
  ELSE {"stop", "calls", "deferred", "error"} \cup
       IF drive.at = "assistant.effect_pending" THEN {"overflow", "retryable"} ELSE {}

\* publishResponse: the entry, its usage row, the tip and the deletion of the
\* frame list are one commit with the next state.  An aborted answer under
\* running control is a SessionInvariantError.
RunSettleResponse ==
  /\ Runs("settle") /\ drive.at \in Streams
  /\ IF Cancelled
       THEN /\ Record("aborted")
            /\ Decide(Continue(Checkpoint(operation, "may_finish")))
            /\ UNCHANGED reserved
     ELSE IF drive.res = "aborted"
       THEN Goto(Ran(To("fault")), Tail(line)) /\ UNCHANGED <<durable, reserved>>
     ELSE \E r \in ResponseResults :
            /\ IF r = "calls" THEN Reserve ELSE UNCHANGED reserved
            /\ Record(IF r \in {"stop", "calls", "deferred"} THEN "answer" ELSE "error")
            /\ \E o \in ResponseOutcomes(operation, r, reserved') : Decide(o)
  /\ UNCHANGED <<sent, passes, aborts, crashes>>

\* publishNestedRequestOutcome; the summarizer asks again or ends the attempt,
\* which publishAttemptResult refuses for an aborted one under running control.
RunSettleNested ==
  /\ Runs("settle") /\ drive.at = "summary.effect_pending"
  /\ Record("usage")
  /\ operation' = [operation EXCEPT !.eff = NoEffect]
  /\ \E pc \in IF drive.res = "answer" THEN {"gate", "publish"}
               ELSE IF Cancelled THEN {"publish"} ELSE {"fault"} :
       Goto([Ran(To(pc)) EXCEPT !.moved = TRUE], Tail(line))
  /\ UNCHANGED <<results, frames, sent, reserved, passes, aborts, crashes>>

\* publishAbortedTerminal
RunTerminal ==
  /\ Runs("terminal")
  /\ IF Cancelled THEN Decide(Finish("aborted"))
     ELSE Goto(Ran(To("fault")), Tail(line)) /\ UNCHANGED <<operation, results, frames>>
  /\ UNCHANGED <<outcomes, sent, reserved, passes, aborts, crashes>>

-----------------------------------------------------------------------------
(***************************************************************************)
(* The tools leaf (runTools, runSequential) for a batch of one call.       *)
(***************************************************************************)

\* recoverToolInvocation: whether a call found effect_pending may run again.
MayReplay(s) == s.safe

\* The branch of the batch loop on control and on the call's status.
SelectCall ==
  /\ drive.pc = "select"
  /\ CASE Cancelled ->
            Goto(ToWith("stage", IF operation.call = "planned" THEN "aborted"
                                                               ELSE "interrupted"), line)
       [] ~Cancelled /\ operation.call = "planned" ->
            \/ Goto(To("gate"), line)                    \* before_tool
            \/ Goto(ToWith("stage", "blocked"), line)    \* immediate outcome
       [] OTHER ->                                       \* recoverToolInvocation
            \/ MayReplay(operation) /\ Goto(To("clear"), line)
            \/ Goto(ToWith("stage", "interrupted"), line)
  /\ UNCHANGED <<durable, sent, reserved, passes, aborts, crashes>>

\* clearReplayCheckpoint, a command that does not look at control.
RunClear ==
  /\ Runs("clear")
  /\ Goto(Ran(ToWith("admit", "interrupted")), Tail(line))
  /\ UNCHANGED <<durable, sent, reserved, passes, aborts, crashes>>

NotStaged(s) == s                            \* mutant: the call keeps its status
Staged(s) == [s EXCEPT !.call = "outcome_ready"]

\* publishToolOutcome stages the result under its reserved id.
RunStage ==
  /\ Runs("stage")
  /\ Record(CASE drive.res = "answer" -> "answer"
              [] drive.res = "aborted" -> "aborted"
              [] OTHER -> "error")
  /\ operation' = Staged(operation)
  /\ Goto([Ran(To("read")) EXCEPT !.moved = TRUE], Tail(line))
  /\ UNCHANGED <<results, frames, sent, reserved, passes, aborts, crashes>>

\* commitPlacement: the staged result becomes an entry and the batch is over.
RunPlace ==
  /\ Runs("place")
  /\ \E o \in ToolPlacementOutcomes(operation) : Decide(o)
  /\ UNCHANGED <<outcomes, sent, reserved, passes, aborts, crashes>>

-----------------------------------------------------------------------------
PassStep ==
  \/ EnterCancelled \/ AdmitHook \/ RefuseHook \/ HookReturns \/ CancellationResolves
  \/ Dispatch \/ Complete \/ Sleep \/ WakeByTime \/ WakeByAbort
  \/ CancelRemote \/ SelectCall \/ AdmitEffect \/ RefuseEffect \/ EffectReturns

PassCommand ==
  \/ RunRead \/ RunToolRead \/ RunBoundaryRead \/ RunRecover
  \/ RunPublish \/ RunBoundaryPublish
  \/ RunIntent \/ RunIntentCancelled \/ RunNested
  \/ RunSettleResponse \/ RunSettleNested \/ RunTerminal
  \/ RunClear \/ RunStage \/ RunPlace

Next ==
  \/ \E id \in Ops, kind \in Kinds, leaf \in Leaves : Accept(id, kind, leaf)
  \/ \E id \in Ops, wait \in BOOLEAN, permits \in {0, 1} : CallDrive(id, wait, permits)
  \/ RunClaim
  \/ \E id \in Ops : RequestAbort(id)
  \/ RunAbort
  \/ Crash
  \/ PassStep
  \/ PassCommand
  \/ WriteFrame
  \/ RunFrame

Spec == Init /\ [][Next]_vars

\* The continuation of an installed pass and the mutation line never stop by
\* themselves: hooks, providers and tools return, timers fire, commands run.
Fairness == /\ WF_vars(PassStep) /\ WF_vars(PassCommand)
            /\ WF_vars(RunClaim) /\ WF_vars(RunAbort) /\ WF_vars(RunFrame)

FairSpec == Spec /\ Fairness
-----------------------------------------------------------------------------
(***************************************************************************)
(* Properties.                                                             *)
(***************************************************************************)
TypeOK ==
  /\ operation \in OperationStates \cup {NoOperation}
  /\ results \in [Ops -> Statuses \cup {"none"}]
  /\ outcomes \in [Effects -> Outcomes]
  /\ frames \in SUBSET Effects
  /\ line \in Seq(Jobs)
  /\ drive \in Drives
  /\ sent \in [Effects -> Nat]
  /\ reserved \in 0..MaxEffects
  /\ passes \in 0..MaxPasses
  /\ aborts \in Nat /\ crashes \in Nat

\* An effect is admitted only for the lane's own operation, under a committed
\* intent whose outcome is open, and never once cancellation is durable - also
\* when the abort was queued before the pass existed and never saw its gate.
\* A reserved id reaches the provider or the tool once over all passes and
\* crashes; only a call whose tool is replay-safe may be executed again.
EffectBehindIntent ==
  [][\A e \in Effects : sent'[e] # sent[e] =>
        /\ IsCurrent(drive) /\ OwesEffect(operation) /\ operation.eff = e
        /\ ~Cancelled
        /\ outcomes[e] = "none"
        /\ sent[e] = 0 \/ (operation.at = "tools" /\ operation.safe)]_vars

\* A response entry, staged tool result or usage row is written once per id,
\* and as "aborted" only after the marker is durable.
OutcomeWrittenOnce ==
  [][\A e \in Effects :
        /\ outcomes[e] # "none" => outcomes'[e] = outcomes[e]
        /\ outcomes'[e] = "aborted" /\ outcomes[e] # "aborted" => Cancelled]_vars

\* An operation never settles over an assistant response or a tool call that
\* still owes its outcome.
NoAbandonedEffect ==
  [][results' # results =>
        (operation.at \in {"assistant.effect_pending", "tools"}
          => outcomes'[operation.eff] # "none")]_vars

\* The signal handed to hooks, providers and tools fires only for an operation
\* whose cancellation is durable (or which has already settled).
SignalMeansCancelled ==
  drive.gate = "signalled" /\ IsCurrent(drive) => Cancelled

\* A pass that waits for a cancellation is never left waiting: the abort call
\* that closed its gate still has its command on the line.
ParkedHasReleaser ==
  drive.pc = "parked" /\ ~drive.released =>
    \E i \in DOMAIN line : line[i].k = "abort" /\ line[i].own /\ line[i].pass = drive.pass

\* settleOperation casts `operation.state` to the leaf its caller dispatched
\* on without looking; every queued or running procedure still owns that leaf.
Owning == CommandPcs \cup {"gate", "responseGate", "boundaryGate", "select", "admit",
                           "inflight", "sleepGate", "sleeping", "cancelRemote"}
CapabilityCurrent ==
  drive.pc \in Owning => IsCurrent(drive) /\ operation.at = drive.at

\* Partial frames exist only for the response that is pending now: late
\* writes, settlements, replaced polls and terminals leave none behind.
FramesOwned ==
  frames \subseteq (IF operation.id # None /\ operation.at \in Streams
                      THEN {operation.eff} ELSE {})

\* No pass throws a SessionInvariantError: an aborted answer or a terminal
\* reconciliation under running control, a pass without its operation, a
\* procedure that made no progress.
NoFault == drive.pc # "fault"

\* Whatever stops a pass, it goes on: a parked one has its releaser, and none
\* runs into an assertion that would seal every lane of the harness.
PassGoesOn == ParkedHasReleaser /\ NoFault

\* Each operation id follows the promised lifecycle.
status == [o \in Ops |-> IF results[o] # "none" THEN results[o]
                         ELSE IF operation.id # o THEN "absent"
                         ELSE IF Cancelled THEN "cancelling" ELSE "running"]
Lifecycle == INSTANCE OperationLifecycle WITH Ops <- Ops, status <- status
LifecycleSpec == Lifecycle!Spec


\* requestAbort wakes the retry timer after durable cancellation.
AbortWakesRetryWait ==
  drive.pc = "sleeping" /\ Cancelled /\ ~Pending("abort") => drive.gate = "signalled"
=============================================================================
