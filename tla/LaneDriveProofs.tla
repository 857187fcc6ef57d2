--------------------------- MODULE LaneDriveProofs ---------------------------
(***************************************************************************)
(* For all values of the constants: every outcome a procedure may publish  *)
(* is well formed; type correctness of LaneDrive with the ownership of the *)
(* dispatched leaf; then that LaneDrive implements OperationLifecycle, and *)
(* that its abort signal fires only for durable cancellations.             *)
(*                                                                         *)
(* The second half is about effects: what the durable intents, the effect  *)
(* gate and the FIFO mutation line guarantee together.  Effects start      *)
(* behind their intents, outcomes are written once, no operation settles   *)
(* over an open effect, no frames are left behind, and no pass throws or   *)
(* waits for ever.                                                         *)
(***************************************************************************)
EXTENDS LaneDrive, SequenceTheorems, TLAPS

-----------------------------------------------------------------------------
(***************************************************************************)
(* What every procedure decision keeps, for all operation states.          *)
(***************************************************************************)
EffectLeaves == {"assistant.effect_pending", "deferred.effect_pending",
                 "summary.effect_pending"}

\* A pending response has its reserved id; a summary that is not being
\* generated reserves no usage id.
WellFormed(s) ==
  /\ s \in OperationStates
  /\ s.at \in {"assistant.effect_pending", "deferred.effect_pending"} => s.eff \in Effects
  /\ s.at \in SummaryLeaves \ {"summary.effect_pending"} => s.eff = NoEffect

\* A decision under running control names a terminal status, or the next state of the same operation
\* under the same control.  Effect leaves are entered by intents only, and a
\* tool batch starts planned under the id `next`.
Sound(s, o, next) ==
  /\ o.status \in (Statuses \ {"aborted"}) \cup {"none", "finish_pending"}
  /\ o.status = "none" =>
       /\ WellFormed(o.state)
       /\ o.state.id = s.id /\ o.state.ctl = s.ctl
       /\ o.state.at \notin EffectLeaves
       /\ o.state.at = "tools" => o.state.call = "planned" /\ o.state.eff = next

Moved(s, t) == /\ WellFormed(t) /\ t.id = s.id /\ t.ctl = s.ctl
               /\ t.at \notin EffectLeaves /\ t.at # "tools"

\* There is at least one attempt.
LEMMA OneAttempt == 1 \in 1..MaxAttempts
BY LeavesAssumption DEF LeavesAssumption

\* A sound continuation keeps the id and control.
LEMMA MovedSound ==
  ASSUME NEW s, NEW t, NEW next, Moved(s, t)
  PROVE  Sound(s, Continue(t), next)
BY DEF Sound, Continue, Moved

\* A terminal outcome is sound under running control.
LEMMA FinishSound ==
  ASSUME NEW s, NEW next
  PROVE  /\ Sound(s, FinishPending, next)
         /\ \A result \in Statuses \ {"aborted"} : Sound(s, Finish(result), next)
BY DEF Sound, Finish, FinishPending, Statuses

\* accept commits a well-formed operation.
LEMMA InitialWellFormed ==
  ASSUME NEW id \in Ops, NEW kind \in Kinds, NEW leaf \in InitialLeaves(kind)
  PROVE  /\ WellFormed(InitialOperation(id, kind, leaf))
         /\ leaf \notin EffectLeaves /\ leaf # "tools"
<1>1. leaf \in {"starting", "summary.deciding", "navigation.ready_to_commit"}
  BY DEF InitialLeaves, Kinds
<1>2. InitialOperation(id, kind, leaf) \in OperationStates
  BY <1>1, OneAttempt DEF InitialOperation, OperationStates, Leaves, RunLeaves,
     SummaryLeaves, Kinds, Boundaries, CallStatuses
<1>. QED BY <1>1, <1>2 DEF WellFormed, InitialOperation, EffectLeaves

\* Back at the checkpoint the state is well formed.
LEMMA CheckpointMoved ==
  ASSUME NEW s \in OperationStates, NEW cont \in {"need_assistant", "may_finish"}
  PROVE  /\ Moved(s, Checkpoint(s, cont))
         /\ Moved(s, [Checkpoint(s, cont) EXCEPT !.guarded = TRUE])
<1>1. Checkpoint(s, cont) \in OperationStates
  BY OneAttempt DEF Checkpoint, OperationStates, Leaves, RunLeaves, CallStatuses
<1>2. /\ Checkpoint(s, cont).at = "checkpoint"
      /\ Checkpoint(s, cont).id = s.id /\ Checkpoint(s, cont).ctl = s.ctl
  BY DEF Checkpoint, OperationStates
<1>. QED BY <1>1, <1>2 DEF Moved, WellFormed, EffectLeaves, SummaryLeaves, OperationStates

\* A retry that MayRetry allows stays within maxAttempts.
LEMMA RetryWaitMoved ==
  ASSUME NEW s \in OperationStates, MayRetry(s),
         NEW leaf \in {"assistant.retry_wait", "summary.retry_wait"}
  PROVE  Moved(s, RetryWait(s, leaf))
<1>1. s.attempt + 1 \in 1..MaxAttempts
  BY LeavesAssumption DEF LeavesAssumption, MayRetry, OperationStates
<1>2. RetryWait(s, leaf) \in OperationStates
  BY <1>1 DEF RetryWait, OperationStates, Leaves, RunLeaves, SummaryLeaves
<1>. QED BY <1>2 DEF RetryWait, OperationStates, Moved, WellFormed, EffectLeaves

\* assistantReadyAtBoundary gives a well-formed state.
LEMMA AssistantReadyMoved ==
  ASSUME NEW s \in OperationStates, NEW overflow \in BOOLEAN
  PROVE  Moved(s, AssistantReady(s, overflow))
<1>1. AssistantReady(s, overflow) \in OperationStates
  BY OneAttempt DEF AssistantReady, OperationStates, Leaves, RunLeaves
<1>. QED BY <1>1 DEF AssistantReady, OperationStates, Moved, WellFormed,
       EffectLeaves, SummaryLeaves

\* Entering a summary gives a well-formed state.
LEMMA DecidingMoved ==
  ASSUME NEW s \in OperationStates, NEW boundary \in Boundaries,
         NEW cont \in {"need_assistant", "may_finish"}, NEW overflow \in BOOLEAN
  PROVE  Moved(s, Deciding(s, boundary, cont, overflow))
<1>1. Deciding(s, boundary, cont, overflow) \in OperationStates
  BY OneAttempt DEF Deciding, OperationStates, Leaves, SummaryLeaves
<1>. QED BY <1>1 DEF Deciding, OperationStates, Moved, WellFormed, EffectLeaves
-----------------------------------------------------------------------------
\* Every outcome of publishStructuralOutcome is sound.
LEMMA StructuralSound ==
  ASSUME NEW s \in OperationStates, NEW outcome \in {"result", "declined", "failed"},
         NEW o \in StructuralOutcomes(s, outcome), NEW next
  PROVE  Sound(s, o, next)
<1> DEFINE guardedCheckpoint == [Checkpoint(s, "may_finish") EXCEPT !.guarded = TRUE]
<1>1. s.overflow \in BOOLEAN
  BY DEF OperationStates
<1>2. /\ Sound(s, Continue(AssistantReady(s, FALSE)), next)
      /\ Sound(s, Continue(AssistantReady(s, s.overflow)), next)
      /\ Sound(s, Continue(guardedCheckpoint), next)
  BY <1>1, MovedSound, AssistantReadyMoved, CheckpointMoved
<1>3. o \in {Continue(AssistantReady(s, FALSE)), Continue(AssistantReady(s, s.overflow)),
             Continue(guardedCheckpoint), FinishPending}
            \cup {Finish(result) : result \in Statuses \ {"aborted"}}
  BY DEF StructuralOutcomes, Statuses
<1> HIDE DEF guardedCheckpoint
<1>. QED BY <1>2, <1>3, FinishSound

\* Every outcome of the summary hook is sound.
LEMMA DecisionSound ==
  ASSUME NEW s, WellFormed(s), s.at = "summary.deciding",
         NEW decision \in {"ready", "declined", "result"},
         NEW o \in DecisionOutcomes(s, decision), NEW next
  PROVE  Sound(s, o, next)
<1>1. CASE decision = "ready"
  <2>1. [s EXCEPT !.at = "summary.ready"] \in OperationStates
    BY DEF WellFormed, OperationStates, Leaves, SummaryLeaves
  <2>2. Moved(s, [s EXCEPT !.at = "summary.ready"])
    BY <2>1 DEF Moved, WellFormed, OperationStates, EffectLeaves, SummaryLeaves
  <2>. QED BY <1>1, <2>2, MovedSound DEF DecisionOutcomes
<1>2. CASE decision # "ready"
  BY <1>2, StructuralSound DEF DecisionOutcomes, WellFormed
<1>. QED BY <1>1, <1>2

\* Every outcome of a summary attempt is sound.
LEMMA AttemptSound ==
  ASSUME NEW s \in OperationStates,
         NEW result \in {"result", "retryable", "failed", "interrupted"},
         NEW o \in AttemptOutcomes(s, result), NEW next
  PROVE  Sound(s, o, next)
<1>1. CASE result \in {"retryable", "interrupted"} /\ MayRetry(s)
  BY <1>1, RetryWaitMoved, MovedSound DEF AttemptOutcomes
<1>2. CASE ~(result \in {"retryable", "interrupted"} /\ MayRetry(s))
  BY <1>2, StructuralSound DEF AttemptOutcomes
<1>. QED BY <1>1, <1>2

\* The end of a retry wait is sound.
LEMMA RetryWaitOutcomesSound ==
  ASSUME NEW s, WellFormed(s), s.at \in {"assistant.retry_wait", "summary.retry_wait"},
         NEW leaf, leaf = IF s.at = "assistant.retry_wait" THEN "assistant.ready"
                                                           ELSE "summary.ready",
         NEW o \in RetryWaitOutcomes(s, leaf), NEW next
  PROVE  Sound(s, o, next)
<1>1. [s EXCEPT !.at = leaf] \in OperationStates
  BY DEF WellFormed, OperationStates, Leaves, RunLeaves, SummaryLeaves
<1>2. Moved(s, [s EXCEPT !.at = leaf])
  BY <1>1 DEF Moved, WellFormed, OperationStates, EffectLeaves, SummaryLeaves
<1>. QED BY <1>2, MovedSound DEF RetryWaitOutcomes

\* startRun is sound.
LEMMA StartRunSound ==
  ASSUME NEW s \in OperationStates, NEW o \in StartRunOutcomes(s), NEW next
  PROVE  Sound(s, o, next)
BY CheckpointMoved, MovedSound DEF StartRunOutcomes

\* runCheckpoint is sound under each of its plans.
LEMMA RunCheckpointSound ==
  ASSUME NEW s \in OperationStates, NEW plan \in {"none", "threshold"},
         NEW o \in RunCheckpointOutcomes(s, plan), NEW next
  PROVE  Sound(s, o, next)
<1>1. /\ s.overflow \in BOOLEAN /\ s.cont \in {"need_assistant", "may_finish"}
      /\ "threshold" \in Boundaries
  BY DEF OperationStates, Boundaries
<1>2. /\ Sound(s, Continue(AssistantReady(s, FALSE)), next)
      /\ Sound(s, Continue(AssistantReady(s, s.overflow)), next)
      /\ Sound(s, Continue(Deciding(s, "threshold", s.cont, s.overflow)), next)
  BY <1>1, MovedSound, AssistantReadyMoved, DecidingMoved
<1>. QED BY <1>2, FinishSound DEF RunCheckpointOutcomes

\* finishRunBoundary is sound.
LEMMA FinishRunBoundarySound ==
  ASSUME NEW s \in OperationStates, NEW o \in FinishRunBoundaryOutcomes(s), NEW next
  PROVE  Sound(s, o, next)
BY AssistantReadyMoved, MovedSound, FinishSound DEF FinishRunBoundaryOutcomes, Statuses

\* The placement that ends a tool batch is sound.
LEMMA ToolPlacementSound ==
  ASSUME NEW s \in OperationStates, NEW o \in ToolPlacementOutcomes(s), NEW next
  PROVE  Sound(s, o, next) /\ o.status = "none"
<1>1. PICK cont \in {"need_assistant", "may_finish"} : o = Continue(Checkpoint(s, cont))
  BY DEF ToolPlacementOutcomes
<1>. QED BY <1>1, CheckpointMoved, MovedSound DEF Continue

\* Every outcome of publishResponse is sound.
LEMMA ResponseSound ==
  ASSUME NEW s \in OperationStates, NEW next \in Effects \cup {NoEffect},
         NEW result \in {"stop", "calls", "deferred", "error", "overflow",
                         "retryable", "interrupted"},
         NEW o \in ResponseOutcomes(s, result, next)
  PROVE  Sound(s, o, next)
<1> DEFINE suspended == [s EXCEPT !.at = "deferred.suspended", !.eff = NoEffect]
           tools == [s EXCEPT !.at = "tools", !.call = "planned", !.eff = next]
<1>1. Sound(s, Continue(suspended), next)
  <2>1. suspended \in OperationStates
    BY DEF OperationStates, Leaves, RunLeaves
  <2>. QED BY <2>1, MovedSound DEF Moved, WellFormed, OperationStates, EffectLeaves,
              SummaryLeaves
<1>2. Sound(s, Continue(tools), next)
  <2>1. tools \in OperationStates
    BY DEF OperationStates, Leaves, RunLeaves, CallStatuses
  <2>. QED BY <2>1 DEF Sound, Continue, WellFormed, OperationStates, EffectLeaves,
              SummaryLeaves
<1>3. /\ Sound(s, Continue(Checkpoint(s, "may_finish")), next)
      /\ Sound(s, Continue(Deciding(s, "overflow", "need_assistant", TRUE)), next)
      /\ MayRetry(s) => Sound(s, Continue(RetryWait(s, "assistant.retry_wait")), next)
  BY MovedSound, CheckpointMoved, DecidingMoved, RetryWaitMoved DEF Boundaries
<1>4. Sound(s, Finish("failed"), next)
  BY FinishSound DEF Statuses
<1> HIDE DEF suspended, tools
<1>5. \/ o \in {Continue(suspended), Continue(tools), Continue(Checkpoint(s, "may_finish")),
                Continue(Deciding(s, "overflow", "need_assistant", TRUE)), Finish("failed")}
      \/ MayRetry(s) /\ o = Continue(RetryWait(s, "assistant.retry_wait"))
  BY DEF ResponseOutcomes, suspended, tools
<1>. QED BY <1>1, <1>2, <1>3, <1>4, <1>5
-----------------------------------------------------------------------------
(***************************************************************************)
(* The type of the lane and the ownership of the dispatched leaf.          *)
(***************************************************************************)

\* The continuation may touch its leaf now, or will after a hook or a wait.
Owns(d) == \/ d.pc \in Owning
           \/ d.pc \in {"hook", "parked"} /\ d.resume \in Owning

\* Where a continuation may go on.
Targets == Pcs \ {"none", "entry", "hook", "parked"}

LaneWellFormed == operation # NoOperation => WellFormed(operation)

Installed ==
  /\ IF drive.pc = "none" THEN drive = NoDrive
                          ELSE drive.op \in Ops
  /\ drive.pc = "entry" => drive.at = "none"
  /\ drive.pc \in {"hook", "parked"} => drive.resume \in Targets

OwnsCurrentLeaf == Owns(drive) => IsCurrent(drive) /\ operation.at = drive.at

\* TypeOK is inductive only together with the ownership of the leaf: a
\* procedure that updated another operation's state would build a record of no
\* type at all.
Typed == TypeOK /\ LaneWellFormed /\ Installed /\ OwnsCurrentLeaf
-----------------------------------------------------------------------------
\* The records the continuation moves through.
LEMMA ToTyped ==
  ASSUME drive \in Drives, NEW pc \in Pcs
  PROVE  /\ To(pc) \in Drives
         /\ To(pc).pc = pc /\ To(pc).resume = "none"
         /\ To(pc).op = drive.op /\ To(pc).pass = drive.pass
         /\ To(pc).at = drive.at /\ To(pc).res = drive.res
         /\ To(pc).gate = drive.gate /\ To(pc).released = drive.released
         /\ To(pc).ran = drive.ran /\ To(pc).moved = drive.moved
<1>1. "none" \in Pcs
  BY DEF Pcs
<1>2. To(pc) \in Drives
  BY <1>1 DEF To, Drives
<1>. QED BY <1>2 DEF To, Drives

\* To with a local result: only pc, resume and res change.
LEMMA ToWithTyped ==
  ASSUME drive \in Drives, NEW pc \in Pcs, NEW res \in LocalResults
  PROVE  /\ ToWith(pc, res) \in Drives
         /\ ToWith(pc, res).pc = pc /\ ToWith(pc, res).resume = "none"
         /\ ToWith(pc, res).op = drive.op /\ ToWith(pc, res).pass = drive.pass
         /\ ToWith(pc, res).at = drive.at /\ ToWith(pc, res).res = res
         /\ ToWith(pc, res).gate = drive.gate /\ ToWith(pc, res).released = drive.released
         /\ ToWith(pc, res).ran = drive.ran /\ ToWith(pc, res).moved = drive.moved
<1>1. To(pc) \in Drives
  BY ToTyped
<1>2. ToWith(pc, res) \in Drives
  BY <1>1 DEF ToWith, Drives
<1>. QED BY <1>1, <1>2, ToTyped DEF ToWith, Drives

\* Parking keeps the pass, its operation, leaf and gate.
LEMMA ParkTyped ==
  ASSUME drive \in Drives, NEW pc \in Pcs, NEW res \in LocalResults
  PROVE  /\ Park(pc, res) \in Drives
         /\ Park(pc, res).pc = "parked" /\ Park(pc, res).resume = pc
         /\ Park(pc, res).op = drive.op /\ Park(pc, res).pass = drive.pass
         /\ Park(pc, res).at = drive.at /\ Park(pc, res).res = res
         /\ Park(pc, res).gate = drive.gate /\ Park(pc, res).released = drive.released
         /\ Park(pc, res).ran = drive.ran /\ Park(pc, res).moved = drive.moved
<1>1. "parked" \in Pcs
  BY DEF Pcs
<1>2. Park(pc, res) \in Drives
  BY <1>1 DEF Park, Drives
<1>. QED BY <1>2 DEF Park, Drives

\* Ran only sets the history flag.
LEMMA RanTyped ==
  ASSUME NEW d \in Drives
  PROVE  /\ Ran(d) \in Drives /\ Ran(d).ran = TRUE
         /\ Ran(d).pc = d.pc /\ Ran(d).resume = d.resume
         /\ Ran(d).op = d.op /\ Ran(d).pass = d.pass
         /\ Ran(d).at = d.at /\ Ran(d).res = d.res
         /\ Ran(d).gate = d.gate /\ Ran(d).released = d.released
         /\ Ran(d).moved = d.moved
BY DEF Ran, Drives

\* A command that ran and went on keeps the gate.
LEMMA RanToTyped ==
  ASSUME drive \in Drives, NEW pc \in Pcs
  PROVE  /\ Ran(To(pc)).pc = pc
         /\ Ran(To(pc)).gate = drive.gate /\ Ran(To(pc)).released = drive.released
<1>1. PICK d \in Drives : d = To(pc)
  BY ToTyped
<1>2. d.pc = pc /\ d.gate = drive.gate /\ d.released = drive.released
  BY ONLY <1>1, ToTyped, drive \in Drives, pc \in Pcs
<1>3. Ran(d).pc = d.pc /\ Ran(d).gate = d.gate /\ Ran(d).released = d.released
  BY ONLY RanTyped, d \in Drives
<1>. QED BY ONLY <1>1, <1>2, <1>3

\* Marking a moved operation state changes no other field.
LEMMA MovedTyped ==
  ASSUME NEW d \in Drives
  PROVE  LET e == [d EXCEPT !.moved = TRUE]
         IN  /\ e \in Drives /\ e.at = d.at /\ e.pc = d.pc /\ e.resume = d.resume
             /\ e.op = d.op /\ e.pass = d.pass /\ e.res = d.res /\ e.gate = d.gate
             /\ e.released = d.released /\ e.ran = d.ran /\ e.moved = TRUE
BY DEF Drives

\* Goto installs the given continuation and keeps the line a sequence of jobs.
LEMMA GotoTyped ==
  ASSUME NEW d \in Drives, d.pc \in CommandPcs => d.op \in Ops,
         NEW rest \in Seq(Jobs), Goto(d, rest)
  PROVE  drive' = d /\ line' \in Seq(Jobs)
<1>1. d.op \in Ops => DriveJob(d) \in Jobs
  BY DEF DriveJob, Job, Jobs, Drives
<1>. QED BY <1>1 DEF Goto
-----------------------------------------------------------------------------
\* A state of the continuation that still belongs to the installed pass.
SamePass(d) == /\ d \in Drives /\ d.op = drive.op /\ d.pass = drive.pass
               /\ d.pc \notin {"none", "entry"}
               /\ d.pc \in {"hook", "parked"} => d.resume \in Targets

\* What a continuation step has to keep so that Typed holds after it.
LEMMA ContinuationTyped ==
  ASSUME Typed, drive.pc # "none",
         NEW d, SamePass(d), NEW rest \in Seq(Jobs), Goto(d, rest),
         operation' \in OperationStates \cup {NoOperation}, LaneWellFormed',
         Owns(d) => operation'.id = d.op /\ operation'.at = d.at,
         results' \in [Ops -> Statuses \cup {"none"}],
         outcomes' \in [Effects -> Outcomes], frames' \in SUBSET Effects,
         sent' \in [Effects -> Nat], reserved' \in 0..MaxEffects,
         UNCHANGED <<passes, aborts, crashes>>
  PROVE  Typed'
<1>1. d.op \in Ops
  BY DEF SamePass, Typed, Installed
<1>2. drive' = d /\ line' \in Seq(Jobs)
  BY <1>1, GotoTyped DEF SamePass
<1>3. TypeOK'
  BY <1>2 DEF TypeOK, Typed, SamePass
<1>4. Installed'
  BY <1>1, <1>2 DEF Installed, SamePass
<1>5. OwnsCurrentLeaf'
  BY <1>2 DEF OwnsCurrentLeaf, Owns, IsCurrent
<1>. QED BY <1>3, <1>4, <1>5 DEF Typed

\* The same for a step that leaves the durable state alone.
LEMMA ReadingTyped ==
  ASSUME Typed, drive.pc # "none",
         NEW d, SamePass(d), NEW rest \in Seq(Jobs), Goto(d, rest),
         Owns(d) => IsCurrent(drive) /\ operation.at = d.at,
         sent' \in [Effects -> Nat],
         UNCHANGED <<durable, reserved, passes, aborts, crashes>>
  PROVE  Typed'
<1>1. Owns(d) => operation'.id = d.op /\ operation'.at = d.at
  BY DEF IsCurrent, SamePass, durable
<1>2. LaneWellFormed'
  BY DEF LaneWellFormed, Typed, durable
<1>. QED BY <1>1, <1>2, ContinuationTyped DEF Typed, TypeOK, durable

\* To and ToWith stay in the installed pass and own a leaf only at an owning point.
LEMMA ToSame ==
  ASSUME drive \in Drives, NEW pc \in Targets,
         NEW res \in LocalResults
  PROVE  /\ SamePass(To(pc)) /\ SamePass(ToWith(pc, res))
         /\ Owns(To(pc)) => pc \in Owning
         /\ Owns(ToWith(pc, res)) => pc \in Owning
         /\ To(pc).at = drive.at /\ ToWith(pc, res).at = drive.at
BY ToTyped, ToWithTyped DEF SamePass, Owns, Targets

\* A parked continuation belongs to the same pass and queues no command.
LEMMA ParkSame ==
  ASSUME drive \in Drives, NEW pc \in Targets, NEW res \in LocalResults
  PROVE  /\ SamePass(Park(pc, res)) /\ Park(pc, res).at = drive.at
         /\ Owns(Park(pc, res)) => pc \in Owning
         /\ Park(pc, res).pc \notin CommandPcs
BY ParkTyped DEF SamePass, Owns, Owning, CommandPcs, Targets

\* A continuation that reaches no command leaves the line alone: a Goto.
LEMMA StillGoto ==
  ASSUME NEW d, d.pc \notin CommandPcs, drive' = d, line' = line
  PROVE  Goto(d, line)
BY DEF Goto

\* A pass that is refused waits for a point of a procedure it owns already.
LEMMA RefusalPointSame ==
  ASSUME Typed, drive.pc \in GatePcs \cup {"admit"}
  PROVE  /\ RefusalPoint \in Targets
         /\ RefusalResult \in LocalResults
         /\ RefusalPoint \in Owning => drive.pc \in Owning
<1>1. drive \in Drives
  BY DEF Typed, TypeOK
<1>2. RefusalPoint \in {"settle", "stage", "dispatch"}
  BY DEF RefusalPoint
<1>3. RefusalPoint \in Targets
  BY <1>2 DEF Targets, Pcs, CommandPcs
<1>4. RefusalResult \in LocalResults
  BY <1>1 DEF RefusalResult, LocalResults, Drives
<1>5. drive.pc = "entry" => RefusalPoint = "dispatch"
  BY DEF RefusalPoint, Typed, Installed
<1>6. RefusalPoint \in Owning => drive.pc \in Owning
  BY <1>5 DEF GatePcs, Owning, CommandPcs
<1>. QED BY <1>3, <1>4, <1>6

\* Ran changes neither the pass nor what it owns.
LEMMA RanSame ==
  ASSUME NEW d, SamePass(d)
  PROVE  SamePass(Ran(d)) /\ Ran(d).at = d.at /\ (Owns(Ran(d)) <=> Owns(d))
BY RanTyped DEF SamePass, Owns

\* A step that only moves the continuation of a pass that owns its leaf keeps Typed.
LEMMA Reading ==
  ASSUME Typed, drive.pc # "none",
         NEW pc \in Targets, NEW res \in LocalResults, NEW rest \in Seq(Jobs),
         NEW d \in {To(pc), ToWith(pc, res), Ran(To(pc)), Ran(ToWith(pc, res))},
         Goto(d, rest),
         pc \in Owning => Owns(drive),
         sent' \in [Effects -> Nat],
         UNCHANGED <<durable, reserved, passes, aborts, crashes>>
  PROVE  Typed'
<1>1. drive \in Drives
  BY DEF Typed, TypeOK
<1>2. SamePass(d) /\ d.at = drive.at /\ (Owns(d) => pc \in Owning)
  BY <1>1, ToSame, RanSame DEF Targets
<1>3. Owns(d) => IsCurrent(drive) /\ operation.at = d.at
  BY <1>2 DEF Typed, OwnsCurrentLeaf
<1>. QED BY <1>2, <1>3, ReadingTyped

\* The same for a plain To without a command taken off the line.
LEMMA ReadingTo ==
  ASSUME Typed, drive.pc # "none",
         NEW pc \in Targets, Goto(To(pc), line),
         pc \in Owning => Owns(drive),
         sent' \in [Effects -> Nat],
         UNCHANGED <<durable, reserved, passes, aborts, crashes>>
  PROVE  Typed'
BY Reading DEF Typed, TypeOK, LocalResults

\* The same for ToWith.
LEMMA ReadingToWith ==
  ASSUME Typed, drive.pc # "none",
         NEW pc \in Targets, NEW res \in LocalResults, Goto(ToWith(pc, res), line),
         pc \in Owning => Owns(drive),
         sent' \in [Effects -> Nat],
         UNCHANGED <<durable, reserved, passes, aborts, crashes>>
  PROVE  Typed'
BY Reading DEF Typed, TypeOK

\* The same for a refusal that parks.
LEMMA ReadingPark ==
  ASSUME Typed, drive.pc # "none",
         NEW pc \in Targets, NEW res \in LocalResults,
         Goto(Park(pc, res), line),
         pc \in Owning => Owns(drive),
         sent' \in [Effects -> Nat],
         UNCHANGED <<durable, reserved, passes, aborts, crashes>>
  PROVE  Typed'
<1>1. drive \in Drives
  BY DEF Typed, TypeOK
<1>2. /\ SamePass(Park(pc, res)) /\ Park(pc, res).at = drive.at
      /\ Owns(Park(pc, res)) => pc \in Owning
  BY <1>1, ParkSame
<1>3. Owns(Park(pc, res)) => IsCurrent(drive) /\ operation.at = Park(pc, res).at
  BY <1>2 DEF Typed, OwnsCurrentLeaf
<1>. QED BY <1>2, <1>3, ReadingTyped DEF Typed, TypeOK

\* A dispatched leaf is the one the operation stands at.
LEMMA ReadingEnter ==
  ASSUME Typed, drive.pc # "none", IsCurrent(drive),
         NEW d \in Drives, d.op = drive.op, d.pass = drive.pass, d.pc \in Targets,
         d.at = operation.at, Goto(d, line),
         UNCHANGED <<durable, sent, reserved, passes, aborts, crashes>>
  PROVE  Typed'
<1>1. SamePass(d)
  BY DEF SamePass, Targets
<1>. QED BY <1>1, ReadingTyped DEF Typed, TypeOK

\* Where the sets of control points meet.
LEMMA Target ==
  /\ CommandPcs \cup Owning \cup {"dispatch", "done", "fault"} \subseteq Targets
  /\ {"dispatch", "done", "fault", "none", "entry", "hook", "parked"} \cap Owning = {}
  /\ CommandPcs \cap GatePcs = {}
BY DEF Targets, Owning, Pcs, CommandPcs, GatePcs

\* Every step of the continuation outside the line keeps Typed: one case per step.
LEMMA PassStepTyped ==
  ASSUME Typed, PassStep
  PROVE  Typed'
<1>. USE DEF Typed
<1>0. /\ drive \in Drives /\ line \in Seq(Jobs) /\ sent \in [Effects -> Nat]
      /\ drive.res \in LocalResults /\ drive.resume \in Pcs
  BY DEF TypeOK, Drives
<1>1. CASE EnterCancelled
  <2>1. Goto(To("dispatch"), line)
    BY <1>0, <1>1, Target, ToTyped, StillGoto DEF EnterCancelled, CommandPcs, Targets
  <2>. QED BY <1>0, <1>1, <2>1, Target, ReadingTo DEF EnterCancelled
<1>2. CASE AdmitHook
  <2> DEFINE d == [drive EXCEPT !.pc = "hook", !.resume = AfterHook]
  <2>1. AfterHook \in Targets
    BY DEF AfterHook, Targets, Pcs, CommandPcs
  <2>2. "hook" \in Pcs
    BY DEF Pcs
  <2>3. /\ d \in Drives /\ d.pc = "hook" /\ d.resume = AfterHook /\ d.at = drive.at
        /\ d.op = drive.op /\ d.pass = drive.pass
    BY <1>0, <2>1, <2>2 DEF Drives, Targets
  <2>4. SamePass(d)
    BY <2>1, <2>3 DEF SamePass
  <2>5. Owns(d) => Owns(drive)
    BY <1>2, <2>3 DEF AdmitHook, Owns, Owning, CommandPcs, GatePcs, AfterHook
  <2>6. drive' = d
    BY <1>2 DEF AdmitHook
  <2> HIDE DEF d
  <2>7. Goto(d, line)
    BY <1>2, <2>3, <2>6, StillGoto DEF AdmitHook, CommandPcs
  <2>8. Owns(d) => IsCurrent(drive) /\ operation.at = d.at
    BY <2>3, <2>5 DEF OwnsCurrentLeaf
  <2>. QED BY <1>0, <1>2, <2>4, <2>7, <2>8, ReadingTyped DEF AdmitHook, GatePcs
<1>3. CASE RefuseHook
  <2>2. CASE Goto(To("stage"), line) /\ drive.pc = "responseGate"
    BY <1>0, <1>3, <2>2, Target, ReadingTo DEF RefuseHook, Owns, Owning, CommandPcs
  <2>3. CASE Goto(AfterRefusal, line)
    <3>1. drive.pc \in GatePcs /\ drive.pc # "none"
          /\ UNCHANGED <<durable, sent, reserved, passes, aborts, crashes>>
      BY <1>3 DEF RefuseHook, GatePcs
    <3>2. RefusalPoint \in Owning => Owns(drive)
      BY <3>1, RefusalPointSame DEF Owns
    <3>. QED BY <1>0, <2>3, <3>1, <3>2, RefusalPointSame, ReadingPark DEF AfterRefusal
  <2>. QED BY <1>3, <2>2, <2>3 DEF RefuseHook
<1>4. CASE HookReturns
  <2>1. drive.pc = "hook" /\ UNCHANGED <<durable, sent, reserved, passes, aborts, crashes>>
    BY <1>4 DEF HookReturns
  <2>2. CASE Goto(To(drive.resume), line)
    <3>1. drive.resume \in Targets
      BY <2>1 DEF Installed
    <3>2. drive.resume \in Owning => Owns(drive)
      BY <2>1 DEF Owns
    <3>. QED BY <1>0, <2>1, <2>2, <3>1, <3>2, ReadingTo
  <2>3. CASE drive.resume = "intent" /\ Goto(ToWith("stage", "blocked"), line)
    <3>1. Owns(drive)
      BY <2>1, <2>3 DEF Owns, Owning, CommandPcs
    <3>. QED BY <1>0, <2>1, <2>3, <3>1, Target, ReadingToWith DEF LocalResults, CommandPcs
  <2>. QED BY <1>4, <2>2, <2>3 DEF HookReturns
<1>5. CASE CancellationResolves
  <2>1. drive.resume \in Targets
    BY <1>5 DEF CancellationResolves, Installed
  <2>2. drive.resume \in Owning => Owns(drive)
    BY <1>5 DEF CancellationResolves, Owns
  <2>. QED BY <1>0, <1>5, <2>1, <2>2, ReadingTo DEF CancellationResolves
<1>6. CASE Dispatch
  <2>1. CASE Stuck
    BY <1>0, <1>6, <2>1, Target, ReadingTo DEF Dispatch, Fault
  <2>2. CASE ~Stuck
    <3>1. IsCurrent(drive) /\ UNCHANGED <<durable, sent, reserved, passes, aborts, crashes>>
          /\ drive.pc = "dispatch"
      BY <1>6, <2>2 DEF Dispatch, Stuck
    <3>2. operation \in OperationStates
      BY <3>1, LeavesAssumption DEF LeavesAssumption, IsCurrent, TypeOK, Installed,
         NoOperation
    <3>3. CASE Cancelled
      <4> DEFINE d == [drive EXCEPT !.pc = ReconcilePoint(operation.at), !.res = "none",
                              !.at = operation.at, !.moved = FALSE, !.gate = "signalled",
                              !.released = @ \/ drive.gate = "open"]
      <4>1. ReconcilePoint(operation.at) \in Targets
        BY Target DEF ReconcilePoint, CommandPcs
      <4>2. (drive.released \/ drive.gate = "open") \in BOOLEAN
        OBVIOUS
      <4>3. d \in Drives /\ d.op = drive.op /\ d.pass = drive.pass /\ d.pc \in Targets
            /\ d.at = operation.at
        <5>1. PICK e \in Drives : e = drive
          BY <1>0
        <5>2. PICK pc \in Targets : pc = ReconcilePoint(operation.at)
          BY <4>1
        <5>3. PICK at \in Leaves : at = operation.at
          BY <3>2 DEF OperationStates
        <5>4. PICK released \in BOOLEAN : released = (drive.released \/ drive.gate = "open")
          BY <4>2
        <5>5. d = [e EXCEPT !.pc = pc, !.res = "none", !.at = at, !.moved = FALSE,
                            !.gate = "signalled", !.released = released]
          BY <5>1, <5>2, <5>3, <5>4, Zenon DEF d
        <5>6. pc \in Pcs /\ "none" \in LocalResults
          BY DEF Targets, LocalResults
        <5> HIDE DEF d
        <5>7. PICK f : f = d
          OBVIOUS
        <5>8. f \in Drives /\ f.op = e.op /\ f.pass = e.pass /\ f.pc = pc /\ f.at = at
          BY ONLY <5>5, <5>6, <5>7, e \in Drives, at \in Leaves, released \in BOOLEAN DEF Drives
        <5>. QED BY ONLY <5>1, <5>2, <5>3, <5>7, <5>8
      <4>4. Goto(d, line)
        BY <1>6, <2>2, <3>3 DEF Dispatch, DispatchCancelled
      <4> HIDE DEF d
      <4>. QED BY <3>1, <4>3, <4>4, ReadingEnter
    <3>4. CASE ~Cancelled
      <4>1. PICK pc \in {"read", "publish", "sleepGate", "done"}, res \in LocalResults :
              Enter(pc, res)
        BY <1>6, <2>2, <3>4 DEF Dispatch, DispatchRunning, LocalResults
      <4> DEFINE d == [drive EXCEPT !.pc = pc, !.res = res, !.at = operation.at,
                                    !.moved = FALSE]
      <4>2. pc \in Targets
        BY Target DEF CommandPcs, Owning
      <4>3. d \in Drives /\ d.op = drive.op /\ d.pass = drive.pass /\ d.pc \in Targets
            /\ d.at = operation.at
        BY <1>0, <3>2, <4>2 DEF Drives, Targets, OperationStates
      <4>4. Goto(d, line)
        BY <4>1 DEF Enter
      <4> HIDE DEF d
      <4>. QED BY <3>1, <4>3, <4>4, ReadingEnter
    <3>. QED BY <3>3, <3>4
  <2>. QED BY <2>1, <2>2
<1>7. CASE Complete
  <2>1. drive' = NoDrive /\ line' = line /\ UNCHANGED <<durable, sent, reserved, passes, aborts, crashes>>
    BY <1>7 DEF Complete
  <2>2. NoDrive \in Drives
    BY DEF NoDrive, Drives, Pcs, LocalResults
  <2>3. TypeOK' /\ LaneWellFormed'
    BY <2>1, <2>2 DEF TypeOK, durable, LaneWellFormed
  <2>. QED BY <2>1, <2>3 DEF Installed, OwnsCurrentLeaf, Owns, Owning, CommandPcs, NoDrive
<1>8. CASE Sleep
  <2>1. CASE drive' = To("sleeping")
    BY <1>0, <1>8, <2>1, Target, ToTyped, StillGoto, ReadingTo
       DEF Sleep, Owns, Owning, Targets, CommandPcs
  <2>2. CASE drive' = Park("dispatch", "none")
    BY <1>0, <1>8, <2>2, Target, ParkSame, StillGoto, ReadingPark
       DEF Sleep, Targets, LocalResults
  <2>. QED BY <1>8, <2>1, <2>2 DEF Sleep
<1>9. CASE WakeByTime
  <2>1. drive.pc = "sleeping" /\ Goto(To("publish"), line)
        /\ UNCHANGED <<durable, sent, reserved, passes, aborts, crashes>>
    BY <1>9 DEF WakeByTime
  <2>2. Owns(drive) /\ "publish" \in Targets
    BY <2>1, Target DEF Owns, Owning, CommandPcs
  <2>. QED BY <1>0, <2>1, <2>2, ReadingTo
<1>10. CASE WakeByAbort
  BY <1>0, <1>10, Target, ParkSame, StillGoto, ReadingPark
     DEF WakeByAbort, Targets, LocalResults
<1>11. CASE CancelRemote
  <2>1. Owns(drive) /\ drive.pc = "cancelRemote" /\ "terminal" \in Targets /\ "settle" \in Targets
        /\ UNCHANGED <<durable, sent, reserved, passes, aborts, crashes>>
    BY <1>11, Target DEF CancelRemote, Owns, Owning, CommandPcs
  <2>. QED BY <1>0, <1>11, <2>1, ReadingTo, ReadingToWith DEF CancelRemote, LocalResults
<1>12. CASE SelectCall
  <2>1. /\ Owns(drive) /\ drive.pc = "select"
        /\ {"stage", "gate", "clear"} \subseteq Targets
        /\ UNCHANGED <<durable, sent, reserved, passes, aborts, crashes>>
    BY <1>12, Target DEF SelectCall, Owns, Owning, CommandPcs
  <2>2. \/ Goto(To("gate"), line) \/ Goto(To("clear"), line)
        \/ \E res \in LocalResults : Goto(ToWith("stage", res), line)
    BY <1>12 DEF SelectCall, LocalResults
  <2>. QED BY <1>0, <2>1, <2>2, ReadingTo, ReadingToWith
<1>13. CASE AdmitEffect
  <2>1. drive.pc = "admit" /\ "inflight" \in Targets /\ Owns(drive)
    BY <1>13, Target DEF AdmitEffect, Owns, Owning, CommandPcs
  <2>2. sent' \in [Effects -> Nat] /\ Goto(To("inflight"), line)
    <3>1. sent' \in [Effects -> Nat]
      <4>1. sent' = [sent EXCEPT ![operation.eff] = sent[operation.eff] + 1]
        BY <1>13 DEF AdmitEffect
      <4>2. operation.eff \in Effects => sent[operation.eff] + 1 \in Nat
        BY <1>0
      <4>. QED BY <1>0, <4>1, <4>2
    <3>2. To("inflight").pc \notin CommandPcs
      BY <1>0, <2>1, ToTyped DEF Targets, CommandPcs
    <3>3. drive' = To("inflight") /\ line' = line
      BY <1>13 DEF AdmitEffect
    <3>. QED BY <3>1, <3>2, <3>3, StillGoto
  <2>. QED BY <1>13, <2>1, <2>2, ReadingTo DEF AdmitEffect
<1>14. CASE RefuseEffect
  <2>1. Owns(drive)
    BY <1>14 DEF RefuseEffect, Owns, Owning
  <2>. QED BY <1>0, <1>14, <2>1, RefusalPointSame, ReadingPark DEF RefuseEffect, AfterRefusal
<1>15. CASE EffectReturns
  <2>1. /\ Owns(drive) /\ drive.pc = "inflight"
        /\ {"settle", "responseGate"} \subseteq Targets
        /\ UNCHANGED <<durable, sent, reserved, passes, aborts, crashes>>
    BY <1>15, Target DEF EffectReturns, Owns, Owning, CommandPcs
  <2>2. \E pc \in {"settle", "responseGate"}, res \in LocalResults :
           Goto(ToWith(pc, res), line)
    BY <1>15 DEF EffectReturns, LocalResults
  <2>. QED BY <1>0, <2>1, <2>2, ReadingToWith
<1>. QED
  BY <1>1, <1>2, <1>3, <1>4, <1>5, <1>6, <1>7, <1>8, <1>9, <1>10, <1>11, <1>12, <1>13,
     <1>14, <1>15 DEF PassStep
-----------------------------------------------------------------------------
(***************************************************************************)
(* Commands of the pass.                                                   *)
(***************************************************************************)

\* What a command of the pass does to the lane's operation: nothing, a next
\* state of it under the same control, or its terminal transaction, which is
\* "aborted" exactly when the cancellation is durable.
Progress ==
  \/ UNCHANGED <<operation, results>>
  \/ /\ operation \in OperationStates
     /\ WellFormed(operation')
     /\ operation'.id = operation.id /\ operation'.ctl = operation.ctl
     /\ results' = results
  \/ /\ operation \in OperationStates /\ operation.id = drive.op
     /\ operation' = NoOperation
     /\ \E s \in Statuses : /\ results' = [results EXCEPT ![operation.id] = s]
                            /\ s = "aborted" <=> Cancelled

PassKept == /\ drive'.op = drive.op /\ drive'.pass = drive.pass /\ drive'.pc # "none"
            /\ drive'.gate = drive.gate /\ drive'.released = drive.released

OtherVariablesTyped ==
  /\ outcomes' \in [Effects -> Outcomes] /\ frames' \in SUBSET Effects
  /\ sent' \in [Effects -> Nat] /\ reserved' \in 0..MaxEffects
  /\ UNCHANGED <<passes, aborts, crashes>>

\* At a command the lane's operation is the pass's, at the leaf it dispatched.
LEMMA CommandOwns ==
  ASSUME Typed, NEW pc \in CommandPcs, Runs(pc)
  PROVE  /\ drive \in Drives /\ drive.pc = pc /\ drive.pc # "none"
         /\ line # <<>> /\ Tail(line) \in Seq(Jobs)
         /\ operation \in OperationStates /\ WellFormed(operation)
         /\ operation.id = drive.op /\ operation.at = drive.at /\ drive.op \in Ops
         /\ Owns(drive)
<1>1. drive.pc = pc /\ line # <<>>
  BY DEF Runs
<1>2. Owns(drive) /\ drive.pc # "none"
  BY <1>1 DEF Owns, Owning, CommandPcs
<1>3. operation.id = drive.op /\ operation.at = drive.at /\ drive.op \in Ops
  BY <1>2 DEF Typed, OwnsCurrentLeaf, IsCurrent, Installed
<1>4. operation # NoOperation
  BY <1>3, LeavesAssumption DEF LeavesAssumption, NoOperation
<1>. QED BY <1>1, <1>2, <1>3, <1>4 DEF Typed, TypeOK, LaneWellFormed

\* A command of the pass keeps Typed when it leaves the pass at a leaf it owns.
LEMMA CommandTyped ==
  ASSUME Typed, NEW pc \in CommandPcs, Runs(pc),
         NEW d, SamePass(d), d.gate = drive.gate, d.released = drive.released,
         Goto(d, Tail(line)), Progress, OtherVariablesTyped,
         Owns(d) => operation'.id = d.op /\ operation'.at = d.at
  PROVE  Typed' /\ PassKept
<1>1. drive.pc # "none" /\ Tail(line) \in Seq(Jobs) /\ drive.op \in Ops
  BY CommandOwns
<1>2. /\ operation' \in OperationStates \cup {NoOperation}
      /\ LaneWellFormed'
      /\ results' \in [Ops -> Statuses \cup {"none"}]
  BY <1>1 DEF Progress, Typed, TypeOK, LaneWellFormed, WellFormed
<1>3. Typed'
  BY <1>1, <1>2, ContinuationTyped DEF OtherVariablesTyped
<1>4. drive' = d
  BY DEF Goto
<1>. QED BY <1>3, <1>4 DEF PassKept, SamePass

\* A command that changes neither operation nor results, only typed bookkeeping.
LEMMA CommandReads ==
  ASSUME Typed, NEW pc \in CommandPcs, Runs(pc),
         NEW next \in Targets, NEW res \in LocalResults,
         NEW d \in {Ran(To(next)), Ran(ToWith(next, res))}, Goto(d, Tail(line)),
         UNCHANGED <<operation, results>>, OtherVariablesTyped
  PROVE  Typed' /\ PassKept /\ Progress
<1>1. /\ drive \in Drives /\ operation.id = drive.op /\ operation.at = drive.at
  BY CommandOwns
<1>2. next \in Pcs
  BY DEF Targets
<1>3. SamePass(d) /\ d.at = drive.at
  BY <1>1, ToSame, RanSame
<1>4. d.gate = drive.gate /\ d.released = drive.released
  <2>1. /\ To(next) \in Drives /\ ToWith(next, res) \in Drives
        /\ To(next).gate = drive.gate /\ To(next).released = drive.released
        /\ ToWith(next, res).gate = drive.gate /\ ToWith(next, res).released = drive.released
    BY <1>1, <1>2, ToTyped, ToWithTyped
  <2>. QED BY <2>1, RanTyped
<1>5. Owns(d) => operation'.id = d.op /\ operation'.at = d.at
  BY <1>1, <1>3 DEF SamePass
<1>6. Progress
  BY DEF Progress
<1>. QED BY <1>3, <1>4, <1>5, <1>6, CommandTyped

\* The same command when nothing but the continuation changes.
LEMMA CommandOnlyReads ==
  ASSUME Typed, NEW pc \in CommandPcs, Runs(pc),
         NEW next \in Targets, NEW res \in LocalResults,
         NEW d \in {Ran(To(next)), Ran(ToWith(next, res))}, Goto(d, Tail(line)),
         UNCHANGED <<durable, sent, reserved, passes, aborts, crashes>>
  PROVE  Typed' /\ PassKept /\ Progress
<1>1. OtherVariablesTyped
  BY DEF OtherVariablesTyped, durable, Typed, TypeOK
<1>2. UNCHANGED <<operation, results>>
  BY DEF durable
<1>. QED BY <1>1, <1>2, CommandReads

\* A command that commits a new leaf and takes the continuation along with it.
LEMMA CommandMoves ==
  ASSUME Typed, NEW pc \in CommandPcs, Runs(pc),
         WellFormed(operation'), operation'.id = operation.id,
         operation'.ctl = operation.ctl, results' = results,
         NEW next \in Targets, NEW permits \in {0, 1},
         NEW d \in {[Ran(To(next)) EXCEPT !.moved = TRUE],
                    [Ran(To(next)) EXCEPT !.at = operation'.at, !.moved = TRUE,
                                          !.permits = permits]},
         d.at = operation'.at, Goto(d, Tail(line)), OtherVariablesTyped
  PROVE  Typed' /\ PassKept /\ Progress
<1>1. drive \in Drives /\ operation.id = drive.op /\ operation \in OperationStates
  BY CommandOwns
<1>2. SamePass(Ran(To(next))) /\ next \in Pcs
  BY <1>1, ToSame, RanSame DEF Targets, LocalResults
<1>3. Ran(To(next)).gate = drive.gate /\ Ran(To(next)).released = drive.released
  BY ONLY <1>1, <1>2, RanToTyped
<1>4. operation'.at \in Leaves
  BY DEF WellFormed, OperationStates
<1>5. SamePass(d) /\ d.gate = drive.gate /\ d.released = drive.released
  <2> DEFINE r == Ran(To(next))
             e == [r EXCEPT !.moved = TRUE]
             f == [r EXCEPT !.at = operation'.at, !.moved = TRUE, !.permits = permits]
  <2>1. r \in Drives
    BY <1>2 DEF SamePass
  <2> HIDE DEF r
  <2>2. /\ e \in Drives /\ e.pc = r.pc /\ e.resume = r.resume /\ e.op = r.op
        /\ e.pass = r.pass /\ e.gate = r.gate /\ e.released = r.released
    BY <2>1, MovedTyped
  <2>3. /\ f \in Drives /\ f.pc = r.pc /\ f.resume = r.resume /\ f.op = r.op
        /\ f.pass = r.pass /\ f.gate = r.gate /\ f.released = r.released
    BY <2>1, <1>4 DEF Drives
  <2>4. d = e \/ d = f
    BY DEF r
  <2>5. SamePass(r) /\ r.gate = drive.gate /\ r.released = drive.released
    BY <1>2, <1>3 DEF r
  <2> HIDE DEF e, f
  <2>. QED BY <2>2, <2>3, <2>4, <2>5 DEF SamePass
<1>6. Progress
  BY <1>1 DEF Progress
<1>7. Owns(d) => operation'.id = d.op /\ operation'.at = d.at
  BY <1>1, <1>5 DEF SamePass
<1>. QED BY <1>5, <1>6, <1>7, CommandTyped

\* A settleOperation command: a new leaf, a finish mediation or a terminal.
LEMMA CommandDecides ==
  ASSUME Typed, NEW pc \in CommandPcs, Runs(pc), NEW o, Decide(o),
         o.status \in Statuses \cup {"none", "finish_pending"},
         o.status = "none" => /\ WellFormed(o.state)
                              /\ o.state.id = operation.id /\ o.state.ctl = operation.ctl,
         o.status \in Statuses => (o.status = "aborted" <=> Cancelled),
         outcomes' \in [Effects -> Outcomes], sent' \in [Effects -> Nat],
         reserved' \in 0..MaxEffects, UNCHANGED <<passes, aborts, crashes>>
  PROVE  Typed' /\ PassKept /\ Progress
<1>1. /\ drive \in Drives /\ operation.id = drive.op /\ operation \in OperationStates
  BY CommandOwns
<1>2. frames \in SUBSET Effects /\ FramesAfterCleanup(operation) \in SUBSET Effects
  BY DEF Typed, TypeOK, FramesAfterCleanup
<1>3. {"dispatch", "done", "boundaryRead"} \subseteq Targets
  BY Target DEF CommandPcs
<1>4. CASE o.status = "none"
  <2> DEFINE d == [Ran(To("dispatch")) EXCEPT !.moved = TRUE]
  <2>1. /\ operation' = o.state /\ results' = results
        /\ frames' = FramesAfterCleanup(operation) /\ Goto(d, Tail(line))
    BY <1>4 DEF Decide
  <2>2. SamePass(Ran(To("dispatch"))) /\ "dispatch" \in Pcs
    BY <1>1, <1>3, ToSame, RanSame DEF Targets, LocalResults
  <2>3. /\ Ran(To("dispatch")).gate = drive.gate /\ Ran(To("dispatch")).pc = "dispatch"
        /\ Ran(To("dispatch")).released = drive.released
    BY ONLY <1>1, <2>2, RanToTyped
  <2>4. SamePass(d) /\ d.gate = drive.gate /\ d.released = drive.released
        /\ d.pc = "dispatch"
    BY <2>2, <2>3, MovedTyped DEF SamePass, Leaves
  <2>5. OtherVariablesTyped
    BY <1>2, <2>1 DEF OtherVariablesTyped
  <2>6. Progress
    BY <1>1, <1>4, <2>1 DEF Progress
  <2>7. ~Owns(d)
    BY <2>4 DEF Owns, Owning, CommandPcs
  <2> HIDE DEF d
  <2>. QED BY <2>1, <2>4, <2>5, <2>6, <2>7, CommandTyped
<1>5. CASE o.status = "finish_pending"
  <2>1. /\ Goto(Ran(To("boundaryRead")), Tail(line))
        /\ UNCHANGED <<operation, results, frames>>
    BY <1>5 DEF Decide
  <2>. QED BY <1>2, <1>3, <2>1, CommandReads DEF OtherVariablesTyped, LocalResults
<1>6. CASE o.status \notin {"none", "finish_pending"}
  <2>1. /\ operation' = NoOperation
        /\ results' = [results EXCEPT ![operation.id] = o.status]
        /\ frames' = FramesAfterCleanup(operation)
        /\ Goto(Ran(To("done")), Tail(line))
    BY <1>6 DEF Decide
  <2>2. Progress
    BY <1>1, <1>6, <2>1 DEF Progress
  <2>3. SamePass(Ran(To("done"))) /\ "done" \in Pcs
    BY <1>1, <1>3, ToSame, RanSame DEF Targets, LocalResults
  <2>4. /\ Ran(To("done")).gate = drive.gate /\ Ran(To("done")).pc = "done"
        /\ Ran(To("done")).released = drive.released
    BY ONLY <1>1, <2>3, RanToTyped
  <2>5. ~Owns(Ran(To("done")))
    BY <2>4 DEF Owns, Owning, CommandPcs
  <2>6. OtherVariablesTyped
    BY <1>2, <2>1 DEF OtherVariablesTyped
  <2>. QED BY <2>1, <2>2, <2>3, <2>4, <2>5, <2>6, CommandTyped
<1>. QED BY <1>4, <1>5, <1>6

\* The outcome sets a pass command chooses from.
LEMMA PublishSound ==
  ASSUME Typed, Runs("publish"), NEW o \in PublishOutcomes(operation), NEW next
  PROVE  Sound(operation, o, next)
<1>1. /\ WellFormed(operation) /\ operation \in OperationStates
      /\ operation.at = drive.at
  BY CommandOwns DEF CommandPcs
<1>2. CASE drive.at = "starting"
  BY <1>1, <1>2, StartRunSound DEF PublishOutcomes
<1>3. CASE drive.at = "checkpoint"
  <2>1. PICK plan \in {"none", "threshold"} : o \in RunCheckpointOutcomes(operation, plan)
    BY <1>3 DEF PublishOutcomes
  <2>. QED BY <1>1, <2>1, RunCheckpointSound
<1>4. CASE drive.at \in {"assistant.ready", "deferred.suspended", "deferred.effect_pending"}
  BY <1>4, FinishSound DEF PublishOutcomes, Statuses
<1>5. CASE drive.at \in {"assistant.retry_wait", "summary.retry_wait"}
  BY <1>1, <1>5, RetryWaitOutcomesSound DEF PublishOutcomes
<1>6. CASE drive.at = "summary.deciding"
  <2>1. PICK decision \in {"ready", "declined", "result"} :
          o \in DecisionOutcomes(operation, decision)
    BY <1>6 DEF PublishOutcomes
  <2>. QED BY <1>1, <1>6, <2>1, DecisionSound
<1>7. CASE drive.at = "summary.ready"
  BY <1>1, <1>7, StructuralSound DEF PublishOutcomes
<1>8. CASE drive.at = "summary.effect_pending"
  <2>1. PICK result \in {"result", "retryable", "failed", "interrupted"} :
          o \in AttemptOutcomes(operation, result)
    BY <1>8 DEF PublishOutcomes
  <2>. QED BY <1>1, <2>1, AttemptSound
<1>9. CASE drive.at \notin {"starting", "checkpoint", "assistant.ready", "deferred.suspended",
              "deferred.effect_pending", "assistant.retry_wait", "summary.retry_wait",
              "summary.deciding", "summary.ready", "summary.effect_pending"}
  BY <1>9, FinishSound DEF PublishOutcomes, Statuses
<1>. QED BY <1>2, <1>3, <1>4, <1>5, <1>6, <1>7, <1>8, <1>9

\* A sound decision taken under running control.
LEMMA RunningDecides ==
  ASSUME Typed, NEW pc \in CommandPcs, Runs(pc), ~Cancelled,
         NEW o, NEW next, Sound(operation, o, next), Decide(o),
         outcomes' \in [Effects -> Outcomes], sent' \in [Effects -> Nat],
         reserved' \in 0..MaxEffects, UNCHANGED <<passes, aborts, crashes>>
  PROVE  Typed' /\ PassKept /\ Progress
BY CommandDecides DEF Sound, Statuses

\* Writing the outcome of the reserved id keeps the outcomes typed.
LEMMA RecordTyped ==
  ASSUME Typed, NEW outcome \in Outcomes, Record(outcome)
  PROVE  outcomes' \in [Effects -> Outcomes]
BY DEF Record, Typed, TypeOK

\* continueOperation under cancelled control: the pass goes back to the driver loop.
LEMMA BackTyped ==
  ASSUME Typed, NEW pc \in CommandPcs, Runs(pc), Back,
         UNCHANGED <<durable, sent, reserved, passes, aborts, crashes>>
  PROVE  Typed' /\ PassKept /\ Progress
BY Target, CommandOnlyReads DEF Back, LocalResults

\* Reserving an id gives an effect of the bound, larger than every earlier one.
LEMMA ReserveTyped ==
  ASSUME Typed, Reserve
  PROVE  reserved' \in 0..MaxEffects /\ reserved' \in Effects /\ reserved' > reserved
BY LeavesAssumption DEF LeavesAssumption, Reserve, Typed, TypeOK, Effects

\* The intent commands and the commands that stay at their leaf.
LEMMA IntendTyped ==
  ASSUME Typed, NEW pc \in CommandPcs, Runs(pc),
         NEW s, WellFormed(s), s.id = operation.id, s.ctl = operation.ctl,
         NEW next \in Targets, NEW permits \in {0, 1}, Intend(s, next, permits),
         UNCHANGED results, OtherVariablesTyped
  PROVE  Typed' /\ PassKept /\ Progress
<1> DEFINE d == [Ran(To(next)) EXCEPT !.at = s.at, !.moved = TRUE, !.permits = permits]
<1>1. operation' = s /\ Goto(d, Tail(line))
  BY DEF Intend
<1>2. Ran(To(next)) \in Drives
  BY CommandOwns, ToSame, RanSame DEF SamePass, LocalResults
<1>3. d.at = operation'.at
  BY <1>1, <1>2 DEF Drives
<1>4. d \in {[Ran(To(next)) EXCEPT !.moved = TRUE],
              [Ran(To(next)) EXCEPT !.at = operation'.at, !.moved = TRUE,
                                    !.permits = permits]}
  BY <1>1
<1> HIDE DEF d
<1>. QED BY <1>1, <1>3, <1>4, CommandMoves

\* A command that rewrites the state at its leaf.
LEMMA StayTyped ==
  ASSUME Typed, NEW pc \in CommandPcs, Runs(pc),
         WellFormed(operation'), operation'.id = operation.id,
         operation'.ctl = operation.ctl, operation'.at = operation.at,
         UNCHANGED results, OtherVariablesTyped,
         NEW next \in Targets, Goto([Ran(To(next)) EXCEPT !.moved = TRUE], Tail(line))
  PROVE  Typed' /\ PassKept /\ Progress
<1> DEFINE r == Ran(To(next))
           d == [r EXCEPT !.moved = TRUE]
<1>1. r \in Drives /\ r.at = drive.at /\ operation.at = drive.at
  BY CommandOwns, ToSame, RanSame DEF SamePass, LocalResults
<1>2. d.at = r.at
  BY <1>1, MovedTyped
<1>3. d.at = operation'.at
  BY <1>1, <1>2
<1>4. d \in {[Ran(To(next)) EXCEPT !.moved = TRUE],
              [Ran(To(next)) EXCEPT !.at = operation'.at, !.moved = TRUE,
                                    !.permits = 0]}
  OBVIOUS
<1>5. Goto(d, Tail(line))
  OBVIOUS
<1> HIDE DEF d, r
<1>. QED BY <1>3, <1>4, <1>5, CommandMoves

\* Every command of the pass keeps Typed and makes a legal durable step.
LEMMA PassCommandTyped ==
  ASSUME Typed, PassCommand
  PROVE  Typed' /\ PassKept /\ Progress
<1>0. /\ drive \in Drives /\ outcomes \in [Effects -> Outcomes]
      /\ sent \in [Effects -> Nat] /\ reserved \in 0..MaxEffects
      /\ frames \in SUBSET Effects
  BY DEF Typed, TypeOK
<1>c. {"read", "boundaryRead", "recover", "publish", "boundaryPublish", "intent", "nested",
       "settle", "terminal", "clear", "stage", "place"} \subseteq CommandPcs
  BY DEF CommandPcs
<1>t. {"gate", "publish", "settle", "done", "intent", "place", "select", "boundaryGate",
       "cancelRemote", "admit", "stage", "read", "fault", "dispatch"} \subseteq Targets
  BY Target DEF Owning, CommandPcs
<1>r. {"none", "prepared", "misconfigured", "interrupted", "aborted"} \subseteq LocalResults
  BY DEF LocalResults
<1>1. CASE RunRead
  <2>1. Runs("read") /\ UNCHANGED <<durable, sent, reserved, passes, aborts, crashes>>
    BY <1>1 DEF RunRead
  <2>2. CASE Back
    BY <1>c, <2>1, <2>2, BackTyped
  <2>3. CASE ~Back
    <3>1. PICK next \in {"gate", "publish", "settle", "done", "intent"},
               res \in {"none", "prepared", "misconfigured", "interrupted"} :
            \/ Goto(Ran(To(next)), Tail(line)) \/ Goto(Ran(ToWith(next, res)), Tail(line))
      BY <1>1, <2>3 DEF RunRead
    <3>. QED BY <1>c, <1>t, <1>r, <2>1, <3>1, CommandOnlyReads
  <2>. QED BY <2>2, <2>3
<1>2. CASE RunToolRead
  <2>1. /\ Runs("read") /\ UNCHANGED <<durable, sent, reserved, passes, aborts, crashes>>
        /\ \E next \in {"place", "select"} : Goto(Ran(To(next)), Tail(line))
    BY <1>2 DEF RunToolRead
  <2>. QED BY <1>c, <1>t, <1>r, <2>1, CommandOnlyReads
<1>3. CASE RunBoundaryRead
  <2>1. /\ Runs("boundaryRead")
        /\ UNCHANGED <<durable, sent, reserved, passes, aborts, crashes>>
        /\ Back \/ Goto(Ran(To("boundaryGate")), Tail(line))
    BY <1>3 DEF RunBoundaryRead
  <2>. QED BY <1>c, <1>t, <1>r, <2>1, CommandOnlyReads, BackTyped
<1>4. CASE RunRecover
  <2>1. /\ Runs("recover")
        /\ UNCHANGED <<durable, sent, reserved, passes, aborts, crashes>>
        /\ \/ Goto(Ran(ToWith("settle", "interrupted")), Tail(line))
           \/ Goto(Ran(To("cancelRemote")), Tail(line))
    BY <1>4 DEF RunRecover
  <2>. QED BY <1>c, <1>t, <1>r, <2>1, CommandOnlyReads
<1>5. CASE RunPublish
  <2>1. Runs("publish") /\ UNCHANGED <<outcomes, sent, reserved, passes, aborts, crashes>>
    BY <1>5 DEF RunPublish
  <2>2. CASE Cancelled
    BY <1>5, <1>c, <2>1, <2>2, BackTyped DEF RunPublish, durable
  <2>3. CASE ~Cancelled
    BY <1>0, <1>5, <1>c, <2>1, <2>3, PublishSound, RunningDecides DEF RunPublish
  <2>. QED BY <2>2, <2>3
<1>6. CASE RunBoundaryPublish
  <2>1. Runs("boundaryPublish")
        /\ UNCHANGED <<outcomes, sent, reserved, passes, aborts, crashes>>
    BY <1>6 DEF RunBoundaryPublish
  <2>2. CASE Cancelled
    BY <1>6, <1>c, <2>1, <2>2, BackTyped DEF RunBoundaryPublish, durable
  <2>3. CASE ~Cancelled
    <3>1. operation \in OperationStates
      BY <1>c, <2>1, CommandOwns
    <3>2. PICK o \in FinishRunBoundaryOutcomes(operation) : Decide(o)
      BY <1>6, <2>3 DEF RunBoundaryPublish
    <3>. QED BY <1>0, <1>c, <2>1, <2>3, <3>1, <3>2, FinishRunBoundarySound, RunningDecides
  <2>. QED BY <2>2, <2>3
<1>7. CASE RunIntent
  <2>1. /\ Runs("intent") /\ UNCHANGED <<results, outcomes, sent, passes, aborts, crashes>>
    BY <1>7 DEF RunIntent
  <2>2. /\ operation \in OperationStates /\ WellFormed(operation)
        /\ operation.at = drive.at
    BY <1>c, <2>1, CommandOwns
  <2>3. drive.permits \in {0, 1}
    BY <1>0 DEF Drives
  <2>4. CASE /\ drive.at = "assistant.ready" /\ Reserve /\ UNCHANGED frames
             /\ Intend([operation EXCEPT !.at = "assistant.effect_pending",
                                         !.eff = reserved'], "gate", drive.permits)
    <3> DEFINE s == [operation EXCEPT !.at = "assistant.effect_pending", !.eff = reserved']
    <3>1. reserved' \in 0..MaxEffects /\ reserved' \in Effects
      BY <2>4, ReserveTyped
    <3>2. s \in OperationStates /\ s.id = operation.id /\ s.ctl = operation.ctl
          /\ s.at = "assistant.effect_pending" /\ s.eff \in Effects
      BY <2>2, <3>1 DEF OperationStates, Leaves, RunLeaves
    <3>3. WellFormed(s)
      BY <3>2 DEF WellFormed, SummaryLeaves
    <3>4. OtherVariablesTyped
      BY <1>0, <2>1, <2>4, <3>1 DEF OtherVariablesTyped
    <3>5. Intend(s, "gate", drive.permits)
      BY <2>4
    <3> HIDE DEF s
    <3>. QED BY <1>c, <1>t, <2>1, <2>3, <3>2, <3>3, <3>4, <3>5, IntendTyped
  <2>5. CASE /\ Reserve /\ frames' = FramesAfterCleanup(operation)
             /\ Intend([operation EXCEPT !.at = "deferred.effect_pending",
                                         !.eff = reserved'], "admit", 0)
    <3> DEFINE s == [operation EXCEPT !.at = "deferred.effect_pending", !.eff = reserved']
    <3>1. reserved' \in 0..MaxEffects /\ reserved' \in Effects
      BY <2>5, ReserveTyped
    <3>2. s \in OperationStates /\ s.id = operation.id /\ s.ctl = operation.ctl
          /\ s.at = "deferred.effect_pending" /\ s.eff \in Effects
      BY <2>2, <3>1 DEF OperationStates, Leaves, RunLeaves
    <3>3. WellFormed(s)
      BY <3>2 DEF WellFormed, SummaryLeaves
    <3>4. OtherVariablesTyped
      BY <1>0, <2>1, <2>5, <3>1 DEF OtherVariablesTyped, FramesAfterCleanup
    <3>5. Intend(s, "admit", 0)
      BY <2>5
    <3> HIDE DEF s
    <3>. QED BY <1>c, <1>t, <2>1, <3>2, <3>3, <3>4, <3>5, IntendTyped
  <2>6. CASE /\ drive.at = "summary.ready" /\ UNCHANGED <<reserved, frames>>
             /\ Intend([operation EXCEPT !.at = "summary.effect_pending"], "gate",
                       drive.permits)
    <3> DEFINE s == [operation EXCEPT !.at = "summary.effect_pending"]
    <3>2. s \in OperationStates /\ s.id = operation.id /\ s.ctl = operation.ctl
          /\ s.at = "summary.effect_pending"
      BY <2>2 DEF OperationStates, Leaves, SummaryLeaves
    <3>3. WellFormed(s)
      BY <3>2 DEF WellFormed
    <3>4. OtherVariablesTyped
      BY <1>0, <2>1, <2>6 DEF OtherVariablesTyped
    <3>5. Intend(s, "gate", drive.permits)
      BY <2>6
    <3> HIDE DEF s
    <3>. QED BY <1>c, <1>t, <2>1, <2>3, <3>2, <3>3, <3>4, <3>5, IntendTyped
  <2>7. CASE /\ drive.at = "tools" /\ UNCHANGED <<reserved, frames>>
             /\ \E safe \in BOOLEAN :
                  Intend([operation EXCEPT !.call = "effect_pending", !.safe = safe],
                         "admit", drive.permits)
    <3>1. PICK safe \in BOOLEAN :
            Intend([operation EXCEPT !.call = "effect_pending", !.safe = safe],
                   "admit", drive.permits)
      BY <2>7
    <3> DEFINE s == [operation EXCEPT !.call = "effect_pending", !.safe = safe]
    <3>2. s \in OperationStates /\ s.id = operation.id /\ s.ctl = operation.ctl
          /\ s.at = "tools"
      BY <2>2, <2>7 DEF OperationStates, CallStatuses
    <3>3. WellFormed(s)
      BY <3>2 DEF WellFormed, SummaryLeaves
    <3>4. OtherVariablesTyped
      BY <1>0, <2>1, <2>7 DEF OtherVariablesTyped
    <3>5. Intend(s, "admit", drive.permits)
      BY <3>1
    <3> HIDE DEF s
    <3>. QED BY <1>c, <1>t, <2>1, <2>3, <3>2, <3>3, <3>4, <3>5, IntendTyped
  <2>. QED BY <1>7, <2>4, <2>5, <2>6, <2>7 DEF RunIntent
<1>8. CASE RunIntentCancelled
  <2>1. /\ Runs("intent") /\ UNCHANGED <<durable, sent, reserved, passes, aborts, crashes>>
        /\ Back \/ Goto(Ran(ToWith("stage", "aborted")), Tail(line))
    BY <1>8 DEF RunIntentCancelled
  <2>. QED BY <1>c, <1>t, <1>r, <2>1, CommandOnlyReads, BackTyped
<1>9. CASE RunNested
  <2>1. Runs("nested")
        /\ UNCHANGED <<results, outcomes, frames, sent, passes, aborts, crashes>>
    BY <1>9 DEF RunNested
  <2>2. CASE Cancelled
    BY <1>9, <1>c, <2>1, <2>2, BackTyped DEF RunNested, durable
  <2>3. CASE ~Cancelled
    <3> DEFINE s == [operation EXCEPT !.eff = reserved']
    <3>1. Reserve /\ Intend(s, "admit", drive.permits)
      BY <1>9, <2>3 DEF RunNested
    <3>2. reserved' \in 0..MaxEffects /\ reserved' \in Effects
      BY <3>1, ReserveTyped
    <3>3. WellFormed(operation) /\ operation \in OperationStates
          /\ drive.permits \in {0, 1}
      BY <1>0, <1>c, <2>1, CommandOwns DEF Drives
    <3>4. operation.at = "summary.effect_pending"
      BY <1>9, <1>c, <2>1, CommandOwns DEF RunNested
    <3>5. s \in OperationStates /\ s.id = operation.id /\ s.ctl = operation.ctl
          /\ s.at = operation.at
      BY <3>2, <3>3 DEF OperationStates
    <3>6. WellFormed(s)
      BY <3>4, <3>5 DEF WellFormed
    <3>7. OtherVariablesTyped
      BY <1>0, <2>1, <3>2 DEF OtherVariablesTyped
    <3> HIDE DEF s
    <3>. QED BY <1>c, <1>t, <2>1, <3>1, <3>3, <3>5, <3>6, <3>7, IntendTyped
  <2>. QED BY <2>2, <2>3
<1>10. CASE RunSettleResponse
  <2>1. /\ Runs("settle") /\ drive.at \in Streams
        /\ UNCHANGED <<sent, passes, aborts, crashes>>
    BY <1>10 DEF RunSettleResponse
  <2>2. operation \in OperationStates
    BY <1>c, <2>1, CommandOwns
  <2>3. CASE Cancelled
    <3> DEFINE o == Continue(Checkpoint(operation, "may_finish"))
    <3>1. Record("aborted") /\ Decide(o) /\ UNCHANGED reserved
      BY <1>10, <2>3 DEF RunSettleResponse
    <3>2. outcomes' \in [Effects -> Outcomes]
      BY <3>1, RecordTyped DEF Outcomes
    <3>3. Moved(operation, Checkpoint(operation, "may_finish"))
      BY <2>2, CheckpointMoved
    <3>4. o.status = "none" /\ o.state = Checkpoint(operation, "may_finish")
      BY DEF Continue
    <3> HIDE DEF o
    <3>. QED BY <1>0, <1>c, <2>1, <3>1, <3>2, <3>3, <3>4, CommandDecides DEF Moved, Statuses
  <2>4. CASE ~Cancelled /\ drive.res = "aborted"
    <3>1. Goto(Ran(To("fault")), Tail(line)) /\ UNCHANGED <<durable, reserved>>
      BY <1>10, <2>4 DEF RunSettleResponse
    <3>. QED BY <1>c, <1>t, <1>r, <2>1, <3>1, CommandOnlyReads
  <2>5. CASE ~Cancelled /\ drive.res # "aborted"
    <3>1. PICK r \in ResponseResults :
            /\ IF r = "calls" THEN Reserve ELSE UNCHANGED reserved
            /\ Record(IF r \in {"stop", "calls", "deferred"} THEN "answer" ELSE "error")
            /\ \E o \in ResponseOutcomes(operation, r, reserved') : Decide(o)
      BY <1>10, <2>5 DEF RunSettleResponse
    <3>2. r \in {"stop", "calls", "deferred", "error", "overflow", "retryable",
                  "interrupted"}
      BY DEF ResponseResults
    <3>3. reserved' \in 0..MaxEffects
      BY <1>0, <3>1, ReserveTyped
    <3>4. reserved' \in Effects \cup {NoEffect}
      BY <3>3, LeavesAssumption DEF LeavesAssumption, Effects, NoEffect
    <3>5. outcomes' \in [Effects -> Outcomes]
      BY <3>1, RecordTyped DEF Outcomes
    <3>6. PICK o \in ResponseOutcomes(operation, r, reserved') : Decide(o)
      BY <3>1
    <3>7. Sound(operation, o, reserved')
      BY <2>2, <3>2, <3>4, <3>6, ResponseSound
    <3>. QED BY <1>0, <1>c, <2>1, <2>5, <3>3, <3>5, <3>6, <3>7, RunningDecides
  <2>. QED BY <2>3, <2>4, <2>5
<1>11. CASE RunSettleNested
  <2>1. /\ Runs("settle") /\ drive.at = "summary.effect_pending" /\ Record("usage")
        /\ operation' = [operation EXCEPT !.eff = NoEffect]
        /\ UNCHANGED <<results, frames, sent, reserved, passes, aborts, crashes>>
    BY <1>11 DEF RunSettleNested
  <2>2. PICK next \in {"gate", "publish", "fault"} :
          Goto([Ran(To(next)) EXCEPT !.moved = TRUE], Tail(line))
    BY <1>11 DEF RunSettleNested
  <2>3. operation \in OperationStates /\ operation.at = "summary.effect_pending"
    BY <1>c, <2>1, CommandOwns
  <2>4. /\ operation' \in OperationStates /\ operation'.id = operation.id
        /\ operation'.ctl = operation.ctl /\ operation'.at = operation.at
    BY <2>1, <2>3 DEF OperationStates
  <2>5. WellFormed(operation')
    BY <2>3, <2>4 DEF WellFormed
  <2>6. OtherVariablesTyped
    BY <1>0, <2>1, RecordTyped DEF OtherVariablesTyped, Outcomes
  <2>. QED BY <1>c, <1>t, <2>1, <2>2, <2>4, <2>5, <2>6, StayTyped
<1>12. CASE RunTerminal
  <2>1. Runs("terminal") /\ UNCHANGED <<outcomes, sent, reserved, passes, aborts, crashes>>
    BY <1>12 DEF RunTerminal
  <2>2. CASE Cancelled
    <3>1. Decide(Finish("aborted"))
      BY <1>12, <2>2 DEF RunTerminal
    <3>2. Finish("aborted").status = "aborted"
      BY DEF Finish
    <3>. QED BY <1>0, <1>c, <2>1, <2>2, <3>1, <3>2, CommandDecides DEF Statuses
  <2>3. CASE ~Cancelled
    <3>1. Goto(Ran(To("fault")), Tail(line)) /\ UNCHANGED durable
      BY <1>12, <2>1, <2>3 DEF RunTerminal, durable
    <3>. QED BY <1>c, <1>t, <1>r, <2>1, <3>1, CommandOnlyReads
  <2>. QED BY <2>2, <2>3
<1>13. CASE RunClear
  <2>1. /\ Runs("clear") /\ UNCHANGED <<durable, sent, reserved, passes, aborts, crashes>>
        /\ Goto(Ran(ToWith("admit", "interrupted")), Tail(line))
    BY <1>13 DEF RunClear
  <2>. QED BY <1>c, <1>t, <1>r, <2>1, CommandOnlyReads
<1>14. CASE RunStage
  <2>1. /\ Runs("stage") /\ operation' = Staged(operation)
        /\ UNCHANGED <<results, frames, sent, reserved, passes, aborts, crashes>>
        /\ Goto([Ran(To("read")) EXCEPT !.moved = TRUE], Tail(line))
    BY <1>14 DEF RunStage
  <2>2. outcomes' \in [Effects -> Outcomes]
    <3>1. PICK outcome \in Outcomes : Record(outcome)
      BY <1>14 DEF RunStage, Outcomes
    <3>. QED BY <3>1, RecordTyped
  <2>3. WellFormed(operation)
    BY <1>c, <2>1, CommandOwns
  <2>4. /\ operation' \in OperationStates /\ operation'.id = operation.id
        /\ operation'.ctl = operation.ctl /\ operation'.at = operation.at
        /\ operation'.eff = operation.eff
    BY <2>1, <2>3 DEF OperationStates, Staged, CallStatuses, WellFormed
  <2>5. WellFormed(operation')
    BY <2>3, <2>4 DEF WellFormed
  <2>6. OtherVariablesTyped
    BY <1>0, <2>1, <2>2 DEF OtherVariablesTyped
  <2>. QED BY <1>c, <1>t, <2>1, <2>4, <2>5, <2>6, StayTyped
<1>15. CASE RunPlace
  <2>1. Runs("place") /\ UNCHANGED <<outcomes, sent, reserved, passes, aborts, crashes>>
    BY <1>15 DEF RunPlace
  <2>2. PICK o \in ToolPlacementOutcomes(operation) : Decide(o)
    BY <1>15 DEF RunPlace
  <2>3. operation \in OperationStates
    BY <1>c, <2>1, CommandOwns
  <2>4. Sound(operation, o, NoEffect) /\ o.status = "none"
    BY <2>2, <2>3, ToolPlacementSound
  <2>. QED BY <1>0, <1>c, <2>1, <2>2, <2>4, CommandDecides DEF Sound, Statuses
<1>. QED
  BY <1>1, <1>2, <1>3, <1>4, <1>5, <1>6, <1>7, <1>8, <1>9, <1>10, <1>11, <1>12, <1>13,
     <1>14, <1>15 DEF PassCommand
-----------------------------------------------------------------------------
(***************************************************************************)
(* Callers, frames and the initial state.                                  *)
(***************************************************************************)
LEMMA InitTyped ==
  Init => Typed
<1>1. NoDrive \in Drives
  BY DEF NoDrive, Drives, Pcs, LocalResults
<1>2. 0 \in 0..MaxEffects /\ 0 \in 0..MaxPasses
  BY LeavesAssumption, DriveAssumption DEF LeavesAssumption, DriveAssumption
<1>3. Init => TypeOK
  BY <1>1, <1>2 DEF Init, TypeOK, Outcomes
<1>. QED BY <1>3 DEF Init, Typed, LaneWellFormed, Installed, OwnsCurrentLeaf, Owns,
       Owning, CommandPcs, NoDrive

\* The commands callers put on the line are typed jobs.
LEMMA JobTyped ==
  ASSUME NEW k \in {"drive", "frame", "claim", "abort"}, NEW op \in Ops,
         NEW pass \in Passes \cup {0}
  PROVE  /\ Job(k, op, pass) \in Jobs
         /\ \A wait \in BOOLEAN, permits \in {0, 1} :
              [Job(k, op, pass) EXCEPT !.wait = wait, !.permits = permits] \in Jobs
         /\ \A own \in BOOLEAN : [Job(k, op, pass) EXCEPT !.own = own] \in Jobs
         /\ \A eff \in Effects : [Job(k, op, pass) EXCEPT !.k = "frame", !.eff = eff] \in Jobs
<1>1. Job(k, op, pass) \in Jobs
  BY DEF Job, Jobs
<1>. QED BY <1>1 DEF Jobs

\* Without a pass nothing is owned.
LEMMA NothingInstalled ==
  ASSUME Typed, drive' = NoDrive
  PROVE  Installed' /\ OwnsCurrentLeaf' /\ drive' \in Drives
BY DEF Installed, OwnsCurrentLeaf, Owns, Owning, CommandPcs, NoDrive, Drives, Pcs,
       LocalResults

\* Accept, drive, requestAbort, frames and crashes keep Typed.
LEMMA CallersTyped ==
  ASSUME Typed, Next, ~PassStep, ~PassCommand
  PROVE  Typed'
<1>. USE DEF Typed
<1>0. /\ drive \in Drives /\ line \in Seq(Jobs) /\ frames \in SUBSET Effects
      /\ operation \in OperationStates \cup {NoOperation} /\ passes \in 0..MaxPasses
      /\ aborts \in Nat /\ crashes \in Nat
  BY DEF TypeOK
<1>1. ASSUME NEW id \in Ops, NEW kind \in Kinds, NEW leaf \in Leaves,
             Accept(id, kind, leaf)
      PROVE  Typed'
  <2>1. operation.id = None /\ leaf \in InitialLeaves(kind)
        /\ operation' = InitialOperation(id, kind, leaf)
        /\ UNCHANGED <<results, outcomes, frames, line, drive, sent, reserved,
                       passes, aborts, crashes>>
    BY <1>1 DEF Accept
  <2>2. WellFormed(operation')
    BY <2>1, InitialWellFormed
  <2>3. ~Owns(drive)
    <3>1. SUFFICES ASSUME Owns(drive) PROVE FALSE
      OBVIOUS
    <3>2. drive.pc # "none"
      BY <3>1 DEF Owns, Owning, CommandPcs
    <3>3. drive.op = None /\ drive.op \in Ops
      BY <2>1, <3>1, <3>2 DEF OwnsCurrentLeaf, IsCurrent, Installed
    <3>. QED BY <3>3, LeavesAssumption DEF LeavesAssumption
  <2>4. TypeOK' /\ LaneWellFormed'
    BY <2>1, <2>2 DEF TypeOK, LaneWellFormed, WellFormed
  <2>5. Installed' /\ OwnsCurrentLeaf'
    BY <2>1, <2>3 DEF Installed, OwnsCurrentLeaf, Owns
  <2>. QED BY <2>4, <2>5
<1>2. ASSUME NEW id \in Ops, NEW wait \in BOOLEAN, NEW permits \in {0, 1},
             CallDrive(id, wait, permits)
      PROVE  Typed'
  <2>1. /\ passes' = passes + 1 /\ passes < MaxPasses
        /\ line' = Append(line, [Job("claim", id, passes + 1)
                                   EXCEPT !.wait = wait, !.permits = permits])
        /\ UNCHANGED <<durable, drive, sent, reserved, aborts, crashes>>
    BY <1>2 DEF CallDrive
  <2>2. passes + 1 \in Passes /\ passes' \in 0..MaxPasses
    BY <1>0, <2>1, DriveAssumption DEF DriveAssumption, Passes
  <2>3. line' \in Seq(Jobs)
    <3> DEFINE job == [Job("claim", id, passes + 1) EXCEPT !.wait = wait, !.permits = permits]
    <3>1. job \in Jobs
      BY <2>2, JobTyped
    <3>2. line' = Append(line, job)
      BY <2>1
    <3> HIDE DEF job
    <3>. QED BY <1>0, <3>1, <3>2
  <2>. QED BY <2>1, <2>2, <2>3 DEF TypeOK, durable, LaneWellFormed, Installed,
              OwnsCurrentLeaf, Owns, IsCurrent
<1>3. CASE RunClaim
  <2>1. /\ line # <<>> /\ line' = Tail(line)
        /\ UNCHANGED <<durable, sent, reserved, passes, aborts, crashes>>
    BY <1>3 DEF RunClaim
  <2>2. Head(line) \in Jobs /\ line' \in Seq(Jobs)
    BY <1>0, <2>1
  <2>3. CASE drive' = drive
    BY <2>1, <2>2, <2>3 DEF TypeOK, durable, LaneWellFormed, Installed, OwnsCurrentLeaf,
       Owns, IsCurrent
  <2>4. CASE drive' # drive
    <3> DEFINE job == Head(line)
    <3>1. drive' = [NoDrive EXCEPT !.pass = job.pass, !.op = job.op, !.pc = "entry",
                                   !.wait = job.wait, !.permits = job.permits]
          /\ job.k = "claim"
      BY <1>3, <2>4 DEF RunClaim
    <3>2. job.op \in Ops /\ job.pass \in Passes \cup {0} /\ job.wait \in BOOLEAN
          /\ job.permits \in {0, 1}
      BY <2>2 DEF Jobs
    <3> HIDE DEF job
    <3>3. NoDrive \in Drives /\ "entry" \in Pcs /\ NoDrive.at = "none"
      BY DEF NoDrive, Drives, Pcs, GatePcs, LocalResults
    <3>4. drive' \in Drives /\ drive'.pc = "entry" /\ drive'.op = job.op
          /\ drive'.pass = job.pass /\ drive'.at = "none"
      BY <3>1, <3>2, <3>3 DEF Drives
    <3>6. TypeOK' /\ LaneWellFormed'
      BY <2>1, <2>2, <3>4 DEF TypeOK, durable, LaneWellFormed
    <3>7. Installed' /\ OwnsCurrentLeaf'
      BY <3>2, <3>4 DEF Installed, OwnsCurrentLeaf, Owns, Owning, CommandPcs
    <3>. QED BY <3>6, <3>7
  <2>. QED BY <2>3, <2>4
<1>4. ASSUME NEW id \in Ops, RequestAbort(id)
      PROVE  Typed'
  <2>1. /\ drive' = IF drive.op = id THEN [drive EXCEPT !.gate = BeginAbort(@)] ELSE drive
        /\ line' = Append(line, [Job("abort", id, IF drive.op = id THEN drive.pass ELSE 0)
                                   EXCEPT !.own = drive.op = id /\ drive.gate = "open"])
        /\ aborts' = aborts + 1
        /\ UNCHANGED <<operation, results, outcomes, frames, sent, reserved,
                       passes, crashes>>
    BY <1>4 DEF RequestAbort
  <2>2. line' \in Seq(Jobs)
    <3>1. (IF drive.op = id THEN drive.pass ELSE 0) \in Passes \cup {0}
      BY <1>0 DEF Drives
    <3>2. (drive.op = id /\ drive.gate = "open") \in BOOLEAN
      OBVIOUS
    <3>3. [Job("abort", id, IF drive.op = id THEN drive.pass ELSE 0)
             EXCEPT !.own = drive.op = id /\ drive.gate = "open"] \in Jobs
      BY <3>1, <3>2, JobTyped
    <3>. QED BY <1>0, <2>1, <3>3
  <2>3. CASE drive.op = id
    <3> DEFINE d == [drive EXCEPT !.gate = BeginAbort(drive.gate)]
    <3>1. BeginAbort(drive.gate) \in {"open", "aborting", "signalled"}
      BY <1>0 DEF BeginAbort, Drives
    <3>2. d \in Drives /\ d.pc = drive.pc /\ d.op = drive.op /\ d.at = drive.at
          /\ d.resume = drive.resume
      BY <1>0, <3>1 DEF Drives
    <3>3. drive.pc # "none"
      BY <2>3, LeavesAssumption DEF LeavesAssumption, Installed, NoDrive
    <3>4. drive' = d
      BY <2>1, <2>3
    <3> HIDE DEF d
    <3>u. /\ aborts' \in Nat
          /\ UNCHANGED <<operation, results, outcomes, frames, sent, reserved, passes, crashes>>
      BY <1>0, <2>1
    <3>5. TypeOK' /\ LaneWellFormed'
      BY <2>2, <3>2, <3>4, <3>u DEF TypeOK, LaneWellFormed
    <3>6. Installed'
      BY <3>2, <3>3, <3>4 DEF Installed
    <3>7. OwnsCurrentLeaf'
      BY <2>1, <3>2, <3>4 DEF OwnsCurrentLeaf, Owns, IsCurrent
    <3>. QED BY <3>5, <3>6, <3>7
  <2>4. CASE drive.op # id
    BY <1>0, <2>1, <2>2, <2>4 DEF TypeOK, LaneWellFormed, Installed, OwnsCurrentLeaf, Owns,
       IsCurrent
  <2>. QED BY <2>3, <2>4
<1>5. CASE RunAbort
  <2> DEFINE job == Head(line)
             hit == operation.id = job.op
             captured == job.pass # 0 /\ job.pass = drive.pass
             released == drive.released \/ (captured /\ ResolvesCancellation(job, NewMarker(job)))
             gate == IF captured /\ hit /\ drive.gate = "aborting" THEN "signalled"
                     ELSE drive.gate
             moved == drive.moved \/ NewMarker(job)
             d == [drive EXCEPT !.released = released, !.gate = gate, !.moved = moved]
  <2>1. /\ line # <<>> /\ line' = Tail(line) /\ drive' = d
        /\ operation' = IF NewMarker(job) THEN [operation EXCEPT !.ctl = "cancel_requested"]
                                          ELSE operation
        /\ UNCHANGED <<results, outcomes, frames, sent, reserved, passes, aborts, crashes>>
    BY <1>5 DEF RunAbort, NewMarker
  <2>2. job \in Jobs /\ line' \in Seq(Jobs)
    BY <1>0, <2>1
  <2>3. released \in BOOLEAN /\ moved \in BOOLEAN
    OBVIOUS
  <2>4. gate \in {"open", "aborting", "signalled"}
    BY <1>0 DEF Drives
  <2> HIDE DEF released, moved, gate
  <2>5. d \in Drives /\ d.pc = drive.pc /\ d.op = drive.op /\ d.at = drive.at
        /\ d.resume = drive.resume
    BY <1>0, <2>3, <2>4 DEF Drives
  <2>6. NewMarker(job) => operation \in OperationStates
    BY <1>0, <2>2, LeavesAssumption DEF LeavesAssumption, NewMarker, NoOperation, Jobs
  <2>7. /\ operation' \in OperationStates \cup {NoOperation} /\ LaneWellFormed'
        /\ operation'.id = operation.id /\ operation'.at = operation.at
    <3>1. CASE NewMarker(job)
      <4>1. operation \in OperationStates /\ WellFormed(operation)
        BY <2>6, <3>1, LeavesAssumption
           DEF LeavesAssumption, LaneWellFormed, NoOperation, OperationStates
      <4>2. operation' = [operation EXCEPT !.ctl = "cancel_requested"]
        BY <2>1, <3>1
      <4>3. /\ operation' \in OperationStates /\ operation'.at = operation.at
            /\ operation'.eff = operation.eff /\ operation'.id = operation.id
        BY <4>1, <4>2 DEF OperationStates
      <4>. QED BY <4>1, <4>3 DEF WellFormed, LaneWellFormed
    <3>2. CASE ~NewMarker(job)
      BY <1>0, <2>1, <3>2 DEF LaneWellFormed
    <3>. QED BY <3>1, <3>2
  <2>8. drive.pc = "none" => drive' = NoDrive
    <3>1. SUFFICES ASSUME drive.pc = "none" PROVE drive' = NoDrive
      OBVIOUS
    <3>2. drive = NoDrive
      BY <3>1 DEF Installed
    <3>3. released = FALSE /\ gate = "open" /\ moved = TRUE
      BY <3>2 DEF released, gate, moved, NoDrive
    <3>. QED BY <2>1, <3>2, <3>3 DEF NoDrive
  <2> HIDE DEF d
  <2>9. TypeOK'
    BY <2>1, <2>2, <2>5, <2>7 DEF TypeOK
  <2>10. Installed'
    BY <2>1, <2>5, <2>8 DEF Installed
  <2>11. OwnsCurrentLeaf'
    BY <2>1, <2>5, <2>7 DEF OwnsCurrentLeaf, Owns, IsCurrent
  <2>. QED BY <2>7, <2>9, <2>10, <2>11
<1>6. CASE Crash
  <2>1. /\ crashes' = crashes + 1 /\ line' = <<>> /\ drive' = NoDrive
        /\ UNCHANGED <<operation, results, outcomes, frames, sent, reserved, passes, aborts>>
    BY <1>6 DEF Crash
  <2>. QED BY <1>0, <2>1, NothingInstalled DEF TypeOK, LaneWellFormed
<1>7. CASE WriteFrame
  <2>1. /\ drive.pc = "inflight" /\ drive.at \in Streams
        /\ line' = Append(line, [DriveJob(drive) EXCEPT !.k = "frame", !.eff = operation.eff])
        /\ UNCHANGED <<durable, drive, sent, reserved, passes, aborts, crashes>>
    BY <1>7 DEF WriteFrame
  <2>2. drive.op \in Ops /\ operation.id = drive.op
    BY <2>1 DEF Installed, OwnsCurrentLeaf, Owns, Owning, IsCurrent
  <2>3. operation \in OperationStates
    BY <1>0, <2>2, LeavesAssumption DEF LeavesAssumption, NoOperation
  <2>4. DriveJob(drive) \in Jobs
    BY <1>0, <2>2, JobTyped DEF DriveJob, Drives
  <2>5. [DriveJob(drive) EXCEPT !.k = "frame", !.eff = operation.eff] \in Jobs
    BY <2>3, <2>4 DEF Jobs, OperationStates
  <2>6. line' \in Seq(Jobs)
    BY <1>0, <2>1, <2>5
  <2>. QED BY <2>1, <2>6 DEF TypeOK, durable, LaneWellFormed, Installed, OwnsCurrentLeaf,
              Owns, IsCurrent
<1>8. CASE RunFrame
  <2>1. /\ line # <<>> /\ line' = Tail(line)
        /\ UNCHANGED <<operation, results, outcomes, drive, sent, reserved, passes,
                       aborts, crashes>>
    BY <1>8 DEF RunFrame
  <2>2. frames' \in SUBSET Effects
    <3>1. CASE operation.id # None /\ operation.at \in Streams /\ operation.eff = Head(line).eff
      <4>1. WellFormed(operation)
        BY <3>1 DEF LaneWellFormed, NoOperation
      <4>2. Head(line).eff \in Effects
        BY <3>1, <4>1 DEF WellFormed, Streams
      <4>. QED BY <1>0, <1>8, <4>2 DEF RunFrame
    <3>2. CASE ~(/\ operation.id # None /\ operation.at \in Streams
                 /\ operation.eff = Head(line).eff)
      BY <1>0, <1>8, <3>2 DEF RunFrame
    <3>. QED BY <3>1, <3>2
  <2>3. TypeOK'
    BY <1>0, <2>1, <2>2 DEF TypeOK
  <2>. QED BY <2>1, <2>3 DEF LaneWellFormed, Installed, OwnsCurrentLeaf, Owns, IsCurrent
<1>. QED BY <1>1, <1>2, <1>3, <1>4, <1>5, <1>6, <1>7, <1>8 DEF Next

\* Every step preserves the inductive type invariant.
LEMMA NextTyped ==
  Typed /\ [Next]_vars => Typed'
<1>. SUFFICES ASSUME Typed, [Next]_vars PROVE Typed'
  OBVIOUS
<1>1. CASE PassStep
  BY <1>1, PassStepTyped
<1>2. CASE PassCommand
  BY <1>2, PassCommandTyped
<1>3. CASE Next /\ ~PassStep /\ ~PassCommand
  BY <1>3, CallersTyped
<1>4. CASE UNCHANGED vars
  BY <1>4 DEF vars, Typed, TypeOK, LaneWellFormed, Installed, OwnsCurrentLeaf, Owns, IsCurrent
<1>. QED BY <1>1, <1>2, <1>3, <1>4

\* The inductive invariant holds in every behaviour.
LEMMA AlwaysTyped ==
  Spec => []Typed
BY InitTyped, NextTyped, PTL DEF Spec

\* The lane's records keep their types in every behaviour.
THEOREM TypeCorrect ==
  Spec => []TypeOK
<1>1. Typed => TypeOK
  BY DEF Typed
<1>. QED BY <1>1, AlwaysTyped, PTL

\* settleOperation casts `operation.state` without looking: every procedure
\* that may settle or effect something is at the leaf it dispatched on, of the
\* operation its pass was installed for.
THEOREM CapabilityAlwaysCurrent ==
  Spec => []CapabilityCurrent
<1>1. Typed => CapabilityCurrent
  BY DEF Typed, OwnsCurrentLeaf, CapabilityCurrent, Owns
<1>. QED BY <1>1, AlwaysTyped, PTL
-----------------------------------------------------------------------------
(***************************************************************************)
(* The abstract lifecycle and the abort signal.                            *)
(***************************************************************************)
\* The operation of an installed pass is open or has its result, and an open
\* operation has none.
Settling ==
  /\ drive.pc # "none" => operation.id = drive.op \/ results[drive.op] # "none"
  /\ operation # NoOperation => results[operation.id] = "none"

Lane == Typed /\ Settling
-----------------------------------------------------------------------------
(***************************************************************************)
(* What a step does to the durable operation and its result.               *)
(***************************************************************************)
Opens == \E id \in Ops :
  /\ operation = NoOperation /\ results[id] = "none"
  /\ operation' \in OperationStates /\ operation'.id = id /\ operation'.ctl = "running"
  /\ results' = results

Marks ==
  /\ operation \in OperationStates /\ operation.ctl = "running"
  /\ operation' = [operation EXCEPT !.ctl = "cancel_requested"]
  /\ results' = results

\* A step of the program opens an operation, marks it cancelled, or is a
\* decision of its pass; all others leave operation and results alone.
LEMMA DurableStep ==
  ASSUME Typed, [Next]_vars
  PROVE  Progress \/ Opens \/ Marks
<1>0. operation \in OperationStates \cup {NoOperation}
  BY DEF Typed, TypeOK
<1>1. CASE PassCommand
  BY <1>1, PassCommandTyped
<1>2. CASE PassStep
  BY <1>2 DEF PassStep, EnterCancelled, AdmitHook, RefuseHook, HookReturns,
     CancellationResolves, Dispatch, Complete, Sleep, WakeByTime, WakeByAbort, CancelRemote,
     SelectCall, AdmitEffect, RefuseEffect, EffectReturns, durable, Progress
<1>3. ASSUME NEW id \in Ops, NEW kind \in Kinds, NEW leaf \in Leaves, Accept(id, kind, leaf)
      PROVE  Opens
  <2>1. operation = NoOperation
    BY <1>0, <1>3, LeavesAssumption DEF LeavesAssumption, Accept, OperationStates
  <2>2. WellFormed(InitialOperation(id, kind, leaf))
    BY <1>3, InitialWellFormed DEF Accept
  <2>. QED BY <1>3, <2>1, <2>2 DEF Accept, Opens, InitialOperation, WellFormed
<1>4. CASE RunAbort
  <2>1. CASE NewMarker(Head(line))
    <3>1. Head(line) \in Jobs
      <4>1. line \in Seq(Jobs)
        BY DEF Typed, TypeOK
      <4>. QED BY <1>4, <4>1 DEF RunAbort
    <3>2. operation \in OperationStates
      BY <1>0, <2>1, <3>1, LeavesAssumption DEF LeavesAssumption, NewMarker, NoOperation, Jobs
    <3>3. operation' = [operation EXCEPT !.ctl = "cancel_requested"] /\ results' = results
      BY <1>4, <2>1 DEF RunAbort
    <3>. QED BY <2>1, <3>2, <3>3 DEF NewMarker, Marks
  <2>2. CASE ~NewMarker(Head(line))
    BY <1>4, <2>2 DEF RunAbort, Progress
  <2>. QED BY <2>1, <2>2
<1>5. CASE \/ \E id \in Ops, wait \in BOOLEAN, permits \in {0, 1} : CallDrive(id, wait, permits)
           \/ RunClaim \/ Crash \/ WriteFrame \/ RunFrame
           \/ \E id \in Ops : RequestAbort(id)
           \/ UNCHANGED vars
  BY <1>5 DEF CallDrive, RunClaim, Crash, WriteFrame, RunFrame, RequestAbort, vars, durable,
     Progress
<1>. QED BY <1>1, <1>2, <1>3, <1>4, <1>5 DEF Next

\* No pass is installed initially.
LEMMA InitSettling ==
  Init => Settling
BY DEF Init, Settling, NoDrive

\* What a step of the continuation does to the pass: it ends, or keeps its
\* gate, or closes the gate itself because the operation is cancelled.
DriveGoesOn ==
  /\ drive'.op = drive.op /\ drive'.pass = drive.pass /\ drive'.pc # "none"
  /\ \/ drive'.gate = drive.gate /\ drive'.released = drive.released
     \/ /\ Cancelled /\ IsCurrent(drive)
        /\ drive'.gate = "signalled"
        /\ drive'.released = (drive.released \/ drive.gate = "open")

\* The three ways a continuation moves keep the pass and its gate.
LEMMA GoingOn ==
  ASSUME drive \in Drives, NEW pc \in Targets, NEW res \in LocalResults,
         \/ drive' \in {To(pc), ToWith(pc, res), Park(pc, res)}
         \/ Goto(To(pc), line) \/ Goto(ToWith(pc, res), line) \/ Goto(Park(pc, res), line)
  PROVE  DriveGoesOn
<1>1. drive' \in {To(pc), ToWith(pc, res), Park(pc, res)}
  BY DEF Goto
<1>. QED BY <1>1, ToTyped, ToWithTyped, ParkTyped DEF DriveGoesOn, Targets

\* Every step of the continuation ends the pass or lets it go on.
LEMMA PassStepGoesOn ==
  ASSUME Typed, PassStep
  PROVE  drive' = NoDrive \/ DriveGoesOn
<1>0. drive \in Drives /\ drive.res \in LocalResults /\ LocalResults # {}
  BY DEF Typed, TypeOK, Drives
<1>t. {"dispatch", "stage", "sleeping", "publish", "terminal", "settle", "gate", "clear",
       "inflight", "responseGate", "fault"} \subseteq Targets
  BY Target DEF Owning, CommandPcs
<1>r. {"none", "blocked", "interrupted", "aborted", "answer"} \subseteq LocalResults
  BY DEF LocalResults
<1>1. CASE \/ EnterCancelled \/ Sleep \/ WakeByTime \/ WakeByAbort \/ CancelRemote
           \/ SelectCall \/ AdmitEffect \/ EffectReturns
  <2>1. \E pc \in {"dispatch", "stage", "sleeping", "publish", "terminal", "settle", "gate",
                   "clear", "inflight", "responseGate"},
            res \in {"none", "blocked", "interrupted", "aborted", "answer"} :
          drive' \in {To(pc), ToWith(pc, res), Park(pc, res)}
    BY <1>1 DEF EnterCancelled, Sleep, WakeByTime, WakeByAbort, CancelRemote, SelectCall,
       AdmitEffect, EffectReturns, Goto
  <2>. QED BY <1>0, <1>t, <1>r, <2>1, GoingOn
<1>2. CASE AdmitHook
  <2>1. drive' = [drive EXCEPT !.pc = "hook", !.resume = AfterHook]
    BY <1>2 DEF AdmitHook
  <2>. QED BY <1>0, <2>1 DEF DriveGoesOn, Drives
<1>3. CASE RefuseHook \/ RefuseEffect
  <2>1. drive.pc \in GatePcs \cup {"admit"}
    BY <1>3 DEF RefuseHook, RefuseEffect
  <2>2. drive' \in {To("stage"), Park(RefusalPoint, RefusalResult)}
    BY <1>3 DEF RefuseHook, RefuseEffect, AfterRefusal, Goto
  <2>. QED BY <1>0, <1>t, <2>1, <2>2, RefusalPointSame, GoingOn
<1>4. CASE HookReturns
  <2>1. drive' \in {To(drive.resume), ToWith("stage", "blocked")}
        /\ drive.resume \in Targets
    BY <1>4 DEF HookReturns, Goto, Typed, Installed
  <2>. QED BY <1>0, <1>t, <1>r, <2>1, GoingOn
<1>5. CASE CancellationResolves
  <2>1. drive' = To(drive.resume) /\ drive.resume \in Targets
    BY <1>5 DEF CancellationResolves, Goto, Typed, Installed
  <2>. QED BY <1>0, <2>1, GoingOn
<1>6. CASE Dispatch
  <2>1. CASE Stuck
    <3>1. drive' = To("fault")
      BY <1>6, <2>1 DEF Dispatch, Fault, Goto
    <3>. QED BY <1>0, <1>t, <3>1, GoingOn
  <2>2. CASE ~Stuck /\ Cancelled
    <3>1. drive' = [drive EXCEPT !.pc = ReconcilePoint(operation.at), !.res = "none",
                                 !.at = operation.at, !.moved = FALSE, !.gate = "signalled",
                                 !.released = @ \/ drive.gate = "open"]
      BY <1>6, <2>2 DEF Dispatch, DispatchCancelled, Goto
    <3>2. ReconcilePoint(operation.at) # "none"
      BY DEF ReconcilePoint
    <3>. QED BY <1>0, <2>2, <3>1, <3>2 DEF DriveGoesOn, Drives, Stuck
  <2>3. CASE ~Stuck /\ ~Cancelled
    <3>1. PICK pc \in {"read", "publish", "sleepGate", "done"},
               res \in {"none", "misconfigured", "interrupted"} :
            drive' = [drive EXCEPT !.pc = pc, !.res = res, !.at = operation.at,
                                   !.moved = FALSE]
      BY <1>6, <2>3 DEF Dispatch, DispatchRunning, Enter, Goto
    <3>. QED BY <1>0, <3>1 DEF DriveGoesOn, Drives
  <2>. QED BY <2>1, <2>2, <2>3
<1>7. CASE Complete
  BY <1>7 DEF Complete
<1>. QED BY <1>1, <1>2, <1>3, <1>4, <1>5, <1>6, <1>7 DEF PassStep

\* RequestAbort and RunAbort change the pass's flags only.
LEMMA AbortFlags ==
  ASSUME Typed, RunAbort \/ \E id \in Ops : RequestAbort(id)
  PROVE  /\ drive' \in Drives
         /\ drive'.op = drive.op /\ drive'.pass = drive.pass /\ drive'.pc = drive.pc
         /\ drive'.at = drive.at /\ drive'.resume = drive.resume /\ drive'.ran = drive.ran
<1>0. drive \in Drives
  BY DEF Typed, TypeOK
<1>1. drive' \in Drives
  BY NextTyped DEF Next, Typed, TypeOK
<1>2. CASE RunAbort
  <2>1. PICK released, gate, moved :
          drive' = [drive EXCEPT !.released = released, !.gate = gate, !.moved = moved]
    BY <1>2 DEF RunAbort
  <2>. QED BY <1>0, <1>1, <2>1 DEF Drives
<1>3. CASE \E id \in Ops : RequestAbort(id)
  <2>1. PICK gate : drive' = drive \/ drive' = [drive EXCEPT !.gate = gate]
    BY <1>3 DEF RequestAbort
  <2>. QED BY <1>0, <1>1, <2>1 DEF Drives
<1>. QED BY <1>2, <1>3

\* Over a step, a pass ends, keeps its operation, or is installed for the
\* lane's operation.
LEMMA DriveStep ==
  ASSUME Typed, [Next]_vars
  PROVE  \/ drive' = NoDrive
         \/ drive'.op = drive.op /\ (drive.pc = "none" => drive'.pc = "none")
         \/ UNCHANGED <<operation, results>> /\ drive'.op = operation.id
            /\ drive'.gate = "open"
<1>1. CASE PassStep
  <2>1. drive.pc # "none"
    BY <1>1 DEF PassStep, EnterCancelled, AdmitHook, RefuseHook, HookReturns,
     CancellationResolves, Dispatch, Complete, Sleep, WakeByTime, WakeByAbort, CancelRemote,
     SelectCall, AdmitEffect, RefuseEffect, EffectReturns, GatePcs
  <2>. QED BY <1>1, <2>1, PassStepGoesOn DEF DriveGoesOn
<1>2. CASE PassCommand
  <2>1. drive.pc # "none"
    BY <1>2 DEF PassCommand, RunRead, RunToolRead, RunBoundaryRead, RunRecover, RunPublish,
       RunBoundaryPublish, RunIntent, RunIntentCancelled, RunNested, RunSettleResponse,
       RunSettleNested, RunTerminal, RunClear, RunStage, RunPlace, Runs
  <2>. QED BY <1>2, <2>1, PassCommandTyped DEF PassKept
<1>3. CASE RunClaim
  <2>1. CASE drive' # drive
    <3>1. /\ operation.id = Head(line).op /\ UNCHANGED <<operation, results>>
          /\ drive' = [NoDrive EXCEPT !.pass = Head(line).pass, !.op = Head(line).op,
                                      !.pc = "entry", !.wait = Head(line).wait,
                                      !.permits = Head(line).permits]
      BY <1>3, <2>1 DEF RunClaim, durable
    <3>. QED BY <3>1 DEF NoDrive
  <2>. QED BY <2>1
<1>4. CASE RunAbort \/ \E id \in Ops : RequestAbort(id)
  BY <1>4, AbortFlags
<1>5. CASE \/ \E id \in Ops, wait \in BOOLEAN, permits \in {0, 1} : CallDrive(id, wait, permits)
           \/ \E id \in Ops, kind \in Kinds, leaf \in Leaves : Accept(id, kind, leaf)
           \/ Crash \/ WriteFrame \/ RunFrame \/ UNCHANGED vars
  BY <1>5 DEF CallDrive, Accept, Crash, WriteFrame, RunFrame, vars
<1>. QED BY <1>1, <1>2, <1>3, <1>4, <1>5 DEF Next

\* Settling is inductive, given Typed.
LEMMA NextSettling ==
  Typed /\ Settling /\ [Next]_vars => Settling'
<1>. SUFFICES ASSUME Typed, Settling, [Next]_vars PROVE Settling'
  OBVIOUS
<1>0. /\ results \in [Ops -> Statuses \cup {"none"}]
      /\ operation \in OperationStates \cup {NoOperation}
      /\ drive.pc # "none" => drive.op \in Ops
      /\ drive'.pc # "none" => drive'.op \in Ops
  BY NextTyped DEF Typed, TypeOK, Installed
<1>d. \/ drive'.pc = "none"
      \/ drive.pc # "none" /\ drive'.op = drive.op
      \/ UNCHANGED <<operation, results>> /\ drive'.op = operation.id
  BY DriveStep DEF NoDrive
<1>1. CASE UNCHANGED <<operation, results>>
  BY <1>1, <1>d DEF Settling
<1>2. CASE /\ operation \in OperationStates /\ operation' \in OperationStates
           /\ operation'.id = operation.id /\ results' = results
  BY <1>2, <1>d, LeavesAssumption DEF LeavesAssumption, Settling, NoOperation, OperationStates
<1>3. CASE /\ operation \in OperationStates /\ operation' = NoOperation
           /\ \E s \in Statuses : results' = [results EXCEPT ![operation.id] = s]
  <2>1. operation.id \in Ops /\ results'[operation.id] # "none"
    BY <1>0, <1>3 DEF OperationStates, Statuses
  <2>2. \A id \in Ops : results[id] # "none" => results'[id] # "none"
    BY <1>0, <1>3, <2>1
  <2>3. operation # NoOperation
    BY <2>1, LeavesAssumption DEF LeavesAssumption, NoOperation
  <2>. QED BY <1>0, <1>d, <1>3, <2>1, <2>2, <2>3 DEF Settling
<1>4. CASE Opens
  BY <1>0, <1>4, <1>d, LeavesAssumption DEF LeavesAssumption, Opens, Settling, NoOperation,
     OperationStates
<1>5. CASE Marks
  <2>1. operation' \in OperationStates /\ operation'.id = operation.id
    BY <1>5 DEF Marks, OperationStates
  <2>. QED BY <1>2, <1>5, <2>1 DEF Marks
<1>. QED BY <1>1, <1>2, <1>3, <1>4, <1>5, DurableStep DEF Progress, WellFormed

\* Both inductive invariants hold in every behaviour.
LEMMA AlwaysLane ==
  Spec => []Lane
<1>1. Init => Lane
  BY InitTyped, InitSettling DEF Lane
<1>2. Lane /\ [Next]_vars => Lane'
  BY NextTyped, NextSettling DEF Lane
<1>. QED BY <1>1, <1>2, PTL DEF Spec
-----------------------------------------------------------------------------
(***************************************************************************)
(* The refinement of OperationLifecycle.                                   *)
(***************************************************************************)
LEMMA InitLifecycle ==
  Init => Lifecycle!Init
BY LeavesAssumption DEF LeavesAssumption, Init, Lifecycle!Init, status, NoOperation

\* Every step of the lane is a step of the lifecycle or a stutter.
LEMMA StepLifecycle ==
  Lane /\ [Next]_vars => [Lifecycle!Next]_status
<1>. SUFFICES ASSUME Lane, [Next]_vars PROVE [Lifecycle!Next]_status
  OBVIOUS
<1>0. /\ results \in [Ops -> Statuses \cup {"none"}]
      /\ operation # NoOperation => results[operation.id] = "none"
  BY DEF Lane, Typed, TypeOK, Settling
<1>1. CASE UNCHANGED <<operation, results>>
  BY <1>1 DEF status, Cancelled
<1>2. CASE /\ operation'.id = operation.id /\ operation'.ctl = operation.ctl
           /\ results' = results
  BY <1>2 DEF status, Cancelled
<1>3. ASSUME operation \in OperationStates, operation' = NoOperation, NEW s \in Statuses,
             results' = [results EXCEPT ![operation.id] = s], s = "aborted" <=> Cancelled
      PROVE  Lifecycle!Next
  <2>1. PICK id \in Ops : id = operation.id
    BY <1>3 DEF OperationStates
  <2>2. results[id] = "none" /\ id # None
    BY <1>0, <1>3, <2>1, LeavesAssumption DEF LeavesAssumption, NoOperation
  <2>3. status[id] = IF s = "aborted" THEN "cancelling" ELSE "running"
    BY <1>3, <2>1, <2>2 DEF status
  <2>4. \A o \in Ops : status'[o] = IF o = id THEN s ELSE status[o]
    <3>1. \A o \in Ops : results'[o] = IF o = id THEN s ELSE results[o]
      BY <1>0, <1>3, <2>1
    <3>2. operation'.id = None /\ s # "none"
      BY <1>3 DEF NoOperation, Statuses
    <3>. QED BY <2>1, <3>1, <3>2, LeavesAssumption DEF LeavesAssumption, status
  <2>5. status' = [status EXCEPT ![id] = s]
    <3>1. status = [o \in Ops |-> status[o]] /\ status' = [o \in Ops |-> status'[o]]
      BY DEF status
    <3>. QED BY ONLY <2>4, <3>1
  <2>6. s \in Lifecycle!Settled
    BY DEF Statuses, Lifecycle!Settled
  <2>. QED BY <2>1, <2>3, <2>5, <2>6 DEF Lifecycle!Next, Lifecycle!Settle
<1>4. CASE Opens
  <2>1. PICK id \in Ops :
          /\ operation = NoOperation /\ results[id] = "none"
          /\ operation' \in OperationStates /\ operation'.id = id
          /\ operation'.ctl = "running" /\ results' = results
    BY <1>4 DEF Opens
  <2>2. \A o \in Ops : status[o] = IF results[o] # "none" THEN results[o] ELSE "absent"
    BY <2>1, LeavesAssumption DEF LeavesAssumption, status, NoOperation
  <2>3. status[id] = "absent" /\ \A o \in Ops : status[o] \notin Lifecycle!Open
    BY <1>0, <2>1, <2>2 DEF Lifecycle!Open, Statuses
  <2>4. status' = [status EXCEPT ![id] = "running"]
    BY <2>1, <2>2 DEF status, Cancelled
  <2>. QED BY <2>3, <2>4 DEF Lifecycle!Next, Lifecycle!Accept
<1>5. CASE Marks
  <2> DEFINE id == operation.id
  <2>1. /\ id \in Ops /\ results[id] = "none" /\ operation.ctl = "running"
        /\ operation'.id = id /\ operation'.ctl = "cancel_requested" /\ results' = results
    BY <1>0, <1>5, LeavesAssumption DEF LeavesAssumption, Marks, OperationStates, NoOperation
  <2>2. status[id] = "running"
    BY <2>1 DEF status, Cancelled
  <2>3. status' = [status EXCEPT ![id] = "cancelling"]
    BY <2>1 DEF status, Cancelled
  <2>. QED BY <2>1, <2>2, <2>3 DEF Lifecycle!Next, Lifecycle!Cancel
<1>. QED BY <1>1, <1>2, <1>3, <1>4, <1>5, DurableStep DEF Progress, Lane

\* Every operation id of a lane follows the lifecycle accept promises: at most
\* one is open, it is cancelled at most once, it settles once and for good, and
\* it settles as aborted exactly when its cancellation became durable.
THEOREM ImplementsLifecycle ==
  Spec => LifecycleSpec
BY AlwaysLane, InitLifecycle, StepLifecycle, PTL DEF Spec, LifecycleSpec, Lifecycle!Spec
-----------------------------------------------------------------------------
(***************************************************************************)
(* The abort signal.                                                       *)
(***************************************************************************)
LEMMA StepSignal ==
  Lane /\ SignalMeansCancelled /\ [Next]_vars => SignalMeansCancelled'
<1>. SUFFICES ASSUME Lane, SignalMeansCancelled, [Next]_vars,
                     drive'.gate = "signalled", operation'.id = drive'.op
              PROVE  operation'.ctl = "cancel_requested"
  BY DEF SignalMeansCancelled, IsCurrent, Cancelled
<1>0. Typed /\ Settling /\ Typed' /\ Settling' /\ drive \in Drives
  BY NextTyped, NextSettling DEF Lane, Typed, TypeOK
<1>1. drive.op \in Ops \/ drive.pc = "none"
  BY <1>0 DEF Typed, Installed
<1>2. drive' # NoDrive /\ drive'.op \in Ops /\ operation' # NoOperation
  <2>1. drive' # NoDrive
    BY DEF NoDrive
  <2>2. drive'.op \in Ops
    BY <1>0, <2>1 DEF Typed, Installed
  <2>. QED BY <2>1, <2>2, LeavesAssumption DEF LeavesAssumption, NoOperation
\* Cancellation stays while the operation is open.
<1>3. operation.id = operation'.id /\ Cancelled => operation'.ctl = "cancel_requested"
  <2>1. CASE Progress
    BY <1>2, <2>1 DEF Progress, Cancelled
  <2>2. CASE Opens
    BY <1>2, <2>2, LeavesAssumption
       DEF LeavesAssumption, Opens, NoOperation, OperationStates
  <2>3. CASE Marks
    BY <2>3 DEF Marks, OperationStates
  <2>. QED BY <1>0, <2>1, <2>2, <2>3, DurableStep
\* A closed gate of the same operation was closed before.
<1>4. drive.gate = "signalled" /\ drive'.op = drive.op => operation.id = drive.op
  <2>1. SUFFICES ASSUME drive.gate = "signalled", drive'.op = drive.op,
                        operation.id # drive.op
                 PROVE  FALSE
    OBVIOUS
  <2>2. drive.pc # "none"
    BY <1>0, <2>1 DEF Typed, Installed, NoDrive
  <2>3. results[drive.op] # "none" /\ drive.op \in Ops
    BY <1>0, <1>1, <2>1, <2>2 DEF Settling
  <2>4. results'[drive.op] = "none"
    BY <1>0, <1>2, <2>1 DEF Settling
  <2>5. results'[drive.op] # "none"
    <3>1. CASE results' = results
      BY <2>3, <3>1
    <3>2. ASSUME NEW s \in Statuses, results' = [results EXCEPT ![operation.id] = s]
          PROVE  results'[drive.op] # "none"
      BY <1>0, <2>3, <3>2 DEF Typed, TypeOK, Statuses
    <3>. QED BY <1>0, <3>1, <3>2, DurableStep DEF Progress, Opens, Marks
  <2>. QED BY <2>4, <2>5
<1>5. CASE drive'.gate = drive.gate /\ drive'.op = drive.op
  BY <1>3, <1>4, <1>5 DEF SignalMeansCancelled, IsCurrent
<1>6. CASE PassStep
  <2>1. UNCHANGED operation /\ DriveGoesOn
    BY <1>0, <1>2, <1>6, PassStepGoesOn DEF PassStep, EnterCancelled, AdmitHook, RefuseHook,
     HookReturns, CancellationResolves, Dispatch, Complete, Sleep, WakeByTime, WakeByAbort,
     CancelRemote, SelectCall, AdmitEffect, RefuseEffect, EffectReturns, durable
  <2>. QED BY <1>5, <2>1 DEF DriveGoesOn, Cancelled
<1>7. CASE PassCommand
  BY <1>0, <1>5, <1>7, PassCommandTyped DEF PassKept
<1>8. CASE RunClaim
  <2>1. drive' = drive \/ drive'.gate = "open"
    BY <1>8 DEF RunClaim, NoDrive
  <2>. QED BY <1>5, <2>1
<1>9. CASE RunAbort
  <2>1. drive'.op = drive.op
    BY <1>0, <1>9, AbortFlags
  <2>2. CASE drive'.gate # drive.gate
    <3>1. operation.id = Head(line).op /\ Head(line) \in Jobs
      BY <1>0, <1>9, <2>2 DEF RunAbort, Typed, TypeOK, Drives
    <3>2. operation \in OperationStates
      BY <1>0, <3>1, LeavesAssumption DEF LeavesAssumption, Typed, TypeOK, NoOperation, Jobs
    <3>3. operation' = IF NewMarker(Head(line))
                         THEN [operation EXCEPT !.ctl = "cancel_requested"] ELSE operation
      BY <1>9 DEF RunAbort
    <3>. QED BY <3>1, <3>2, <3>3 DEF NewMarker, OperationStates
  <2>. QED BY <1>5, <2>1, <2>2
<1>10. CASE \E id \in Ops : RequestAbort(id)
  <2>1. drive'.op = drive.op
    BY <1>0, <1>10, AbortFlags
  <2>2. drive'.gate \in {drive.gate, BeginAbort(drive.gate)}
    BY <1>0, <1>10 DEF RequestAbort, Drives
  <2>3. drive'.gate = drive.gate
    BY <2>2 DEF BeginAbort
  <2>. QED BY <1>5, <2>1, <2>3
<1>11. CASE \/ \E id \in Ops, wait \in BOOLEAN, permits \in {0, 1} : CallDrive(id, wait, permits)
            \/ \E id \in Ops, kind \in Kinds, leaf \in Leaves : Accept(id, kind, leaf)
            \/ Crash \/ WriteFrame \/ RunFrame \/ UNCHANGED vars
  BY <1>2, <1>5, <1>11 DEF CallDrive, Accept, Crash, WriteFrame, RunFrame, vars
<1>. QED BY <1>6, <1>7, <1>8, <1>9, <1>10, <1>11 DEF Next

\* No gate is signalled before the first step.
LEMMA InitSignal ==
  Init => SignalMeansCancelled
BY DEF Init, SignalMeansCancelled, NoDrive

\* The signal that hooks, providers and tools observe never fires for an open
\* operation before requestOperationAbort committed its durable marker.
THEOREM SignalAlwaysMeansCancelled ==
  Spec => []SignalMeansCancelled
BY AlwaysLane, InitSignal, StepSignal, PTL DEF Spec

-----------------------------------------------------------------------------
(***************************************************************************)
(* The inductive invariant.                                                *)
(***************************************************************************)
Summary == "summary.effect_pending"
Silent == {"assistant.effect_pending", "tools"}  \* leaves that may not settle unrecorded

\* The leaves a procedure can stand at, per control point.
AtLeaf(pc, at) ==
  /\ pc \in {"publish", "boundaryRead", "boundaryGate", "boundaryPublish", "terminal",
             "sleepGate", "sleeping"} => at \notin Silent
  /\ pc \in {"stage", "select", "clear", "place"} => at = "tools"
  /\ pc = "settle" => at \in Streams \cup {Summary}
  /\ pc = "responseGate" => at \in Streams \cup {"tools"}
  /\ pc = "recover" => at \in Streams \cup {"deferred.suspended"}
  /\ pc = "cancelRemote" => at \in {"deferred.suspended", "deferred.effect_pending"}
  /\ pc \in {"admit", "inflight"} => at \in Streams \cup {Summary, "tools"}

Standing ==
  /\ AtLeaf(drive.pc, drive.at)
  /\ drive.pc \in {"hook", "parked"} =>
       AtLeaf(drive.resume, drive.at) /\ (drive.resume = "settle" => drive.at \in Streams)
  /\ drive.pc = "hook" =>
       drive.resume \in {"dispatch", "boundaryPublish", "stage", "settle", "publish", "admit",
                         "nested", "intent"}
  /\ drive.pc = "parked" => drive.resume \in {"settle", "stage", "dispatch"}
  /\ drive.pc = "hook" /\ drive.resume = "admit" => drive.at = "assistant.effect_pending"

EnteringHook == drive.pc = "hook" /\ drive.resume = "dispatch"

\* What a pass knows of its operation: it is open until the pass is done, and
\* cancelled where the code relies on it.
Knowing ==
  drive.pc \notin {"none", "done"} =>
    /\ IsCurrent(drive) /\ drive.pc # "fault"
    /\ drive.pc \in {"recover", "cancelRemote", "terminal"} => Cancelled
    /\ drive.released => Cancelled
    /\ drive.res = "aborted" /\ drive.pc # "parked" => Cancelled
    /\ drive.pc = "settle" /\ drive.at = Summary => drive.res \in {"answer", "aborted"}
    /\ (drive.pc \in {"dispatch", "entry"} \/ EnteringHook) => (drive.moved \/ Cancelled)
    /\ drive.pc = "parked" => drive.gate # "open"

\* Where a pass is before its first command has run, and where a cancellation
\* finds it that did not close its gate.
Early == {"entry", "dispatch", "read", "publish", "sleepGate", "sleeping", "done"}
Gated ==
  drive.pc # "none" /\ drive.gate = "open" =>
    /\ ~drive.ran => drive.pc \in Early \/ EnteringHook
    /\ IsCurrent(drive) /\ Cancelled =>
         drive.pc \in Early \cup {"select", "stage", "place"} \/ EnteringHook

\* The line: the pass has at most one command on it, numbers of passes are not
\* reused, an abort that closed the gate stands for every closed gate, and one
\* that never saw the gate is ahead of every command of the pass.
Missed(job) == job.k = "abort" /\ job.op = drive.op /\ job.pass # drive.pass
JobOK(i) ==
  /\ line[i].pass <= passes
  /\ line[i].k = "drive" => drive.pc \in CommandPcs
  /\ line[i].k = "abort" /\ line[i].pass = drive.pass /\ drive.pass # 0 =>
       drive.gate # "open" /\ line[i].op = drive.op
  /\ line[i].k = "claim" => line[i].pass \notin {0, drive.pass}
  /\ drive.pc # "none" /\ Missed(line[i]) => ~drive.ran
PairOK(i, j) ==
  /\ line[i].k = "drive" /\ line[j].k = "drive" => i = j
  /\ line[i].k = "claim" /\ line[j].pass = line[i].pass => i = j
  /\ drive.pc # "none" /\ Missed(line[i]) /\ line[j].k = "drive" => i < j
Releaser(job) == job.k = "abort" /\ job.own /\ job.pass = drive.pass
Lined ==
  /\ drive.pass <= passes /\ (drive.pc # "none" => drive.pass # 0)
  /\ \A i \in DOMAIN line : JobOK(i) /\ \A j \in DOMAIN line : PairOK(i, j)
  /\ drive.pc # "none" /\ drive.gate # "open" /\ ~drive.released =>
       \E i \in DOMAIN line : Releaser(line[i])

\* An open effect has its own reserved id and no outcome yet.
Effected ==
  /\ \A e \in Effects : e > reserved => outcomes[e] = "none" /\ sent[e] = 0
  /\ operation # NoOperation =>
       /\ OwesEffect(operation) \/ (operation.at = "tools" /\ operation.call = "planned") =>
            operation.eff \in 1..reserved /\ outcomes[operation.eff] = "none"
       /\ operation.at = "tools" /\ operation.call = "planned" => sent[operation.eff] = 0

\* What the procedures know of the effect they are about to admit or settle.
Unsent == sent[operation.eff] = 0
Planning == drive.pc \in {"gate", "intent"} \/ (drive.pc = "hook" /\ drive.resume = "intent")
Admitting ==
  /\ drive.pc = "admit" => OwesEffect(operation) /\ (Unsent \/ (drive.at = "tools" /\ operation.safe))
  /\ drive.pc = "gate" /\ drive.at = "assistant.effect_pending" => Unsent
  /\ drive.pc = "hook" /\ drive.resume = "admit" => Unsent
  /\ drive.pc = "clear" => operation.call = "effect_pending" /\ operation.safe
  /\ drive.at = "tools" /\ Planning => operation.call = "planned"
  /\ drive.at = "tools" /\ Owns(drive) /\ drive.pc \notin {"read", "place"} =>
       operation.call # "outcome_ready"

Kept == Standing /\ Knowing /\ Gated /\ Lined /\ Admitting
IInv == Lane /\ SignalMeansCancelled /\ Kept /\ Effected /\ FramesOwned
-----------------------------------------------------------------------------
(***************************************************************************)
(* How a continuation moves.                                               *)
(***************************************************************************)
Fields(d, pc, resume, at, res, ran, moved) ==
  /\ d.pc = pc /\ d.resume = resume /\ d.at = at /\ d.res = res
  /\ d.ran = ran /\ d.moved = moved
  /\ d.op = drive.op /\ d.pass = drive.pass
SameGate(d) == d.gate = drive.gate /\ d.released = drive.released

\* The records a continuation goes through, field by field.
LEMMA Continues ==
  ASSUME drive \in Drives, NEW pc \in Targets, NEW res \in LocalResults
  PROVE  /\ To(pc) \in Drives /\ SameGate(To(pc))
         /\ Fields(To(pc), pc, "none", drive.at, drive.res, drive.ran, drive.moved)
         /\ ToWith(pc, res) \in Drives /\ SameGate(ToWith(pc, res))
         /\ Fields(ToWith(pc, res), pc, "none", drive.at, res, drive.ran, drive.moved)
         /\ SameGate(Park(pc, res))
         /\ Fields(Park(pc, res), "parked", pc, drive.at, res, drive.ran, drive.moved)
         /\ SameGate(Ran(To(pc)))
         /\ Fields(Ran(To(pc)), pc, "none", drive.at, drive.res, TRUE, drive.moved)
         /\ SameGate(Ran(ToWith(pc, res)))
         /\ Fields(Ran(ToWith(pc, res)), pc, "none", drive.at, res, TRUE, drive.moved)
<1>1. pc \in Pcs
  BY DEF Targets
<1>2. /\ To(pc) \in Drives /\ SameGate(To(pc))
      /\ Fields(To(pc), pc, "none", drive.at, drive.res, drive.ran, drive.moved)
  BY <1>1, ToTyped DEF Fields, SameGate
<1>3. /\ ToWith(pc, res) \in Drives /\ SameGate(ToWith(pc, res))
      /\ Fields(ToWith(pc, res), pc, "none", drive.at, res, drive.ran, drive.moved)
  BY <1>1, ToWithTyped DEF Fields, SameGate
<1>4. /\ SameGate(Park(pc, res))
      /\ Fields(Park(pc, res), "parked", pc, drive.at, res, drive.ran, drive.moved)
  BY <1>1, ParkTyped DEF Fields, SameGate
<1>5. /\ SameGate(Ran(To(pc)))
      /\ Fields(Ran(To(pc)), pc, "none", drive.at, drive.res, TRUE, drive.moved)
  BY <1>2, RanTyped DEF Fields, SameGate
<1>6. /\ SameGate(Ran(ToWith(pc, res)))
      /\ Fields(Ran(ToWith(pc, res)), pc, "none", drive.at, res, TRUE, drive.moved)
  BY <1>3, RanTyped DEF Fields, SameGate
<1>. QED BY <1>2, <1>3, <1>4, <1>5, <1>6

\* A command that commits: the leaf is replaced.
LEMMA ContinuesMoved ==
  ASSUME drive \in Drives, NEW pc \in Targets, NEW at \in Leaves, NEW permits
  PROVE  /\ SameGate([Ran(To(pc)) EXCEPT !.moved = TRUE])
         /\ Fields([Ran(To(pc)) EXCEPT !.moved = TRUE], pc, "none", drive.at, drive.res, TRUE, TRUE)
         /\ SameGate([Ran(To(pc)) EXCEPT !.at = at, !.moved = TRUE, !.permits = permits])
         /\ Fields([Ran(To(pc)) EXCEPT !.at = at, !.moved = TRUE, !.permits = permits],
                   pc, "none", at, drive.res, TRUE, TRUE)
<1>. DEFINE r == Ran(To(pc))
<1>1. /\ r \in Drives /\ SameGate(r)
      /\ Fields(r, pc, "none", drive.at, drive.res, TRUE, drive.moved)
  <2>1. To(pc) \in Drives
    BY Continues DEF Drives
  <2>2. r \in Drives
    BY <2>1, RanTyped
  <2>3. drive.res \in LocalResults
    BY DEF Drives
  <2>. QED BY <2>2, <2>3, Continues
<1>. HIDE DEF r
<1>2. /\ SameGate([r EXCEPT !.moved = TRUE])
      /\ Fields([r EXCEPT !.moved = TRUE], pc, "none", drive.at, drive.res, TRUE, TRUE)
  BY <1>1, MovedTyped DEF Fields, SameGate
<1>3. /\ SameGate([r EXCEPT !.at = at, !.moved = TRUE, !.permits = permits])
      /\ Fields([r EXCEPT !.at = at, !.moved = TRUE, !.permits = permits],
                pc, "none", at, drive.res, TRUE, TRUE)
  BY <1>1 DEF Fields, SameGate, Drives
<1>. QED BY <1>2, <1>3 DEF r

-----------------------------------------------------------------------------
(***************************************************************************)
(* The line.                                                               *)
(***************************************************************************)
\* One job joins.
LEMMA Joined ==
  ASSUME NEW q \in Seq(Jobs), NEW job \in Jobs
  PROVE  /\ DOMAIN Append(q, job) = DOMAIN q \cup {Len(q) + 1} /\ Len(q) \in Nat
         /\ \A i \in DOMAIN q : i \in Nat /\ i <= Len(q) /\ Append(q, job)[i] = q[i]
         /\ Append(q, job)[Len(q) + 1] = job
<1>1. DOMAIN q = 1 .. Len(q) /\ Len(q) \in Nat
  BY LenProperties
<1>2. /\ Len(Append(q, job)) = Len(q) + 1 /\ Append(q, job) \in Seq(Jobs)
      /\ \A i \in 1 .. Len(q) : Append(q, job)[i] = q[i]
      /\ Append(q, job)[Len(q) + 1] = job
  BY AppendProperties
<1>3. DOMAIN Append(q, job) = 1 .. Len(Append(q, job))
  BY <1>2, LenProperties
<1>. QED BY <1>1, <1>2, <1>3

\* The oldest job is taken.
LEMMA Taken ==
  ASSUME NEW q \in Seq(Jobs), q # <<>>
  PROVE  /\ Tail(q) \in Seq(Jobs) /\ Head(q) = q[1] /\ 1 \in DOMAIN q
         /\ DOMAIN Tail(q) = {i \in Nat : i + 1 \in DOMAIN q /\ i # 0}
         /\ \A i \in DOMAIN Tail(q) : i \in Nat /\ i + 1 \in DOMAIN q /\ Tail(q)[i] = q[i + 1]
         /\ \A i \in DOMAIN q : i \in Nat /\ (i # 1 => i - 1 \in DOMAIN Tail(q) /\ Tail(q)[i - 1] = q[i])
<1>1. DOMAIN q = 1 .. Len(q) /\ Len(q) \in Nat /\ Len(q) # 0
  BY LenProperties, EmptySeq
<1>2. /\ Tail(q) \in Seq(Jobs) /\ Len(Tail(q)) = Len(q) - 1
      /\ \A i \in 1 .. Len(Tail(q)) : Tail(q)[i] = q[i + 1]
      /\ Head(q) = q[1]
  BY HeadTailProperties
<1>3. DOMAIN Tail(q) = 1 .. Len(q) - 1
  BY <1>2, LenProperties
<1>. QED BY <1>1, <1>2, <1>3

\* The continuation of the pass moves outside the line, and may queue its
\* next command.
Queued(rest) ==
  line' = IF drive'.pc \in CommandPcs THEN Append(rest, DriveJob(drive')) ELSE rest

\* A typed queued command.
LEMMA DriveJobTyped ==
  ASSUME drive' \in Drives, drive'.op \in Ops
  PROVE  /\ DriveJob(drive') \in Jobs /\ DriveJob(drive').k = "drive"
         /\ DriveJob(drive').pass = drive'.pass /\ DriveJob(drive').op = drive'.op
<1>1. drive'.pass \in Passes \cup {0}
  BY DEF Drives
<1>. QED BY <1>1 DEF DriveJob, Job, Jobs

\* What a step of the pass leaves as it was, and what its gate may do.
PassStays ==
  /\ drive.pc # "none" /\ drive'.pc # "none"
  /\ drive'.op = drive.op /\ drive'.pass = drive.pass /\ passes' = passes
  /\ drive.gate # "open" => drive'.gate # "open"
  /\ drive.released => drive'.released
  /\ drive'.gate # "open" /\ ~drive'.released => drive.gate # "open"

\* A step outside the line: the line keeps its order and gains at most the
\* pass's next command.
LEMMA PassLine ==
  ASSUME Typed, Typed', Lined, PassStays, drive.pc \notin CommandPcs, drive'.ran = drive.ran,
         Queued(line)
  PROVE  Lined'
<1>0. line \in Seq(Jobs) /\ drive' \in Drives /\ drive'.op \in Ops
  BY DEF Typed, TypeOK, Installed, PassStays
<1>1. /\ drive'.pass <= passes' /\ (drive'.pc # "none" => drive'.pass # 0)
  BY DEF Lined, PassStays
<1>2. CASE line' = line
  <2>1. ASSUME NEW i \in DOMAIN line PROVE JobOK(i)' /\ \A j \in DOMAIN line : PairOK(i, j)'
    <3>1. JobOK(i) /\ line[i].k # "drive"
      BY DEF Lined, JobOK
    <3>2. JobOK(i)'
      BY <1>2, <3>1 DEF JobOK, Missed, PassStays
    <3>3. ASSUME NEW j \in DOMAIN line PROVE PairOK(i, j)'
      <4>1. PairOK(i, j)
        BY DEF Lined
      <4>. QED BY <1>2, <4>1 DEF PairOK, Missed, PassStays
    <3>. QED BY <3>2, <3>3
  <2>2. drive'.gate # "open" /\ ~drive'.released => \E i \in DOMAIN line : Releaser(line[i])'
    BY <1>2 DEF Lined, PassStays, Releaser
  <2>. QED BY <1>1, <1>2, <2>1, <2>2 DEF Lined, Releaser
<1>3. CASE drive'.pc \in CommandPcs /\ line' = Append(line, DriveJob(drive'))
  <2> DEFINE job == DriveJob(drive')
  <2>1. job \in Jobs /\ job.k = "drive" /\ job.pass = drive'.pass
    BY <1>0, DriveJobTyped
  <2> HIDE DEF job
  <2>2. PICK n \in Nat :
          /\ DOMAIN line' = DOMAIN line \cup {n} /\ line'[n] = job
          /\ \A i \in DOMAIN line : i \in Nat /\ i < n /\ line'[i] = line[i]
    BY <1>0, <1>3, <2>1, Joined DEF job
  <2>3. ASSUME NEW i \in DOMAIN line PROVE JobOK(i)'
    <3>1. JobOK(i) /\ line'[i] = line[i]
      BY <2>2 DEF Lined
    <3>. QED BY <1>3, <3>1 DEF JobOK, Missed, PassStays
  <2>4. JobOK(n)'
    BY <1>1, <1>3, <2>1, <2>2 DEF JobOK, Missed
  <2>5. ASSUME NEW i \in DOMAIN line, NEW j \in DOMAIN line PROVE PairOK(i, j)'
    <3>1. PairOK(i, j) /\ line'[i] = line[i] /\ line'[j] = line[j]
      BY <2>2 DEF Lined
    <3>. QED BY <3>1 DEF PairOK, Missed, PassStays
  <2>6. ASSUME NEW i \in DOMAIN line PROVE PairOK(i, n)' /\ PairOK(n, i)'
    <3>1. JobOK(i) /\ line'[i] = line[i] /\ i < n
      BY <2>2 DEF Lined
    <3>2. line[i].k # "drive"
      BY <3>1 DEF JobOK
    <3>. QED BY <2>1, <2>2, <3>1, <3>2 DEF PairOK, Missed, JobOK, PassStays
  <2>7. PairOK(n, n)'
    BY <2>1, <2>2 DEF PairOK, Missed
  <2>8. drive'.gate # "open" /\ ~drive'.released => \E i \in DOMAIN line' : Releaser(line[i])'
    <3>1. SUFFICES ASSUME drive'.gate # "open", ~drive'.released
                   PROVE  \E i \in DOMAIN line' : Releaser(line[i])'
      OBVIOUS
    <3>2. PICK i \in DOMAIN line : Releaser(line[i])
      BY <3>1 DEF Lined, PassStays
    <3>. QED BY <2>2, <3>2 DEF Releaser, PassStays
  <2>. QED BY <1>1, <2>2, <2>3, <2>4, <2>5, <2>6, <2>7, <2>8 DEF Lined
<1>. QED BY <1>2, <1>3 DEF Queued

\* A job of another kind is taken off the line; the pass is left where it was.
LEMMA TailLine ==
  ASSUME Typed, Lined, line # <<>>, line' = Tail(line), passes' = passes,
         drive'.pc = drive.pc, drive'.op = drive.op, drive'.pass = drive.pass,
         drive'.ran = drive.ran, drive.gate # "open" => drive'.gate # "open",
         drive.pc # "none" /\ drive'.gate # "open" /\ ~drive'.released =>
           drive.gate # "open" /\ ~drive.released /\ ~Releaser(Head(line))
  PROVE  Lined'
<1>0. line \in Seq(Jobs)
  BY DEF Typed, TypeOK
<1>1. /\ Head(line) = line[1]
      /\ \A i \in DOMAIN line' : i \in Nat /\ i + 1 \in DOMAIN line /\ line'[i] = line[i + 1]
      /\ \A i \in DOMAIN line : i \in Nat /\ (i # 1 => i - 1 \in DOMAIN line' /\ line'[i - 1] = line[i])
  BY <1>0, Taken
<1>2. ASSUME NEW i \in DOMAIN line' PROVE JobOK(i)'
  <2>1. i \in Nat /\ i + 1 \in DOMAIN line /\ line'[i] = line[i + 1]
    BY <1>1
  <2>2. JobOK(i + 1)
    BY <2>1 DEF Lined
  <2>. QED BY <2>1, <2>2 DEF JobOK, Missed
<1>3. ASSUME NEW i \in DOMAIN line', NEW j \in DOMAIN line' PROVE PairOK(i, j)'
  <2>1. /\ i \in Nat /\ i + 1 \in DOMAIN line /\ line'[i] = line[i + 1]
        /\ j \in Nat /\ j + 1 \in DOMAIN line /\ line'[j] = line[j + 1]
    BY <1>1
  <2>2. PairOK(i + 1, j + 1)
    BY <2>1 DEF Lined
  <2>. QED BY <2>1, <2>2 DEF PairOK, Missed
<1>4. ASSUME drive'.pc # "none", drive'.gate # "open", ~drive'.released
      PROVE  \E i \in DOMAIN line' : Releaser(line[i])'
  <2>1. PICK i \in DOMAIN line : Releaser(line[i])
    BY <1>4 DEF Lined
  <2>2. i # 1
    BY <1>1, <1>4, <2>1
  <2>3. i - 1 \in DOMAIN line' /\ line'[i - 1] = line[i]
    BY <1>1, <2>2
  <2>4. PICK m \in DOMAIN line' : line'[m] = line[i]
    BY <2>3
  <2>. QED BY <2>1, <2>4 DEF Releaser
<1>5. /\ drive'.pass <= passes' /\ (drive'.pc # "none" => drive'.pass # 0)
  BY DEF Lined
<1>. QED BY <1>2, <1>3, <1>4, <1>5 DEF Lined

\* A command of the pass runs: it was the only one, so every abort that never
\* saw the gate, being ahead of it, has run.
LEMMA CommandLine ==
  ASSUME Typed, Typed', Lined, NEW pc \in CommandPcs, Runs(pc), PassKept, passes' = passes,
         drive'.ran = TRUE, Queued(Tail(line))
  PROVE  Lined'
<1>0. /\ line \in Seq(Jobs) /\ line # <<>> /\ Head(line).k = "drive"
      /\ drive' \in Drives /\ drive'.op \in Ops /\ drive.pc # "none"
  BY CommandOwns DEF Typed, TypeOK, PassKept, Runs
<1>1. /\ Head(line) = line[1] /\ 1 \in DOMAIN line /\ Tail(line) \in Seq(Jobs)
      /\ \A i \in DOMAIN Tail(line) :
           i \in Nat /\ i # 0 /\ i + 1 \in DOMAIN line /\ Tail(line)[i] = line[i + 1]
      /\ \A i \in DOMAIN line :
           i \in Nat /\ (i # 1 => i - 1 \in DOMAIN Tail(line) /\ Tail(line)[i - 1] = line[i])
  BY <1>0, Taken
<1>2. PICK rest \in Seq(Jobs) : rest = Tail(line)
  BY <1>1
<1>3. drive'.pass <= passes' /\ drive'.pass # 0
  BY <1>0 DEF Lined, PassKept
\* What is left on the line.
<1>4. ASSUME NEW i \in DOMAIN rest
      PROVE  /\ rest[i].k # "drive" /\ rest[i].pass <= passes'
             /\ rest[i].k = "abort" /\ rest[i].op = drive.op => rest[i].pass = drive.pass
             /\ rest[i].k = "abort" /\ rest[i].pass = drive'.pass =>
                  drive'.gate # "open" /\ rest[i].op = drive'.op
             /\ rest[i].k = "claim" => rest[i].pass \notin {0, drive'.pass}
  <2>1. i \in Nat /\ i # 0 /\ i + 1 \in DOMAIN line /\ rest[i] = line[i + 1]
    BY <1>1, <1>2
  <2>2. JobOK(i + 1) /\ PairOK(i + 1, 1)
    BY <1>1, <2>1 DEF Lined
  <2>. QED BY <1>0, <1>1, <1>3, <2>1, <2>2 DEF JobOK, PairOK, Missed, PassKept
<1>5. ASSUME NEW i \in DOMAIN rest, NEW j \in DOMAIN rest,
             rest[i].k = "claim", rest[j].pass = rest[i].pass
      PROVE  i = j
  <2>1. /\ i \in Nat /\ i + 1 \in DOMAIN line /\ rest[i] = line[i + 1]
        /\ j \in Nat /\ j + 1 \in DOMAIN line /\ rest[j] = line[j + 1]
    BY <1>1, <1>2
  <2>2. PairOK(i + 1, j + 1)
    BY <2>1 DEF Lined
  <2>. QED BY <1>5, <2>1, <2>2 DEF PairOK
<1>6. ASSUME drive'.gate # "open", ~drive'.released
      PROVE  \E i \in DOMAIN rest : rest[i].k = "abort" /\ rest[i].own /\ rest[i].pass = drive'.pass
  <2>1. PICK i \in DOMAIN line : Releaser(line[i])
    BY <1>0, <1>6 DEF Lined, PassKept
  <2>2. i # 1
    BY <1>0, <1>1, <2>1 DEF Releaser
  <2>3. i - 1 \in DOMAIN rest /\ rest[i - 1] = line[i]
    BY <1>1, <1>2, <2>2
  <2>. QED BY <2>1, <2>3 DEF Releaser, PassKept
<1>7. CASE line' = rest
  <2>1. ASSUME NEW i \in DOMAIN line' PROVE JobOK(i)' /\ \A j \in DOMAIN line' : PairOK(i, j)'
    BY <1>4, <1>5, <1>7 DEF JobOK, PairOK, Missed, PassKept
  <2>. QED BY <1>3, <1>6, <1>7, <2>1 DEF Lined, Releaser
<1>8. CASE drive'.pc \in CommandPcs /\ line' = Append(rest, DriveJob(drive'))
  <2> DEFINE job == DriveJob(drive')
  <2>1. job \in Jobs /\ job.k = "drive" /\ job.pass = drive'.pass
    BY <1>0, DriveJobTyped
  <2> HIDE DEF job
  <2>2. PICK n \in Nat :
          /\ DOMAIN line' = DOMAIN rest \cup {n} /\ line'[n] = job
          /\ \A i \in DOMAIN rest : i \in Nat /\ i < n /\ line'[i] = rest[i]
    BY <1>8, <2>1, Joined DEF job
  <2>3. ASSUME NEW i \in DOMAIN line' PROVE JobOK(i)'
    <3>1. CASE i = n
      BY <1>3, <1>8, <2>1, <2>2, <3>1 DEF JobOK, Missed
    <3>2. CASE i \in DOMAIN rest
      BY <1>4, <2>2, <3>2 DEF JobOK, Missed, PassKept
    <3>. QED BY <2>2, <3>1, <3>2
  <2>4. ASSUME NEW i \in DOMAIN line', NEW j \in DOMAIN line' PROVE PairOK(i, j)'
    <3>1. CASE i \in DOMAIN rest /\ j \in DOMAIN rest
      BY <1>4, <1>5, <2>2, <3>1 DEF PairOK, Missed, PassKept
    <3>2. CASE i \in DOMAIN rest /\ j = n
      BY <1>4, <2>1, <2>2, <3>2 DEF PairOK, Missed, PassKept
    <3>3. CASE i = n
      BY <1>4, <2>1, <2>2, <3>3 DEF PairOK, Missed
    <3>. QED BY <2>2, <3>1, <3>2, <3>3
  <2>5. ASSUME drive'.gate # "open", ~drive'.released
        PROVE  \E i \in DOMAIN line' : Releaser(line[i])'
    <3>1. PICK i \in DOMAIN rest : rest[i].k = "abort" /\ rest[i].own /\ rest[i].pass = drive'.pass
      BY <1>6, <2>5
    <3>. QED BY <2>2, <3>1 DEF Releaser
  <2>. QED BY <1>3, <2>3, <2>4, <2>5 DEF Lined
<1>. QED BY <1>2, <1>7, <1>8 DEF Queued

-----------------------------------------------------------------------------
(***************************************************************************)
(* Steps of the continuation outside the line.                             *)
(***************************************************************************)
\* How a step outside the line goes on: gate and durable state stay.
Turn(pc, resume, at, res, moved) ==
  /\ Fields(drive', pc, resume, at, res, drive.ran, moved)
  /\ drive'.gate = drive.gate /\ drive'.released = drive.released
  /\ Queued(line)
  /\ UNCHANGED <<durable, sent, reserved, passes>>

\* Every way to go on is such a turn.
LEMMA Turns ==
  ASSUME drive \in Drives, NEW pc \in Targets, NEW res \in LocalResults,
         UNCHANGED <<durable, sent, reserved, passes>>
  PROVE  /\ Goto(To(pc), line) => Turn(pc, "none", drive.at, drive.res, drive.moved)
         /\ Goto(ToWith(pc, res), line) => Turn(pc, "none", drive.at, res, drive.moved)
         /\ Goto(Park(pc, res), line) => Turn("parked", pc, drive.at, res, drive.moved)
         /\ drive' = To(pc) /\ line' = line /\ pc \notin CommandPcs =>
              Turn(pc, "none", drive.at, drive.res, drive.moved)
         /\ drive' = Park(pc, res) /\ line' = line =>
              Turn("parked", pc, drive.at, res, drive.moved)
<1>1. "parked" \notin CommandPcs
  BY DEF CommandPcs
<1>2. /\ Fields(To(pc), pc, "none", drive.at, drive.res, drive.ran, drive.moved)
      /\ Fields(ToWith(pc, res), pc, "none", drive.at, res, drive.ran, drive.moved)
      /\ Fields(Park(pc, res), "parked", pc, drive.at, res, drive.ran, drive.moved)
      /\ SameGate(To(pc)) /\ SameGate(ToWith(pc, res)) /\ SameGate(Park(pc, res))
  BY Continues
<1>3. ASSUME NEW d, NEW p, NEW resume, NEW r, NEW m, SameGate(d),
             Fields(d, p, resume, drive.at, r, drive.ran, m),
             drive' = d, line' = IF d.pc \in CommandPcs THEN Append(line, DriveJob(d)) ELSE line
      PROVE  Turn(p, resume, drive.at, r, m)
  BY <1>3 DEF Turn, Queued, SameGate
<1>4. ASSUME NEW d, NEW p, NEW resume, NEW r, NEW m, SameGate(d),
             Fields(d, p, resume, drive.at, r, drive.ran, m), Goto(d, line)
      PROVE  Turn(p, resume, drive.at, r, m)
  BY <1>3, <1>4 DEF Goto
<1>5. ASSUME NEW d, NEW p, NEW resume, NEW r, NEW m, SameGate(d),
             Fields(d, p, resume, drive.at, r, drive.ran, m), drive' = d, line' = line,
             p \notin CommandPcs
      PROVE  Turn(p, resume, drive.at, r, m)
  BY <1>3, <1>5 DEF Fields
<1>. QED BY <1>1, <1>2, <1>4, <1>5

\* Where each step of the continuation begins.
LEMMA TurnLine ==
  ASSUME Typed, Typed', Lined, drive.pc \notin CommandPcs \cup {"none"},
         NEW pc, NEW resume, NEW at, NEW res, NEW moved, pc # "none",
         Turn(pc, resume, at, res, moved)
  PROVE  Lined'
BY PassLine DEF PassStays, Turn, Fields


\* The gate points, hooks and the cancellation a refused pass waits for.
LEMMA HooksKeep ==
  ASSUME Lane, Typed', Kept,
         EnterCancelled \/ AdmitHook \/ RefuseHook \/ HookReturns \/ CancellationResolves
  PROVE  Kept'
<1>0. /\ Typed /\ drive \in Drives /\ drive.res \in LocalResults /\ drive.resume \in Pcs
      /\ Standing /\ Knowing /\ Gated /\ Lined /\ Admitting
      /\ drive.pc = "entry" => drive.at = "none"
      /\ Owns(drive) => IsCurrent(drive) /\ operation.at = drive.at
      /\ drive.pc \notin {"none", "done"} => IsCurrent(drive)
  BY DEF Lane, Typed, TypeOK, Installed, OwnsCurrentLeaf, Drives, Kept, Knowing
<1>t. {"dispatch", "stage", "settle"} \subseteq Targets /\ "blocked" \in LocalResults
      /\ {"entry", "hook", "parked", "gate", "responseGate", "boundaryGate"} \cap CommandPcs = {}
  BY Target DEF CommandPcs, LocalResults
<1>1. CASE EnterCancelled
  <2>1. Turn("dispatch", "none", drive.at, drive.res, drive.moved)
        /\ drive.pc = "entry" /\ Cancelled
    BY <1>0, <1>t, <1>1, Turns DEF EnterCancelled, CommandPcs
  <2>2. Standing'
    BY <2>1 DEF Turn, Fields, Standing, AtLeaf
  <2>3. Knowing'
    BY <1>0, <2>1 DEF Turn, Fields, Knowing, IsCurrent, Cancelled, durable, EnteringHook
  <2>4. Gated'
    BY <1>0, <2>1 DEF Turn, Fields, Gated, Early
  <2>5. Admitting'
    BY <1>0, <2>1 DEF Turn, Fields, Admitting, Planning, Owns, Owning, CommandPcs
  <2>6. Lined'
    BY <1>0, <1>t, <2>1, TurnLine
  <2>. QED BY <2>2, <2>3, <2>4, <2>5, <2>6 DEF Kept
<1>2. CASE AdmitHook
  <2>1. /\ Turn("hook", AfterHook, drive.at, drive.res, drive.moved)
        /\ drive.pc \in {"entry", "gate", "responseGate", "boundaryGate"}
        /\ drive.pc = "entry" => ~Cancelled
        /\ drive.gate = "open"
    <3>1. AfterHook \in Pcs /\ "hook" \in Pcs
      BY DEF AfterHook, Pcs, CommandPcs
    <3>2. /\ drive' = [drive EXCEPT !.pc = "hook", !.resume = AfterHook]
          /\ UNCHANGED <<durable, line, sent, reserved, passes>>
      BY <1>2 DEF AdmitHook
    <3>3. Fields(drive', "hook", AfterHook, drive.at, drive.res, drive.ran, drive.moved)
          /\ drive'.gate = drive.gate /\ drive'.released = drive.released
      BY <1>0, <3>1, <3>2 DEF Fields, Drives
    <3>4. Queued(line)
      BY <1>t, <3>2, <3>3 DEF Queued, Fields
    <3>. QED BY <1>2, <3>2, <3>3, <3>4 DEF Turn, AdmitHook, GatePcs
  <2>2. Standing'
    BY <1>0, <2>1 DEF Turn, Fields, Standing, AtLeaf, AfterHook, Silent, Streams, Summary
  <2>3. Knowing'
    BY <1>0, <2>1 DEF Turn, Fields, Knowing, IsCurrent, Cancelled, durable, EnteringHook,
       AfterHook
  <2>4. Gated'
    BY <1>0, <2>1 DEF Turn, Fields, Gated, Early, EnteringHook, AfterHook, IsCurrent, Cancelled,
       durable
  <2>5. Admitting'
    BY <1>0, <2>1 DEF Turn, Fields, Admitting, Planning, Owns, Owning, CommandPcs, AfterHook,
       Unsent, durable
  <2>6. Lined'
    BY <1>0, <1>t, <2>1, TurnLine
  <2>. QED BY <2>2, <2>3, <2>4, <2>5, <2>6 DEF Kept
<1>3. CASE RefuseHook
  <2>1. /\ drive.pc \in {"entry", "gate", "responseGate", "boundaryGate"}
        /\ drive.gate # "open" /\ UNCHANGED <<durable, sent, reserved, passes>>
    BY <1>3 DEF RefuseHook, GatePcs
  <2>2. CASE drive.pc = "responseGate" /\ drive.at = "tools"
    <3>1. Turn("stage", "none", drive.at, drive.res, drive.moved)
      BY <1>0, <1>t, <1>3, <2>1, <2>2, Turns DEF RefuseHook
    <3>2. Standing'
      BY <2>2, <3>1 DEF Turn, Fields, Standing, AtLeaf
    <3>3. Knowing'
      BY <1>0, <2>2, <3>1 DEF Turn, Fields, Knowing, IsCurrent, Cancelled, durable, EnteringHook
    <3>4. Gated'
      BY <2>1, <3>1 DEF Turn, Gated
    <3>5. Admitting'
      BY <1>0, <2>2, <3>1 DEF Turn, Fields, Admitting, Planning, Owns, Owning, CommandPcs,
         durable
    <3>6. Lined'
      BY <1>0, <1>t, <2>2, <3>1, TurnLine
    <3>. QED BY <3>2, <3>3, <3>4, <3>5, <3>6 DEF Kept
  <2>3. CASE ~(drive.pc = "responseGate" /\ drive.at = "tools")
    <3>1. /\ Turn("parked", RefusalPoint, drive.at, RefusalResult, drive.moved)
          /\ RefusalPoint \in {"settle", "stage", "dispatch"}
      <4>1. Goto(AfterRefusal, line)
        BY <1>3, <2>3 DEF RefuseHook
      <4>2. RefusalPoint \in {"settle", "stage", "dispatch"}
        BY DEF RefusalPoint
      <4>3. RefusalResult \in LocalResults
        BY <1>0, <2>1, RefusalPointSame DEF GatePcs
      <4>. QED BY <1>0, <1>t, <2>1, <4>1, <4>2, <4>3, Turns DEF AfterRefusal
    <3>2. Standing'
      BY <1>0, <2>1, <2>3, <3>1 DEF Turn, Fields, Standing, AtLeaf, RefusalPoint, Streams, Summary
    <3>3. Knowing'
      BY <1>0, <2>1, <3>1 DEF Turn, Fields, Knowing, IsCurrent, Cancelled, durable, EnteringHook
    <3>4. Gated'
      BY <2>1, <3>1 DEF Turn, Gated
    <3>5. Admitting'
      BY <1>0, <2>1, <3>1 DEF Turn, Fields, Admitting, Planning, Owns, Owning, CommandPcs,
         RefusalPoint, durable
    <3>6. Lined'
      BY <1>0, <1>t, <2>1, <3>1, TurnLine
    <3>. QED BY <3>2, <3>3, <3>4, <3>5, <3>6 DEF Kept
  <2>. QED BY <2>2, <2>3
<1>4. CASE HookReturns
  <2>1. drive.pc = "hook" /\ UNCHANGED <<durable, sent, reserved, passes>>
        /\ drive.resume \in Targets
    BY <1>0, <1>4 DEF HookReturns, Typed, Installed
  <2>2. CASE Goto(To(drive.resume), line)
    <3>1. Turn(drive.resume, "none", drive.at, drive.res, drive.moved)
          /\ drive.resume \in {"dispatch", "boundaryPublish", "stage", "settle", "publish",
                               "admit", "nested", "intent"}
      BY <1>0, <2>1, <2>2, Turns DEF Standing
    <3>2. Standing'
      BY <1>0, <2>1, <3>1 DEF Turn, Fields, Standing
    <3>3. Knowing'
      BY <1>0, <2>1, <3>1 DEF Turn, Fields, Knowing, IsCurrent, Cancelled, durable,
         EnteringHook, Standing, Streams, Summary
    <3>4. Gated'
      BY <1>0, <2>1, <3>1 DEF Turn, Fields, Gated, Early, EnteringHook, IsCurrent, Cancelled,
         durable
    <3>5. Admitting'
      BY <1>0, <2>1, <3>1 DEF Turn, Fields, Admitting, Planning, Owns, Owning, CommandPcs,
         Unsent, Standing, OwesEffect, durable
    <3>6. Lined'
      BY <1>0, <1>t, <2>1, <3>1, TurnLine
    <3>. QED BY <3>2, <3>3, <3>4, <3>5, <3>6 DEF Kept
  <2>3. CASE drive.at = "tools" /\ drive.resume = "intent" /\ Goto(ToWith("stage", "blocked"), line)
    <3>1. Turn("stage", "none", drive.at, "blocked", drive.moved)
      BY <1>0, <1>t, <2>1, <2>3, Turns
    <3>2. Standing'
      BY <2>3, <3>1 DEF Turn, Fields, Standing, AtLeaf
    <3>3. Knowing'
      BY <1>0, <2>1, <3>1 DEF Turn, Fields, Knowing, IsCurrent, Cancelled, durable, EnteringHook
    <3>4. Gated'
      BY <1>0, <2>1, <2>3, <3>1 DEF Turn, Fields, Gated, Early, EnteringHook, IsCurrent,
         Cancelled, durable
    <3>5. Admitting'
      BY <1>0, <2>1, <2>3, <3>1 DEF Turn, Fields, Admitting, Planning, Owns, Owning,
         CommandPcs, durable
    <3>6. Lined'
      BY <1>0, <1>t, <2>1, <3>1, TurnLine
    <3>. QED BY <3>2, <3>3, <3>4, <3>5, <3>6 DEF Kept
  <2>. QED BY <1>4, <2>2, <2>3 DEF HookReturns
<1>5. CASE CancellationResolves
  <2>1. /\ drive.pc = "parked" /\ drive.released /\ drive.gate # "open" /\ Cancelled
        /\ drive.resume \in {"settle", "stage", "dispatch"}
        /\ Turn(drive.resume, "none", drive.at, drive.res, drive.moved)
    <3>1. drive.pc = "parked" /\ drive.released /\ Goto(To(drive.resume), line)
          /\ UNCHANGED <<durable, sent, reserved, passes>>
      BY <1>5 DEF CancellationResolves
    <3>2. drive.gate # "open" /\ Cancelled /\ drive.resume \in {"settle", "stage", "dispatch"}
      BY <1>0, <3>1 DEF Knowing, Standing
    <3>. QED BY <1>0, <1>t, <3>1, <3>2, Turns
  <2>2. Standing'
    BY <1>0, <2>1 DEF Turn, Fields, Standing, AtLeaf
  <2>3. Knowing'
    BY <1>0, <2>1 DEF Turn, Fields, Knowing, IsCurrent, Cancelled, durable, EnteringHook,
       Standing, Streams, Summary
  <2>4. Gated'
    BY <2>1 DEF Turn, Gated
  <2>5. Admitting'
    BY <1>0, <2>1 DEF Turn, Fields, Admitting, Planning, Owns, Owning, CommandPcs, durable
  <2>6. Lined'
    BY <1>0, <1>t, <2>1, TurnLine
  <2>. QED BY <2>2, <2>3, <2>4, <2>5, <2>6 DEF Kept
<1>. QED BY <1>1, <1>2, <1>3, <1>4, <1>5

\* The driver loop and the retry wait.
LEMMA DriverKeeps ==
  ASSUME Lane, Typed', Kept, Dispatch \/ Complete \/ Sleep \/ WakeByTime \/ WakeByAbort
  PROVE  Kept'
<1>0. /\ Typed /\ drive \in Drives /\ drive.res \in LocalResults
      /\ Standing /\ Knowing /\ Gated /\ Lined /\ Admitting
      /\ Owns(drive) => IsCurrent(drive) /\ operation.at = drive.at
      /\ drive.pc \notin {"none", "done"} => IsCurrent(drive)
  BY DEF Lane, Typed, TypeOK, OwnsCurrentLeaf, Drives, Kept, Knowing
<1>t. {"dispatch", "sleeping", "publish"} \subseteq Targets /\ "none" \in LocalResults
      /\ {"dispatch", "sleeping", "sleepGate", "done", "none"} \cap CommandPcs = {}
  BY Target DEF CommandPcs, LocalResults, Owning
<1>1. CASE Dispatch
  <2>0. /\ drive.pc = "dispatch" /\ IsCurrent(drive) /\ ~Stuck
        /\ UNCHANGED <<durable, sent, reserved, passes>>
    BY <1>0, <1>1 DEF Dispatch, Stuck, Knowing
  <2>a. operation.at \in Leaves
    <3>1. drive.op \in Ops
      BY <1>0, <2>0 DEF Typed, Installed
    <3>2. operation \in OperationStates
      BY <1>0, <2>0, <3>1, LeavesAssumption DEF LeavesAssumption, Typed, TypeOK, IsCurrent,
         NoOperation
    <3>. QED BY <3>2 DEF OperationStates
  <2>1. CASE Cancelled
    <3>1. drive' = [drive EXCEPT !.pc = ReconcilePoint(operation.at), !.res = "none",
                                 !.at = operation.at, !.moved = FALSE, !.gate = "signalled",
                                 !.released = @ \/ drive.gate = "open"]
          /\ Queued(line)
      <4>1. DispatchCancelled
        BY <1>1, <2>0, <2>1 DEF Dispatch
      <4>. QED BY <4>1 DEF DispatchCancelled, Goto, Queued
    <3>2. /\ Fields(drive', ReconcilePoint(operation.at), drive.resume, operation.at, "none",
                    drive.ran, FALSE)
          /\ drive'.gate = "signalled" /\ drive'.released = (drive.released \/ drive.gate = "open")
      BY <1>0, <3>1 DEF Fields, Drives
    <3>3. Standing'
      BY <2>a, <3>2 DEF Fields, Standing, AtLeaf, ReconcilePoint, Silent, Streams
    <3>4. Knowing'
      BY <2>0, <2>1, <3>2 DEF Fields, Knowing, IsCurrent, Cancelled, durable, EnteringHook,
         ReconcilePoint
    <3>5. Gated'
      BY <3>2 DEF Gated
    <3>6. Admitting'
      BY <3>2 DEF Fields, Admitting, Planning, Owns, ReconcilePoint
    <3>7. Lined'
      <4>1. PassStays
        BY <2>0, <3>2 DEF Fields, PassStays, ReconcilePoint
      <4>. QED BY <1>0, <1>t, <2>0, <3>1, <3>2, <4>1, PassLine DEF Fields
    <3>. QED BY <3>3, <3>4, <3>5, <3>6, <3>7 DEF Kept
  <2>2. CASE ~Cancelled
    <3>1. PICK pc \in {"read", "publish", "sleepGate", "done"},
               res \in {"none", "misconfigured", "interrupted"} :
            /\ Enter(pc, res)
            /\ pc \in {"publish", "sleepGate"} => operation.at \notin Silent
            /\ pc # "read" => operation.at # "tools"
      BY <1>1, <2>0, <2>2 DEF Dispatch, DispatchRunning, Silent
    <3>2. /\ Fields(drive', pc, drive.resume, operation.at, res, drive.ran, FALSE)
          /\ drive'.gate = drive.gate /\ drive'.released = drive.released
          /\ Queued(line)
      BY <1>0, <3>1 DEF Enter, Goto, Queued, Fields, Drives
    <3>3. Standing'
      BY <3>1, <3>2 DEF Fields, Standing, AtLeaf
    <3>4. Knowing'
      BY <1>0, <2>0, <3>1, <3>2 DEF Fields, Knowing, IsCurrent, Cancelled, durable, EnteringHook
    <3>5. Gated'
      BY <2>0, <2>2, <3>1, <3>2 DEF Fields, Gated, Early, Cancelled, durable
    <3>6. Admitting'
      BY <3>1, <3>2 DEF Fields, Admitting, Planning, Owns
    <3>7. Lined'
      <4>1. PassStays
        BY <2>0, <3>1, <3>2 DEF Fields, PassStays
      <4>. QED BY <1>0, <1>t, <2>0, <3>2, <4>1, PassLine DEF Fields
    <3>. QED BY <3>3, <3>4, <3>5, <3>6, <3>7 DEF Kept
  <2>. QED BY <2>1, <2>2
<1>2. CASE Complete
  <2>1. drive.pc = "done" /\ drive' = NoDrive /\ UNCHANGED <<line, passes>>
    BY <1>2 DEF Complete
  <2>2. Standing' /\ Knowing' /\ Gated' /\ Admitting'
    BY <2>1 DEF NoDrive, Standing, AtLeaf, Knowing, Gated, Admitting, Planning
  <2>3. Lined'
    <3>1. ASSUME NEW i \in DOMAIN line, NEW j \in DOMAIN line PROVE JobOK(i)' /\ PairOK(i, j)'
      <4>1. JobOK(i) /\ PairOK(i, j)
        BY <1>0 DEF Lined
      <4>. QED BY <1>t, <2>1, <4>1 DEF JobOK, PairOK, NoDrive
    <3>2. passes \in Nat /\ NoDrive.pass = 0 /\ NoDrive.pc = "none"
      BY <1>0, DriveAssumption DEF DriveAssumption, Typed, TypeOK, NoDrive
    <3>. QED BY <2>1, <3>1, <3>2 DEF Lined
  <2>. QED BY <2>2, <2>3 DEF Kept
<1>3. CASE Sleep \/ WakeByTime \/ WakeByAbort
  <2>0. /\ drive.pc \in {"sleepGate", "sleeping"} /\ drive.at \notin Silent
        /\ UNCHANGED <<durable, sent, reserved, passes>>
    BY <1>0, <1>3 DEF Sleep, WakeByTime, WakeByAbort, Standing, AtLeaf
  <2>1. CASE \E pc \in {"sleeping", "publish"} :
               Turn(pc, "none", drive.at, drive.res, drive.moved)
    <3>1. PICK pc \in {"sleeping", "publish"} :
            Turn(pc, "none", drive.at, drive.res, drive.moved)
      BY <2>1
    <3>2. Standing'
      BY <2>0, <3>1 DEF Turn, Fields, Standing, AtLeaf
    <3>3. Knowing'
      BY <1>0, <2>0, <3>1 DEF Turn, Fields, Knowing, IsCurrent, Cancelled, durable, EnteringHook
    <3>4. Gated'
      BY <3>1 DEF Turn, Fields, Gated, Early
    <3>5. Admitting'
      BY <2>0, <3>1 DEF Turn, Fields, Admitting, Planning, Silent
    <3>6. Lined'
      BY <1>0, <1>t, <2>0, <3>1, TurnLine
    <3>. QED BY <3>2, <3>3, <3>4, <3>5, <3>6 DEF Kept
  <2>2. CASE drive.gate # "open" /\ Turn("parked", "dispatch", drive.at, "none", drive.moved)
    <3>2. Standing'
      BY <2>2 DEF Turn, Fields, Standing, AtLeaf
    <3>3. Knowing'
      BY <1>0, <2>0, <2>2 DEF Turn, Fields, Knowing, IsCurrent, Cancelled, durable, EnteringHook
    <3>4. Gated'
      BY <2>2 DEF Turn, Gated
    <3>5. Admitting'
      BY <2>0, <2>2 DEF Turn, Fields, Admitting, Planning, Silent
    <3>6. Lined'
      BY <1>0, <1>t, <2>0, <2>2, TurnLine
    <3>. QED BY <3>2, <3>3, <3>4, <3>5, <3>6 DEF Kept
  <2>3. Sleep => \/ Turn("sleeping", "none", drive.at, drive.res, drive.moved)
                 \/ drive.gate # "open" /\ Turn("parked", "dispatch", drive.at, "none", drive.moved)
    BY <1>0, <1>t, <2>0, Turns DEF Sleep
  <2>4. WakeByTime => Turn("publish", "none", drive.at, drive.res, drive.moved)
    BY <1>0, <1>t, <2>0, Turns DEF WakeByTime
  <2>5. WakeByAbort => /\ drive.gate # "open"
                       /\ Turn("parked", "dispatch", drive.at, "none", drive.moved)
    BY <1>0, <1>t, <2>0, Turns DEF WakeByAbort
  <2>. QED BY <1>3, <2>1, <2>2, <2>3, <2>4, <2>5
<1>. QED BY <1>1, <1>2, <1>3

\* The effect, its refusal, and the other steps of the procedures.
LEMMA ProceduresKeep ==
  ASSUME Lane, Typed', Kept, SignalMeansCancelled,
         CancelRemote \/ SelectCall \/ RefuseEffect \/ EffectReturns
  PROVE  Kept'
<1>0. /\ Typed /\ drive \in Drives /\ drive.res \in LocalResults
      /\ Standing /\ Knowing /\ Gated /\ Lined /\ Admitting
      /\ Owns(drive) => IsCurrent(drive) /\ operation.at = drive.at
      /\ drive.pc \in {"cancelRemote", "select", "admit", "inflight"} =>
           IsCurrent(drive) /\ operation.at = drive.at
  BY DEF Lane, Typed, TypeOK, OwnsCurrentLeaf, Drives, Kept, Knowing, Owns, Owning
<1>t. /\ {"dispatch", "stage", "gate", "clear", "terminal", "settle", "responseGate"} \subseteq Targets
      /\ {"aborted", "interrupted", "blocked", "answer"} \subseteq LocalResults
      /\ {"cancelRemote", "select", "admit", "inflight"} \cap (CommandPcs \cup {"none"}) = {}
  BY Target DEF CommandPcs, LocalResults, Owning
<1>1. CASE CancelRemote
  <2>1. PICK pc \in {"terminal", "settle"}, res \in {drive.res, "interrupted"} :
          /\ Turn(pc, "none", drive.at, res, drive.moved)
          /\ drive.pc = "cancelRemote"
          /\ IF drive.at = "deferred.suspended" THEN pc = "terminal" ELSE pc = "settle"
    BY <1>0, <1>t, <1>1, Turns DEF CancelRemote
  <2>2. Cancelled /\ drive.gate # "open"
    BY <1>0, <2>1 DEF Knowing, Gated, Early, EnteringHook
  <2>3. Standing'
    BY <1>0, <2>1 DEF Turn, Fields, Standing, AtLeaf, Silent, Streams
  <2>4. Knowing'
    BY <1>0, <2>1, <2>2 DEF Turn, Fields, Knowing, IsCurrent, Cancelled, durable, EnteringHook,
       Standing, AtLeaf, Summary
  <2>5. Gated'
    BY <2>1, <2>2 DEF Turn, Gated
  <2>6. Admitting'
    BY <1>0, <2>1 DEF Turn, Fields, Admitting, Planning, Standing, AtLeaf
  <2>7. Lined'
    BY <1>0, <1>t, <2>1, TurnLine
  <2>. QED BY <2>3, <2>4, <2>5, <2>6, <2>7 DEF Kept
<1>2. CASE SelectCall
  <2>0. /\ drive.pc = "select" /\ drive.at = "tools" /\ Owns(drive)
        /\ operation.call # "outcome_ready"
        /\ UNCHANGED <<durable, sent, reserved, passes>>
        /\ drive.gate = "open" => drive.ran
    BY <1>0, <1>2 DEF SelectCall, Standing, AtLeaf, Owns, Owning, Admitting, Gated, Early,
       EnteringHook
  <2>c. operation.call \in CallStatuses
    <3>1. operation # NoOperation
      BY <1>0, <2>0, LeavesAssumption DEF LeavesAssumption, IsCurrent, Typed, Installed,
         NoOperation
    <3>. QED BY <1>0, <3>1 DEF Typed, TypeOK, OperationStates
  <2>1. \/ \E res \in {"aborted", "interrupted", "blocked"} :
             /\ Turn("stage", "none", drive.at, res, drive.moved)
             /\ res = "aborted" => Cancelled
        \/ /\ ~Cancelled /\ operation.call = "planned"
           /\ Turn("gate", "none", drive.at, drive.res, drive.moved)
        \/ /\ ~Cancelled /\ operation.call = "effect_pending" /\ operation.safe
           /\ Turn("clear", "none", drive.at, drive.res, drive.moved)
    BY <1>0, <1>t, <1>2, <2>0, <2>c, Turns DEF SelectCall, MayReplay, CallStatuses
  <2>2. Standing'
    BY <2>0, <2>1 DEF Turn, Fields, Standing, AtLeaf
  <2>3. Knowing'
    BY <1>0, <2>0, <2>1 DEF Turn, Fields, Knowing, IsCurrent, Cancelled, durable, EnteringHook
  <2>4. Gated'
    BY <1>0, <2>0, <2>1 DEF Turn, Fields, Gated, IsCurrent, Cancelled, durable
  <2>5. Admitting'
    BY <1>0, <2>0, <2>1 DEF Turn, Fields, Admitting, Planning, Owns, durable
  <2>6. Lined'
    BY <1>0, <1>t, <2>0, <2>1, TurnLine
  <2>. QED BY <2>2, <2>3, <2>4, <2>5, <2>6 DEF Kept
<1>3. CASE RefuseEffect
  <2>1. /\ drive.pc = "admit" /\ drive.gate # "open"
        /\ RefusalPoint = IF drive.at = "tools" THEN "stage" ELSE "dispatch"
        /\ Turn("parked", RefusalPoint, drive.at, RefusalResult, drive.moved)
    <3>1. /\ drive.pc = "admit" /\ drive.gate # "open" /\ Goto(AfterRefusal, line)
          /\ UNCHANGED <<durable, sent, reserved, passes>>
      BY <1>3 DEF RefuseEffect
    <3>2. RefusalPoint = IF drive.at = "tools" THEN "stage" ELSE "dispatch"
      BY <3>1 DEF RefusalPoint
    <3>3. RefusalResult \in LocalResults
      BY <1>0, <3>1, RefusalPointSame
    <3>. QED BY <1>0, <1>t, <3>1, <3>2, <3>3, Turns DEF AfterRefusal
  <2>2. Standing'
    BY <2>1 DEF Turn, Fields, Standing, AtLeaf
  <2>3. Knowing'
    BY <1>0, <2>1 DEF Turn, Fields, Knowing, IsCurrent, Cancelled, durable, EnteringHook
  <2>4. Gated'
    BY <2>1 DEF Turn, Gated
  <2>5. Admitting'
    BY <1>0, <2>1 DEF Turn, Fields, Admitting, Planning, Owns, Owning, durable
  <2>6. Lined'
    BY <1>0, <1>t, <2>1, TurnLine
  <2>. QED BY <2>2, <2>3, <2>4, <2>5, <2>6 DEF Kept
<1>4. CASE EffectReturns
  <2>1. PICK res \in {"answer", "aborted"} :
          /\ drive.pc = "inflight"
          /\ res = "aborted" => drive.gate = "signalled"
          /\ Turn(IF drive.at = Summary THEN "settle" ELSE "responseGate",
                  "none", drive.at, res, drive.moved)
    BY <1>0, <1>t, <1>4, Turns DEF EffectReturns, Summary
  <2>2. /\ res = "aborted" => Cancelled
        /\ drive.gate = "open" => drive.ran /\ ~Cancelled
    BY <1>0, <2>1 DEF SignalMeansCancelled, Gated, Early, EnteringHook
  <2>3. Standing'
    BY <1>0, <2>1 DEF Turn, Fields, Standing, AtLeaf, Streams, Summary
  <2>4. Knowing'
    BY <1>0, <2>1, <2>2 DEF Turn, Fields, Knowing, IsCurrent, Cancelled, durable, EnteringHook
  <2>5. Gated'
    BY <2>1, <2>2 DEF Turn, Fields, Gated, Cancelled, durable
  <2>6. Admitting'
    BY <1>0, <2>1 DEF Turn, Fields, Admitting, Planning, Owns, Owning, Summary, durable
  <2>7. Lined'
    BY <1>0, <1>t, <2>1, TurnLine
  <2>. QED BY <2>3, <2>4, <2>5, <2>6, <2>7 DEF Kept
<1>. QED BY <1>1, <1>2, <1>3, <1>4

\* Nothing happens to the effects.
LEMMA EffectsLeft ==
  ASSUME Effected, FramesOwned, UNCHANGED <<durable, sent, reserved>>
  PROVE  Effected' /\ FramesOwned'
BY DEF Effected, FramesOwned, OwesEffect, durable

\* The effect is admitted: its id is the one the intent reserved, so nothing
\* beyond the reserved ids is sent.
LEMMA AdmitKeeps ==
  ASSUME Lane, Typed', Kept, Effected, FramesOwned, AdmitEffect
  PROVE  /\ Kept' /\ Effected' /\ FramesOwned'
         /\ IsCurrent(drive) /\ OwesEffect(operation) /\ ~Cancelled
         /\ operation.eff \in 1..reserved /\ outcomes[operation.eff] = "none"
         /\ Unsent \/ (operation.at = "tools" /\ operation.safe)
         /\ sent' = [sent EXCEPT ![operation.eff] = @ + 1]
<1>0. /\ Typed /\ drive \in Drives /\ sent \in [Effects -> Nat]
      /\ Standing /\ Knowing /\ Gated /\ Lined /\ Admitting
      /\ drive.pc = "admit" /\ drive.gate = "open"
      /\ sent' = [sent EXCEPT ![operation.eff] = @ + 1]
      /\ drive' = To("inflight") /\ UNCHANGED <<durable, line, reserved, passes>>
  BY DEF Lane, Typed, TypeOK, Kept, AdmitEffect
<1>1. IsCurrent(drive) /\ operation.at = drive.at
  BY <1>0 DEF Typed, OwnsCurrentLeaf, Owns, Owning
<1>2. operation # NoOperation
  BY <1>0, <1>1, LeavesAssumption DEF LeavesAssumption, IsCurrent, Typed, Installed, NoOperation
<1>3. ~Cancelled /\ drive.ran
  BY <1>0, <1>1 DEF Gated, Early, EnteringHook
<1>4. OwesEffect(operation) /\ (Unsent \/ (operation.at = "tools" /\ operation.safe))
  BY <1>0, <1>1 DEF Admitting
<1>5. operation.eff \in 1..reserved /\ outcomes[operation.eff] = "none"
  BY <1>2, <1>4 DEF Effected
<1>6. Fields(drive', "inflight", "none", drive.at, drive.res, drive.ran, drive.moved)
      /\ drive'.gate = drive.gate /\ drive'.released = drive.released
  <2>1. "inflight" \in Targets /\ "none" \in LocalResults
    BY Target DEF Owning, LocalResults
  <2>. QED BY <1>0, <2>1, Continues DEF SameGate
<1>7. Standing'
  BY <1>0, <1>6 DEF Fields, Standing, AtLeaf
<1>8. Knowing'
  BY <1>0, <1>1, <1>6 DEF Fields, Knowing, IsCurrent, Cancelled, durable, EnteringHook
<1>9. Gated'
  BY <1>0, <1>3, <1>6 DEF Fields, Gated, Cancelled, durable
<1>10. Admitting'
  BY <1>0, <1>6 DEF Fields, Admitting, Planning, Owns, Owning, durable
<1>11. Lined'
  <2>1. PassStays /\ Queued(line) /\ drive.pc \notin CommandPcs
    BY <1>0, <1>6 DEF Fields, PassStays, Queued, CommandPcs
  <2>. QED BY <1>0, <1>6, <2>1, PassLine DEF Fields
<1>12. Effected'
  <2>1. \A e \in Effects : e > reserved => sent'[e] = sent[e]
    BY <1>0, <1>5 DEF Typed, TypeOK
  <2>2. ~(operation.at = "tools" /\ operation.call = "planned")
    BY <1>4 DEF OwesEffect
  <2>. QED BY <1>0, <2>1, <2>2 DEF Effected, OwesEffect, durable
<1>13. FramesOwned'
  BY <1>0 DEF FramesOwned, durable
<1>. QED BY <1>0, <1>1, <1>3, <1>4, <1>5, <1>7, <1>8, <1>9, <1>10, <1>11, <1>12, <1>13 DEF Kept

\* Every step outside the line.
LEMMA PassStepKeeps ==
  ASSUME Lane, Kept, SignalMeansCancelled, Effected, FramesOwned, PassStep
  PROVE  Kept' /\ Effected' /\ FramesOwned'
<1>0. Typed'
  BY PassStepTyped DEF Lane
<1>1. CASE AdmitEffect
  BY <1>0, <1>1, AdmitKeeps
<1>2. CASE EnterCancelled \/ AdmitHook \/ RefuseHook \/ HookReturns \/ CancellationResolves
  <2>1. UNCHANGED <<durable, sent, reserved>>
    BY <1>2 DEF EnterCancelled, AdmitHook, RefuseHook, HookReturns, CancellationResolves
  <2>. QED BY <1>0, <1>2, <2>1, HooksKeep, EffectsLeft
<1>3. CASE Dispatch \/ Complete \/ Sleep \/ WakeByTime \/ WakeByAbort
  <2>1. UNCHANGED <<durable, sent, reserved>>
    BY <1>3 DEF Dispatch, Complete, Sleep, WakeByTime, WakeByAbort
  <2>. QED BY <1>0, <1>3, <2>1, DriverKeeps, EffectsLeft
<1>4. CASE CancelRemote \/ SelectCall \/ RefuseEffect \/ EffectReturns
  <2>1. UNCHANGED <<durable, sent, reserved>>
    BY <1>4 DEF CancelRemote, SelectCall, RefuseEffect, EffectReturns
  <2>. QED BY <1>0, <1>4, <2>1, ProceduresKeep, EffectsLeft
<1>. QED BY <1>1, <1>2, <1>3, <1>4 DEF PassStep

-----------------------------------------------------------------------------
(***************************************************************************)
(* Commands of the pass.                                                   *)
(***************************************************************************)
\* How a command of the pass goes on: it is off the line, and it has run.
CommandTurn(pc, at, res, moved) ==
  /\ Fields(drive', pc, "none", at, res, TRUE, moved)
  /\ Queued(Tail(line))

\* Every way a command that commits nothing, or the same leaf, goes on.
LEMMA CommandTurns ==
  ASSUME drive \in Drives, NEW pc \in Targets, NEW res \in LocalResults
  PROVE  /\ Goto(Ran(To(pc)), Tail(line)) => CommandTurn(pc, drive.at, drive.res, drive.moved)
         /\ Goto(Ran(ToWith(pc, res)), Tail(line)) => CommandTurn(pc, drive.at, res, drive.moved)
         /\ Goto([Ran(To(pc)) EXCEPT !.moved = TRUE], Tail(line)) =>
              CommandTurn(pc, drive.at, drive.res, TRUE)
         /\ Back => CommandTurn("dispatch", drive.at, drive.res, drive.moved)
<1>1. ASSUME NEW d, NEW p, NEW r, NEW m, Fields(d, p, "none", drive.at, r, TRUE, m),
             Goto(d, Tail(line))
      PROVE  CommandTurn(p, drive.at, r, m)
  BY <1>1 DEF CommandTurn, Queued, Goto
<1>2. /\ Fields(Ran(To(pc)), pc, "none", drive.at, drive.res, TRUE, drive.moved)
      /\ Fields(Ran(ToWith(pc, res)), pc, "none", drive.at, res, TRUE, drive.moved)
  BY Continues
<1>3. Fields([Ran(To(pc)) EXCEPT !.moved = TRUE], pc, "none", drive.at, drive.res, TRUE, TRUE)
  <2>1. PICK at \in Leaves : TRUE
    BY DEF Leaves
  <2>. QED BY <2>1, ContinuesMoved
<1>4. Fields(Ran(To("dispatch")), "dispatch", "none", drive.at, drive.res, TRUE, drive.moved)
  BY Target, Continues
<1>. QED BY <1>1, <1>2, <1>3, <1>4 DEF Back

\* An intent takes the continuation to the leaf it commits.
LEMMA IntendTurns ==
  ASSUME drive \in Drives, NEW pc \in Targets, NEW s \in OperationStates, NEW permits,
         Intend(s, pc, permits)
  PROVE  operation' = s /\ CommandTurn(pc, s.at, drive.res, TRUE)
<1> DEFINE d == [Ran(To(pc)) EXCEPT !.at = s.at, !.moved = TRUE, !.permits = permits]
<1>1. s.at \in Leaves
  BY DEF OperationStates
<1>2. Fields(d, pc, "none", s.at, drive.res, TRUE, TRUE)
  BY <1>1, ContinuesMoved
<1>3. Goto(d, Tail(line)) /\ operation' = s
  BY DEF Intend
<1> HIDE DEF d
<1>. QED BY <1>2, <1>3 DEF CommandTurn, Queued, Goto

\* What holds when a command of the pass runs.
LEMMA CommandFacts ==
  ASSUME Lane, Kept, PassCommand, NEW pc \in CommandPcs, Runs(pc)
  PROVE  /\ Typed /\ Typed' /\ PassKept /\ passes' = passes
         /\ Standing /\ Knowing /\ Gated /\ Lined /\ Admitting
         /\ drive \in Drives /\ drive.pc = pc /\ drive.res \in LocalResults
         /\ operation \in OperationStates /\ WellFormed(operation) /\ operation # NoOperation
         /\ IsCurrent(drive) /\ operation.at = drive.at /\ Owns(drive)
<1>1. Typed /\ Standing /\ Knowing /\ Gated /\ Lined /\ Admitting
  BY DEF Lane, Kept
<1>2. Typed' /\ PassKept
  BY <1>1, PassCommandTyped
<1>3. passes' = passes
  BY DEF PassCommand, RunRead, RunToolRead, RunBoundaryRead, RunRecover, RunPublish,
     RunBoundaryPublish, RunIntent, RunIntentCancelled, RunNested, RunSettleResponse,
     RunSettleNested, RunTerminal, RunClear, RunStage, RunPlace
<1>4. /\ drive \in Drives /\ drive.pc = pc /\ WellFormed(operation) /\ operation \in OperationStates
      /\ operation.id = drive.op /\ operation.at = drive.at /\ drive.op \in Ops /\ Owns(drive)
  BY <1>1, CommandOwns
<1>5. operation # NoOperation
  BY <1>4, LeavesAssumption DEF LeavesAssumption, NoOperation
<1>. QED BY <1>1, <1>2, <1>3, <1>4, <1>5 DEF IsCurrent, Drives

\* The line after a command.
LEMMA CommandTurnLine ==
  ASSUME Typed, Typed', Lined, PassKept, passes' = passes, NEW pc \in CommandPcs, Runs(pc),
         NEW next, NEW at, NEW res, NEW moved, CommandTurn(next, at, res, moved)
  PROVE  Lined'
BY CommandLine DEF CommandTurn, Fields

\* Commands that only read.
LEMMA ReadsKeep ==
  ASSUME Lane, Kept, RunRead \/ RunToolRead \/ RunBoundaryRead \/ RunRecover
  PROVE  Kept'
<1>0. PassCommand
  BY DEF PassCommand
<1>t. /\ {"gate", "publish", "settle", "done", "intent", "place", "select", "boundaryGate",
          "cancelRemote", "dispatch"} \subseteq Targets
      /\ {"prepared", "interrupted", "misconfigured"} \subseteq LocalResults
      /\ {"read", "boundaryRead", "recover"} \subseteq CommandPcs
  BY Target DEF CommandPcs, LocalResults, Owning
<1>1. CASE RunRead
  <2>1. Runs("read") /\ drive.at # "tools" /\ UNCHANGED <<durable, sent>>
    BY <1>1 DEF RunRead
  <2>2. /\ Typed /\ Typed' /\ PassKept /\ passes' = passes
        /\ Standing /\ Knowing /\ Gated /\ Lined /\ Admitting
        /\ drive \in Drives /\ drive.pc = "read" /\ drive.res \in LocalResults
        /\ IsCurrent(drive) /\ operation.at = drive.at
    BY <1>0, <1>t, <2>1, CommandFacts
  <2>3. PICK pc \in {"gate", "publish", "settle", "done", "intent", "dispatch"},
             res \in {drive.res, "prepared", "interrupted", "misconfigured"} :
          /\ CommandTurn(pc, drive.at, res, drive.moved)
          /\ IF Cancelled THEN pc = "dispatch" ELSE pc # "dispatch"
          /\ pc = "publish" => drive.at \notin Silent
          /\ pc = "settle" => drive.at = "assistant.effect_pending"
          /\ pc = "gate" => drive.at # "assistant.effect_pending"
    BY <1>1, <1>t, <2>1, <2>2, CommandTurns DEF RunRead, Silent
  <2>4. Standing'
    BY <2>2, <2>3 DEF CommandTurn, Fields, Standing, AtLeaf, Streams
  <2>5. Knowing'
    BY <2>1, <2>2, <2>3 DEF CommandTurn, Fields, PassKept, Knowing, IsCurrent, Cancelled,
       durable, EnteringHook, Summary
  <2>6. Gated'
    BY <2>1, <2>2, <2>3 DEF CommandTurn, Fields, PassKept, Gated, Early, Cancelled, durable
  <2>7. Admitting'
    BY <2>1, <2>2, <2>3 DEF CommandTurn, Fields, Admitting, Planning
  <2>8. Lined'
    BY <1>t, <2>1, <2>2, <2>3, CommandTurnLine
  <2>. QED BY <2>4, <2>5, <2>6, <2>7, <2>8 DEF Kept
<1>2. CASE RunToolRead
  <2>1. Runs("read") /\ drive.at = "tools" /\ UNCHANGED <<durable, sent>>
    BY <1>2 DEF RunToolRead
  <2>2. /\ Typed /\ Typed' /\ PassKept /\ passes' = passes
        /\ Standing /\ Knowing /\ Gated /\ Lined /\ Admitting
        /\ drive \in Drives /\ drive.pc = "read" /\ drive.res \in LocalResults
        /\ IsCurrent(drive) /\ operation.at = drive.at
    BY <1>0, <1>t, <2>1, CommandFacts
  <2>3. PICK pc \in {"place", "select"} :
          /\ CommandTurn(pc, drive.at, drive.res, drive.moved)
          /\ pc = "select" => operation.call # "outcome_ready"
    BY <1>2, <1>t, <2>1, <2>2, CommandTurns DEF RunToolRead
  <2>4. Standing'
    BY <2>1, <2>2, <2>3 DEF CommandTurn, Fields, Standing, AtLeaf
  <2>5. Knowing'
    BY <2>1, <2>2, <2>3 DEF CommandTurn, Fields, PassKept, Knowing, IsCurrent, Cancelled,
       durable, EnteringHook
  <2>6. Gated'
    BY <2>1, <2>2, <2>3 DEF CommandTurn, Fields, PassKept, Gated
  <2>7. Admitting'
    BY <2>1, <2>2, <2>3 DEF CommandTurn, Fields, Admitting, Planning, durable
  <2>8. Lined'
    BY <1>t, <2>1, <2>2, <2>3, CommandTurnLine
  <2>. QED BY <2>4, <2>5, <2>6, <2>7, <2>8 DEF Kept
<1>3. CASE RunBoundaryRead
  <2>1. Runs("boundaryRead") /\ UNCHANGED <<durable, sent>>
    BY <1>3 DEF RunBoundaryRead
  <2>2. /\ Typed /\ Typed' /\ PassKept /\ passes' = passes
        /\ Standing /\ Knowing /\ Gated /\ Lined /\ Admitting
        /\ drive \in Drives /\ drive.pc = "boundaryRead" /\ drive.res \in LocalResults
        /\ IsCurrent(drive) /\ operation.at = drive.at
    BY <1>0, <1>t, <2>1, CommandFacts
  <2>3. PICK pc \in {"dispatch", "boundaryGate"} :
          /\ CommandTurn(pc, drive.at, drive.res, drive.moved)
          /\ IF Cancelled THEN pc = "dispatch" ELSE pc # "dispatch"
    BY <1>3, <1>t, <2>1, <2>2, CommandTurns DEF RunBoundaryRead
  <2>4. Standing'
    BY <2>1, <2>2, <2>3 DEF CommandTurn, Fields, Standing, AtLeaf
  <2>5. Knowing'
    BY <2>1, <2>2, <2>3 DEF CommandTurn, Fields, PassKept, Knowing, IsCurrent, Cancelled,
       durable, EnteringHook
  <2>6. Gated'
    BY <2>1, <2>2, <2>3 DEF CommandTurn, Fields, PassKept, Gated, Early, Cancelled, durable
  <2>7. Admitting'
    BY <2>1, <2>2, <2>3 DEF CommandTurn, Fields, Admitting, Planning, Standing, AtLeaf, Silent
  <2>8. Lined'
    BY <1>t, <2>1, <2>2, <2>3, CommandTurnLine
  <2>. QED BY <2>4, <2>5, <2>6, <2>7, <2>8 DEF Kept
<1>4. CASE RunRecover
  <2>1. Runs("recover") /\ UNCHANGED <<durable, sent>>
    BY <1>4 DEF RunRecover
  <2>2. /\ Typed /\ Typed' /\ PassKept /\ passes' = passes
        /\ Standing /\ Knowing /\ Gated /\ Lined /\ Admitting
        /\ drive \in Drives /\ drive.pc = "recover" /\ drive.res \in LocalResults
        /\ IsCurrent(drive) /\ operation.at = drive.at
    BY <1>0, <1>t, <2>1, CommandFacts
  <2>3. PICK pc \in {"settle", "cancelRemote"}, res \in {drive.res, "interrupted"} :
          /\ CommandTurn(pc, drive.at, res, drive.moved)
          /\ IF drive.at = "assistant.effect_pending" THEN pc = "settle" ELSE pc = "cancelRemote"
    BY <1>4, <1>t, <2>1, <2>2, CommandTurns DEF RunRecover
  <2>4. Cancelled /\ drive.gate # "open" /\ drive.at \in Streams \cup {"deferred.suspended"}
    BY <2>2 DEF Knowing, Gated, Early, EnteringHook, Standing, AtLeaf
  <2>5. Standing'
    BY <2>3, <2>4 DEF CommandTurn, Fields, Standing, AtLeaf, Streams
  <2>6. Knowing'
    BY <2>1, <2>2, <2>3, <2>4 DEF CommandTurn, Fields, PassKept, Knowing, IsCurrent, Cancelled,
       durable, EnteringHook, Summary, Streams
  <2>7. Gated'
    BY <2>2, <2>4 DEF PassKept, Gated
  <2>8. Admitting'
    BY <2>3, <2>4 DEF CommandTurn, Fields, Admitting, Planning, Streams
  <2>9. Lined'
    BY <1>t, <2>1, <2>2, <2>3, CommandTurnLine
  <2>. QED BY <2>5, <2>6, <2>7, <2>8, <2>9 DEF Kept
<1>. QED BY <1>1, <1>2, <1>3, <1>4

\* A reserved id is fresh: nothing was sent or recorded under it.
LEMMA ReservedFresh ==
  ASSUME Typed, Effected, Reserve
  PROVE  /\ reserved' \in Effects /\ reserved' \in 1..reserved' /\ reserved < reserved'
         /\ outcomes[reserved'] = "none" /\ sent[reserved'] = 0
BY ReserveTyped DEF Effected, Effects, Typed, TypeOK

\* The intents, also when they find the cancellation first.
LEMMA IntentsKeep ==
  ASSUME Lane, Kept, Effected, FramesOwned,
         RunIntent \/ RunIntentCancelled \/ RunNested \/ RunClear
  PROVE  Kept' /\ Effected' /\ FramesOwned'
<1>0. PassCommand
  BY DEF PassCommand
<1>t. /\ {"gate", "admit", "dispatch", "stage"} \subseteq Targets
      /\ {"aborted", "interrupted"} \subseteq LocalResults
      /\ {"intent", "nested", "clear"} \subseteq CommandPcs
  BY Target DEF CommandPcs, LocalResults, Owning
<1>1. CASE RunIntent
  <2>1. Runs("intent") /\ ~Cancelled /\ UNCHANGED <<outcomes, sent>>
    BY <1>1 DEF RunIntent
  <2>2. /\ Typed /\ Typed' /\ PassKept /\ passes' = passes
        /\ Standing /\ Knowing /\ Gated /\ Lined /\ Admitting
        /\ drive \in Drives /\ drive.pc = "intent" /\ drive.res \in LocalResults
        /\ operation \in OperationStates /\ WellFormed(operation) /\ operation # NoOperation
        /\ IsCurrent(drive) /\ operation.at = drive.at
    BY <1>0, <1>t, <2>1, CommandFacts
  <2>e. operation.eff \in Effects \cup {NoEffect}
    BY <2>2 DEF OperationStates
  \* The committed leaf and what is known of its effect.
  <2> DEFINE Intended(pc, at) ==
        /\ CommandTurn(pc, at, drive.res, TRUE)
        /\ operation' \in OperationStates /\ operation'.id = operation.id
        /\ operation'.ctl = operation.ctl /\ operation'.at = at
        /\ pc = "admit" => at \in Streams \cup {Summary, "tools"}
        /\ at = "tools" => pc = "admit"
        /\ \/ /\ at \in Streams \cup {"tools"} /\ OwesEffect(operation')
              /\ operation'.eff \in 1..reserved' /\ outcomes[operation'.eff] = "none"
              /\ sent[operation'.eff] = 0
              /\ at = "tools" => operation'.call = "effect_pending"
           \/ pc = "gate" /\ at = Summary /\ ~OwesEffect(operation')
        /\ reserved <= reserved' /\ reserved \in Nat /\ reserved' \in Nat
        /\ frames' = {}
  <2>3. PICK pc \in {"gate", "admit"}, at \in Leaves : Intended(pc, at)
    <3>0. /\ reserved \in 0..MaxEffects /\ reserved' \in 0..MaxEffects
      BY <2>2 DEF Typed, TypeOK
    <3>f. drive.at \notin Streams => frames = {}
      BY <2>2 DEF FramesOwned
    <3>1. ASSUME drive.at = "assistant.ready"
          PROVE  Intended("gate", "assistant.effect_pending")
      <4>1. PICK s : /\ s = [operation EXCEPT !.at = "assistant.effect_pending", !.eff = reserved']
                     /\ Intend(s, "gate", drive.permits) /\ Reserve /\ frames' = frames
        BY <1>1, <3>1 DEF RunIntent
      <4>2. /\ reserved' \in Effects /\ reserved' \in 1..reserved' /\ reserved < reserved'
            /\ outcomes[reserved'] = "none" /\ sent[reserved'] = 0
        BY <2>2, <4>1, ReservedFresh
      <4>3. /\ s \in OperationStates /\ s.id = operation.id /\ s.ctl = operation.ctl
            /\ s.at = "assistant.effect_pending" /\ s.eff = reserved'
        BY <2>2, <4>1, <4>2 DEF OperationStates, Leaves, RunLeaves
      <4>4. operation' = s /\ CommandTurn("gate", s.at, drive.res, TRUE)
        BY <1>t, <2>2, <4>1, <4>3, IntendTurns
      <4>5. CommandTurn("gate", "assistant.effect_pending", drive.res, TRUE)
        BY <4>3, <4>4
      <4>6. frames' = {}
        BY <3>1, <3>f, <4>1 DEF Streams
      <4>7. OwesEffect(operation')
        BY <4>3, <4>4 DEF OwesEffect
      <4>8. reserved <= reserved' /\ reserved \in Nat /\ reserved' \in Nat
        BY <3>0, <4>2
      <4>. QED BY <4>2, <4>3, <4>4, <4>5, <4>6, <4>7, <4>8 DEF Streams
    <3>2. ASSUME drive.at \in {"deferred.suspended", "deferred.effect_pending"}
          PROVE  Intended("admit", "deferred.effect_pending")
      <4>1. PICK s : /\ s = [operation EXCEPT !.at = "deferred.effect_pending", !.eff = reserved']
                     /\ Intend(s, "admit", 0) /\ Reserve
                     /\ frames' = FramesAfterCleanup(operation)
        BY <1>1, <3>2 DEF RunIntent
      <4>2. /\ reserved' \in Effects /\ reserved' \in 1..reserved' /\ reserved < reserved'
            /\ outcomes[reserved'] = "none" /\ sent[reserved'] = 0
        BY <2>2, <4>1, ReservedFresh
      <4>3. /\ s \in OperationStates /\ s.id = operation.id /\ s.ctl = operation.ctl
            /\ s.at = "deferred.effect_pending" /\ s.eff = reserved'
        BY <2>2, <4>1, <4>2 DEF OperationStates, Leaves, RunLeaves
      <4>4. operation' = s /\ CommandTurn("admit", s.at, drive.res, TRUE)
        BY <1>t, <2>2, <4>1, <4>3, IntendTurns
      <4>5. frames' = {}
        BY <2>2, <3>2, <4>1 DEF FramesAfterCleanup, FramesOwned, Streams
      <4>6. CommandTurn("admit", "deferred.effect_pending", drive.res, TRUE)
        BY <4>3, <4>4
      <4>7. OwesEffect(operation')
        BY <4>3, <4>4 DEF OwesEffect
      <4>8. reserved <= reserved' /\ reserved \in Nat /\ reserved' \in Nat
        BY <3>0, <4>2
      <4>. QED BY <4>2, <4>3, <4>4, <4>5, <4>6, <4>7, <4>8 DEF Streams
    <3>3. ASSUME drive.at = "summary.ready"
          PROVE  Intended("gate", "summary.effect_pending")
      <4>1. PICK s : /\ s = [operation EXCEPT !.at = "summary.effect_pending"]
                     /\ Intend(s, "gate", drive.permits) /\ UNCHANGED <<reserved, frames>>
        BY <1>1, <3>3 DEF RunIntent
      <4>2. operation.eff = NoEffect
        BY <2>2, <3>3 DEF WellFormed, SummaryLeaves
      <4>3. /\ s \in OperationStates /\ s.id = operation.id /\ s.ctl = operation.ctl
            /\ s.at = "summary.effect_pending" /\ s.eff = NoEffect
        BY <2>2, <4>1, <4>2 DEF OperationStates, Leaves, SummaryLeaves
      <4>4. operation' = s /\ CommandTurn("gate", s.at, drive.res, TRUE)
        BY <1>t, <2>2, <4>1, <4>3, IntendTurns
      <4>5. CommandTurn("gate", "summary.effect_pending", drive.res, TRUE)
        BY <4>3, <4>4
      <4>6. frames' = {}
        BY <3>3, <3>f, <4>1 DEF Streams
      <4>7. ~OwesEffect(operation')
        BY <4>3, <4>4 DEF OwesEffect
      <4>8. reserved <= reserved' /\ reserved \in Nat /\ reserved' \in Nat
        BY <3>0, <4>1
      <4>. QED BY <4>3, <4>4, <4>5, <4>6, <4>7, <4>8 DEF Summary
    <3>4. ASSUME drive.at = "tools"
          PROVE  Intended("admit", "tools")
      <4>0. PICK safe \in BOOLEAN :
              /\ Intend([operation EXCEPT !.call = "effect_pending", !.safe = safe],
                        "admit", drive.permits)
              /\ UNCHANGED <<reserved, frames>>
        BY <1>1, <3>4 DEF RunIntent
      <4>1. PICK s : /\ s = [operation EXCEPT !.call = "effect_pending", !.safe = safe]
                     /\ Intend(s, "admit", drive.permits) /\ UNCHANGED <<reserved, frames>>
        BY <4>0
      <4>2. operation.call = "planned"
        BY <2>2, <3>4 DEF Admitting, Planning
      <4>3. /\ operation.eff \in 1..reserved /\ outcomes[operation.eff] = "none"
            /\ sent[operation.eff] = 0
        BY <2>2, <3>4, <4>2 DEF Effected
      <4>4. /\ s \in OperationStates /\ s.id = operation.id /\ s.ctl = operation.ctl
            /\ s.at = "tools" /\ s.eff = operation.eff /\ s.call = "effect_pending"
        BY <2>2, <3>4, <4>1 DEF OperationStates, CallStatuses
      <4>5. operation' = s /\ CommandTurn("admit", s.at, drive.res, TRUE)
        BY <1>t, <2>2, <4>1, <4>4, IntendTurns
      <4>6. CommandTurn("admit", "tools", drive.res, TRUE)
        BY <4>4, <4>5
      <4>7. frames' = {}
        BY <3>4, <3>f, <4>1 DEF Streams
      <4>8. OwesEffect(operation')
        BY <4>4, <4>5 DEF OwesEffect
      <4>9. reserved <= reserved' /\ reserved \in Nat /\ reserved' \in Nat
        BY <3>0, <4>1
      <4>. QED BY <4>1, <4>3, <4>4, <4>5, <4>6, <4>7, <4>8, <4>9
    <3>5. {"assistant.effect_pending", "deferred.effect_pending", "summary.effect_pending",
           "tools"} \subseteq Leaves
      BY DEF Leaves, RunLeaves, SummaryLeaves
    <3>6. drive.at \in {"assistant.ready", "deferred.suspended", "deferred.effect_pending",
                       "summary.ready", "tools"}
      BY <1>1 DEF RunIntent
    <3> HIDE DEF Intended
    <3>. QED BY <3>1, <3>2, <3>3, <3>4, <3>5, <3>6
  <2>4. Standing'
    BY <2>3 DEF CommandTurn, Fields, Standing, AtLeaf
  <2>5. Knowing'
    BY <2>1, <2>2, <2>3 DEF CommandTurn, Fields, PassKept, Knowing, IsCurrent, Cancelled,
       EnteringHook
  <2>6. Gated'
    BY <2>1, <2>3 DEF CommandTurn, Fields, Gated, Cancelled
  <2>7. Admitting'
    BY <2>1, <2>3 DEF CommandTurn, Fields, Admitting, Planning, Unsent, Streams, Summary
  <2>8. Lined'
    BY <1>t, <2>1, <2>2, <2>3, CommandTurnLine
  <2>9. Effected'
    BY <2>1, <2>2, <2>3 DEF Effected, OwesEffect, Streams, Summary, Effects
  <2>10. FramesOwned'
    BY <2>3 DEF FramesOwned
  <2>. QED BY <2>4, <2>5, <2>6, <2>7, <2>8, <2>9, <2>10 DEF Kept
<1>2. CASE RunIntentCancelled \/ RunClear \/ (RunNested /\ Cancelled)
  <2>1. /\ UNCHANGED <<durable, sent, reserved>>
        /\ Runs("intent") \/ Runs("nested") \/ Runs("clear")
    BY <1>2 DEF RunIntentCancelled, RunClear, RunNested, durable
  <2>2. PICK pc \in {"intent", "nested", "clear"} : Runs(pc)
    BY <2>1
  <2>3. /\ Typed /\ Typed' /\ PassKept /\ passes' = passes
        /\ Standing /\ Knowing /\ Gated /\ Lined /\ Admitting
        /\ drive \in Drives /\ drive.pc = pc /\ drive.res \in LocalResults
        /\ IsCurrent(drive) /\ operation.at = drive.at /\ Owns(drive)
    BY <1>0, <1>t, <2>2, CommandFacts
  <2>4. PICK next \in {"dispatch", "stage", "admit"},
             res \in {drive.res, "aborted", "interrupted"} :
          /\ CommandTurn(next, drive.at, res, drive.moved)
          /\ next # "dispatch" => drive.at = "tools"
          /\ IF next = "admit" THEN pc = "clear" /\ res = "interrupted" ELSE Cancelled /\ pc # "clear"
    BY <1>2, <1>t, <2>2, <2>3, CommandTurns DEF RunIntentCancelled, RunClear, RunNested, Standing,
       AtLeaf, Runs
  <2>5. drive.gate = "open" => ~Cancelled
    BY <2>2, <2>3 DEF Gated, Early, EnteringHook
  <2>6. Standing'
    BY <2>4 DEF CommandTurn, Fields, Standing, AtLeaf
  <2>7. Knowing'
    BY <2>1, <2>3, <2>4 DEF CommandTurn, Fields, PassKept, Knowing, IsCurrent, Cancelled,
       durable, EnteringHook
  <2>8. Gated'
    BY <2>1, <2>3, <2>4, <2>5 DEF CommandTurn, Fields, PassKept, Gated, Cancelled, durable
  <2>9. Admitting'
    BY <2>1, <2>3, <2>4 DEF CommandTurn, Fields, Admitting, Planning, Owns, Owning, CommandPcs,
       OwesEffect, durable
  <2>10. Lined'
    BY <1>t, <2>2, <2>3, <2>4, CommandTurnLine
  <2>. QED BY <2>1, <2>6, <2>7, <2>8, <2>9, <2>10, EffectsLeft DEF Kept
<1>3. CASE RunNested /\ ~Cancelled
  <2>1. Runs("nested") /\ drive.at = Summary /\ UNCHANGED <<outcomes, sent, frames>>
    BY <1>3 DEF RunNested, Summary
  <2>2. /\ Typed /\ Typed' /\ PassKept /\ passes' = passes
        /\ Standing /\ Knowing /\ Gated /\ Lined /\ Admitting
        /\ drive \in Drives /\ drive.pc = "nested" /\ drive.res \in LocalResults
        /\ operation \in OperationStates /\ operation # NoOperation
        /\ IsCurrent(drive) /\ operation.at = drive.at
    BY <1>0, <1>t, <2>1, CommandFacts
  <2>3. PICK s : s = [operation EXCEPT !.eff = reserved'] /\ Intend(s, "admit", drive.permits)
                 /\ Reserve
    BY <1>3 DEF RunNested
  <2>4. /\ reserved' \in Effects /\ reserved' \in 1..reserved' /\ reserved < reserved'
        /\ outcomes[reserved'] = "none" /\ sent[reserved'] = 0
    BY <2>2, <2>3, ReservedFresh
  <2>5. /\ s \in OperationStates /\ s.id = operation.id /\ s.ctl = operation.ctl
        /\ s.at = Summary /\ s.eff = reserved' /\ s.eff # NoEffect
    BY <2>1, <2>2, <2>3, <2>4 DEF OperationStates, Effects, NoEffect
  <2>6. operation' = s /\ CommandTurn("admit", s.at, drive.res, TRUE)
    BY <1>t, <2>2, <2>3, <2>5, IntendTurns
  <2>7. Standing'
    BY <2>5, <2>6 DEF CommandTurn, Fields, Standing, AtLeaf
  <2>8. Knowing'
    BY <2>2, <2>5, <2>6 DEF CommandTurn, Fields, PassKept, Knowing, IsCurrent, Cancelled,
       EnteringHook
  <2>9. Gated'
    BY <1>3, <2>5, <2>6 DEF CommandTurn, Fields, Gated, Cancelled
  <2>10. Admitting'
    BY <2>1, <2>4, <2>5, <2>6 DEF CommandTurn, Fields, Admitting, Planning, Unsent, Summary,
       OwesEffect
  <2>11. Lined'
    BY <1>t, <2>1, <2>2, <2>6, CommandTurnLine
  <2>12. Effected'
    <3>1. reserved \in Nat /\ reserved' \in Nat
      BY <2>2, <2>4 DEF Typed, TypeOK, Effects
    <3>. QED BY <2>1, <2>4, <2>5, <2>6, <3>1 DEF Effected, OwesEffect, Summary, Effects
  <2>13. FramesOwned'
    BY <2>1, <2>2, <2>5, <2>6 DEF FramesOwned, Summary, Streams
  <2>. QED BY <2>7, <2>8, <2>9, <2>10, <2>11, <2>12, <2>13 DEF Kept
<1>. QED BY <1>1, <1>2, <1>3

\* settleOperation: the next leaf carries no effect that began, a batch of
\* tool calls starts planned under a fresh id, and the frame list of the
\* settled response goes with it.
LEMMA DecideKeeps ==
  ASSUME Lane, Kept, Effected, FramesOwned, PassCommand, NEW pc \in CommandPcs, Runs(pc),
         NEW o, Decide(o), sent' = sent,
         o.status \in Statuses \cup {"none", "finish_pending"},
         o.status = "none" =>
           /\ WellFormed(o.state) /\ o.state.id = operation.id /\ o.state.ctl = operation.ctl
           /\ o.state.at \notin EffectLeaves
           /\ o.state.at = "tools" =>
                /\ o.state.call = "planned" /\ o.state.eff \in 1..reserved'
                /\ outcomes'[o.state.eff] = "none" /\ sent[o.state.eff] = 0,
         o.status = "finish_pending" =>
           ~Cancelled /\ drive.at \notin Silent /\ UNCHANGED <<outcomes, reserved>>,
         \A e \in Effects : e > reserved' => outcomes'[e] = "none" /\ sent[e] = 0
  PROVE  Kept' /\ Effected' /\ FramesOwned'
<1>0. /\ Typed /\ Typed' /\ PassKept /\ passes' = passes
      /\ Standing /\ Knowing /\ Gated /\ Lined /\ Admitting
      /\ drive \in Drives /\ drive.pc = pc /\ drive.res \in LocalResults
      /\ operation \in OperationStates /\ operation # NoOperation
      /\ IsCurrent(drive) /\ operation.at = drive.at
  BY CommandFacts
<1>t. {"dispatch", "done", "boundaryRead"} \subseteq Targets
  BY Target DEF CommandPcs
<1>f. FramesAfterCleanup(operation) = {}
  BY <1>0 DEF FramesAfterCleanup, FramesOwned, Streams
<1>n. pc \notin {"none", "done", "parked", "hook", "dispatch", "entry"}
  BY DEF CommandPcs
<1>1. CASE o.status = "none"
  <2>1. /\ operation' = o.state /\ frames' = {}
        /\ CommandTurn("dispatch", drive.at, drive.res, TRUE)
    BY <1>0, <1>t, <1>1, <1>f, CommandTurns DEF Decide
  <2>2. Standing'
    BY <2>1 DEF CommandTurn, Fields, Standing, AtLeaf
  <2>3. Knowing'
    BY <1>0, <1>n, <1>1, <2>1 DEF CommandTurn, Fields, PassKept, Knowing, IsCurrent, Cancelled,
       EnteringHook
  <2>4. Gated'
    BY <2>1 DEF CommandTurn, Fields, Gated, Early
  <2>5. Admitting'
    BY <2>1 DEF CommandTurn, Fields, Admitting, Planning, Owns, Owning, CommandPcs
  <2>6. Lined'
    BY <1>0, <2>1, CommandTurnLine
  <2>7. ~OwesEffect(operation')
    BY <1>1, <2>1 DEF OwesEffect, EffectLeaves
  <2>8. Effected'
    BY <1>1, <2>1, <2>7 DEF Effected
  <2>9. FramesOwned'
    BY <2>1 DEF FramesOwned
  <2>. QED BY <2>2, <2>3, <2>4, <2>5, <2>6, <2>8, <2>9 DEF Kept
<1>2. CASE o.status = "finish_pending"
  <2>1. /\ UNCHANGED <<operation, results, frames>>
        /\ CommandTurn("boundaryRead", drive.at, drive.res, drive.moved)
    BY <1>0, <1>t, <1>2, CommandTurns DEF Decide
  <2>2. Standing'
    BY <1>2, <2>1 DEF CommandTurn, Fields, Standing, AtLeaf
  <2>3. Knowing'
    BY <1>0, <1>n, <2>1 DEF CommandTurn, Fields, PassKept, Knowing, IsCurrent, Cancelled,
       EnteringHook
  <2>4. Gated'
    BY <1>2, <2>1 DEF CommandTurn, Fields, Gated, Cancelled
  <2>5. Admitting'
    BY <1>2, <2>1 DEF CommandTurn, Fields, Admitting, Planning, Silent
  <2>6. Lined'
    BY <1>0, <2>1, CommandTurnLine
  <2>7. UNCHANGED <<durable, sent, reserved>>
    BY <1>2, <2>1 DEF durable
  <2>. QED BY <2>2, <2>3, <2>4, <2>5, <2>6, <2>7, EffectsLeft DEF Kept
<1>3. CASE o.status \notin {"none", "finish_pending"}
  <2>1. /\ operation' = NoOperation /\ frames' = {}
        /\ CommandTurn("done", drive.at, drive.res, drive.moved)
    BY <1>0, <1>t, <1>3, <1>f, CommandTurns DEF Decide
  <2>2. Standing'
    BY <2>1 DEF CommandTurn, Fields, Standing, AtLeaf
  <2>3. Knowing'
    BY <2>1 DEF CommandTurn, Fields, Knowing
  <2>4. Gated'
    BY <2>1 DEF CommandTurn, Fields, Gated, Early
  <2>5. Admitting'
    BY <2>1 DEF CommandTurn, Fields, Admitting, Planning, Owns, Owning, CommandPcs
  <2>6. Lined'
    BY <1>0, <2>1, CommandTurnLine
  <2>7. Effected'
    BY <2>1 DEF Effected
  <2>8. FramesOwned'
    BY <2>1 DEF FramesOwned
  <2>. QED BY <2>2, <2>3, <2>4, <2>5, <2>6, <2>7, <2>8 DEF Kept
<1>. QED BY <1>1, <1>2, <1>3

\* A decision that reserves nothing and records nothing.
LEMMA PlainDecideKeeps ==
  ASSUME Lane, Kept, Effected, FramesOwned, PassCommand, NEW pc \in CommandPcs, Runs(pc),
         NEW o, Decide(o), UNCHANGED <<outcomes, sent, reserved>>, drive.at \notin Silent \/ o.status # "finish_pending",
         o.status \in Statuses \cup {"none", "finish_pending"},
         o.status = "none" =>
           /\ WellFormed(o.state) /\ o.state.id = operation.id /\ o.state.ctl = operation.ctl
           /\ o.state.at \notin EffectLeaves \cup {"tools"},
         o.status = "finish_pending" => ~Cancelled
  PROVE  Kept' /\ Effected' /\ FramesOwned'
<1>1. \A e \in Effects : e > reserved' => outcomes'[e] = "none" /\ sent[e] = 0
  BY DEF Effected
<1>. QED BY <1>1, DecideKeeps

\* The publications and terminal transactions.
LEMMA PublicationsKeep ==
  ASSUME Lane, Kept, Effected, FramesOwned,
         RunPublish \/ RunBoundaryPublish \/ RunTerminal \/ RunPlace
  PROVE  Kept' /\ Effected' /\ FramesOwned'
<1>0. PassCommand
  BY DEF PassCommand
<1>t. "dispatch" \in Targets /\ {"publish", "boundaryPublish", "terminal", "place"} \subseteq CommandPcs
  BY Target DEF CommandPcs
<1>1. CASE (RunPublish \/ RunBoundaryPublish) /\ Cancelled
  <2>1. /\ UNCHANGED <<durable, sent, reserved>> /\ Back
        /\ Runs("publish") \/ Runs("boundaryPublish")
    BY <1>1 DEF RunPublish, RunBoundaryPublish, durable
  <2>2. PICK pc \in {"publish", "boundaryPublish"} : Runs(pc)
    BY <2>1
  <2>3. /\ Typed /\ Typed' /\ PassKept /\ passes' = passes
        /\ Standing /\ Knowing /\ Gated /\ Lined /\ Admitting
        /\ drive \in Drives /\ drive.pc = pc /\ drive.res \in LocalResults
        /\ IsCurrent(drive) /\ operation.at = drive.at
    BY <1>0, <1>t, <2>2, CommandFacts
  <2>4. CommandTurn("dispatch", drive.at, drive.res, drive.moved)
    BY <1>t, <2>1, <2>3, CommandTurns
  <2>5. Standing'
    BY <2>4 DEF CommandTurn, Fields, Standing, AtLeaf
  <2>6. Knowing'
    BY <1>1, <2>1, <2>3, <2>4 DEF CommandTurn, Fields, PassKept, Knowing, IsCurrent, Cancelled,
       durable, EnteringHook
  <2>7. Gated'
    BY <2>4 DEF CommandTurn, Fields, Gated, Early
  <2>8. Admitting'
    BY <2>4 DEF CommandTurn, Fields, Admitting, Planning, Owns, Owning, CommandPcs
  <2>9. Lined'
    BY <1>t, <2>2, <2>3, <2>4, CommandTurnLine
  <2>. QED BY <2>1, <2>5, <2>6, <2>7, <2>8, <2>9, EffectsLeft DEF Kept
<1>2. CASE RunPublish /\ ~Cancelled
  <2>1. PICK o \in PublishOutcomes(operation) : Decide(o)
    BY <1>2 DEF RunPublish
  <2>2. Runs("publish") /\ UNCHANGED <<outcomes, sent, reserved>>
    BY <1>2 DEF RunPublish
  <2>3. Typed /\ Standing /\ drive.at \notin Silent
    BY <2>2 DEF Lane, Kept, Standing, AtLeaf, Runs
  <2>4. Sound(operation, o, 0) /\ Sound(operation, o, 1)
    BY <2>1, <2>2, <2>3, PublishSound
  <2>. QED BY <1>0, <1>t, <1>2, <2>1, <2>2, <2>3, <2>4, PlainDecideKeeps DEF Sound
<1>3. CASE RunBoundaryPublish /\ ~Cancelled
  <2>1. PICK o \in FinishRunBoundaryOutcomes(operation) : Decide(o)
    BY <1>3 DEF RunBoundaryPublish
  <2>2. Runs("boundaryPublish") /\ UNCHANGED <<outcomes, sent, reserved>>
    BY <1>3 DEF RunBoundaryPublish
  <2>3. Typed /\ Standing /\ drive.at \notin Silent
    BY <2>2 DEF Lane, Kept, Standing, AtLeaf, Runs
  <2>4. WellFormed(operation) /\ operation \in OperationStates
    BY <1>t, <2>2, <2>3, CommandOwns
  <2>5. Sound(operation, o, 0) /\ Sound(operation, o, 1)
    BY <2>1, <2>4, FinishRunBoundarySound
  <2>. QED BY <1>0, <1>t, <1>3, <2>1, <2>2, <2>3, <2>5, PlainDecideKeeps DEF Sound
<1>4. CASE RunTerminal
  <2>1. Runs("terminal") /\ UNCHANGED <<outcomes, sent, reserved>>
    BY <1>4 DEF RunTerminal
  <2>2. Cancelled
    BY <2>1 DEF Kept, Knowing, Runs
  <2>3. PICK o : o = Finish("aborted") /\ Decide(o)
    BY <1>4, <2>2 DEF RunTerminal
  <2>4. o.status = "aborted"
    BY <2>3 DEF Finish
  <2>. QED BY <1>0, <1>t, <2>1, <2>3, <2>4, PlainDecideKeeps DEF Statuses
<1>5. CASE RunPlace
  <2>1. PICK o \in ToolPlacementOutcomes(operation) : Decide(o)
    BY <1>5 DEF RunPlace
  <2>2. Runs("place") /\ UNCHANGED <<outcomes, sent, reserved>>
    BY <1>5 DEF RunPlace
  <2>3. WellFormed(operation) /\ operation \in OperationStates
    BY <1>t, <2>2, CommandOwns DEF Lane
  <2>4. PICK c \in {"need_assistant", "may_finish"} : o = Continue(Checkpoint(operation, c))
    BY <2>1 DEF ToolPlacementOutcomes
  <2>5. Moved(operation, Checkpoint(operation, c))
    BY <2>3, CheckpointMoved
  <2>6. /\ o.status = "none" /\ WellFormed(o.state) /\ o.state.id = operation.id
        /\ o.state.ctl = operation.ctl /\ o.state.at \notin EffectLeaves \cup {"tools"}
    BY <2>4, <2>5 DEF Continue, Moved
  <2>. QED BY <1>0, <1>t, <2>1, <2>2, <2>6, PlainDecideKeeps
<1>. QED BY <1>1, <1>2, <1>3, <1>4, <1>5

\* A settlement records the outcome of the operation's own open effect, and
\* "aborted" only under cancelled control.
Records ==
  /\ operation.eff \in Effects \cup {NoEffect}
  /\ operation.eff \in Effects => operation.eff <= reserved /\ outcomes[operation.eff] = "none"
  /\ \E x \in Outcomes \ {"none"} : Record(x) /\ (x = "aborted" => Cancelled)

\* The three settling commands record in this way.
LEMMA SettlementsRecord ==
  ASSUME Lane, Kept, Effected, RunSettleResponse \/ RunSettleNested \/ RunStage
  PROVE  /\ Records
         /\ RunSettleResponse \/ RunStage => operation.eff \in Effects
         /\ RunSettleResponse /\ ~Cancelled => drive.res # "aborted"
         /\ RunSettleNested => drive.res \in {"answer", "aborted"}
<1>0. PassCommand /\ {"settle", "stage"} \subseteq CommandPcs
  BY DEF PassCommand, CommandPcs
<1>1. Runs("settle") \/ Runs("stage")
  BY DEF RunSettleResponse, RunSettleNested, RunStage
<1>2. /\ Typed /\ Standing /\ Knowing /\ Gated /\ Lined /\ Admitting
      /\ drive \in Drives /\ drive.pc \in {"settle", "stage"} /\ drive.res \in LocalResults
      /\ operation \in OperationStates /\ operation # NoOperation
      /\ operation.at = drive.at /\ Owns(drive)
  BY <1>0, <1>1, CommandFacts
<1>3. operation.eff \in Effects \cup {NoEffect} /\ reserved \in 0..MaxEffects
      /\ operation.call \in CallStatuses
  BY <1>2 DEF OperationStates, Typed, TypeOK
<1>4. drive.res = "aborted" => Cancelled
  BY <1>2 DEF Knowing
<1>5. CASE RunSettleResponse
  <2>1. drive.at \in Streams
    BY <1>5 DEF RunSettleResponse
  <2>2. OwesEffect(operation)
    BY <1>2, <2>1 DEF OwesEffect, Streams
  <2>3. operation.eff \in 1..reserved /\ outcomes[operation.eff] = "none"
    BY <1>2, <2>2 DEF Effected
  <2>4. operation.eff \in Effects /\ operation.eff <= reserved
    BY <1>3, <2>3 DEF Effects, NoEffect
  <2>5. \E x \in Outcomes \ {"none"} : Record(x) /\ (x = "aborted" => Cancelled)
    BY <1>4, <1>5 DEF RunSettleResponse, Outcomes
  <2>6. ~RunSettleNested
    BY <2>1 DEF RunSettleNested, Streams
  <2>. QED BY <1>4, <2>3, <2>4, <2>5, <2>6 DEF Records
<1>6. CASE RunSettleNested
  <2>1. drive.at = Summary /\ Record("usage") /\ drive.pc = "settle"
    BY <1>6 DEF RunSettleNested, Summary, Runs
  <2>2. operation.eff \in Effects => operation.eff <= reserved /\ outcomes[operation.eff] = "none"
    <3>1. SUFFICES ASSUME operation.eff \in Effects
                   PROVE  operation.eff <= reserved /\ outcomes[operation.eff] = "none"
      OBVIOUS
    <3>2. OwesEffect(operation)
      BY <1>2, <2>1, <3>1 DEF OwesEffect, Summary, Effects, NoEffect
    <3>. QED BY <1>2, <1>3, <3>2 DEF Effected
  <2>3. drive.res \in {"answer", "aborted"}
    BY <1>2, <2>1 DEF Knowing
  <2>4. ~RunSettleResponse /\ ~RunStage
    BY <2>1 DEF RunSettleResponse, RunStage, Streams, Summary, Runs
  <2>. QED BY <1>3, <2>1, <2>2, <2>3, <2>4 DEF Records, Outcomes
<1>7. CASE RunStage
  <2>1. drive.at = "tools" /\ drive.pc = "stage"
    BY <1>2, <1>7 DEF RunStage, Runs, Standing, AtLeaf
  <2>2. operation.call # "outcome_ready"
    BY <1>2, <2>1 DEF Admitting
  <2>3. operation.eff \in 1..reserved /\ outcomes[operation.eff] = "none"
    BY <1>2, <1>3, <2>1, <2>2 DEF Effected, OwesEffect, CallStatuses
  <2>4. operation.eff \in Effects /\ operation.eff <= reserved
    BY <1>3, <2>3 DEF Effects, NoEffect
  <2>5. \E x \in Outcomes \ {"none"} : Record(x) /\ (x = "aborted" => Cancelled)
    BY <1>4, <1>7 DEF RunStage, Outcomes
  <2>6. ~RunSettleNested /\ ~RunSettleResponse
    BY <2>1 DEF RunSettleNested, RunSettleResponse, Runs
  <2>. QED BY <2>3, <2>4, <2>5, <2>6 DEF Records
<1>. QED BY <1>5, <1>6, <1>7

\* Nothing is recorded beyond the reserved ids, and no recorded outcome is lost.
LEMMA RecordsReserved ==
  ASSUME Typed, Effected, Records, reserved' \in Nat, reserved <= reserved'
  PROVE  /\ \A e \in Effects : e > reserved' => outcomes'[e] = "none" /\ sent[e] = 0
         /\ \A e \in Effects : e > reserved => outcomes'[e] = "none" /\ sent[e] = 0
         /\ \A e \in Effects : outcomes[e] # "none" => outcomes'[e] = outcomes[e]
         /\ \A e \in Effects : outcomes'[e] = "aborted" /\ outcomes[e] # "aborted" => Cancelled
         /\ operation.eff \in Effects => outcomes'[operation.eff] # "none"
<1>0. /\ outcomes \in [Effects -> Outcomes] /\ reserved \in 0..MaxEffects
      /\ operation.eff \in Effects \cup {NoEffect}
      /\ operation.eff \in Effects => operation.eff <= reserved /\ outcomes[operation.eff] = "none"
  BY DEF Typed, TypeOK, Records
<1>1. PICK x \in Outcomes \ {"none"} :
        outcomes' = [outcomes EXCEPT ![operation.eff] = x] /\ (x = "aborted" => Cancelled)
  BY DEF Records, Record
<1>2. \A e \in Effects : e # operation.eff => outcomes'[e] = outcomes[e]
  BY <1>0, <1>1
<1>3. operation.eff \in Effects => outcomes'[operation.eff] = x
  BY <1>0, <1>1
<1>4. \A e \in Effects : e > reserved => outcomes'[e] = "none" /\ sent[e] = 0
  BY <1>0, <1>2 DEF Effected, Effects
<1>5. \A e \in Effects : e > reserved' => e > reserved
  BY <1>0 DEF Effects
<1>. QED BY <1>0, <1>1, <1>2, <1>3, <1>4, <1>5

\* publishResponse.
LEMMA ResponseKeeps ==
  ASSUME Lane, Kept, Effected, FramesOwned, RunSettleResponse
  PROVE  Kept' /\ Effected' /\ FramesOwned'
<1>0. /\ PassCommand /\ "settle" \in CommandPcs /\ Runs("settle") /\ drive.at \in Streams
      /\ sent' = sent /\ Typed /\ operation.eff \in Effects /\ Records
  BY SettlementsRecord DEF RunSettleResponse, PassCommand, CommandPcs, Lane
<1>1. /\ operation \in OperationStates /\ WellFormed(operation) /\ operation.at = drive.at
      /\ reserved \in 0..MaxEffects
  BY <1>0, CommandFacts DEF Typed, TypeOK
<1>2. CASE Cancelled
  <2>1. PICK o : o = Continue(Checkpoint(operation, "may_finish")) /\ Decide(o)
    BY <1>2 DEF RunSettleResponse
  <2>2. reserved' = reserved
    BY <1>2 DEF RunSettleResponse
  <2>3. Moved(operation, Checkpoint(operation, "may_finish"))
    BY <1>1, CheckpointMoved
  <2>4. /\ o.status = "none" /\ WellFormed(o.state) /\ o.state.id = operation.id
        /\ o.state.ctl = operation.ctl /\ o.state.at \notin EffectLeaves \cup {"tools"}
    BY <2>1, <2>3 DEF Continue, Moved
  <2>5. \A e \in Effects : e > reserved' => outcomes'[e] = "none" /\ sent[e] = 0
    BY <1>0, <1>1, <2>2, RecordsReserved
  <2>. QED BY <1>0, <2>1, <2>4, <2>5, DecideKeeps
<1>3. CASE ~Cancelled
  <2>1. PICK r \in ResponseResults :
          /\ IF r = "calls" THEN Reserve ELSE UNCHANGED reserved
          /\ \E o \in ResponseOutcomes(operation, r, reserved') : Decide(o)
    BY <1>3, SettlementsRecord DEF RunSettleResponse
  <2>2. PICK o \in ResponseOutcomes(operation, r, reserved') : Decide(o)
    BY <2>1
  <2>3. r \in {"stop", "calls", "deferred", "error", "overflow", "retryable", "interrupted"}
    BY DEF ResponseResults
  <2>4. /\ reserved' \in 0..MaxEffects /\ reserved <= reserved'
        /\ reserved' \in Effects \cup {NoEffect} /\ reserved' \in Nat
    BY <1>0, <1>1, <2>1, ReserveTyped DEF Effects, NoEffect
  <2>5. Sound(operation, o, reserved') /\ o.status # "finish_pending"
    <3>1. Sound(operation, o, reserved')
      BY <1>1, <2>2, <2>3, <2>4, ResponseSound
    <3>2. o = Finish("failed") \/ \E s : o = Continue(s)
      BY <2>2, <2>3 DEF ResponseOutcomes
    <3>3. o.status # "finish_pending"
      BY <3>2 DEF Continue, Finish
    <3>. QED BY <3>1, <3>3
  <2>6. /\ \A e \in Effects : e > reserved' => outcomes'[e] = "none" /\ sent[e] = 0
        /\ \A e \in Effects : e > reserved => outcomes'[e] = "none" /\ sent[e] = 0
    BY <1>0, <2>4, RecordsReserved
  <2>7. o.status = "none" /\ o.state.at = "tools" => r = "calls"
    <3>1. SUFFICES ASSUME r # "calls", o.status = "none" PROVE o.state.at # "tools"
      OBVIOUS
    <3>2. o \in ResponseOutcomes(operation, r, 0) /\ o \in ResponseOutcomes(operation, r, 1)
      BY <2>2, <2>3, <3>1 DEF ResponseOutcomes
    <3>3. Sound(operation, o, 0) /\ Sound(operation, o, 1)
      BY <1>1, <2>3, <3>2, ResponseSound, LeavesAssumption DEF LeavesAssumption, Effects, NoEffect
    <3>. QED BY <3>1, <3>3 DEF Sound
  <2>8. r = "calls" => reserved' \in Effects /\ reserved' \in 1..reserved' /\ reserved < reserved'
    BY <1>0, <2>1, ReservedFresh
  <2>9. o.status = "none" =>
          /\ WellFormed(o.state) /\ o.state.id = operation.id /\ o.state.ctl = operation.ctl
          /\ o.state.at \notin EffectLeaves
          /\ o.state.at = "tools" =>
               /\ o.state.call = "planned" /\ o.state.eff \in 1..reserved'
               /\ outcomes'[o.state.eff] = "none" /\ sent[o.state.eff] = 0
    BY <2>5, <2>6, <2>7, <2>8 DEF Sound
  <2>10. o.status \in Statuses \cup {"none", "finish_pending"}
    BY <2>5 DEF Sound
  <2>. QED BY <1>0, <2>2, <2>5, <2>6, <2>9, <2>10, DecideKeeps
<1>. QED BY <1>2, <1>3

\* publishNestedRequestOutcome and publishToolOutcome.
LEMMA StaysKeep ==
  ASSUME Lane, Kept, Effected, FramesOwned, RunSettleNested \/ RunStage
  PROVE  Kept' /\ Effected' /\ FramesOwned'
<1>0. PassCommand /\ sent' = sent /\ reserved' = reserved /\ frames' = frames /\ Records
  BY SettlementsRecord DEF RunSettleNested, RunStage, PassCommand
<1>t. /\ {"gate", "publish", "read"} \subseteq Targets /\ {"settle", "stage"} \subseteq CommandPcs
  BY Target DEF CommandPcs, Owning
<1>1. PICK pc \in {"settle", "stage"} : Runs(pc) /\ (RunSettleNested <=> pc = "settle")
  BY DEF RunSettleNested, RunStage, Runs
<1>2. /\ Typed /\ Typed' /\ PassKept /\ passes' = passes
      /\ Standing /\ Knowing /\ Gated /\ Lined /\ Admitting
      /\ drive \in Drives /\ drive.pc = pc /\ drive.res \in LocalResults
      /\ operation \in OperationStates /\ operation # NoOperation
      /\ IsCurrent(drive) /\ operation.at = drive.at
  BY <1>0, <1>t, <1>1, CommandFacts
<1>3. \A e \in Effects : e > reserved' => outcomes'[e] = "none" /\ sent[e] = 0
  <2>1. reserved \in Nat
    BY <1>2 DEF Typed, TypeOK
  <2>. QED BY <1>0, <1>2, <2>1, RecordsReserved
<1>4. CASE RunSettleNested
  <2>1. drive.at = Summary /\ operation' = [operation EXCEPT !.eff = NoEffect]
        /\ drive.res \in {"answer", "aborted"}
    BY <1>4, SettlementsRecord DEF RunSettleNested, Summary
  <2>2. PICK next \in {"gate", "publish"} :
          Goto([Ran(To(next)) EXCEPT !.moved = TRUE], Tail(line))
    BY <1>1, <1>2, <1>4, <2>1 DEF RunSettleNested, Knowing
  <2>3. CommandTurn(next, drive.at, drive.res, TRUE)
    BY <1>t, <1>2, <2>2, CommandTurns
  <2>4. /\ operation'.id = operation.id /\ operation'.ctl = operation.ctl
        /\ operation'.at = Summary /\ operation'.eff = NoEffect
    BY <1>2, <2>1 DEF OperationStates
  <2>5. drive.gate = "open" => ~Cancelled
    BY <1>1, <1>2, <1>4 DEF Gated, Early, EnteringHook
  <2>6. Standing'
    BY <2>1, <2>3 DEF CommandTurn, Fields, Standing, AtLeaf, Summary, Silent
  <2>7. Knowing'
    BY <1>2, <2>3, <2>4 DEF CommandTurn, Fields, PassKept, Knowing, IsCurrent, Cancelled,
       EnteringHook
  <2>8. Gated'
    BY <2>3, <2>4, <2>5, <1>2 DEF CommandTurn, Fields, PassKept, Gated, Cancelled
  <2>9. Admitting'
    BY <2>1, <2>3 DEF CommandTurn, Fields, Admitting, Planning, Summary
  <2>10. Lined'
    BY <1>t, <1>1, <1>2, <2>3, CommandTurnLine
  <2>11. Effected'
    BY <1>0, <1>3, <2>4 DEF Effected, OwesEffect, Summary
  <2>12. FramesOwned'
    BY <1>0, <1>2, <2>1, <2>4 DEF FramesOwned, Streams, Summary
  <2>. QED BY <2>6, <2>7, <2>8, <2>9, <2>10, <2>11, <2>12 DEF Kept
<1>5. CASE RunStage
  <2>1. drive.at = "tools" /\ operation' = [operation EXCEPT !.call = "outcome_ready"]
        /\ Goto([Ran(To("read")) EXCEPT !.moved = TRUE], Tail(line)) /\ pc = "stage"
    BY <1>1, <1>2, <1>5 DEF RunStage, Staged, Runs, Standing, AtLeaf
  <2>2. CommandTurn("read", drive.at, drive.res, TRUE)
    BY <1>t, <1>2, <2>1, CommandTurns
  <2>3. /\ operation'.id = operation.id /\ operation'.ctl = operation.ctl
        /\ operation'.at = "tools" /\ operation'.call = "outcome_ready"
    BY <1>2, <2>1 DEF OperationStates
  <2>4. Standing'
    BY <2>2 DEF CommandTurn, Fields, Standing, AtLeaf
  <2>5. Knowing'
    BY <1>2, <2>2, <2>3, <2>1 DEF CommandTurn, Fields, PassKept, Knowing, IsCurrent, Cancelled,
       EnteringHook
  <2>6. Gated'
    BY <2>2 DEF CommandTurn, Fields, Gated, Early
  <2>7. Admitting'
    BY <2>2 DEF CommandTurn, Fields, Admitting, Planning
  <2>8. Lined'
    BY <1>t, <1>1, <1>2, <2>2, CommandTurnLine
  <2>9. Effected'
    BY <1>0, <1>3, <2>3 DEF Effected, OwesEffect
  <2>10. FramesOwned'
    BY <1>0, <1>2, <2>1, <2>3 DEF FramesOwned, Streams
  <2>. QED BY <2>4, <2>5, <2>6, <2>7, <2>8, <2>9, <2>10 DEF Kept
<1>. QED BY <1>4, <1>5

\* Every command of the pass.
LEMMA PassCommandKeeps ==
  ASSUME Lane, Kept, Effected, FramesOwned, PassCommand
  PROVE  Kept' /\ Effected' /\ FramesOwned'
<1>1. CASE RunRead \/ RunToolRead \/ RunBoundaryRead \/ RunRecover
  <2>1. UNCHANGED <<durable, sent, reserved>>
    BY <1>1 DEF RunRead, RunToolRead, RunBoundaryRead, RunRecover
  <2>. QED BY <1>1, <2>1, ReadsKeep, EffectsLeft
<1>. QED BY <1>1, IntentsKeep, PublicationsKeep, ResponseKeeps, StaysKeep DEF PassCommand

-----------------------------------------------------------------------------
(***************************************************************************)
(* Callers.                                                                *)
(***************************************************************************)
\* A caller's command joins the line; the pass is left where it was, but for
\* its gate.
LEMMA JoinLine ==
  ASSUME Typed, Lined, NEW job \in Jobs, line' = Append(line, job),
         drive'.pc = drive.pc, drive'.op = drive.op, drive'.pass = drive.pass,
         drive'.ran = drive.ran, drive.gate # "open" => drive'.gate # "open",
         passes' \in Nat, passes <= passes', job.pass <= passes', job.k # "drive",
         job.k = "abort" /\ job.pass = drive.pass /\ drive.pass # 0 =>
           drive'.gate # "open" /\ job.op = drive.op,
         job.k = "claim" => /\ job.pass \notin {0, drive.pass}
                            /\ \A i \in DOMAIN line : line[i].pass # job.pass,
         \A i \in DOMAIN line : line[i].k = "claim" => line[i].pass # job.pass,
         ~Missed(job),
         drive.pc # "none" /\ drive'.gate # "open" /\ ~drive'.released =>
           (drive.gate # "open" /\ ~drive.released) \/ Releaser(job)
  PROVE  Lined'
<1>0. line \in Seq(Jobs) /\ passes \in Nat /\ drive.pass \in Nat
  BY DriveAssumption DEF DriveAssumption, Typed, TypeOK, Drives, Passes
<1>1. PICK n \in Nat :
        /\ DOMAIN line' = DOMAIN line \cup {n} /\ line'[n] = job
        /\ \A i \in DOMAIN line : i \in Nat /\ i < n /\ line'[i] = line[i]
  BY <1>0, Joined
<1>2. ASSUME NEW i \in DOMAIN line' PROVE JobOK(i)'
  <2>1. CASE i = n
    BY <1>1, <2>1 DEF JobOK, Missed
  <2>2. CASE i \in DOMAIN line
    <3>1. JobOK(i) /\ line'[i] = line[i]
      BY <1>1, <2>2 DEF Lined
    <3>2. line[i].pass \in Nat
      <4>1. line[i] \in Jobs
        BY <1>0, <2>2, ElementOfSeq, LenProperties
      <4>. QED BY <4>1, DriveAssumption DEF DriveAssumption, Jobs, Passes
    <3>. QED BY <1>0, <3>1, <3>2 DEF JobOK, Missed
  <2>. QED BY <1>1, <2>1, <2>2
<1>3. ASSUME NEW i \in DOMAIN line', NEW j \in DOMAIN line' PROVE PairOK(i, j)'
  <2>1. CASE i \in DOMAIN line /\ j \in DOMAIN line
    <3>1. PairOK(i, j) /\ line'[i] = line[i] /\ line'[j] = line[j]
      BY <1>1, <2>1 DEF Lined
    <3>. QED BY <3>1 DEF PairOK, Missed
  <2>2. CASE i \in DOMAIN line /\ j = n
    BY <1>1, <2>2 DEF PairOK
  <2>3. CASE i = n /\ j \in DOMAIN line
    BY <1>1, <2>3 DEF PairOK, Missed
  <2>4. CASE i = n /\ j = n
    BY <1>1, <2>4 DEF PairOK
  <2>. QED BY <1>1, <2>1, <2>2, <2>3, <2>4
<1>4. ASSUME drive'.pc # "none", drive'.gate # "open", ~drive'.released
      PROVE  \E i \in DOMAIN line' : Releaser(line[i])'
  <2>1. CASE Releaser(job)
    BY <1>1, <2>1 DEF Releaser
  <2>2. CASE ~Releaser(job)
    <3>1. PICK i \in DOMAIN line : Releaser(line[i])
      BY <1>4, <2>2 DEF Lined
    <3>. QED BY <1>1, <3>1 DEF Releaser
  <2>. QED BY <2>1, <2>2
<1>5. /\ drive'.pass <= passes' /\ (drive'.pc # "none" => drive'.pass # 0)
  BY <1>0 DEF Lined
<1>. QED BY <1>2, <1>3, <1>4, <1>5 DEF Lined

\* accept: the lane is idle, so an installed pass is done.
LEMMA AcceptKeeps ==
  ASSUME Lane, Kept, Effected, FramesOwned,
         NEW id \in Ops, NEW kind \in Kinds, NEW leaf \in Leaves, Accept(id, kind, leaf)
  PROVE  Kept' /\ Effected' /\ FramesOwned'
<1>1. /\ operation.id = None /\ leaf \in InitialLeaves(kind)
      /\ operation' = InitialOperation(id, kind, leaf)
      /\ UNCHANGED <<results, outcomes, frames, line, drive, sent, reserved, passes>>
  BY DEF Accept
<1>2. leaf \notin EffectLeaves /\ leaf # "tools"
  BY <1>1, InitialWellFormed
<1>3. drive.pc \in {"none", "done"}
  <2>1. SUFFICES ASSUME drive.pc \notin {"none", "done"} PROVE FALSE
    OBVIOUS
  <2>2. IsCurrent(drive) /\ drive.op \in Ops
    BY <2>1 DEF Kept, Knowing, Lane, Typed, Installed
  <2>. QED BY <1>1, <2>2, LeavesAssumption DEF LeavesAssumption, IsCurrent
<1>4. operation'.at = leaf
  BY <1>1 DEF InitialOperation
<1>5. Standing' /\ Lined'
  BY <1>1 DEF Kept, Standing, Lined, JobOK, PairOK, Missed, Releaser
<1>6. Knowing'
  BY <1>1, <1>3 DEF Knowing
<1>7. Gated'
  BY <1>1, <1>3 DEF Kept, Gated, Early
<1>8. Admitting'
  BY <1>1, <1>3 DEF Kept, Admitting, Planning, Owns, Owning, CommandPcs
<1>9. Effected'
  BY <1>1, <1>2, <1>4 DEF Effected, OwesEffect, EffectLeaves
<1>10. FramesOwned'
  BY <1>1 DEF FramesOwned
<1>. QED BY <1>5, <1>6, <1>7, <1>8, <1>9, <1>10 DEF Kept

\* drive() queues its claim under a number of its own.
LEMMA CallDriveKeeps ==
  ASSUME Lane, Kept, Effected, FramesOwned,
         NEW id \in Ops, NEW wait \in BOOLEAN, NEW permits \in {0, 1},
         CallDrive(id, wait, permits)
  PROVE  Kept' /\ Effected' /\ FramesOwned'
<1>0. Typed /\ Lined /\ passes \in 0..MaxPasses /\ line \in Seq(Jobs)
  BY DEF Lane, Kept, Typed, TypeOK
<1>1. PICK job : /\ job = [Job("claim", id, passes + 1) EXCEPT !.wait = wait, !.permits = permits]
                 /\ line' = Append(line, job)
                 /\ passes < MaxPasses /\ passes' = passes + 1
                 /\ UNCHANGED <<durable, drive, sent, reserved>>
  BY DEF CallDrive
<1>2. job \in Jobs /\ job.k = "claim" /\ job.pass = passes + 1
  <2>1. passes + 1 \in Passes \cup {0}
    BY <1>0, <1>1, DriveAssumption DEF DriveAssumption, Passes
  <2>. QED BY <1>1, <2>1 DEF Job, Jobs
<1>3. \A i \in DOMAIN line : line[i].pass # passes + 1
  <2>1. SUFFICES ASSUME NEW i \in DOMAIN line, line[i].pass = passes + 1 PROVE FALSE
    OBVIOUS
  <2>2. line[i].pass <= passes
    BY <1>0 DEF Lined, JobOK
  <2>. QED BY <1>0, <2>1, <2>2
<1>4. drive.pass <= passes
  BY <1>0 DEF Lined
<1>5. Lined'
  <2>1. passes \in Nat /\ passes' \in Nat /\ passes <= passes' /\ job.pass <= passes'
    BY <1>0, <1>1, <1>2, DriveAssumption DEF DriveAssumption
  <2>2. drive.pass \in Nat
    BY <1>0, DriveAssumption DEF DriveAssumption, Typed, TypeOK, Drives, Passes
  <2>3. job.pass \notin {0, drive.pass} /\ \A i \in DOMAIN line : line[i].pass # job.pass
    BY <1>2, <1>3, <1>4, <2>1, <2>2
  <2>4. ~Missed(job) /\ job.k # "drive" /\ job.k # "abort"
    BY <1>2 DEF Missed
  <2>5. /\ drive'.pc = drive.pc /\ drive'.op = drive.op /\ drive'.pass = drive.pass
        /\ drive'.ran = drive.ran /\ drive'.gate = drive.gate /\ drive'.released = drive.released
    BY <1>1
  <2>. QED BY <1>0, <1>1, <1>2, <2>1, <2>3, <2>4, <2>5, JoinLine
<1>6. Standing' /\ Knowing' /\ Gated' /\ Admitting'
  BY <1>1 DEF Kept, Standing, Knowing, IsCurrent, Cancelled, Gated, Admitting, Planning,
     Owns, Unsent, OwesEffect, EnteringHook, durable
<1>7. Effected' /\ FramesOwned'
  BY <1>1, EffectsLeft
<1>. QED BY <1>5, <1>6, <1>7 DEF Kept

\* A frame append joins the line.
LEMMA WriteFrameKeeps ==
  ASSUME Lane, Kept, Effected, FramesOwned, WriteFrame
  PROVE  Kept' /\ Effected' /\ FramesOwned'
<1>0. /\ Typed /\ Lined /\ drive \in Drives /\ passes \in Nat /\ drive.op \in Ops
      /\ drive.pc = "inflight" /\ drive.pc # "none" /\ drive.at \in Streams
  BY DriveAssumption DEF DriveAssumption, Lane, Kept, Typed, TypeOK, Installed, WriteFrame
<1>1. PICK job : /\ job = [DriveJob(drive) EXCEPT !.k = "frame", !.eff = operation.eff]
                 /\ line' = Append(line, job)
                 /\ UNCHANGED <<durable, drive, sent, reserved, passes>>
  BY DEF WriteFrame
<1>2. job \in Jobs /\ job.k = "frame" /\ job.pass = drive.pass
  <2>1. operation.eff \in Effects
    <3>1. operation.id = drive.op /\ operation.at \in Streams
      BY <1>0 DEF Typed, OwnsCurrentLeaf, Owns, Owning, IsCurrent
    <3>2. operation # NoOperation
      BY <1>0, <3>1, LeavesAssumption DEF LeavesAssumption, NoOperation
    <3>. QED BY <1>0, <3>1, <3>2 DEF Typed, LaneWellFormed, WellFormed, Streams
  <2>2. drive.pass \in Passes \cup {0}
    BY <1>0 DEF Drives
  <2>. QED BY <1>0, <1>1, <2>1, <2>2 DEF DriveJob, Job, Jobs
<1>3. drive.pass <= passes /\ \A i \in DOMAIN line : line[i].k = "claim" => line[i].pass # drive.pass
  BY <1>0 DEF Lined, JobOK
<1>4. Lined'
  <2>1. passes' \in Nat /\ passes <= passes' /\ job.pass <= passes'
    BY <1>0, <1>1, <1>2, <1>3
  <2>2. ~Missed(job) /\ job.k \notin {"drive", "abort", "claim"}
    BY <1>2 DEF Missed
  <2>3. \A i \in DOMAIN line : line[i].k = "claim" => line[i].pass # job.pass
    BY <1>2, <1>3
  <2>4. /\ drive'.pc = drive.pc /\ drive'.op = drive.op /\ drive'.pass = drive.pass
        /\ drive'.ran = drive.ran /\ drive'.gate = drive.gate /\ drive'.released = drive.released
    BY <1>1
  <2>. QED BY <1>0, <1>1, <1>2, <2>1, <2>2, <2>3, <2>4, JoinLine
<1>5. Standing' /\ Knowing' /\ Gated' /\ Admitting'
  BY <1>1 DEF Kept, Standing, Knowing, IsCurrent, Cancelled, Gated, Admitting, Planning,
     Owns, Unsent, OwesEffect, EnteringHook, durable
<1>6. Effected' /\ FramesOwned'
  BY <1>1, EffectsLeft
<1>. QED BY <1>4, <1>5, <1>6 DEF Kept

\* The frame append runs: it keeps a frame only for the response still pending.
LEMMA RunFrameKeeps ==
  ASSUME Lane, Kept, Effected, FramesOwned, RunFrame
  PROVE  Kept' /\ Effected' /\ FramesOwned'
<1>1. /\ line # <<>> /\ Head(line).k = "frame" /\ line' = Tail(line)
      /\ UNCHANGED <<operation, results, outcomes, drive, sent, reserved, passes>>
      /\ frames' = IF operation.id # None /\ operation.at \in Streams
                      /\ operation.eff = Head(line).eff
                     THEN frames \cup {Head(line).eff} ELSE frames
  BY DEF RunFrame
<1>2. Lined'
  BY <1>1, TailLine DEF Lane, Kept, Releaser
<1>3. Standing' /\ Knowing' /\ Gated' /\ Admitting'
  BY <1>1 DEF Kept, Standing, Knowing, IsCurrent, Cancelled, Gated, Admitting, Planning,
     Owns, Unsent, OwesEffect, EnteringHook
<1>4. Effected'
  BY <1>1 DEF Effected, OwesEffect
<1>5. FramesOwned'
  BY <1>1 DEF FramesOwned
<1>. QED BY <1>2, <1>3, <1>4, <1>5 DEF Kept

\* The process memory is lost.
LEMMA CrashKeeps ==
  ASSUME Lane, Kept, Effected, FramesOwned, Crash
  PROVE  Kept' /\ Effected' /\ FramesOwned'
<1>1. /\ line' = <<>> /\ drive' = NoDrive
      /\ UNCHANGED <<operation, results, outcomes, frames, sent, reserved, passes>>
  BY DEF Crash
<1>2. passes \in Nat
  BY DriveAssumption DEF DriveAssumption, Lane, Typed, TypeOK
<1>3. DOMAIN line' = {}
  BY <1>1
<1>4. Lined'
  BY <1>1, <1>2, <1>3 DEF Lined, NoDrive
<1>5. Standing' /\ Knowing' /\ Gated' /\ Admitting'
  BY <1>1 DEF NoDrive, Standing, AtLeaf, Knowing, Gated, Admitting, Planning
<1>6. Effected' /\ FramesOwned'
  BY <1>1, EffectsLeft DEF durable
<1>. QED BY <1>4, <1>5, <1>6 DEF Kept

\* The claim runs.  Its pass, when it is installed, is entered under an open
\* gate, under a number no other job on the line has.
LEMMA RunClaimKeeps ==
  ASSUME Lane, Kept, Effected, FramesOwned, RunClaim
  PROVE  Kept' /\ Effected' /\ FramesOwned'
<1>. DEFINE job == Head(line)
<1>0. /\ line # <<>> /\ job.k = "claim" /\ line' = Tail(line)
      /\ drive' = IF operation.id = job.op /\ drive.pc = "none"
                    THEN [NoDrive EXCEPT !.pass = job.pass, !.op = job.op, !.pc = "entry",
                                         !.wait = job.wait, !.permits = job.permits]
                    ELSE drive
      /\ UNCHANGED <<operation, results, outcomes, frames, sent, reserved, passes>>
  BY DEF RunClaim, durable
<1>1. Effected' /\ FramesOwned'
  BY <1>0, EffectsLeft DEF durable
<1>2. CASE ~(operation.id = job.op /\ drive.pc = "none")
  <2>1. drive' = drive
    BY <1>0, <1>2
  <2>2. ~Releaser(Head(line))
    BY <1>0 DEF Releaser
  <2>3. Lined'
    BY <1>0, <2>1, <2>2, TailLine DEF Lane, Kept
  <2>4. Standing' /\ Knowing'
    BY <1>0, <2>1 DEF Kept, Standing, Knowing, IsCurrent, Cancelled, EnteringHook
  <2>5. Gated'
    BY <1>0, <2>1 DEF Kept, Gated, IsCurrent, Cancelled, EnteringHook
  <2>6. Admitting'
    BY <1>0, <2>1 DEF Kept, Admitting, Planning, Owns, IsCurrent, Unsent, OwesEffect
  <2>. QED BY <1>1, <2>3, <2>4, <2>5, <2>6 DEF Kept
<1>3. CASE operation.id = job.op /\ drive.pc = "none"
  <2>1. /\ drive'.pc = "entry" /\ drive'.pass = job.pass /\ drive'.op = job.op
        /\ drive'.gate = "open" /\ ~drive'.ran /\ ~drive'.released /\ drive'.moved
        /\ drive'.res # "aborted" /\ drive'.at = "none" /\ drive'.resume = "none"
    BY <1>0, <1>3 DEF NoDrive
  <2>2. Standing' /\ Gated' /\ Admitting'
    BY <2>1, LeavesAssumption DEF Standing, AtLeaf, Gated, Early, Admitting, Planning, Owns, Owning,
       CommandPcs
  <2>3. Knowing'
    BY <1>0, <1>3, <2>1 DEF Knowing, IsCurrent
  <2>4. Lined'
    <3>0. line \in Seq(Jobs) /\ Lined
      BY DEF Lane, Typed, TypeOK, Kept
    <3>1. /\ job = line[1] /\ 1 \in DOMAIN line
          /\ \A i \in DOMAIN line' : i \in Nat /\ i + 1 \in DOMAIN line /\ line'[i] = line[i + 1]
                                     /\ i + 1 # 1
      <4>1. /\ job = line[1] /\ 1 \in DOMAIN line
            /\ DOMAIN line' = {i \in Nat : i + 1 \in DOMAIN line /\ i # 0}
            /\ \A i \in DOMAIN line' : i + 1 \in DOMAIN line /\ line'[i] = line[i + 1]
        BY <1>0, <3>0, Taken
      <4>. QED BY <4>1
    <3>2. job.pass # 0 /\ job.pass <= passes
      BY <1>0, <3>0, <3>1 DEF Lined, JobOK
    <3>3. ASSUME NEW i \in DOMAIN line
          PROVE  /\ JobOK(i) /\ line[i].k # "drive"
                 /\ i # 1 => line[i].pass # job.pass
                 /\ \A j \in DOMAIN line : PairOK(i, j)
      <4>1. JobOK(i) /\ PairOK(1, i)
        BY <3>0, <3>1 DEF Lined
      <4>2. line[i].k # "drive"
        BY <1>3, <4>1 DEF JobOK, CommandPcs
      <4>3. i # 1 => line[i].pass # job.pass
        BY <1>0, <3>1, <4>1 DEF PairOK
      <4>. QED BY <3>0, <4>1, <4>2, <4>3 DEF Lined
    <3>4. ASSUME NEW i \in DOMAIN line' PROVE JobOK(i)'
      <4>1. JobOK(i + 1) /\ line[i + 1].k # "drive" /\ line[i + 1].pass # job.pass
        BY <3>1, <3>3
      <4>2. line'[i] = line[i + 1]
        BY <3>1
      <4>. QED BY <1>0, <2>1, <4>1, <4>2 DEF JobOK
    <3>5. ASSUME NEW i \in DOMAIN line', NEW j \in DOMAIN line' PROVE PairOK(i, j)'
      <4>1. /\ PairOK(i + 1, j + 1) /\ line[j + 1].k # "drive" /\ i \in Nat /\ j \in Nat
            /\ line'[i] = line[i + 1] /\ line'[j] = line[j + 1]
        BY <3>1, <3>3
      <4>. QED BY <4>1 DEF PairOK
    <3>. QED BY <1>0, <2>1, <3>2, <3>4, <3>5 DEF Lined
  <2>. QED BY <1>1, <2>2, <2>3, <2>4 DEF Kept
<1>. QED BY <1>2, <1>3

\* abort() closes the gate of the pass it finds before its command joins the
\* line; it is the one that releases the pass if it was the first.
LEMMA RequestAbortKeeps ==
  ASSUME Lane, Kept, Effected, FramesOwned, NEW id \in Ops, RequestAbort(id)
  PROVE  Kept' /\ Effected' /\ FramesOwned'
<1>0. /\ Typed /\ Lined /\ drive \in Drives /\ line \in Seq(Jobs)
      /\ passes \in Nat /\ drive.pass \in Nat
  BY DriveAssumption DEF DriveAssumption, Lane, Kept, Typed, TypeOK, Drives, Passes
<1>. DEFINE mine == drive.op = id
<1>1. PICK job :
        /\ job = [Job("abort", id, IF mine THEN drive.pass ELSE 0)
                    EXCEPT !.own = mine /\ drive.gate = "open"]
        /\ line' = Append(line, job)
        /\ drive' = IF mine THEN [drive EXCEPT !.gate = BeginAbort(@)] ELSE drive
        /\ UNCHANGED <<operation, results, outcomes, frames, sent, reserved, passes>>
  BY DEF RequestAbort
<1>2. /\ job \in Jobs /\ job.k = "abort" /\ job.op = id
      /\ job.pass = (IF mine THEN drive.pass ELSE 0) /\ job.own = (mine /\ drive.gate = "open")
  <2>1. (IF mine THEN drive.pass ELSE 0) \in Passes \cup {0}
    BY <1>0 DEF Drives
  <2>. QED BY <1>1, <2>1 DEF Job, Jobs
<1>3. /\ drive'.op = drive.op /\ drive'.pass = drive.pass /\ drive'.pc = drive.pc
      /\ drive'.at = drive.at /\ drive'.resume = drive.resume /\ drive'.ran = drive.ran
      /\ drive'.released = drive.released /\ drive'.res = drive.res /\ drive'.moved = drive.moved
      /\ drive'.gate = IF mine THEN BeginAbort(drive.gate) ELSE drive.gate
  BY <1>0, <1>1 DEF Drives
<1>4. drive.gate # "open" => drive'.gate # "open"
  BY <1>3 DEF BeginAbort
<1>5. mine => drive'.gate # "open"
  BY <1>3 DEF BeginAbort
<1>6. Lined'
  <2>1. job.pass <= passes' /\ passes' \in Nat /\ passes <= passes'
    BY <1>0, <1>1, <1>2 DEF Lined
  <2>2. job.pass = drive.pass /\ drive.pass # 0 => drive'.gate # "open" /\ job.op = drive.op
    BY <1>2, <1>5
  <2>3. \A i \in DOMAIN line : line[i].k = "claim" => line[i].pass # job.pass
    BY <1>0, <1>2 DEF Lined, JobOK
  <2>4. ~Missed(job)
    BY <1>2 DEF Missed
  <2>5. drive.pc # "none" /\ drive'.gate # "open" /\ ~drive'.released =>
          (drive.gate # "open" /\ ~drive.released) \/ Releaser(job)
    BY <1>2, <1>3 DEF Releaser, BeginAbort
  <2>. QED BY <1>0, <1>1, <1>2, <1>3, <1>4, <2>1, <2>2, <2>3, <2>4, <2>5, JoinLine
<1>7. Standing'
  BY <1>3 DEF Kept, Standing
<1>8. Knowing'
  BY <1>1, <1>3, <1>4 DEF Kept, Knowing, IsCurrent, Cancelled, EnteringHook
<1>9. Gated'
  BY <1>1, <1>3, <1>4 DEF Kept, Gated, IsCurrent, Cancelled, EnteringHook
<1>10. Admitting'
  BY <1>1, <1>3 DEF Kept, Admitting, Planning, Owns, IsCurrent, Unsent, OwesEffect
<1>11. Effected' /\ FramesOwned'
  BY <1>1, EffectsLeft DEF durable
<1>. QED BY <1>6, <1>7, <1>8, <1>9, <1>10, <1>11 DEF Kept

\* The abort command runs: it writes the marker for an open operation, and
\* only the call that closed the gate releases the pass.
LEMMA RunAbortKeeps ==
  ASSUME Lane, Kept, Effected, FramesOwned, RunAbort
  PROVE  Kept' /\ Effected' /\ FramesOwned'
<1>. DEFINE job == Head(line)
            captured == job.pass # 0 /\ job.pass = drive.pass
<1>0. /\ Typed /\ Lined /\ drive \in Drives /\ line \in Seq(Jobs)
      /\ line # <<>> /\ job.k = "abort" /\ line' = Tail(line)
      /\ UNCHANGED <<results, outcomes, frames, sent, reserved, passes>>
  BY DEF RunAbort, Lane, Kept, Typed, TypeOK
<1>1. job = line[1] /\ 1 \in DOMAIN line /\ JobOK(1) /\ job.op \in Ops
  <2>1. job = line[1] /\ 1 \in DOMAIN line
    BY <1>0, Taken
  <2>2. job \in Jobs
    BY <1>0
  <2>. QED BY <1>0, <2>1, <2>2 DEF Lined, Jobs
<1>2. operation' = IF NewMarker(job) THEN [operation EXCEPT !.ctl = "cancel_requested"]
                   ELSE operation
  BY DEF RunAbort
<1>3. /\ drive'.op = drive.op /\ drive'.pass = drive.pass /\ drive'.pc = drive.pc
      /\ drive'.at = drive.at /\ drive'.resume = drive.resume /\ drive'.ran = drive.ran
      /\ drive'.res = drive.res
      /\ drive'.released = (drive.released \/ (captured /\ job.own))
      /\ drive'.moved = (drive.moved \/ NewMarker(job))
      /\ drive.gate # "open" => drive'.gate # "open"
      /\ drive'.gate = "open" => drive.gate = "open"
  <2>1. drive' = [drive EXCEPT
              !.released = @ \/ (captured /\ ResolvesCancellation(job, NewMarker(job))),
              !.gate = IF captured /\ operation.id = job.op /\ @ = "aborting"
                         THEN "signalled" ELSE @,
              !.moved = @ \/ NewMarker(job)]
    BY DEF RunAbort
  <2>. QED BY <1>0, <2>1 DEF Drives, ResolvesCancellation
<1>4. operation \in OperationStates \cup {NoOperation}
  BY DEF Lane, Typed, TypeOK
<1>5. NewMarker(job) => operation \in OperationStates /\ operation # NoOperation
  BY <1>1, <1>4, LeavesAssumption DEF LeavesAssumption, NewMarker, NoOperation, OperationStates
<1>6. /\ operation'.id = operation.id /\ operation'.at = operation.at
      /\ operation'.eff = operation.eff /\ operation'.call = operation.call
      /\ operation'.safe = operation.safe
      /\ Cancelled' <=> (Cancelled \/ NewMarker(job))
      /\ operation' # NoOperation => operation # NoOperation
  <2>1. CASE NewMarker(job)
    <3>1. operation' = [operation EXCEPT !.ctl = "cancel_requested"]
      BY <1>2, <2>1
    <3>. QED BY <1>5, <2>1, <3>1 DEF OperationStates, Cancelled
  <2>2. CASE ~NewMarker(job)
    BY <1>2, <2>2 DEF Cancelled
  <2>. QED BY <2>1, <2>2
<1>7. OwesEffect(operation)' <=> OwesEffect(operation)
  BY <1>6 DEF OwesEffect
<1>8. Standing'
  BY <1>3 DEF Kept, Standing
<1>9. drive.pc \notin {"none", "done"} => IsCurrent(drive) /\ Knowing
  BY DEF Kept, Knowing
<1>10. drive.pc \notin {"none", "done"} /\ captured => Cancelled'
  <2>1. SUFFICES ASSUME drive.pc \notin {"none", "done"}, captured PROVE Cancelled'
    OBVIOUS
  <2>2. job.op = drive.op
    BY <1>0, <1>1, <2>1 DEF JobOK
  <2>3. operation.id = job.op
    BY <1>9, <2>1, <2>2 DEF IsCurrent
  <2>4. operation.ctl \in {"running", "cancel_requested"}
    BY <1>1, <1>4, <2>3, LeavesAssumption
       DEF LeavesAssumption, NoOperation, OperationStates
  <2>. QED BY <1>6, <2>3, <2>4 DEF NewMarker, Cancelled
<1>11. Knowing'
  <2>1. SUFFICES ASSUME drive.pc \notin {"none", "done"} PROVE Knowing'
    BY <1>3 DEF Knowing
  <2>2. Knowing /\ (Cancelled => Cancelled')
    BY <1>6, <1>9, <2>1
  <2>3. IsCurrent(drive)'
    BY <1>3, <1>6, <1>9, <2>1 DEF IsCurrent
  <2>4. drive'.released => Cancelled'
    BY <1>3, <1>10, <2>1, <2>2 DEF Knowing
  <2>5. drive'.moved \/ Cancelled' <=> drive.moved \/ Cancelled'
    BY <1>3, <1>6
  <2>. QED BY <1>3, <2>1, <2>2, <2>3, <2>4, <2>5 DEF Knowing, EnteringHook
<1>12. Gated'
  <2>1. SUFFICES ASSUME drive.pc # "none", drive'.gate = "open" PROVE Gated'
    BY <1>3 DEF Gated
  <2>2. Gated /\ drive.gate = "open"
    BY <1>3, <2>1 DEF Kept
  <2>3. IsCurrent(drive) /\ NewMarker(job) => ~drive.ran
    <3>1. SUFFICES ASSUME operation.id = drive.op, operation.id = job.op PROVE ~drive.ran
      BY DEF IsCurrent, NewMarker
    <3>2. drive.pass # 0
      BY <1>0, <2>1 DEF Lined
    <3>3. job.pass # drive.pass
      BY <1>0, <1>1, <2>2, <3>2 DEF JobOK
    <3>. QED BY <1>0, <1>1, <2>1, <3>1, <3>3 DEF JobOK, Missed
  <2>4. IsCurrent(drive)' <=> IsCurrent(drive)
    BY <1>3, <1>6 DEF IsCurrent
  <2>. QED BY <1>3, <1>6, <2>1, <2>2, <2>3, <2>4 DEF Gated, EnteringHook
<1>13. Lined'
  <2>1. ASSUME drive.pc # "none", drive'.gate # "open", ~drive'.released
        PROVE  drive.gate # "open" /\ ~drive.released /\ ~Releaser(job)
    <3>1. drive.pass # 0
      BY <1>0, <2>1 DEF Lined
    <3>2. ~Releaser(job)
      BY <1>3, <2>1, <3>1 DEF Releaser
    <3>3. drive.gate # "open"
      BY <2>1 DEF RunAbort
    <3>. QED BY <1>3, <2>1, <3>2, <3>3
  <2>. QED BY <1>0, <1>3, <2>1, TailLine
<1>14. Admitting'
  <2>1. Owns(drive)' <=> Owns(drive)
    BY <1>3, <1>6 DEF Owns, IsCurrent
  <2>2. (Unsent' <=> Unsent) /\ (Planning' <=> Planning)
    BY <1>0, <1>3, <1>6 DEF Unsent, Planning
  <2>. QED BY <1>3, <1>6, <1>7, <2>1, <2>2 DEF Kept, Admitting
<1>15. Effected'
  BY <1>0, <1>6, <1>7 DEF Effected
<1>16. FramesOwned'
  BY <1>0, <1>6 DEF FramesOwned
<1>. QED BY <1>8, <1>11, <1>12, <1>13, <1>14, <1>15, <1>16 DEF Kept

-----------------------------------------------------------------------------
(***************************************************************************)
(* The invariant holds in every behaviour.                                 *)
(***************************************************************************)
\* Nothing has been reserved, sent, queued or installed initially.
LEMMA InitOK ==
  Init => IInv
<1>. SUFFICES ASSUME Init PROVE IInv
  OBVIOUS
<1>1. Lane /\ SignalMeansCancelled
  BY InitTyped, InitSettling, InitSignal DEF Lane
<1>2. /\ drive = NoDrive /\ line = <<>> /\ passes = 0 /\ operation = NoOperation /\ frames = {}
      /\ outcomes = [e \in Effects |-> "none"] /\ sent = [e \in Effects |-> 0]
  BY DEF Init
<1>3. DOMAIN line = {}
  BY <1>2
<1>4. Standing /\ Knowing /\ Gated /\ Admitting
  BY <1>2 DEF NoDrive, Standing, AtLeaf, Knowing, Gated, Admitting, Planning
<1>5. Lined
  BY <1>2, <1>3 DEF Lined, NoDrive
<1>6. Effected /\ FramesOwned
  BY <1>2 DEF Effected, FramesOwned
<1>. QED BY <1>1, <1>4, <1>5, <1>6 DEF IInv, Kept

\* A step that changes nothing.
LEMMA StutterKeeps ==
  ASSUME Kept, Effected, FramesOwned, UNCHANGED vars
  PROVE  Kept' /\ Effected' /\ FramesOwned'
<1>0. UNCHANGED <<operation, results, outcomes, frames, line, drive, sent, reserved, passes>>
  BY DEF vars, durable
<1>1. Standing' /\ Knowing'
  BY <1>0 DEF Kept, Standing, Knowing, IsCurrent, Cancelled, EnteringHook
<1>2. Gated' /\ Lined'
  BY <1>0 DEF Kept, Gated, IsCurrent, Cancelled, EnteringHook, Lined, JobOK, PairOK, Missed,
     Releaser
<1>3. Admitting'
  BY <1>0 DEF Kept, Admitting, Planning, Owns, IsCurrent, Unsent, OwesEffect
<1>4. Effected' /\ FramesOwned'
  BY <1>0, EffectsLeft DEF durable
<1>. QED BY <1>1, <1>2, <1>3, <1>4 DEF Kept

\* Every step of the program keeps the invariant.
LEMMA NextKeeps ==
  IInv /\ [Next]_vars => IInv'
<1>. SUFFICES ASSUME IInv, [Next]_vars PROVE IInv'
  OBVIOUS
<1>0. Lane /\ SignalMeansCancelled /\ Kept /\ Effected /\ FramesOwned
  BY DEF IInv
<1>1. Lane' /\ SignalMeansCancelled'
  BY <1>0, NextTyped, NextSettling, StepSignal DEF Lane
<1>2. Kept' /\ Effected' /\ FramesOwned'
  <2>1. CASE PassStep
    BY <1>0, <2>1, PassStepKeeps
  <2>2. CASE PassCommand
    BY <1>0, <2>2, PassCommandKeeps
  <2>3. CASE \E id \in Ops, kind \in Kinds, leaf \in Leaves : Accept(id, kind, leaf)
    BY <1>0, <2>3, AcceptKeeps
  <2>4. CASE \E id \in Ops, wait \in BOOLEAN, permits \in {0, 1} : CallDrive(id, wait, permits)
    BY <1>0, <2>4, CallDriveKeeps
  <2>5. CASE RunClaim
    BY <1>0, <2>5, RunClaimKeeps
  <2>6. CASE \E id \in Ops : RequestAbort(id)
    BY <1>0, <2>6, RequestAbortKeeps
  <2>7. CASE RunAbort
    BY <1>0, <2>7, RunAbortKeeps
  <2>8. CASE Crash
    BY <1>0, <2>8, CrashKeeps
  <2>9. CASE WriteFrame
    BY <1>0, <2>9, WriteFrameKeeps
  <2>10. CASE RunFrame
    BY <1>0, <2>10, RunFrameKeeps
  <2>11. CASE UNCHANGED vars
    BY <1>0, <2>11, StutterKeeps
  <2>. QED BY <2>1, <2>2, <2>3, <2>4, <2>5, <2>6, <2>7, <2>8, <2>9, <2>10, <2>11 DEF Next
<1>. QED BY <1>1, <1>2 DEF IInv

\* The gate, the line, the pass and its operation stay in agreement in every
\* behaviour of the lane.
THEOREM LaneAgrees ==
  Spec => []IInv
BY InitOK, NextKeeps, PTL DEF Spec

-----------------------------------------------------------------------------
(***************************************************************************)
(* What it gives.                                                          *)
(***************************************************************************)
\* No pass of a lane throws a SessionInvariantError or waits for a
\* cancellation that no queued abort command will resolve.
THEOREM PassesGoOn ==
  Spec => []PassGoesOn
<1>1. IInv => PassGoesOn
  <2>1. SUFFICES ASSUME Knowing, Lined PROVE PassGoesOn
    BY DEF IInv, Kept
  <2>2. NoFault
    BY <2>1 DEF Knowing, NoFault
  <2>3. ParkedHasReleaser
    <3>1. SUFFICES ASSUME drive.pc = "parked", ~drive.released
                   PROVE  \E i \in DOMAIN line : Releaser(line[i])
      BY DEF ParkedHasReleaser, Releaser
    <3>2. drive.gate # "open"
      BY <2>1, <3>1 DEF Knowing
    <3>. QED BY <2>1, <3>1, <3>2 DEF Lined
  <2>. QED BY <2>2, <2>3 DEF PassGoesOn
<1>. QED BY <1>1, LaneAgrees, PTL

\* Partial frames exist for the pending response only, whatever late frame
\* writes, replaced polls, settlements and cancellations came before.
THEOREM FramesAreOwned ==
  Spec => []FramesOwned
<1>1. IInv => FramesOwned
  BY DEF IInv
<1>. QED BY <1>1, LaneAgrees, PTL

\* An effect reaches a provider or a tool only behind the committed intent of
\* the pass's own open operation, never after its cancellation, and twice only
\* when the tool declared itself replay-safe.
THEOREM EffectsBehindIntents ==
  Spec => EffectBehindIntent
<1>. DEFINE Step == \A e \in Effects : sent'[e] # sent[e] =>
        /\ IsCurrent(drive) /\ OwesEffect(operation) /\ operation.eff = e
        /\ ~Cancelled
        /\ outcomes[e] = "none"
        /\ sent[e] = 0 \/ (operation.at = "tools" /\ operation.safe)
<1>1. ASSUME IInv, Next PROVE Step
  <2>1. CASE AdmitEffect
    <3>1. /\ IsCurrent(drive) /\ OwesEffect(operation) /\ ~Cancelled
          /\ outcomes[operation.eff] = "none"
          /\ Unsent \/ (operation.at = "tools" /\ operation.safe)
          /\ sent' = [sent EXCEPT ![operation.eff] = @ + 1]
      BY <1>1, <2>1, AdmitKeeps, NextTyped DEF IInv, Lane
    <3>2. sent \in [Effects -> Nat]
      BY <1>1 DEF IInv, Lane, Typed, TypeOK
    <3>. QED BY <3>1, <3>2 DEF Unsent
  <2>2. CASE ~AdmitEffect
    <3>1. sent' = sent
      <4>1. CASE PassStep
        BY <2>2, <4>1 DEF PassStep, EnterCancelled, AdmitHook, RefuseHook, HookReturns,
           CancellationResolves, Dispatch, Complete, Sleep, WakeByTime, WakeByAbort, CancelRemote,
           SelectCall, RefuseEffect, EffectReturns
      <4>2. CASE PassCommand
        BY <4>2 DEF PassCommand, RunRead, RunToolRead, RunBoundaryRead, RunRecover, RunPublish,
           RunBoundaryPublish, RunIntent, RunIntentCancelled, RunNested, RunSettleResponse,
           RunSettleNested, RunTerminal, RunClear, RunStage, RunPlace
      <4>3. CASE ~PassStep /\ ~PassCommand
        BY <1>1, <4>3 DEF Next, Accept, CallDrive, RunClaim, RequestAbort, RunAbort, Crash,
           WriteFrame, RunFrame
      <4>. QED BY <4>1, <4>2, <4>3
    <3>. QED BY <3>1
  <2>. QED BY <2>1, <2>2
<1>2. IInv /\ [Next]_vars => [Step]_vars
  BY <1>1
<1>. QED BY <1>2, LaneAgrees, PTL DEF Spec, EffectBehindIntent

\* A response entry, staged tool result or usage row is written once under its
\* reserved id, over all passes and crashes, and never as aborted before the
\* cancellation is durable.
THEOREM OutcomesWrittenOnce ==
  Spec => OutcomeWrittenOnce
<1>. DEFINE Step == \A e \in Effects :
        /\ outcomes[e] # "none" => outcomes'[e] = outcomes[e]
        /\ outcomes'[e] = "aborted" /\ outcomes[e] # "aborted" => Cancelled
<1>1. ASSUME IInv, Next PROVE Step
  <2>1. CASE RunSettleResponse \/ RunSettleNested \/ RunStage
    <3>1. Records /\ Typed /\ Effected
      BY <1>1, <2>1, SettlementsRecord DEF IInv, Lane
    <3>2. reserved \in Nat /\ reserved' \in Nat /\ reserved <= reserved'
      <4>1. reserved \in Nat
        BY <3>1, DriveAssumption DEF DriveAssumption, Typed, TypeOK
      <4>2. reserved' = reserved \/ Reserve
        BY <2>1 DEF RunSettleResponse, RunSettleNested, RunStage
      <4>. QED BY <4>1, <4>2 DEF Reserve
    <3>. QED BY <3>1, <3>2, RecordsReserved
  <2>2. CASE ~(RunSettleResponse \/ RunSettleNested \/ RunStage)
    <3>1. outcomes' = outcomes
      <4>1. CASE PassStep
        BY <4>1 DEF PassStep, EnterCancelled, AdmitHook, RefuseHook, HookReturns, durable,
           CancellationResolves, Dispatch, Complete, Sleep, WakeByTime, WakeByAbort, CancelRemote,
           SelectCall, AdmitEffect, RefuseEffect, EffectReturns
      <4>2. CASE PassCommand
        BY <2>2, <4>2 DEF PassCommand, RunRead, RunToolRead, RunBoundaryRead, RunRecover, RunPublish,
           RunBoundaryPublish, RunIntent, RunIntentCancelled, RunNested, RunTerminal, RunClear,
           RunPlace, durable
      <4>3. CASE ~PassStep /\ ~PassCommand
        BY <1>1, <4>3 DEF Next, Accept, CallDrive, RunClaim, RequestAbort, RunAbort, Crash,
           WriteFrame, RunFrame, durable
      <4>. QED BY <4>1, <4>2, <4>3
    <3>. QED BY <3>1
  <2>. QED BY <2>1, <2>2
<1>2. IInv /\ [Next]_vars => [Step]_vars
  BY <1>1
<1>. QED BY <1>2, LaneAgrees, PTL DEF Spec, OutcomeWrittenOnce

\* An operation settles over a pending response or a tool call only in the
\* commit that records its outcome.
THEOREM NoEffectAbandoned ==
  Spec => NoAbandonedEffect
<1>. DEFINE Step == results' # results =>
        (operation.at \in {"assistant.effect_pending", "tools"}
          => outcomes'[operation.eff] # "none")
<1>1. ASSUME IInv, Next PROVE Step
  <2>0. Lane /\ Kept /\ Effected /\ Standing
    BY <1>1 DEF IInv, Kept
  <2>1. CASE RunSettleResponse
    <3>1. Records /\ Typed /\ operation.eff \in Effects
      BY <2>0, <2>1, SettlementsRecord DEF Lane
    <3>2. reserved \in Nat /\ reserved' \in Nat /\ reserved <= reserved'
      <4>1. reserved \in Nat
        BY <3>1, DriveAssumption DEF DriveAssumption, Typed, TypeOK
      <4>2. reserved' = reserved \/ Reserve
        BY <2>1 DEF RunSettleResponse
      <4>. QED BY <4>1, <4>2 DEF Reserve
    <3>3. outcomes'[operation.eff] # "none"
      BY <2>0, <3>1, <3>2, RecordsReserved
    <3>. QED BY <3>3
  <2>2. CASE RunPublish \/ RunBoundaryPublish \/ RunTerminal
    <3>1. PassCommand /\ {"publish", "boundaryPublish", "terminal"} \subseteq CommandPcs
      BY <2>2 DEF PassCommand, CommandPcs
    <3>2. PICK pc \in {"publish", "boundaryPublish", "terminal"} : Runs(pc)
      BY <2>2 DEF RunPublish, RunBoundaryPublish, RunTerminal
    <3>3. drive.pc = pc /\ operation.at = drive.at
      BY <2>0, <3>1, <3>2, CommandFacts
    <3>4. operation.at \notin Silent
      BY <2>0, <3>3 DEF Standing, AtLeaf
    <3>. QED BY <3>4 DEF Silent
  <2>3. CASE RunPlace
    <3>1. PICK o \in ToolPlacementOutcomes(operation) : Decide(o)
      BY <2>3 DEF RunPlace
    <3>2. o.status = "none"
      BY <3>1 DEF ToolPlacementOutcomes, Continue
    <3>. QED BY <3>1, <3>2 DEF Decide
  <2>4. CASE ~(RunSettleResponse \/ RunPublish \/ RunBoundaryPublish \/ RunTerminal \/ RunPlace)
    <3>1. results' = results
      <4>1. CASE PassStep
        BY <4>1 DEF PassStep, EnterCancelled, AdmitHook, RefuseHook, HookReturns, durable,
           CancellationResolves, Dispatch, Complete, Sleep, WakeByTime, WakeByAbort, CancelRemote,
           SelectCall, AdmitEffect, RefuseEffect, EffectReturns
      <4>2. CASE PassCommand
        BY <2>4, <4>2 DEF PassCommand, RunRead, RunToolRead, RunBoundaryRead, RunRecover,
           RunIntent, RunIntentCancelled, RunNested, RunSettleNested, RunClear, RunStage, durable
      <4>3. CASE ~PassStep /\ ~PassCommand
        BY <1>1, <4>3 DEF Next, Accept, CallDrive, RunClaim, RequestAbort, RunAbort, Crash,
           WriteFrame, RunFrame, durable
      <4>. QED BY <4>1, <4>2, <4>3
    <3>. QED BY <3>1
  <2>. QED BY <2>1, <2>2, <2>3, <2>4
<1>2. IInv /\ [Next]_vars => [Step]_vars
  BY <1>1
<1>. QED BY <1>2, LaneAgrees, PTL DEF Spec, NoAbandonedEffect
=============================================================================
