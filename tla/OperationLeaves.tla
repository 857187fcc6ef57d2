--------------------------- MODULE OperationLeaves ---------------------------
(***************************************************************************)
(* The durable operation state of one lane and what each drive procedure   *)
(* may turn it into.  `OperationState` in session/types.ts is a flat union *)
(* of 13 leaves; the fields kept here are the ones a procedure branches    *)
(* on.  Transcript content, configuration and timestamps are abstracted:   *)
(* a choice the code makes from them is a choice between members of a set. *)
(***************************************************************************)
EXTENDS Naturals

CONSTANTS Ops,          \* operation ids a caller may accept
          MaxAttempts,  \* NormalizedRetryPolicy.maxAttempts
          MaxEffects,   \* bound: effect identities reserved in one behaviour
          None

ASSUME LeavesAssumption == /\ MaxAttempts \in Nat \ {0}
                           /\ MaxEffects \in Nat \ {0}
                           /\ None \notin Ops

Effects == 1..MaxEffects
NoEffect == 0

Kinds == {"run", "compaction", "navigation"}
RunLeaves == {"starting", "checkpoint", "assistant.ready",
              "assistant.effect_pending", "assistant.retry_wait", "tools",
              "deferred.suspended", "deferred.effect_pending"}
SummaryLeaves == {"summary.deciding", "summary.ready",
                  "summary.effect_pending", "summary.retry_wait"}
Leaves == RunLeaves \cup SummaryLeaves \cup {"navigation.ready_to_commit"}

Statuses == {"completed", "declined", "aborted", "failed"}

\* `boundary`: what a finished summary does.  "threshold" and "overflow" are
\* the two reasons of a resume_checkpoint boundary.
Boundaries == {"threshold", "overflow", "finish", "commit_navigation"}

\* A tool batch is one call here; ToolCall.status without "completed", which
\* a batch of one leaves together with the tools leaf.
CallStatuses == {"planned", "effect_pending", "outcome_ready"}

OperationStates ==
  [id: Ops, kind: Kinds, at: Leaves,
   ctl: {"running", "cancel_requested"},
   attempt: 1..MaxAttempts,
   cont: {"need_assistant", "may_finish"},
   overflow: BOOLEAN,                      \* overflowRecoveryUsed
   guarded: BOOLEAN,                       \* a compaction follows the trigger
   boundary: Boundaries,
   call: CallStatuses, safe: BOOLEAN,      \* ToolCall.status, .replay = "safe"
   eff: Effects \cup {NoEffect}]           \* reserved response, result or usage id

NoOperation == [id |-> None]

-----------------------------------------------------------------------------
\* The leaf `accept` commits first, per request kind.
InitialLeaves(kind) ==
  CASE kind = "run"        -> {"starting"}
    [] kind = "compaction" -> {"summary.deciding"}
    [] kind = "navigation" -> {"summary.deciding", "navigation.ready_to_commit"}

InitialOperation(id, kind, leaf) ==
  [id |-> id, kind |-> kind, at |-> leaf, ctl |-> "running", attempt |-> 1,
   cont |-> "need_assistant", overflow |-> FALSE, guarded |-> FALSE,
   boundary |-> IF kind = "compaction" THEN "finish" ELSE "commit_navigation",
   call |-> "planned", safe |-> FALSE, eff |-> NoEffect]

\* Effects whose invocation has begun or may have begun: the leaves that
\* carry a live reserved id.
OwesEffect(s) ==
  \/ s.at \in {"assistant.effect_pending", "deferred.effect_pending"}
  \/ s.at = "summary.effect_pending" /\ s.eff # NoEffect
  \/ s.at = "tools" /\ s.call = "effect_pending"

-----------------------------------------------------------------------------
Checkpoint(s, cont) ==
  [s EXCEPT !.at = "checkpoint", !.cont = cont, !.overflow = FALSE,
            !.guarded = FALSE, !.attempt = 1, !.eff = NoEffect,
            !.call = "planned", !.safe = FALSE]

\* assistantReadyAtBoundary: a fresh generation context at attempt 1.
AssistantReady(s, overflow) ==
  [s EXCEPT !.at = "assistant.ready", !.attempt = 1, !.overflow = overflow,
            !.cont = "need_assistant", !.guarded = FALSE, !.eff = NoEffect]

Deciding(s, boundary, cont, overflow) ==
  [s EXCEPT !.at = "summary.deciding", !.boundary = boundary, !.attempt = 1,
            !.cont = cont, !.overflow = overflow, !.eff = NoEffect]

OneAttemptTooMany(s) == s.attempt <= MaxAttempts   \* mutant
MayRetry(s) == s.attempt < MaxAttempts

RetryWait(s, leaf) == [s EXCEPT !.at = leaf, !.attempt = @ + 1, !.eff = NoEffect]

-----------------------------------------------------------------------------
(***************************************************************************)
(* What one publishing command decides: the next operation state, the      *)
(* terminal status, or the finish mediation of `BoundaryFinishPending`,    *)
(* which commits nothing.                                                  *)
(***************************************************************************)
Continue(s)   == [state |-> s, status |-> "none"]
Finish(status) == [state |-> NoOperation, status |-> status]
FinishPending == [state |-> NoOperation, status |-> "finish_pending"]

StartRunOutcomes(s) == {Continue(Checkpoint(s, "need_assistant"))}

\* planBoundaryInbox places a trigger or not; that choice is the inbox's.
RunCheckpointOutcomes(s, plan) ==
  {Continue(AssistantReady(s, FALSE)),
   IF plan = "threshold" THEN Continue(Deciding(s, "threshold", s.cont, s.overflow))
   ELSE IF s.cont = "need_assistant" THEN Continue(AssistantReady(s, s.overflow))
   ELSE FinishPending}

FinishRunBoundaryOutcomes(s) ==
  {Continue(AssistantReady(s, FALSE)), Finish("completed")}

RetryWaitOutcomes(s, leaf) == {Continue([s EXCEPT !.at = leaf])}

\* publishResponse after its cancellation branch.  `next` is the id the
\* generator reserves for a tool result.
ResponseOutcomes(s, result, next) ==
  LET assistant == s.at = "assistant.effect_pending"
      Suspended == [s EXCEPT !.at = "deferred.suspended", !.eff = NoEffect]
      Tools == [s EXCEPT !.at = "tools", !.call = "planned", !.eff = next]
      mayRetry == assistant /\ MayRetry(s)
  IN  CASE result = "stop"      -> {Continue(Checkpoint(s, "may_finish"))}
        [] result = "calls"     -> {Continue(Tools)}
        [] result = "deferred"  -> {Continue(Suspended)} \cup
                                   (IF assistant THEN {Finish("failed")} ELSE {})
        [] result = "overflow"  ->
             {Finish("failed")} \cup
             (IF assistant /\ ~s.overflow
                THEN {Continue(Deciding(s, "overflow", "need_assistant", TRUE))}
                ELSE {})
        [] result \in {"retryable", "interrupted"} ->
             {IF mayRetry THEN Continue(RetryWait(s, "assistant.retry_wait"))
                          ELSE Finish("failed")}
        [] OTHER -> {Finish("failed")}

StructuralOutcomes(s, outcome) ==
  LET resumes == s.boundary \in {"threshold", "overflow"}
      goesOn  == \/ outcome = "result"
                 \/ outcome = "declined" /\ s.boundary = "threshold"
  IN  CASE resumes /\ goesOn ->
             {Continue(AssistantReady(s, FALSE)),
              IF s.cont = "need_assistant" THEN Continue(AssistantReady(s, s.overflow))
              ELSE IF outcome = "declined" THEN FinishPending
              ELSE Continue([Checkpoint(s, "may_finish") EXCEPT !.guarded = TRUE])}
        [] resumes /\ ~goesOn -> {Finish("failed")}
        [] ~resumes -> {Finish(CASE outcome = "result" -> "completed"
                                 [] outcome = "declined" -> "declined"
                                 [] OTHER -> "failed")}

\* runStructuralDecision: the hook declines, supplies the result, or leaves
\* the summary to a provider.
DecisionOutcomes(s, decision) ==
  IF decision = "ready" THEN {Continue([s EXCEPT !.at = "summary.ready"])}
                        ELSE StructuralOutcomes(s, decision)

\* publishAttemptResult and recoverStructuralGeneration
AttemptOutcomes(s, result) ==
  IF result \in {"retryable", "interrupted"} /\ MayRetry(s)
    THEN {Continue(RetryWait(s, "summary.retry_wait"))}
    ELSE StructuralOutcomes(s, IF result = "result" THEN "result" ELSE "failed")

ToolPlacementOutcomes(s) ==
  {Continue(Checkpoint(s, c)) : c \in {"need_assistant", "may_finish"}}
=============================================================================
