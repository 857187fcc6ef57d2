------------------------------ MODULE ToolBatch ------------------------------
(***************************************************************************)
(* The tools leaf of a run with several calls (runtime/drive/tools.ts and  *)
(* tool-placement.ts): the start pass over the batch, one concurrent       *)
(* continuation per started call, the staging of outcomes in completion    *)
(* order and their placement in source order.  All of them share the       *)
(* mutation line and the pass's gate; LaneDrive has the rest of the pass.  *)
(***************************************************************************)
EXTENDS Naturals, Sequences

CONSTANTS Batches,     \* the batches considered: calls of the assistant message,
                       \* settings.toolExecution = "parallel", whether the tools
                       \* write progress or memos, and as bounds the requestAbort
                       \* calls and the losses of the process memory
          MaxPasses    \* bound: drive passes over the batch

ASSUME BatchAssumption ==
  /\ \A b \in Batches : /\ b.calls \in Nat \ {0} /\ b.parallel \in BOOLEAN
                         /\ b.writes \in BOOLEAN
                         /\ b.aborts \in Nat /\ b.crashes \in Nat
  /\ MaxPasses \in Nat

VARIABLES
  batch,    \* the batch of this behavior
  \* durable
  call,     \* ToolBatch.calls: status, replay and terminate of each position
  outcome,  \* the staged pendingEntry and later result entry of each call
  placed,   \* the result entries on the branch, in branch order
  rows,     \* calls with a pendingToolOutput checkpoint or an invocation memo
  ctl,      \* the operation's control
  over,     \* the operation left the tools leaf
  \* process memory
  line,     \* queued commands, oldest first
  gate,     \* the pass's effect gate
  main,     \* the continuation of runTools
  job,      \* the continuation of each started call
  mat,      \* runs of materializeReady: 0 is runTools' own, c is job c's
  chain,    \* scheduled materializations of runParallel, in order
  \* history and bounds
  started,  \* executions of each call's tool
  passes, aborts, crashes

durable == <<batch, call, outcome, placed, rows, ctl, over>>
bounds == <<passes, aborts, crashes>>
vars == <<batch, call, outcome, placed, rows, ctl, over, line, gate, main, job, mat, chain,
          started, passes, aborts, crashes>>

NCalls == batch.calls
Parallel == batch.parallel
Calls == 1..NCalls
Outcomes == {"none", "answer", "error", "aborted", "interrupted"}
Cancelled == ctl = "cancel_requested"

\* A command is named for its plan; `c` is the call or the materialization it
\* serves, and 1 for an abort that captured the pass.
Commands == [k: {"claim", "abort", "intent", "clear", "write", "stage", "read", "place"},
             c: 0..NCalls]
Cmd(k, c) == [k |-> k, c |-> c]
Runs(k) == line # <<>> /\ Head(line).k = k
Queued(cmd) == \E i \in DOMAIN line : line[i] = cmd

NoMain == [pc |-> "none", at |-> 0, par |-> FALSE, turns |-> 0, recovery |-> FALSE]
Idle == [pc |-> "idle", res |-> "none"]
NoMat == [pc |-> "idle", lo |-> 1, hi |-> 0]

Init ==
  /\ batch \in Batches
  /\ call = [c \in Calls |-> [status |-> "planned", safe |-> FALSE, term |-> FALSE]]
  /\ outcome = [c \in Calls |-> "none"]
  /\ placed = <<>> /\ rows = {} /\ ctl = "running" /\ over = FALSE
  /\ line = <<>> /\ gate = "open" /\ main = NoMain
  /\ job = [c \in Calls |-> Idle]
  /\ mat = [m \in 0..NCalls |-> NoMat]
  /\ chain = <<>>
  /\ started = [c \in Calls |-> 0]
  /\ passes = 0 /\ aborts = 0 /\ crashes = 0

-----------------------------------------------------------------------------
(***************************************************************************)
(* Callers, cancellation and process loss.                                 *)
(***************************************************************************)
Drive ==
  /\ passes < MaxPasses /\ ~over
  /\ main.pc = "none" /\ ~Queued(Cmd("claim", 0))
  /\ passes' = passes + 1
  /\ line' = Append(line, Cmd("claim", 0))
  /\ UNCHANGED <<durable, gate, main, job, mat, chain, started, aborts, crashes>>

\* runTools of a dispatched leaf; reconciliation has closed the gate first.
StartBatch(rest) ==
  /\ gate' = IF Cancelled THEN "signalled" ELSE gate
  /\ main' = [NoMain EXCEPT !.pc = "placing",
                !.recovery = \E c \in Calls : call[c].status \in {"effect_pending",
                                                                  "outcome_ready"}]
  /\ mat' = [mat EXCEPT ![0].pc = "read"]
  /\ line' = Append(rest, Cmd("read", 0))

RunClaim ==
  /\ Runs("claim")
  /\ StartBatch(Tail(line))
  /\ UNCHANGED <<durable, job, chain, started, bounds>>

RequestAbort ==
  /\ aborts < batch.aborts /\ ~over
  /\ aborts' = aborts + 1
  /\ gate' = IF main.pc # "none" /\ gate = "open" THEN "aborting" ELSE gate
  /\ line' = Append(line, Cmd("abort", IF main.pc = "none" THEN 0 ELSE 1))
  /\ UNCHANGED <<durable, main, job, mat, chain, started, passes, crashes>>

\* settleGate pulls the captured gate also when the marker is already durable.
StateReadBefore(captured) == captured = 1 /\ Cancelled       \* mutant
PullsGate(captured) == captured = 1

RunAbort ==
  /\ Runs("abort")
  /\ ctl' = "cancel_requested"
  /\ gate' = IF PullsGate(Head(line).c) /\ gate = "aborting" THEN "signalled" ELSE gate
  /\ line' = Tail(line)
  /\ UNCHANGED <<batch, call, outcome, placed, rows, over, main, job, mat, chain, started, bounds>>

Crash ==
  /\ crashes < batch.crashes /\ ~over
  /\ crashes' = crashes + 1
  /\ line' = <<>> /\ gate' = "open" /\ main' = NoMain
  /\ job' = [c \in Calls |-> Idle]
  /\ mat' = [m \in 0..NCalls |-> NoMat]
  /\ chain' = <<>>
  /\ UNCHANGED <<durable, started, passes, aborts>>

-----------------------------------------------------------------------------
(***************************************************************************)
(* The start pass.  Staging an outcome queues its command; in parallel     *)
(* mode the pass goes on to the next position, else it awaits the call.    *)
(***************************************************************************)
Unfinished == {c \in Calls : call[c].status # "completed"}
Startable(from) == {c \in Calls : /\ c > from
                                  /\ call[c].status \in {"planned", "effect_pending"}}
First(S) == CHOOSE c \in S : \A d \in S : c <= d

After == IF main.par THEN "next" ELSE "wait"

StageNow(c, res, rest) ==
  /\ job' = [job EXCEPT ![c] = [pc |-> "stage", res |-> res]]
  /\ line' = Append(rest, Cmd("stage", c))
  /\ main' = [main EXCEPT !.pc = After, !.at = c]

\* recoverToolInvocation: both declarations must be replay-safe, and a
\* cancelled batch replays nothing.
ReplayAlways(c) == ~Cancelled                \* mutant
MayReplay(c) == call[c].safe /\ ~Cancelled

\* startToolInvocation or recoverToolInvocation up to its first await.  An
\* unknown tool, invalid or truncated arguments are an immediate error.
Begin(c) ==
  \/ /\ call[c].status = "planned"
     /\ main' = [main EXCEPT !.pc = "gate", !.at = c]
     /\ UNCHANGED <<line, job>>
  \/ call[c].status = "planned" /\ StageNow(c, "error", line)
  \/ /\ call[c].status = "effect_pending" /\ MayReplay(c)
     /\ main' = [main EXCEPT !.pc = "clear", !.at = c]
     /\ line' = Append(line, Cmd("clear", c))
     /\ UNCHANGED job
  \/ call[c].status = "effect_pending" /\ StageNow(c, "interrupted", line)

\* After runTools' own materialization: the mode of the batch, or the next
\* call of runSequential.
Choose ==
  /\ main.pc = "placing" /\ mat[0].pc = "idle"
  /\ ~over
  /\ IF main.turns = 0 /\ Parallel /\ ~Cancelled
       THEN /\ main' = [main EXCEPT !.pc = "next", !.par = TRUE, !.turns = 1]
            /\ UNCHANGED <<line, job>>
     ELSE IF \/ call[First(Unfinished)].status = "outcome_ready"
             \/ main.turns > 2 * NCalls + 1
       THEN main' = [main EXCEPT !.pc = "fault"] /\ UNCHANGED <<line, job>>
     ELSE IF Cancelled
       THEN StageNow(First(Unfinished),
                     IF call[First(Unfinished)].status = "planned" THEN "aborted"
                                                                   ELSE "interrupted", line)
     ELSE Begin(First(Unfinished))
  /\ UNCHANGED <<durable, gate, mat, chain, started, bounds>>

\* runParallel's loop over the batch.
ChooseParallel ==
  /\ main.pc = "next"
  /\ IF Startable(main.at) = {}
       THEN main' = [main EXCEPT !.pc = "wait"] /\ UNCHANGED <<line, job>>
       ELSE Begin(First(Startable(main.at)))
  /\ UNCHANGED <<durable, gate, mat, chain, started, bounds>>

\* before_tool: refused, it waits for the cancellation; admitted, it clears
\* or blocks the call.
BeforeTool ==
  /\ main.pc = "gate"
  /\ main' = [main EXCEPT !.pc = IF gate = "open" THEN "hook" ELSE "parked"]
  /\ UNCHANGED <<durable, line, gate, job, mat, chain, started, bounds>>

BeforeToolReturns ==
  /\ main.pc = "hook"
  /\ \/ /\ main' = [main EXCEPT !.pc = "intent"]
        /\ line' = Append(line, Cmd("intent", main.at))
        /\ UNCHANGED job
     \/ StageNow(main.at, "error", line)
  /\ UNCHANGED <<durable, gate, mat, chain, started, bounds>>

BeforeToolCancelled ==
  /\ main.pc = "parked" /\ gate = "signalled"
  /\ StageNow(main.at, "aborted", line)
  /\ UNCHANGED <<durable, gate, mat, chain, started, bounds>>

StartJob(c) ==
  /\ job' = [job EXCEPT ![c] = [pc |-> "admit", res |-> "none"]]
  /\ main' = [main EXCEPT !.pc = After]
  /\ line' = Tail(line)

\* publishToolIntent
RunIntent ==
  /\ Runs("intent")
  /\ LET c == Head(line).c
     IN  IF Cancelled
           THEN StageNow(c, "aborted", Tail(line)) /\ UNCHANGED call
           ELSE /\ \E safe \in BOOLEAN :
                     call' = [call EXCEPT ![c].status = "effect_pending", ![c].safe = safe]
                /\ StartJob(c)
  /\ UNCHANGED <<batch, outcome, placed, rows, ctl, over, gate, mat, chain, started, bounds>>

\* clearReplayCheckpoint: the checkpoint goes, memos stay for the replay.
RunClear ==
  /\ Runs("clear")
  /\ rows' \in {rows, rows \ {Head(line).c}}
  /\ StartJob(Head(line).c)
  /\ UNCHANGED <<batch, call, outcome, placed, ctl, over, gate, mat, chain, started, bounds>>

-----------------------------------------------------------------------------
(***************************************************************************)
(* The continuation of a started call (performToolInvocation).             *)
(***************************************************************************)
StageJob(c, res) ==
  /\ job' = [job EXCEPT ![c] = [pc |-> "stage", res |-> res]]
  /\ line' = Append(line, Cmd("stage", c))

\* executeToolCall asks the gate before the tool runs.
Admitted == gate = "open"

AdmitTool(c) ==
  /\ job[c].pc = "admit"
  /\ IF Admitted
       THEN /\ job' = [job EXCEPT ![c].pc = "inflight"]
            /\ started' = [started EXCEPT ![c] = @ + 1]
       ELSE /\ job' = [job EXCEPT ![c].pc = "parked"]
            /\ UNCHANGED started
  /\ UNCHANGED <<durable, line, gate, main, mat, chain, bounds>>

\* Refused in a recovered batch, the tool may have run before.
NeverRan == "aborted"                        \* mutant
RefusedResult == IF main.recovery THEN "interrupted" ELSE "aborted"

ToolCancelled(c) ==
  /\ job[c].pc = "parked" /\ gate = "signalled"
  /\ StageJob(c, RefusedResult)
  /\ UNCHANGED <<durable, gate, main, mat, chain, started, bounds>>

\* A progress checkpoint or setMemo of the running tool joins the line.
WriteRow(c) ==
  /\ batch.writes /\ job[c].pc = "inflight"
  /\ c \notin rows /\ ~Queued(Cmd("write", c))
  /\ line' = Append(line, Cmd("write", c))
  /\ UNCHANGED <<durable, gate, main, job, mat, chain, started, bounds>>

\* stillOwns and ownsEffect
RunWrite ==
  /\ Runs("write")
  /\ rows' = rows \cup {c \in {Head(line).c} : ~over /\ call[c].status = "effect_pending"}
  /\ line' = Tail(line)
  /\ UNCHANGED <<batch, call, outcome, placed, ctl, over, gate, main, job, mat, chain, started, bounds>>

\* The tool returns or throws; updates after that are refused.
ToolReturns(c) ==
  /\ job[c].pc = "inflight"
  /\ job' = [job EXCEPT ![c].pc = "afterGate"]
  /\ UNCHANGED <<durable, line, gate, main, mat, chain, started, bounds>>

\* after_tool; refused, the result stands as it is.
AfterTool(c) ==
  /\ job[c].pc = "afterGate"
  /\ IF gate = "open" THEN job' = [job EXCEPT ![c].pc = "afterHook"] /\ UNCHANGED line
                      ELSE StageJob(c, "answer")
  /\ UNCHANGED <<durable, gate, main, mat, chain, started, bounds>>

AfterToolReturns(c) ==
  /\ job[c].pc = "afterHook"
  /\ StageJob(c, "answer")
  /\ UNCHANGED <<durable, gate, main, mat, chain, started, bounds>>

RowsKept(c) == rows                          \* mutant
RowsAfterStaging(c) == rows \ {c}

\* publishToolOutcome, under either control; a job of runParallel then
\* schedules a materialization.
RunStage ==
  /\ Runs("stage")
  /\ LET c == Head(line).c
         res == job[c].res
     IN  /\ outcome' = [outcome EXCEPT ![c] = res]
         /\ \E term \in IF Cancelled \/ res \in {"aborted", "interrupted"} THEN {FALSE}
                                                                           ELSE BOOLEAN :
              call' = [call EXCEPT ![c].status = "outcome_ready", ![c].term = term]
         /\ rows' = RowsAfterStaging(c)
         /\ job' = [job EXCEPT ![c].pc = "done"]
         /\ IF main.par THEN /\ chain' = Append(chain, c)
                             /\ mat' = [mat EXCEPT ![c].pc = "waiting"]
                        ELSE UNCHANGED <<chain, mat>>
  /\ line' = Tail(line)
  /\ UNCHANGED <<batch, placed, ctl, over, gate, main, started, bounds>>

-----------------------------------------------------------------------------
(***************************************************************************)
(* Placement (materializeReady): a read, the events, a commit.             *)
(***************************************************************************)
AtOnce(m) == TRUE                            \* mutant
MayMaterialize(m) == Head(chain) = m

\* scheduleMaterialization chains each run to the one before.
StartMaterialization(m) ==
  /\ mat[m].pc = "waiting" /\ MayMaterialize(m)
  /\ mat' = [mat EXCEPT ![m].pc = "read"]
  /\ line' = Append(line, Cmd("read", m))
  /\ UNCHANGED <<durable, gate, main, job, chain, started, bounds>>

Materialized(m) ==
  /\ mat' = [mat EXCEPT ![m] = NoMat]
  /\ chain' = IF chain # <<>> /\ Head(chain) = m THEN Tail(chain) ELSE chain

\* The last position of the ready prefix that begins at `first`.
FirstOnly(first) == IF call[first].status = "outcome_ready" THEN first ELSE first - 1  \* mutant
ReadyUpTo(first) ==
  CHOOSE n \in (first - 1)..NCalls :
    /\ \A c \in first..n : call[c].status = "outcome_ready"
    /\ n = NCalls \/ call[n + 1].status # "outcome_ready"

RunReadPlacement ==
  /\ Runs("read")
  /\ LET m == Head(line).c
         first == First(Unfinished)
     IN  IF over \/ Unfinished = {}
           THEN Materialized(m)
         ELSE IF ReadyUpTo(first) < first
           THEN Materialized(m)
         ELSE /\ mat' = [mat EXCEPT ![m] = [pc |-> "emit", lo |-> first,
                                                          hi |-> ReadyUpTo(first)]]
              /\ UNCHANGED chain
  /\ line' = Tail(line)
  /\ UNCHANGED <<durable, gate, main, job, started, bounds>>

EmitPlacement(m) ==
  /\ mat[m].pc = "emit"
  /\ mat' = [mat EXCEPT ![m].pc = "place"]
  /\ line' = Append(line, Cmd("place", m))
  /\ UNCHANGED <<durable, gate, main, job, chain, started, bounds>>

\* commitPlacement; the last result moves the run to its checkpoint.
RunPlace ==
  /\ Runs("place")
  /\ LET m == Head(line).c
         items == mat[m].lo .. mat[m].hi
     IN  /\ call' = [c \in Calls |-> IF c \in items THEN [call[c] EXCEPT !.status = "completed"]
                                                    ELSE call[c]]
         /\ placed' = placed \o [i \in 1..(mat[m].hi - mat[m].lo + 1) |-> mat[m].lo + i - 1]
         /\ Materialized(m)
  /\ over' = (\A c \in Calls : call'[c].status = "completed")
  /\ line' = Tail(line)
  /\ UNCHANGED <<batch, outcome, rows, ctl, gate, main, job, started, bounds>>

-----------------------------------------------------------------------------
(***************************************************************************)
(* The end of a turn and of the procedure.                                 *)
(***************************************************************************)
Settled(c) == job[c].pc \in {"idle", "done"}

\* runSequential awaits the call and materializes again.
WaitSequential ==
  /\ main.pc = "wait" /\ ~main.par /\ Settled(main.at)
  /\ main' = [main EXCEPT !.pc = "placing", !.turns = @ + 1]
  /\ mat' = [mat EXCEPT ![0].pc = "read"]
  /\ line' = Append(line, Cmd("read", 0))
  /\ UNCHANGED <<durable, gate, job, chain, started, bounds>>

\* runParallel awaits all jobs, each with its materialization, and
\* materializes once more.
WaitParallel ==
  /\ main.pc = "wait" /\ main.par
  /\ \A c \in Calls : Settled(c)
  /\ chain = <<>>
  /\ main' = [main EXCEPT !.pc = "final"]
  /\ chain' = <<0>>
  /\ mat' = [mat EXCEPT ![0].pc = "waiting"]
  /\ UNCHANGED <<durable, line, gate, job, started, bounds>>

Finish ==
  /\ \/ main.pc = "placing" /\ mat[0].pc = "idle" /\ over
     \/ main.pc = "final" /\ mat[0].pc = "idle"
  /\ main' = [main EXCEPT !.pc = "return"]
  /\ UNCHANGED <<durable, line, gate, job, mat, chain, started, bounds>>

\* The driver loop goes on from the checkpoint, or dispatches the leaf again.
Return ==
  /\ main.pc = "return"
  /\ IF over THEN main' = NoMain /\ UNCHANGED <<gate, mat, line>> ELSE StartBatch(line)
  /\ job' = [c \in Calls |-> Idle]
  /\ UNCHANGED <<durable, chain, started, bounds>>

-----------------------------------------------------------------------------
PassStep ==
  \/ Choose \/ ChooseParallel \/ BeforeTool \/ BeforeToolReturns \/ BeforeToolCancelled
  \/ WaitSequential \/ WaitParallel \/ Finish \/ Return
  \/ \E c \in Calls : \/ AdmitTool(c) \/ ToolCancelled(c) \/ ToolReturns(c)
                      \/ AfterTool(c) \/ AfterToolReturns(c)
  \/ \E m \in 0..NCalls : StartMaterialization(m) \/ EmitPlacement(m)

LineStep ==
  \/ RunClaim \/ RunAbort \/ RunIntent \/ RunClear \/ RunWrite \/ RunStage
  \/ RunReadPlacement \/ RunPlace

Next ==
  \/ Drive \/ RequestAbort \/ Crash
  \/ \E c \in Calls : WriteRow(c)
  \/ PassStep
  \/ LineStep

Spec == Init /\ [][Next]_vars

\* Tools, hooks and the line do not stop by themselves.
FairSpec == Spec /\ WF_vars(PassStep) /\ WF_vars(LineStep)
-----------------------------------------------------------------------------
(***************************************************************************)
(* Properties.                                                             *)
(***************************************************************************)
TypeOK ==
  /\ batch \in Batches
  /\ call \in [Calls -> [status: {"planned", "effect_pending", "outcome_ready", "completed"},
                         safe: BOOLEAN, term: BOOLEAN]]
  /\ outcome \in [Calls -> Outcomes]
  /\ placed \in Seq(Calls) /\ rows \in SUBSET Calls
  /\ ctl \in {"running", "cancel_requested"} /\ over \in BOOLEAN
  /\ line \in Seq(Commands) /\ gate \in {"open", "aborting", "signalled"}
  /\ main \in [pc: {"none", "placing", "next", "gate", "hook", "parked", "intent", "clear",
                    "wait", "final", "return", "fault"},
               at: 0..NCalls, par: BOOLEAN, turns: Nat, recovery: BOOLEAN]
  /\ job \in [Calls -> [pc: {"idle", "admit", "parked", "inflight", "afterGate", "afterHook",
                             "stage", "done"}, res: Outcomes]]
  /\ mat \in [0..NCalls -> [pc: {"idle", "waiting", "read", "emit", "place"},
                            lo: 1..NCalls, hi: 0..NCalls]]
  /\ chain \in Seq(0..NCalls)
  /\ started \in [Calls -> Nat]
  /\ passes \in 0..MaxPasses /\ aborts \in 0..batch.aborts /\ crashes \in 0..batch.crashes

\* Outcomes settle in completion order and enter the transcript in source
\* order, each once, over parallel jobs, cancellation and crashes.
Ordered == INSTANCE OrderedResults WITH
  n <- NCalls, outcome <- outcome, placed <- placed, over <- over
OrderedSpec == Ordered!Spec

\* A tool runs only for a call whose intent is durable and whose outcome is
\* open, and never once cancellation is durable: reconciliation replays
\* nothing.  A crash before staging replays only calls whose committed intent
\* says that they are replay-safe, a crash after it none.
ToolBehindIntent ==
  [][\A c \in Calls : started'[c] # started[c] =>
        /\ call[c].status = "effect_pending" /\ outcome[c] = "none" /\ ~Cancelled
        /\ started[c] = 0 \/ call[c].safe]_vars

\* An "aborted" result tells the model that the tool never ran.
AbortedNeverRan ==
  \A c \in Calls : outcome[c] = "aborted" => started[c] = 0

\* Sequential execution has at most one call between the completed prefix and
\* the planned rest, also after recovery.
SequentialSuffix ==
  ~Parallel => \A c, d \in Calls :
    c < d /\ call[c].status # "completed" => call[d].status = "planned"

\* Checkpoints and memos belong to a call whose effect is pending: a late
\* write never recreates them after staging deleted them.
RowsOwned == \A c \in rows : call[c].status = "effect_pending"

\* One runTools call takes the batch to its end: nothing staged is left behind
\* for a later dispatch, and no batch invariant error is thrown.
BatchTakenToItsEnd == /\ TypeOK
                      /\ main.pc = "return" => over
                      /\ main.pc # "fault"
                      /\ SequentialSuffix

\* A pass over a batch never hangs: it leaves the tools leaf or is lost.
BatchEnds == main.pc # "none" ~> main.pc = "none"
=============================================================================
