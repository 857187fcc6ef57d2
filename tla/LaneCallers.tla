----------------------------- MODULE LaneCallers -----------------------------
(***************************************************************************)
(* The callers of one lane: the conveniences prompt, compact/navigateTree, *)
(* resume and abort, the primitives accept and drive, waitForIdle,         *)
(* runWhenIdle and the harness's close (runtime/lane.ts,                   *)
(* runtime/harness.ts).  Each is a sequence of commands on the mutation    *)
(* line with waits in between: for the completion of a pass, for a change  *)
(* of the lane, for the release of the idle callback.                      *)
(*                                                                         *)
(* What an operation does inside is LaneDrive; here it works, waits for a  *)
(* retry, is suspended at a deferred response, or settles.  A commit of    *)
(* the pass joins the line too: it may fall between any two commands of    *)
(* the callers.                                                            *)
(***************************************************************************)
EXTENDS Naturals, Sequences

CONSTANTS Callers,      \* concurrent calls of the lane
          Calls,        \* the calls they may make
          Restored,     \* the operation a restarted process finds open
          None,
          MaxWaits      \* bound: retry waits and suspensions of one operation

AllCalls == {"prompt", "structural", "resume", "abort", "waitForIdle",
             "runWhenIdle", "direct", "close"}

ASSUME CallersAssumption ==
  Calls \subseteq AllCalls /\ MaxWaits \in Nat /\ Restored \notin Callers /\ None \notin Callers

VARIABLES
  operation,  \* lane.state.operation, or NoOp
  results,    \* operation ids with a terminal record -> its status
  drive,      \* lane.activeDrive, or NoPass
  idleOwner,  \* the caller whose idle callback owns the lane, or None
  line,       \* callers whose command waits on the mutation line
  caller,     \* where each call stands
  harness     \* "open", or closed by "close" or "fault"

vars == <<operation, results, drive, idleOwner, line, caller, harness>>

\* The operations a call accepts: its own and the continuation run.
Ids == {<<Restored, 1>>} \cup (Callers \X {1, 2})
NoId == <<None, 0>>

Ops == [id: Ids, kind: {"run", "structural"}, ctl: {"running", "cancel_requested"},
        leaf: {"work", "retry", "deferred"}, waits: 0..MaxWaits]
NoOp == [id |-> NoId, kind |-> "run", ctl |-> "running", leaf |-> "work", waits |-> 0]
Statuses == {"completed", "aborted"}

Passes == [op: Ids, wait: BOOLEAN, permits: {0, 1}]
NoPass == [op |-> NoId, wait |-> FALSE, permits |-> 0]

Commands == {"none", "accept", "claim", "inspect", "cancel", "idle", "own"}
Answers == {"none", "settled", "retry", "deferred", "mismatch", "error"}

\* submit: about to queue a command.  blocked: behind an idle callback.
\* observe/occupied/awaitPass: waits for the pass's completion.  change: waits
\* for lane.stateChange; `woken` says that the captured promise is resolved.
Points == {"new", "submit", "queued", "blocked", "observe", "occupied", "awaitPass",
           "change", "answered", "claimed", "callback", "closing", "returned"}

CallRecords == [call: AllCalls \cup {"none"}, command: Commands, pc: Points,
                op: Ids \cup {NoId}, woken: BOOLEAN, got: Answers]

NewCall == [call |-> "none", command |-> "none", pc |-> "new", op |-> NoId,
            woken |-> FALSE, got |-> "none"]

Open == harness = "open"
Active == operation # NoOp
Driven == drive # NoPass
InCall(c) == caller[c].pc \notin {"new", "returned"}

\* A restarted process finds the lane idle or with an open operation.
Init ==
  /\ operation \in {NoOp} \cup [id: {<<Restored, 1>>}, kind: {"run", "structural"},
       ctl: {"running", "cancel_requested"}, leaf: {"work", "retry", "deferred"}, waits: {0}]
  /\ operation.leaf = "deferred" => operation.kind = "run"
  /\ results = [i \in Ids |-> "none"]
  /\ drive = NoPass /\ idleOwner = None /\ line = <<>>
  /\ caller = [c \in Callers |-> NewCall]
  /\ harness = "open"

-----------------------------------------------------------------------------
(***************************************************************************)
(* Waking up.  signalStateChange resolves the promise every waiter         *)
(* captured; a pass that ends answers its observers and lets the others    *)
(* look again.                                                             *)
(***************************************************************************)
Awake(r) == IF r.pc \in {"change", "blocked"} THEN [r EXCEPT !.woken = TRUE] ELSE r
Woken(cs) == [c \in Callers |-> Awake(cs[c])]

\* A rejected completion is thrown to everyone who waits for it.
Told(r, answer) ==
  CASE r.pc = "observe" -> [r EXCEPT !.pc = "answered", !.got = answer]
    [] r.pc \in {"occupied", "awaitPass"} /\ answer = "error" ->
         [r EXCEPT !.pc = "answered", !.got = "error"]
    [] r.pc \in {"occupied", "awaitPass"} /\ answer # "error" -> [r EXCEPT !.pc = "submit"]
    [] OTHER -> r
Completed(cs, answer) == [c \in Callers |-> Told(cs[c], answer)]

\* The caller has its reply and is about to send the next command.
Then(c, command) == [caller[c] EXCEPT !.pc = "submit", !.command = command, !.woken = FALSE]
At(c, pc) == [caller[c] EXCEPT !.pc = pc, !.woken = FALSE]
Return(c) == At(c, "returned")
\* The caller goes on; nobody else notices.
Alone(c, rec) == caller' = [caller EXCEPT ![c] = rec]
\* The caller goes on and the lane has changed.
Signalling(c, rec) == caller' = Woken([caller EXCEPT ![c] = rec])

\* fault() and close() seal the lane: observers get the error of the closed
\* gate, everyone else wakes up.
SealedInLine(cs) ==                  \* mutant: answers the queued callers too
  [c \in Callers |-> IF cs[c].pc = "queued" THEN [cs[c] EXCEPT !.pc = "answered"]
                     ELSE Woken(Completed(cs, "error"))[c]]
SealedLane(cs) == Woken(Completed(cs, "error"))

-----------------------------------------------------------------------------
(***************************************************************************)
(* Making a call.                                                          *)
(***************************************************************************)
FirstCommand(call) ==
  CASE call \in {"prompt", "structural", "direct"} -> "accept"
    [] call \in {"resume", "abort"} -> "inspect"
    [] call = "waitForIdle" -> "idle"
    [] call = "runWhenIdle" -> "own"

Call(c) ==
  /\ caller[c].pc = "new" /\ Open
  /\ \E call \in Calls \ {"close"} :
       Alone(c, [NewCall EXCEPT !.pc = "submit", !.call = call, !.command = FirstCommand(call)])
  /\ UNCHANGED <<operation, results, drive, idleOwner, line, harness>>

\* command() before it joins the line.
Submit(c) ==
  /\ caller[c].pc = "submit"
  /\ \/ /\ ~Open
        /\ Alone(c, Return(c)) /\ UNCHANGED line
     \/ /\ Open /\ idleOwner # None
        /\ Alone(c, At(c, "blocked")) /\ UNCHANGED line
     \/ /\ Open /\ idleOwner = None
        /\ Alone(c, At(c, "queued")) /\ line' = Append(line, c)
  /\ UNCHANGED <<operation, results, drive, idleOwner, harness>>

WakeUp(c) ==
  /\ caller[c].pc \in {"change", "blocked"} /\ caller[c].woken
  /\ Alone(c, At(c, "submit"))
  /\ UNCHANGED <<operation, results, drive, idleOwner, line, harness>>

\* A caller's own context ends its wait.
Abandon(c) ==
  /\ caller[c].pc \in {"blocked", "observe", "occupied", "awaitPass", "change"}
  /\ Alone(c, Return(c))
  /\ UNCHANGED <<operation, results, drive, idleOwner, line, harness>>

-----------------------------------------------------------------------------
(***************************************************************************)
(* The commands, each alone on the line.                                   *)
(***************************************************************************)
Running(c, command) ==
  /\ line # <<>> /\ Head(line) = c /\ line' = Tail(line)
  /\ caller[c].pc = "queued" /\ caller[c].command = command

\* An idle callback claimed since the command joined the line.
MayRun == idleOwner = None
RunRefused(c) ==
  /\ \E command \in Commands : Running(c, command)
  /\ \/ ~Open /\ Alone(c, Return(c))
     \/ Open /\ ~MayRun /\ Alone(c, At(c, "blocked"))
  /\ UNCHANGED <<operation, results, drive, idleOwner, harness>>

Runs(c, command) == Running(c, command) /\ Open /\ MayRun

\* The id of the operation this call accepts next.
NextId(c) == <<c, IF caller[c].op = NoId THEN 1 ELSE 2>>
Accepted(c) ==
  [NoOp EXCEPT !.id = NextId(c),
               !.kind = IF caller[c].call = "structural" /\ NextId(c)[2] = 1
                        THEN "structural" ELSE "run"]

\* LaneBusy, or nothing to do: an empty message, nothing to compact.
RunAccept(c) ==
  /\ Runs(c, "accept")
  /\ \/ Alone(c, Return(c)) /\ UNCHANGED operation
     \/ /\ ~Active
        /\ operation' = Accepted(c)
        /\ Signalling(c, [Then(c, "claim") EXCEPT !.op = NextId(c)])
  /\ UNCHANGED <<results, drive, idleOwner, harness>>

\* What each call asks of a pass it installs.
Waits(call) == call \in {"prompt", "structural", "resume"}
Permits(call) == IF call = "resume" THEN 1 ELSE 0

AnyPass(c) == TRUE                   \* mutant: whichever pass is active
MayJoin(c) == drive.op = caller[c].op

RunClaim(c) ==
  /\ Runs(c, "claim")
  /\ \/ /\ operation.id = caller[c].op /\ ~Driven
        /\ drive' = [op |-> operation.id, wait |-> Waits(caller[c].call),
                     permits |-> Permits(caller[c].call)]
        /\ Signalling(c, At(c, "observe"))
     \/ /\ operation.id = caller[c].op /\ Driven
        /\ Alone(c, At(c, IF MayJoin(c) THEN "observe" ELSE "occupied"))
        /\ UNCHANGED drive
     \/ /\ operation.id # caller[c].op
        /\ Alone(c, [At(c, "answered") EXCEPT
                      !.got = IF results[caller[c].op] = "none" THEN "mismatch" ELSE "settled"])
        /\ UNCHANGED drive
  /\ UNCHANGED <<operation, results, idleOwner, harness>>

RunInspect(c) ==
  /\ Runs(c, "inspect")
  /\ IF ~Active THEN Alone(c, Return(c))
     ELSE Alone(c, [Then(c, IF caller[c].call = "abort" THEN "cancel" ELSE "claim")
                    EXCEPT !.op = operation.id])
  /\ UNCHANGED <<operation, results, drive, idleOwner, harness>>

RunCancel(c) ==
  /\ Runs(c, "cancel")
  /\ \/ /\ operation.id # caller[c].op
        /\ Alone(c, Return(c)) /\ UNCHANGED operation
     \/ /\ operation.id = caller[c].op /\ operation.ctl = "cancel_requested"
        /\ Alone(c, Then(c, "claim")) /\ UNCHANGED operation
     \/ /\ operation.id = caller[c].op /\ operation.ctl = "running"
        /\ operation' = [operation EXCEPT !.ctl = "cancel_requested"]
        /\ Signalling(c, Then(c, "claim"))
  /\ UNCHANGED <<results, drive, idleOwner, harness>>

\* waitForIdle and runWhenIdle wait for the pass, or for a change without one.
PassForgotten == ~Active             \* mutant: a pass that still delivers events
IsIdle == ~Active /\ ~Driven
WaitForLane(c) == Alone(c, At(c, IF Driven THEN "awaitPass" ELSE "change"))

RunIdle(c) ==
  /\ Runs(c, "idle")
  /\ IF IsIdle THEN Alone(c, Return(c)) ELSE WaitForLane(c)
  /\ UNCHANGED <<operation, results, drive, idleOwner, harness>>

RunOwn(c) ==
  /\ Runs(c, "own")
  /\ IF IsIdle THEN idleOwner' = c /\ Signalling(c, At(c, "claimed"))
     ELSE WaitForLane(c) /\ UNCHANGED idleOwner
  /\ UNCHANGED <<operation, results, drive, harness>>

-----------------------------------------------------------------------------
(***************************************************************************)
(* The idle callback: between its claim and its start the harness may      *)
(* close.                                                                  *)
(***************************************************************************)
ReleasedSilently(cs) == cs           \* mutant: no signal, owner promise unresolved
Released(cs) == Woken(cs)

ReleaseIdle(c) ==
  /\ idleOwner' = None
  /\ caller' = Released([caller EXCEPT ![c] = Return(c)])
  /\ UNCHANGED <<operation, results, drive, line, harness>>

StartCallback(c) ==
  /\ caller[c].pc = "claimed" /\ Open
  /\ Alone(c, At(c, "callback"))
  /\ UNCHANGED <<operation, results, drive, idleOwner, line, harness>>
RefuseCallback(c) == caller[c].pc = "claimed" /\ ~Open /\ ReleaseIdle(c)
EndCallback(c) == caller[c].pc = "callback" /\ ReleaseIdle(c)

-----------------------------------------------------------------------------
(***************************************************************************)
(* The pass.  Its terminal commit and its end are two steps: the events of *)
(* the commit are delivered in between.  It decides to wait and ends       *)
(* without an await of anything but promises already resolved.             *)
(***************************************************************************)
Lives == Driven /\ Open /\ operation.id = drive.op

PassMoves(leaf, waits) ==
  /\ operation' = [operation EXCEPT !.leaf = leaf, !.waits = @ + waits]
  /\ caller' = Woken(caller)
  /\ UNCHANGED <<results, idleOwner, line, harness>>

PassWaitsForRetry ==
  /\ Lives /\ operation.ctl = "running" /\ operation.leaf = "work"
  /\ operation.waits < MaxWaits
  /\ PassMoves("retry", 1) /\ UNCHANGED drive
RetryTimer ==
  /\ Lives /\ operation.ctl = "running" /\ operation.leaf = "retry" /\ drive.wait
  /\ PassMoves("work", 0) /\ UNCHANGED drive
PassSuspends ==
  /\ Lives /\ operation.ctl = "running" /\ operation.leaf = "work"
  /\ operation.kind = "run" /\ operation.waits < MaxWaits
  /\ PassMoves("deferred", 1) /\ UNCHANGED drive
PassPolls ==
  /\ Lives /\ operation.ctl = "running" /\ operation.leaf = "deferred" /\ drive.permits = 1
  /\ PassMoves("work", 0) /\ drive' = [drive EXCEPT !.permits = 0]

PassSettles ==
  /\ Lives
  /\ operation.ctl = "running" => operation.leaf = "work"
  /\ results' = [results EXCEPT ![operation.id] =
                   IF operation.ctl = "running" THEN "completed" ELSE "aborted"]
  /\ operation' = NoOp
  /\ caller' = Woken(caller)
  /\ UNCHANGED <<drive, idleOwner, line, harness>>

EndPass(answer) ==
  /\ drive' = NoPass
  /\ caller' = Completed(Woken(caller), answer)
  /\ UNCHANGED <<operation, results, idleOwner, line, harness>>

PassEnds == Driven /\ Open /\ operation.id # drive.op /\ EndPass("settled")

\* mutant: the driver looks at the leaf before it looks at the control
WaitsWhateverTheControl(ctl) == TRUE
MayWait(ctl) == ctl = "running"
PassReturnsWaiting ==
  /\ Lives /\ MayWait(operation.ctl)
  /\ \/ operation.leaf = "retry" /\ ~drive.wait /\ EndPass("retry")
     \/ operation.leaf = "deferred" /\ drive.permits = 0 /\ EndPass("deferred")

\* A closed harness: the pass fails at its next command or at its gate.
PassFails == Driven /\ ~Open /\ EndPass("error")

-----------------------------------------------------------------------------
(***************************************************************************)
(* The answer of the pass, as each call reads it.                          *)
(***************************************************************************)
Structural(c) == caller[c].call = "structural" /\ caller[c].op[2] = 1

\* A settled structural operation that was not aborted tries a continuation.
Continue(c) ==
  /\ caller[c].pc = "answered" /\ caller[c].got = "settled"
  /\ Structural(c) /\ results[caller[c].op] = "completed" /\ Open
  /\ Alone(c, [Then(c, "accept") EXCEPT !.got = "none"])
  /\ UNCHANGED <<operation, results, drive, idleOwner, line, harness>>

\* The answers a convenience calls a SessionInvariantError.
Unexpected(c) ==
  /\ caller[c].call \notin {"abort", "direct"}
  /\ \/ caller[c].got \in {"retry", "mismatch"}
     \/ caller[c].got = "deferred" /\ Structural(c)

Conclude(c) ==
  /\ caller[c].pc = "answered" /\ ~Unexpected(c)
  /\ caller[c].got = "settled" /\ Structural(c) =>
       ~Open \/ results[caller[c].op] = "aborted"
  /\ Alone(c, Return(c))
  /\ UNCHANGED <<operation, results, drive, idleOwner, line, harness>>

FaultCall(c) ==
  /\ caller[c].pc = "answered" /\ Unexpected(c)
  /\ harness' = IF Open THEN "fault" ELSE harness
  /\ caller' = SealedLane([caller EXCEPT ![c] = Return(c)])
  /\ UNCHANGED <<operation, results, drive, idleOwner, line>>

-----------------------------------------------------------------------------
(***************************************************************************)
(* AgentHarness.close: refuses every command from now on and waits for the *)
(* idle callback that owns the lane.                                       *)
(***************************************************************************)
CallClose(c) ==
  /\ caller[c].pc = "new" /\ "close" \in Calls /\ harness # "closed"
  /\ harness' = "closed"
  /\ caller' = SealedLane([caller EXCEPT ![c] = [NewCall EXCEPT !.call = "close", !.pc = "closing"]])
  /\ UNCHANGED <<operation, results, drive, idleOwner, line>>

NotAwaited == TRUE                   \* mutant: seal() resolves at once
OwnerGone == idleOwner = None
CloseReturns(c) ==
  /\ caller[c].pc = "closing" /\ OwnerGone
  /\ Alone(c, Return(c))
  /\ UNCHANGED <<operation, results, drive, idleOwner, line, harness>>

-----------------------------------------------------------------------------
CallStep(c) ==
  \/ Submit(c) \/ WakeUp(c) \/ RunRefused(c) \/ RunAccept(c) \/ RunClaim(c)
  \/ RunInspect(c) \/ RunCancel(c) \/ RunIdle(c) \/ RunOwn(c)
  \/ StartCallback(c) \/ RefuseCallback(c) \/ EndCallback(c)
  \/ Continue(c) \/ Conclude(c) \/ FaultCall(c) \/ CloseReturns(c)

PassStep ==
  \/ PassWaitsForRetry \/ RetryTimer \/ PassSuspends \/ PassPolls \/ PassSettles
  \/ PassEnds \/ PassReturnsWaiting \/ PassFails

Next ==
  \/ \E c \in Callers : Call(c) \/ CallClose(c) \/ Abandon(c) \/ CallStep(c)
  \/ PassStep

Spec == Init /\ [][Next]_vars

\* The event loop runs every continuation, the line every queued command; a
\* pass goes on and an idle callback returns (external: it is the caller's).
FairSpec == Spec /\ WF_vars(PassStep) /\ \A c \in Callers : WF_vars(CallStep(c))

-----------------------------------------------------------------------------
(***************************************************************************)
(* Properties.                                                             *)
(***************************************************************************)
\* Every variable has its type and the line holds exactly the queued callers.
TypeOK ==
  /\ operation \in Ops \cup {NoOp}
  /\ results \in [Ids -> Statuses \cup {"none"}]
  /\ drive \in Passes \cup {NoPass}
  /\ idleOwner \in Callers \cup {None}
  /\ line \in Seq(Callers)
  /\ caller \in [Callers -> CallRecords]
  /\ harness \in {"open", "closed", "fault"}
  /\ \A c \in Callers : caller[c].pc = "queued" <=> \E i \in DOMAIN line : line[i] = c

\* runWhenIdle: while its callback owns the lane there is no operation and no
\* pass, not even one that still delivers the events of its last commit, and
\* no second callback.
IdleExclusive ==
  idleOwner # None =>
    /\ ~Active /\ ~Driven
    /\ \A c \in Callers : caller[c].pc \in {"claimed", "callback"} <=> c = idleOwner

\* No waiter sleeps on a promise nobody will resolve: a lane change is awaited
\* only while an operation is open without a pass, a completion only while
\* that pass is installed, an idle callback only while it owns the lane.
NoLostWakeup ==
  \A c \in Callers :
    /\ caller[c].pc = "change" /\ ~caller[c].woken => Active /\ ~Driven
    /\ caller[c].pc = "blocked" /\ ~caller[c].woken => idleOwner # None
    /\ caller[c].pc \in {"observe", "occupied", "awaitPass"} => Driven

\* A call is told that an operation settled only when its own operation has a
\* terminal record: joining the pass of another operation would answer a
\* prompt with somebody else's run.
AnswersItsOwn ==
  \A c \in Callers : caller[c].got = "settled" => results[caller[c].op] # "none"

\* abort() reports success only after the operation it cancelled has settled
\* as aborted, whichever pass it joined on the way.
AbortMeansSettled ==
  \A c \in Callers :
    caller[c].call = "abort" /\ caller[c].pc = "returned"
    /\ caller[c].got \in {"settled", "retry", "deferred"} => results[caller[c].op] = "aborted"

\* close() resolves only after the idle callback that was running has returned
\* and none starts afterwards (docs/harness.md, runWhenIdle).
CloseWaitsForCallback ==
  (\E c \in Callers : caller[c].call = "close" /\ caller[c].pc = "returned") =>
    \A c \in Callers : caller[c].pc # "callback"

\* prompt, compact, navigateTree and resume never get the answer they call an
\* invariant fault: "returned an unwaited retry", "no longer matches its lane".
ConveniencesNeverFault == harness # "fault"

\* Every call returns, unless an operation stays open that nobody drives: a
\* suspended run nobody resumes keeps waitForIdle and runWhenIdle waiting.
\* A caller makes one call here, so that all have returned at some time.
CallsReturn ==
  (<>[](Active /\ ~Driven)) \/ []<>(\A c \in Callers : ~InCall(c))
=============================================================================
