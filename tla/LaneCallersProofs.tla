-------------------------- MODULE LaneCallersProofs --------------------------
(***************************************************************************)
(* What the callers of a lane may rely on, for every set of callers, every *)
(* choice of calls and every bound: exclusive idle callbacks, no lost      *)
(* wake-up, answers about the caller's own operation, aborts that settle.  *)
(*                                                                         *)
(* The invariant has a part about the lane and one about each caller's     *)
(* record; the caller's part is a predicate of the record, so that the     *)
(* step of one caller and the waking of all others are separate questions. *)
(***************************************************************************)
EXTENDS LaneCallers, SequenceTheorems, TLAPS

LaneTyped ==
  /\ operation \in Ops \cup {NoOp}
  /\ results \in [Ids -> Statuses \cup {"none"}]
  /\ drive \in Passes \cup {NoPass}
  /\ idleOwner \in Callers \cup {None}

\* The open operation has no result, the pass drives it or has settled its
\* own, and an idle callback has the lane to itself.
LaneOK ==
  /\ LaneTyped
  /\ Active => results[operation.id] = "none"
  /\ Driven => operation.id = drive.op \/ results[drive.op] # "none"
  /\ idleOwner # None => ~Active /\ ~Driven

\* What a record may hold, whatever the lane does.
RecordOK(c, r) ==
  /\ r \in CallRecords
  /\ r.command \in {"claim", "cancel"} => r.op \in Ids
  /\ r.command = "accept" => r.op \in {NoId, <<c, 1>>} /\ r.call # "abort"
  /\ r.command = "inspect" \/ r.pc = "new" => r.op = NoId
  /\ r.command = "inspect" => r.call \in {"resume", "abort"}
  /\ r.call \in {"prompt", "structural", "direct"} => r.op \in {NoId, <<c, 1>>, <<c, 2>>}
  /\ r.pc = "new" => r.got = "none"
  /\ r.pc = "observe" => r.command = "claim"
  /\ r.got # "none" => r.pc \in {"answered", "returned"}
  /\ r.got \in {"settled", "retry", "deferred"} => r.op \in Ids

\* Only its caller accepts an id: who has not reached it has not used it.
OwnIds(c, r) ==
  /\ results[<<c, 1>>] # "none" \/ operation.id = <<c, 1>> => r.op \in {<<c, 1>>, <<c, 2>>}
  /\ results[<<c, 2>>] # "none" \/ operation.id = <<c, 2>> => r.op = <<c, 2>>

\* Every wait has somebody who will end it: the installed pass ...
PassWaitOK(r) ==
  /\ r.pc = "observe" => r.op = drive.op
  /\ r.pc \in {"observe", "occupied", "awaitPass"} => Driven
\* ... or whoever signals the next change of the lane.
SleepOK(r) ==
  /\ r.pc = "change" /\ ~r.woken => Active /\ ~Driven
  /\ r.pc = "blocked" /\ ~r.woken => idleOwner # None

OwnerOK(c, r) == r.pc \in {"claimed", "callback"} <=> idleOwner = c

CancelledOrAborted(id) ==
  \/ operation.id = id /\ operation.ctl = "cancel_requested"
  \/ results[id] = "aborted"

\* An answer is about the caller's own operation; since its cancellation the
\* operation of an abort is cancelled or aborted.
AnswerOK(r) ==
  /\ r.got = "settled" => results[r.op] # "none"
  /\ r.call = "abort" =>
       /\ r.command = "claim" => CancelledOrAborted(r.op)
       /\ r.got \in {"settled", "retry", "deferred"} => results[r.op] = "aborted"

\* The parts a step of the lane can disturb for a caller it wakes.
Kept(c, r) == OwnIds(c, r) /\ PassWaitOK(r) /\ OwnerOK(c, r) /\ AnswerOK(r)
CallOK(c, r) == RecordOK(c, r) /\ Kept(c, r) /\ SleepOK(r)

Callbacks == caller = [c \in Callers |-> caller[c]]
IInv == LaneOK /\ Callbacks /\ \A c \in Callers : CallOK(c, caller[c])
-----------------------------------------------------------------------------
LEMMA NoIdIsNone == NoId \notin Ids /\ NoOp.id = NoId /\ NoOp \notin Ops /\ NoPass \notin Passes
BY DEF NoId, Ids, NoOp, Ops, NoPass, Passes

LEMMA OwnIdsDiffer == \A c \in Callers : /\ <<c, 1>> \in Ids /\ <<c, 2>> \in Ids
                                         /\ <<c, 1>> # <<c, 2>>
BY DEF Ids

LEMMA Start == Init => IInv
<1>. SUFFICES ASSUME Init PROVE IInv
  OBVIOUS
<1>1. LaneTyped
  <2>1. \A o : o \in [id: {<<Restored, 1>>}, kind: {"run", "structural"},
          ctl: {"running", "cancel_requested"}, leaf: {"work", "retry", "deferred"}, waits: {0}]
          => o \in Ops
    BY CallersAssumption DEF CallersAssumption, Ops, Ids
  <2>. QED BY <2>1 DEF Init, LaneTyped, Statuses
<1>2. LaneOK
  BY <1>1, NoIdIsNone DEF Init, LaneOK, Active, Driven, LaneTyped, Ops
<1>3. operation.id \notin Callers \X {1, 2}
  BY NoIdIsNone, CallersAssumption DEF CallersAssumption, Init, Ids
<1>4. ASSUME NEW c \in Callers PROVE CallOK(c, caller[c])
  <2>1. caller[c] = NewCall /\ idleOwner # c
    BY CallersAssumption DEF CallersAssumption, Init
  <2>2. RecordOK(c, NewCall)
    BY DEF RecordOK, NewCall, CallRecords, AllCalls, Commands, Points, Answers
  <2>3. OwnIds(c, NewCall)
    BY <1>3, OwnIdsDiffer DEF OwnIds, Init
  <2>. QED BY <2>1, <2>2, <2>3 DEF CallOK, Kept, PassWaitOK, SleepOK, OwnerOK, AnswerOK, NewCall
<1>. QED BY <1>2, <1>4 DEF IInv, Callbacks, Init
-----------------------------------------------------------------------------
(***************************************************************************)
(* A caller goes on and the lane stays as it is.                           *)
(***************************************************************************)
LEMMA Moved ==
  ASSUME NEW c \in Callers, NEW r, caller'[c] = r, CallOK(c, r)'
  PROVE  CallOK(c, caller[c])'
BY DEF CallOK, RecordOK, Kept, OwnIds, PassWaitOK, SleepOK, OwnerOK, AnswerOK,
   CancelledOrAborted, Active, Driven

LEMMA CallerMoves ==
  ASSUME IInv, NEW c \in Callers, NEW r, CallOK(c, r), Alone(c, r),
         UNCHANGED <<operation, results, drive, idleOwner>>
  PROVE  LaneOK' /\ Callbacks' /\ \A d \in Callers : CallOK(d, caller[d])'
<1>1. LaneOK'
  BY DEF IInv, LaneOK, LaneTyped, Active, Driven
<1>2. Callbacks'
  BY DEF IInv, Callbacks, Alone
<1>3. ASSUME NEW d \in Callers PROVE CallOK(d, caller[d])'
  <2>1. CallOK(d, caller'[d])
    BY DEF IInv, Callbacks, Alone
  <2>. QED BY <2>1 DEF CallOK, RecordOK, Kept, OwnIds, PassWaitOK, SleepOK, OwnerOK, AnswerOK,
         CancelledOrAborted, Active, Driven
<1>. QED BY <1>1, <1>2, <1>3

\* The fields of a record that waking up leaves alone.
LEMMA AwakeKeeps ==
  ASSUME NEW r \in CallRecords
  PROVE  /\ Awake(r) \in CallRecords
         /\ Awake(r).call = r.call /\ Awake(r).command = r.command /\ Awake(r).pc = r.pc
         /\ Awake(r).op = r.op /\ Awake(r).got = r.got
         /\ r.pc \in {"change", "blocked"} => Awake(r).woken
BY DEF Awake, CallRecords

\* Whoever has been woken is awake for the next change.
LEMMA AwakeSafe ==
  ASSUME NEW c \in Callers, NEW r, RecordOK(c, r), Kept(c, r)'
  PROVE  CallOK(c, Awake(r))'
<1> DEFINE t == Awake(r)
<1>1. /\ t \in CallRecords /\ t.call = r.call /\ t.command = r.command /\ t.pc = r.pc
      /\ t.op = r.op /\ t.got = r.got
      /\ r.pc \in {"change", "blocked"} => t.woken
  BY AwakeKeeps DEF RecordOK
<1> HIDE DEF t
<1>2. RecordOK(c, t)
  BY <1>1 DEF RecordOK
<1>3. Kept(c, t)' /\ SleepOK(t)'
  BY <1>1 DEF Kept, OwnIds, PassWaitOK, OwnerOK, AnswerOK, SleepOK
<1>4. CallOK(c, t)'
  BY <1>2, <1>3 DEF CallOK, RecordOK
<1>. QED BY <1>4 DEF t

\* One caller goes on, the lane has changed, everybody else is woken.
LEMMA SignalSafe ==
  ASSUME IInv, NEW c \in Callers, NEW r, Signalling(c, r), LaneOK', RecordOK(c, r), Kept(c, r)',
         \A d \in Callers \ {c} : \A s : CallOK(d, s) => Kept(d, s)'
  PROVE  IInv'
<1>1. Callbacks' /\ \A d \in Callers :
        caller'[d] = Awake(IF d = c THEN r ELSE caller[d])
  BY DEF IInv, Callbacks, Signalling, Woken
<1>2. ASSUME NEW d \in Callers PROVE CallOK(d, caller[d])'
  <2>1. \A s : s = caller[d] => CallOK(d, s)
    BY DEF IInv
  <2>2. \A s : s = (IF d = c THEN r ELSE caller[d]) => RecordOK(d, s) /\ Kept(d, s)'
    BY <2>1 DEF CallOK
  <2>3. \A s : s = (IF d = c THEN r ELSE caller[d]) => CallOK(d, Awake(s))'
    BY <2>2, AwakeSafe
  <2>. QED BY <1>1, <2>3 DEF CallOK, RecordOK, Kept, OwnIds, PassWaitOK, OwnerOK, AnswerOK, SleepOK
<1>. QED BY <1>1, <1>2 DEF IInv

\* The pass moves: everybody is woken.
LEMMA WokenSafe ==
  ASSUME IInv, caller' = Woken(caller), LaneOK',
         \A d \in Callers : \A s : CallOK(d, s) => Kept(d, s)'
  PROVE  IInv'
<1>1. Callbacks' /\ \A d \in Callers : caller'[d] = Awake(caller[d])
  BY DEF Callbacks, Woken
<1>2. ASSUME NEW d \in Callers PROVE CallOK(d, caller[d])'
  <2>1. \A s : s = caller[d] => CallOK(d, Awake(s))'
    BY AwakeSafe DEF IInv, CallOK
  <2>. QED BY <1>1, <2>1 DEF CallOK, RecordOK, Kept, OwnIds, PassWaitOK, OwnerOK, AnswerOK, SleepOK
<1>. QED BY <1>1, <1>2 DEF IInv
\* What a pass may answer to whoever observes it.
TellOK(r, answer) ==
  /\ answer = "settled" => results[r.op] # "none"
  /\ r.call = "abort" /\ answer \in {"settled", "retry", "deferred"} => results[r.op] = "aborted"

LEMMA ToldFields ==
  ASSUME NEW r \in CallRecords, NEW answer \in Answers \ {"none"}
  PROVE  /\ Told(r, answer) \in CallRecords
         /\ Told(r, answer).call = r.call /\ Told(r, answer).command = r.command
         /\ Told(r, answer).op = r.op
         /\ r.pc \notin {"observe", "occupied", "awaitPass"} => Told(r, answer) = r
         /\ r.pc = "observe" => Told(r, answer).pc = "answered" /\ Told(r, answer).got = answer
         /\ r.pc \in {"occupied", "awaitPass"} =>
              \/ Told(r, answer).pc = "answered" /\ Told(r, answer).got = "error"
              \/ Told(r, answer).pc = "submit" /\ Told(r, answer).got = r.got
<1>. DEFINE t == Told(r, answer)
<1>1. CASE r.pc = "observe"
  BY <1>1 DEF Told, CallRecords, Points
<1>2. CASE r.pc \in {"occupied", "awaitPass"} /\ answer = "error"
  BY <1>2 DEF Told, CallRecords, Points, Answers
<1>3. CASE r.pc \in {"occupied", "awaitPass"} /\ answer # "error"
  BY <1>3 DEF Told, CallRecords, Points
<1>4. CASE r.pc \notin {"observe", "occupied", "awaitPass"}
  BY <1>4 DEF Told
<1>. QED BY <1>1, <1>2, <1>3, <1>4

LEMMA ToldSafe ==
  ASSUME NEW c \in Callers, NEW r, RecordOK(c, r), NEW answer \in Answers \ {"none"},
         OwnIds(c, r)', OwnerOK(c, r)', AnswerOK(r)', r.pc = "observe" => TellOK(r, answer)'
  PROVE  CallOK(c, Awake(Told(r, answer)))'
<1> DEFINE t == Told(r, answer)
<1>1. /\ t \in CallRecords /\ t.call = r.call /\ t.command = r.command /\ t.op = r.op
      /\ r.pc \notin {"observe", "occupied", "awaitPass"} => t = r
      /\ r.pc = "observe" => t.pc = "answered" /\ t.got = answer
      /\ r.pc \in {"occupied", "awaitPass"} =>
              \/ t.pc = "answered" /\ t.got = "error"
              \/ t.pc = "submit" /\ t.got = r.got
  BY ToldFields DEF RecordOK
<1> HIDE DEF t
<1>2. RecordOK(c, t)
  BY <1>1 DEF RecordOK
<1>3. Kept(c, t)'
  BY <1>1 DEF RecordOK, Kept, OwnIds, PassWaitOK, OwnerOK, AnswerOK, TellOK
<1>4. CallOK(c, Awake(t))'
  BY <1>2, <1>3, AwakeSafe
<1>. QED BY <1>4 DEF t

\* A pass ends: its observers get their answer, everybody else is woken.
LEMMA EndPassSafe ==
  ASSUME IInv, NEW answer \in Answers \ {"none"}, EndPass(answer),
         \A d \in Callers : \A s : CallOK(d, s) /\ s.pc = "observe" => TellOK(s, answer)
  PROVE  IInv'
<1>1. LaneOK'
  BY NoIdIsNone DEF EndPass, IInv, LaneOK, LaneTyped, Active, Driven
<1>2. ASSUME NEW d \in Callers, NEW s, CallOK(d, s)
      PROVE  /\ CallOK(d, Awake(Told(s, answer)))'
             /\ Told(Awake(s), answer) = Awake(Told(s, answer))
  <2>1. RecordOK(d, s) /\ s \in CallRecords
    BY <1>2 DEF CallOK, RecordOK
  <2>2. OwnIds(d, s)' /\ OwnerOK(d, s)' /\ AnswerOK(s)'
    BY <1>2 DEF EndPass, CallOK, Kept, OwnIds, OwnerOK, AnswerOK, CancelledOrAborted
  <2>3. s.pc = "observe" => TellOK(s, answer)'
    BY <1>2 DEF EndPass, TellOK
  <2>4. Told(Awake(s), answer) = Awake(Told(s, answer))
    BY <2>1 DEF Told, Awake, CallRecords
  <2>. QED BY <2>1, <2>2, <2>3, <2>4, ToldSafe
<1>3. Callbacks' /\ \A d \in Callers : caller'[d] = Told(Awake(caller[d]), answer)
  BY DEF EndPass, Callbacks, Completed, Woken
<1>4. ASSUME NEW d \in Callers PROVE CallOK(d, caller[d])'
  <2>1. \A s : s = caller[d] => CallOK(d, Awake(Told(s, answer)))' /\ caller'[d] = Awake(Told(s, answer))
    BY <1>2, <1>3 DEF IInv
  <2>. QED BY <2>1 DEF CallOK, RecordOK, Kept, OwnIds, PassWaitOK, OwnerOK, AnswerOK, SleepOK
<1>. QED BY <1>1, <1>3, <1>4 DEF IInv

\* The lane is sealed: whoever waits for a pass gets the error of the gate.
LEMMA SealedSafe ==
  ASSUME IInv, NEW c \in Callers, NEW r, CallOK(c, r), r.pc # "observe",
         caller' = SealedLane([caller EXCEPT ![c] = r]),
         UNCHANGED <<operation, results, drive, idleOwner>>
  PROVE  IInv'
<1>1. LaneOK'
  BY DEF IInv, LaneOK, LaneTyped, Active, Driven
<1>2. ASSUME NEW d \in Callers, NEW s, CallOK(d, s)
      PROVE  CallOK(d, Awake(Told(s, "error")))'
  <2>1. RecordOK(d, s) /\ OwnIds(d, s)' /\ OwnerOK(d, s)' /\ AnswerOK(s)'
    BY <1>2 DEF CallOK, Kept, OwnIds, OwnerOK, AnswerOK, CancelledOrAborted
  <2>2. "error" \in Answers \ {"none"} /\ TellOK(s, "error")'
    BY DEF TellOK, Answers
  <2>. QED BY <2>1, <2>2, ToldSafe
<1>3. Callbacks' /\ \A d \in Callers :
        caller'[d] = Awake(Told(IF d = c THEN r ELSE caller[d], "error"))
  BY DEF SealedLane, IInv, Callbacks, Completed, Woken
<1>4. ASSUME NEW d \in Callers PROVE CallOK(d, caller[d])'
  <2>1. \A s : s = (IF d = c THEN r ELSE caller[d]) => CallOK(d, s)
    BY DEF IInv
  <2>2. \A s : s = (IF d = c THEN r ELSE caller[d]) => CallOK(d, Awake(Told(s, "error")))'
    BY <1>2, <2>1
  <2>. QED BY <1>3, <2>2, Moved
<1>. QED BY <1>1, <1>3, <1>4 DEF IInv
-----------------------------------------------------------------------------
(***************************************************************************)
(* The steps of a call that leave the lane as it is.                       *)
(***************************************************************************)
\* What moving a call to a point leaves of its record.
LEMMA AtIs ==
  ASSUME NEW c, caller[c] \in CallRecords, NEW pc \in Points
  PROVE  \E r \in CallRecords :
           /\ r = At(c, pc) /\ r.pc = pc /\ r.woken = FALSE
           /\ r.call = caller[c].call /\ r.command = caller[c].command
           /\ r.op = caller[c].op /\ r.got = caller[c].got
<1>1. PICK s \in CallRecords : s = caller[c]
  OBVIOUS
<1>2. PICK r : r = [s EXCEPT !.pc = pc, !.woken = FALSE]
  OBVIOUS
<1>3. /\ r \in CallRecords /\ r.pc = pc /\ r.woken = FALSE
      /\ r.call = s.call /\ r.command = s.command /\ r.op = s.op /\ r.got = s.got
  BY ONLY <1>2, s \in CallRecords, pc \in Points DEF CallRecords
<1>. QED BY <1>1, <1>2, <1>3 DEF At

\* The points a call may reach whatever it has been through.
LEMMA AtSafe ==
  ASSUME IInv, NEW c \in Callers
  PROVE  /\ \A pc \in {"returned", "submit", "queued"} :
              /\ caller[c].pc \notin {"new", "claimed", "callback"}
              /\ pc = "returned" \/ caller[c].got = "none"
              => CallOK(c, At(c, pc))
         /\ idleOwner # None /\ caller[c].pc \in {"submit", "queued"} => CallOK(c, At(c, "blocked"))
         /\ ~IsIdle /\ caller[c].pc = "queued"
              => CallOK(c, At(c, IF Driven THEN "awaitPass" ELSE "change"))
<1>0. CallOK(c, caller[c]) /\ caller[c] \in CallRecords
  BY DEF IInv, CallOK, RecordOK
<1>1. ASSUME NEW pc \in {"returned", "submit", "queued"},
             caller[c].pc \notin {"new", "claimed", "callback"},
             pc = "returned" \/ caller[c].got = "none"
      PROVE  CallOK(c, At(c, pc))
  <2>1. RecordOK(c, At(c, pc))
    BY <1>0, <1>1 DEF CallOK, RecordOK, At, CallRecords, Points
  <2>. QED BY <1>0, <1>1, <2>1 DEF CallOK, Kept, OwnIds, PassWaitOK, SleepOK, OwnerOK, AnswerOK,
         At, CallRecords
<1>2. ASSUME idleOwner # None, caller[c].pc \in {"submit", "queued"}
      PROVE  CallOK(c, At(c, "blocked"))
  <2>1. "blocked" \in Points
    BY DEF Points
  <2>2. PICK r \in CallRecords :
          /\ r = At(c, "blocked") /\ r.pc = "blocked" /\ r.woken = FALSE
          /\ r.call = caller[c].call /\ r.command = caller[c].command
          /\ r.op = caller[c].op /\ r.got = caller[c].got
    BY <1>0, <2>1, AtIs
  <2>. QED BY <1>0, <1>2, <2>2 DEF CallOK, RecordOK, Kept, OwnIds, PassWaitOK, SleepOK, OwnerOK,
         AnswerOK, CancelledOrAborted
<1>3. ASSUME ~IsIdle, caller[c].pc = "queued"
      PROVE  CallOK(c, At(c, IF Driven THEN "awaitPass" ELSE "change"))
  <2>1. PICK pc \in Points : pc = IF Driven THEN "awaitPass" ELSE "change"
    BY DEF Points
  <2>2. PICK r \in CallRecords :
          /\ r = At(c, pc) /\ r.pc = pc /\ r.woken = FALSE
          /\ r.call = caller[c].call /\ r.command = caller[c].command
          /\ r.op = caller[c].op /\ r.got = caller[c].got
    BY <1>0, AtIs
  <2>3. RecordOK(c, r)
    BY <1>0, <1>3, <2>1, <2>2 DEF CallOK, RecordOK
  <2>4. Kept(c, r)
    BY <1>0, <1>3, <2>1, <2>2 DEF CallOK, RecordOK, Kept, OwnIds, PassWaitOK, OwnerOK, AnswerOK,
       CancelledOrAborted
  <2>5. SleepOK(r)
    BY <1>3, <2>1, <2>2 DEF SleepOK, IsIdle
  <2>. QED BY <2>1, <2>2, <2>3, <2>4, <2>5 DEF CallOK
<1>. QED BY <1>1, <1>2, <1>3

QuietCall(c) == \/ Call(c) \/ Submit(c) \/ WakeUp(c) \/ Abandon(c) \/ RunRefused(c)
                \/ RunInspect(c) \/ RunIdle(c) \/ StartCallback(c)
                \/ Continue(c) \/ Conclude(c) \/ CloseReturns(c)

LEMMA QuietCallSafe ==
  ASSUME IInv, NEW c \in Callers, QuietCall(c)
  PROVE  IInv'
<1>0. CallOK(c, caller[c]) /\ caller[c] \in CallRecords /\ LaneOK
  BY DEF IInv, CallOK, RecordOK
<1>. SUFFICES \E r : CallOK(c, r) /\ Alone(c, r) /\ UNCHANGED <<operation, results, drive, idleOwner>>
  BY CallerMoves DEF IInv
<1>1. CASE Call(c)
  <2>1. PICK call \in AllCalls \ {"close"} :
          Alone(c, [NewCall EXCEPT !.pc = "submit", !.call = call, !.command = FirstCommand(call)])
    BY <1>1, CallersAssumption DEF CallersAssumption, Call
  <2> DEFINE r == [NewCall EXCEPT !.pc = "submit", !.call = call, !.command = FirstCommand(call)]
  <2>2. /\ FirstCommand(call) \in {"accept", "inspect", "idle", "own"}
        /\ FirstCommand(call) = "accept" => call # "abort"
        /\ FirstCommand(call) = "inspect" => call \in {"resume", "abort"}
    BY DEF FirstCommand, AllCalls
  <2>3. caller[c].pc = "new" /\ caller[c].op = NoId
    BY <1>0, <1>1 DEF Call, CallOK, RecordOK
  <2>4. /\ r.call = call /\ r.command = FirstCommand(call) /\ r.pc = "submit"
        /\ r.op = NoId /\ r.got = "none"
    BY DEF NewCall, r
  <2>5. r \in CallRecords
    <3>1. NewCall \in CallRecords
      BY DEF NewCall, CallRecords, AllCalls, Commands, Points, Answers
    <3>. QED BY <2>2, <3>1 DEF CallRecords, AllCalls, Commands, Points, r
  <2> HIDE DEF r
  <2>6. RecordOK(c, r)
    BY <2>2, <2>4, <2>5 DEF RecordOK
  <2>7. CallOK(c, r)
    BY <1>0, <2>2, <2>3, <2>4, <2>6 DEF CallOK, Kept, OwnIds, PassWaitOK, SleepOK, OwnerOK, AnswerOK
  <2>. QED BY <1>1, <2>1, <2>7 DEF Call, r
<1>2. CASE Submit(c)
  <2>1. caller[c].got = "none"
    BY <1>0, <1>2 DEF Submit, CallOK, RecordOK
  <2>. QED BY <1>2, AtSafe, <2>1 DEF Submit, Return
<1>3. CASE WakeUp(c)
  <2>1. caller[c].got = "none"
    BY <1>0, <1>3 DEF WakeUp, CallOK, RecordOK
  <2>. QED BY <1>3, AtSafe, <2>1 DEF WakeUp
<1>4. CASE Abandon(c)
  BY <1>4, AtSafe DEF Abandon, Return
<1>5. CASE RunRefused(c)
  <2>1. caller[c].pc = "queued" /\ caller[c].got = "none"
    BY <1>0, <1>5 DEF RunRefused, Running, CallOK, RecordOK
  <2>. QED BY <1>5, AtSafe, <2>1 DEF RunRefused, MayRun, Return
<1>6. CASE RunInspect(c)
  <2>1. /\ caller[c].pc = "queued" /\ caller[c].got = "none" /\ caller[c].op = NoId
        /\ caller[c].call \in {"resume", "abort"}
    BY <1>0, <1>6 DEF RunInspect, Runs, Running, CallOK, RecordOK
  <2>2. CASE ~Active
    BY <1>6, AtSafe, <2>1, <2>2 DEF RunInspect, Return
  <2>3. CASE Active
    <3> DEFINE command == IF caller[c].call = "abort" THEN "cancel" ELSE "claim"
               r == [Then(c, command) EXCEPT !.op = operation.id]
    <3>1. operation.id \in Ids
      BY <1>0, <2>3 DEF LaneOK, LaneTyped, Active, Ops
    <3>2. /\ r.call = caller[c].call /\ r.command = command /\ r.pc = "submit"
          /\ r.op = operation.id /\ r.got = "none" /\ r \in CallRecords
      BY <1>0, <2>1, <3>1 DEF r, Then, CallRecords, Commands, Points
    <3> HIDE DEF r
    <3>3. RecordOK(c, r)
      BY <1>0, <2>1, <3>1, <3>2 DEF CallOK, RecordOK
    <3>4. CallOK(c, r)
      BY <1>0, <2>1, <3>2, <3>3, NoIdIsNone, OwnIdsDiffer
         DEF CallOK, Kept, OwnIds, PassWaitOK, SleepOK, OwnerOK, AnswerOK
    <3>. QED BY <1>6, <2>3, <3>4 DEF RunInspect, r
  <2>. QED BY <2>2, <2>3
<1>7. CASE RunIdle(c)
  <2>1. caller[c].pc = "queued" /\ caller[c].got = "none" /\ caller[c].command = "idle"
    BY <1>0, <1>7 DEF RunIdle, Runs, Running, CallOK, RecordOK
  <2>2. CASE IsIdle
    BY <1>7, AtSafe, <2>1, <2>2 DEF RunIdle, Return
  <2>3. CASE ~IsIdle
    BY <1>7, AtSafe, <2>1, <2>3 DEF RunIdle, WaitForLane
  <2>. QED BY <2>2, <2>3
<1>8. CASE StartCallback(c)
  <2>1. "callback" \in Points /\ caller[c].pc = "claimed"
    BY <1>8 DEF Points, StartCallback
  <2>2. PICK r \in CallRecords :
          /\ r = At(c, "callback") /\ r.pc = "callback" /\ r.woken = FALSE
          /\ r.call = caller[c].call /\ r.command = caller[c].command
          /\ r.op = caller[c].op /\ r.got = caller[c].got
    BY <1>0, <2>1, AtIs
  <2>3. RecordOK(c, r)
    BY <1>0, <2>1, <2>2 DEF CallOK, RecordOK
  <2>4. Kept(c, r)
    BY <1>0, <2>1, <2>2 DEF CallOK, Kept, OwnIds, PassWaitOK, OwnerOK, AnswerOK, CancelledOrAborted
  <2>5. SleepOK(r)
    BY <2>2 DEF SleepOK
  <2>. QED BY <1>8, <2>2, <2>3, <2>4, <2>5 DEF StartCallback, CallOK
<1>9. CASE Continue(c)
  <2>1. /\ caller[c].op = <<c, 1>> /\ caller[c].pc = "answered"
        /\ caller[c].call = "structural"
    BY <1>0, <1>9, OwnIdsDiffer, NoIdIsNone DEF Continue, Structural, CallOK, RecordOK, AnswerOK
  <2> DEFINE r == [Then(c, "accept") EXCEPT !.got = "none"]
  <2>2. /\ r.call = caller[c].call /\ r.command = "accept" /\ r.pc = "submit"
        /\ r.op = <<c, 1>> /\ r.got = "none" /\ r \in CallRecords
    BY <1>0, <2>1 DEF r, Then, CallRecords, Commands, Points, Answers
  <2> HIDE DEF r
  <2>3. CallOK(c, r)
    BY <1>0, <2>1, <2>2, OwnIdsDiffer
       DEF CallOK, RecordOK, Kept, OwnIds, PassWaitOK, SleepOK, OwnerOK, AnswerOK
  <2>. QED BY <1>9, <2>3 DEF Continue, r
<1>10. CASE Conclude(c)
  BY <1>10, AtSafe DEF Conclude, Return
<1>11. CASE CloseReturns(c)
  BY <1>11, AtSafe DEF CloseReturns, Return
<1>. QED BY <1>1, <1>2, <1>3, <1>4, <1>5, <1>6, <1>7, <1>8, <1>9, <1>10, <1>11 DEF QuietCall
-----------------------------------------------------------------------------
(***************************************************************************)
(* The steps of a call that change the lane.                               *)
(***************************************************************************)
LEMMA AcceptSafe ==
  ASSUME IInv, NEW c \in Callers, RunAccept(c)
  PROVE  IInv'
<1>0. CallOK(c, caller[c]) /\ caller[c] \in CallRecords /\ LaneOK
  BY DEF IInv, CallOK, RecordOK
<1>1. /\ caller[c].pc = "queued" /\ caller[c].got = "none" /\ caller[c].command = "accept"
      /\ caller[c].call # "abort" /\ caller[c].op \in {NoId, <<c, 1>>} /\ idleOwner = None
  BY <1>0 DEF RunAccept, Runs, Running, MayRun, CallOK, RecordOK
<1>2. CASE Alone(c, Return(c)) /\ UNCHANGED operation
  BY <1>1, <1>2, AtSafe, CallerMoves DEF RunAccept, Return, IInv
<1>3. CASE ~Active /\ operation' = Accepted(c) /\ Signalling(c, [Then(c, "claim") EXCEPT !.op = NextId(c)])
  <2>a. PICK r, id : r = [Then(c, "claim") EXCEPT !.op = id] /\ id = NextId(c)
    OBVIOUS
  <2>1. /\ caller[c].op = NoId => id = <<c, 1>>
        /\ caller[c].op = <<c, 1>> => id = <<c, 2>>
        /\ id \in {<<c, 1>>, <<c, 2>>} /\ id \in Ids
    BY <1>1, <2>a, NoIdIsNone, OwnIdsDiffer DEF NextId
  <2>2. results[id] = "none"
    BY <1>0, <1>1, <2>1, NoIdIsNone, OwnIdsDiffer DEF CallOK, Kept, OwnIds
  <2>3. operation'.id = id /\ operation' \in Ops /\ operation'.ctl = "running"
    <3>1. NoOp \in [id: Ids \cup {NoId}, kind: {"run", "structural"},
            ctl: {"running", "cancel_requested"}, leaf: {"work", "retry", "deferred"},
            waits: 0..MaxWaits] /\ NoOp.ctl = "running"
      BY CallersAssumption DEF CallersAssumption, NoOp
    <3>. QED BY <1>3, <2>1, <2>a, <3>1 DEF Accepted, Ops
  <2>4. LaneOK'
    BY <1>0, <1>1, <1>3, <2>2, <2>3, NoIdIsNone
       DEF RunAccept, LaneOK, LaneTyped, Active, Driven, Passes
  <2>5. /\ r.call = caller[c].call /\ r.command = "claim" /\ r.pc = "submit"
        /\ r.op = id /\ r.got = "none" /\ r \in CallRecords
    BY <1>0, <1>1, <2>1, <2>a DEF Then, CallRecords, Commands, Points
  <2>6. RecordOK(c, r)
    BY <1>0, <1>1, <2>1, <2>5 DEF CallOK, RecordOK
  <2>7. Kept(c, r)'
    BY <1>0, <1>1, <2>1, <2>2, <2>3, <2>5, OwnIdsDiffer, NoIdIsNone
       DEF RunAccept, CallOK, Kept, OwnIds, PassWaitOK, OwnerOK, AnswerOK
  <2>8. ASSUME NEW d \in Callers \ {c}, NEW s, CallOK(d, s) PROVE Kept(d, s)'
    <3>1. id # <<d, 1>> /\ id # <<d, 2>>
      BY <2>1
    <3>2. OwnIds(d, s)' /\ PassWaitOK(s)' /\ OwnerOK(d, s)'
      BY <2>3, <2>8, <3>1 DEF RunAccept, CallOK, Kept, OwnIds, PassWaitOK, OwnerOK, Driven
    <3>3. operation.ctl = "running"
      BY <1>3 DEF Active, NoOp
    <3>4. AnswerOK(s)'
      BY <2>8, <3>3 DEF RunAccept, CallOK, Kept, AnswerOK, CancelledOrAborted
    <3>. QED BY <3>2, <3>4 DEF Kept
  <2>. QED BY <1>3, <2>4, <2>6, <2>7, <2>8, <2>a, SignalSafe
<1>. QED BY <1>2, <1>3 DEF RunAccept

LEMMA ClaimSafe ==
  ASSUME IInv, NEW c \in Callers, RunClaim(c)
  PROVE  IInv'
<1>0. CallOK(c, caller[c]) /\ caller[c] \in CallRecords /\ LaneOK
  BY DEF IInv, CallOK, RecordOK
<1>1. /\ caller[c].pc = "queued" /\ caller[c].got = "none" /\ caller[c].command = "claim"
      /\ caller[c].op \in Ids /\ idleOwner = None
  BY <1>0 DEF RunClaim, Runs, Running, MayRun, CallOK, RecordOK
<1>2. CASE operation.id = caller[c].op /\ ~Driven
           /\ drive' = [op |-> operation.id, wait |-> Waits(caller[c].call),
                        permits |-> Permits(caller[c].call)]
           /\ Signalling(c, At(c, "observe"))
  <2>a. PICK r : r = At(c, "observe")
    OBVIOUS
  <2>1. drive' \in Passes /\ drive' # NoPass /\ drive'.op = caller[c].op
    <3>1. Waits(caller[c].call) \in BOOLEAN /\ Permits(caller[c].call) \in {0, 1}
      BY DEF Waits, Permits
    <3>. QED BY <1>1, <1>2, <3>1, NoIdIsNone DEF Passes
  <2>2. LaneOK'
    BY <1>0, <1>1, <1>2, <2>1 DEF RunClaim, LaneOK, LaneTyped, Active, Driven
  <2>3. /\ r.call = caller[c].call /\ r.command = "claim" /\ r.pc = "observe"
        /\ r.op = caller[c].op /\ r.got = "none" /\ r \in CallRecords
    BY <1>0, <1>1, <2>a DEF At, CallRecords, Points
  <2>4. RecordOK(c, r)
    BY <1>0, <1>1, <2>3 DEF CallOK, RecordOK
  <2>5. Kept(c, r)'
    BY <1>0, <1>1, <2>1, <2>3 DEF RunClaim, CallOK, Kept, OwnIds, PassWaitOK, OwnerOK, AnswerOK,
       CancelledOrAborted, Driven
  <2>6. ASSUME NEW d \in Callers \ {c}, NEW s, CallOK(d, s) PROVE Kept(d, s)'
    BY <1>2, <2>6 DEF RunClaim, CallOK, Kept, OwnIds, PassWaitOK, OwnerOK, AnswerOK, CancelledOrAborted
  <2>. QED BY <1>2, <2>2, <2>4, <2>5, <2>6, <2>a, SignalSafe
<1>3. CASE /\ operation.id = caller[c].op /\ Driven /\ UNCHANGED drive
           /\ Alone(c, At(c, IF MayJoin(c) THEN "observe" ELSE "occupied"))
  <2>1. CallOK(c, At(c, IF MayJoin(c) THEN "observe" ELSE "occupied"))
    BY <1>0, <1>1, <1>3 DEF CallOK, RecordOK, Kept, OwnIds, PassWaitOK, SleepOK, OwnerOK, AnswerOK,
       MayJoin, At, CallRecords, Points
  <2>. QED BY <1>3, <2>1, CallerMoves DEF RunClaim, IInv
<1>4. CASE /\ operation.id # caller[c].op /\ UNCHANGED drive
           /\ Alone(c, [At(c, "answered") EXCEPT
                 !.got = IF results[caller[c].op] = "none" THEN "mismatch" ELSE "settled"])
  <2>a. PICK r : r = [At(c, "answered") EXCEPT
                 !.got = IF results[caller[c].op] = "none" THEN "mismatch" ELSE "settled"]
    OBVIOUS
  <2>1. /\ r.call = caller[c].call /\ r.command = "claim" /\ r.pc = "answered"
        /\ r.op = caller[c].op /\ r \in CallRecords
        /\ r.got = IF results[caller[c].op] = "none" THEN "mismatch" ELSE "settled"
    BY <1>0, <1>1, <2>a DEF At, CallRecords, Points, Answers
  <2>2. RecordOK(c, r)
    BY <1>0, <1>1, <2>1 DEF CallOK, RecordOK
  <2>3. CallOK(c, r)
    BY <1>0, <1>1, <1>4, <2>1, <2>2 DEF CallOK, Kept, OwnIds, PassWaitOK, SleepOK, OwnerOK, AnswerOK,
       CancelledOrAborted
  <2>. QED BY <1>4, <2>3, <2>a, CallerMoves DEF RunClaim, IInv
<1>. QED BY <1>2, <1>3, <1>4 DEF RunClaim

LEMMA CancelSafe ==
  ASSUME IInv, NEW c \in Callers, RunCancel(c)
  PROVE  IInv'
<1>0. CallOK(c, caller[c]) /\ caller[c] \in CallRecords /\ LaneOK
  BY DEF IInv, CallOK, RecordOK
<1>1. /\ caller[c].pc = "queued" /\ caller[c].got = "none" /\ caller[c].command = "cancel"
      /\ caller[c].op \in Ids /\ idleOwner = None
  BY <1>0 DEF RunCancel, Runs, Running, MayRun, CallOK, RecordOK
<1>a. PICK r : r = Then(c, "claim")
  OBVIOUS
<1>2. /\ r.call = caller[c].call /\ r.command = "claim" /\ r.pc = "submit"
      /\ r.op = caller[c].op /\ r.got = "none" /\ r \in CallRecords /\ RecordOK(c, r)
  <2>1. /\ r.call = caller[c].call /\ r.command = "claim" /\ r.pc = "submit"
        /\ r.op = caller[c].op /\ r.got = "none" /\ r \in CallRecords
    BY <1>0, <1>1, <1>a DEF Then, CallRecords, Commands, Points
  <2>. QED BY <1>0, <1>1, <2>1 DEF CallOK, RecordOK
<1>3. CASE operation.id # caller[c].op /\ Alone(c, Return(c)) /\ UNCHANGED operation
  BY <1>1, <1>3, AtSafe, CallerMoves DEF RunCancel, Return, IInv
<1>4. CASE /\ operation.id = caller[c].op /\ operation.ctl = "cancel_requested"
           /\ Alone(c, Then(c, "claim")) /\ UNCHANGED operation
  <2>1. CallOK(c, r)
    BY <1>0, <1>1, <1>2, <1>4 DEF CallOK, Kept, OwnIds, PassWaitOK, SleepOK, OwnerOK, AnswerOK,
       CancelledOrAborted
  <2>. QED BY <1>4, <1>a, <2>1, CallerMoves DEF RunCancel, IInv
<1>5. CASE /\ operation.id = caller[c].op /\ operation.ctl = "running"
           /\ operation' = [operation EXCEPT !.ctl = "cancel_requested"]
           /\ Signalling(c, Then(c, "claim"))
  <2>1. operation \in Ops
    BY <1>0, <1>1, <1>5, NoIdIsNone DEF LaneOK, LaneTyped
  <2>2. operation' \in Ops /\ operation'.id = operation.id /\ operation'.ctl = "cancel_requested"
    BY <1>5, <2>1 DEF Ops
  <2>3. LaneOK'
    BY <1>0, <1>1, <2>1, <2>2, NoIdIsNone DEF RunCancel, LaneOK, LaneTyped, Active, Driven
  <2>4. Kept(c, r)'
    BY <1>0, <1>1, <1>2, <1>5, <2>2 DEF RunCancel, CallOK, Kept, OwnIds, PassWaitOK, OwnerOK, AnswerOK,
       CancelledOrAborted
  <2>5. ASSUME NEW d \in Callers \ {c}, NEW s, CallOK(d, s) PROVE Kept(d, s)'
    BY <2>2, <2>5 DEF RunCancel, CallOK, Kept, OwnIds, PassWaitOK, OwnerOK, AnswerOK,
       CancelledOrAborted, Driven
  <2>. QED BY <1>2, <1>5, <2>3, <2>4, <2>5, <1>a, SignalSafe
<1>. QED BY <1>3, <1>4, <1>5 DEF RunCancel

LEMMA OwnSafe ==
  ASSUME IInv, NEW c \in Callers, RunOwn(c) \/ RefuseCallback(c) \/ EndCallback(c)
  PROVE  IInv'
<1>0. CallOK(c, caller[c]) /\ caller[c] \in CallRecords /\ LaneOK
  BY DEF IInv, CallOK, RecordOK
<1>1. CASE RunOwn(c)
  <2>1. caller[c].pc = "queued" /\ caller[c].got = "none" /\ idleOwner = None
    BY <1>0, <1>1 DEF RunOwn, Runs, Running, MayRun, CallOK, RecordOK
  <2>2. CASE IsIdle
    <3>a. PICK r : r = At(c, "claimed")
      OBVIOUS
    <3>1. /\ r.call = caller[c].call /\ r.command = caller[c].command /\ r.pc = "claimed"
          /\ r.op = caller[c].op /\ r.got = "none" /\ r \in CallRecords
      BY <1>0, <2>1, <3>a DEF At, CallRecords, Points
    <3>2. LaneOK'
      BY <1>0, <1>1, <2>1, <2>2 DEF RunOwn, IsIdle, LaneOK, LaneTyped, Active, Driven
    <3>3. RecordOK(c, r)
      BY <1>0, <2>1, <3>1 DEF CallOK, RecordOK
    <3>4. Kept(c, r)'
      BY <1>0, <1>1, <2>2, <3>1 DEF RunOwn, CallOK, Kept, OwnIds, PassWaitOK, OwnerOK, AnswerOK,
         CancelledOrAborted
    <3>5. ASSUME NEW d \in Callers \ {c}, NEW s, CallOK(d, s) PROVE Kept(d, s)'
      BY <1>1, <2>1, <2>2, <3>5, CallersAssumption
         DEF RunOwn, CallersAssumption, CallOK, Kept, OwnIds, PassWaitOK, OwnerOK, AnswerOK,
         CancelledOrAborted, Driven
    <3>. QED BY <1>1, <2>2, <3>2, <3>3, <3>4, <3>5, <3>a, SignalSafe DEF RunOwn
  <2>3. CASE ~IsIdle
    BY <1>1, <2>1, <2>3, AtSafe, CallerMoves DEF RunOwn, WaitForLane, IInv
  <2>. QED BY <2>2, <2>3
<1>2. CASE RefuseCallback(c) \/ EndCallback(c)
  <2>a. PICK r : r = Return(c)
    OBVIOUS
  <2>1. idleOwner = c /\ ReleaseIdle(c)
    BY <1>0, <1>2 DEF RefuseCallback, EndCallback, CallOK, Kept, OwnerOK
  <2>2. LaneOK'
    BY <1>0, <2>1 DEF ReleaseIdle, LaneOK, LaneTyped, Active, Driven
  <2>3. CallOK(c, caller[c]) /\ caller[c].pc \in {"claimed", "callback"} /\ caller[c].got = "none"
    BY <1>0, <1>2 DEF RefuseCallback, EndCallback, CallOK, RecordOK
  <2>4. /\ r.call = caller[c].call /\ r.command = caller[c].command /\ r.pc = "returned"
        /\ r.op = caller[c].op /\ r.got = "none" /\ r \in CallRecords
    BY <1>0, <2>3, <2>a DEF Return, At, CallRecords, Points
  <2>5. RecordOK(c, r)
    BY <2>3, <2>4 DEF CallOK, RecordOK
  <2>6. Kept(c, r)'
    BY <2>1, <2>3, <2>4, CallersAssumption
       DEF ReleaseIdle, CallersAssumption, CallOK, Kept, OwnIds, PassWaitOK, OwnerOK, AnswerOK,
       CancelledOrAborted
  <2>7. ASSUME NEW d \in Callers \ {c}, NEW s, CallOK(d, s) PROVE Kept(d, s)'
    BY <2>1, <2>7, CallersAssumption
       DEF ReleaseIdle, CallersAssumption, CallOK, Kept, OwnIds, PassWaitOK, OwnerOK, AnswerOK,
       CancelledOrAborted, Driven
  <2>8. Signalling(c, r)
    BY <2>1, <2>a DEF ReleaseIdle, Released, Signalling
  <2>. QED BY <2>2, <2>5, <2>6, <2>7, <2>8, SignalSafe
<1>. QED BY <1>1, <1>2

LEMMA FaultSafe ==
  ASSUME IInv, NEW c \in Callers, FaultCall(c) \/ CallClose(c)
  PROVE  IInv'
<1>0. CallOK(c, caller[c]) /\ caller[c] \in CallRecords
  BY DEF IInv, CallOK, RecordOK
<1>1. CASE FaultCall(c)
  <2>1. CallOK(c, Return(c)) /\ Return(c).pc = "returned"
    BY <1>0, <1>1, AtSafe DEF FaultCall, Return, At, CallRecords
  <2>. QED BY <1>1, <2>1, SealedSafe DEF FaultCall
<1>2. CASE CallClose(c)
  <2>a. PICK r : r = [NewCall EXCEPT !.call = "close", !.pc = "closing"]
    OBVIOUS
  <2>1. /\ r.call = "close" /\ r.pc = "closing" /\ r.op = NoId /\ r.got = "none"
        /\ r.command = "none" /\ r \in CallRecords
    <3>1. /\ NewCall \in CallRecords /\ NewCall.op = NoId /\ NewCall.got = "none"
          /\ NewCall.command = "none"
      BY DEF NewCall, CallRecords, AllCalls, Commands, Points, Answers
    <3>. QED BY <2>a, <3>1 DEF CallRecords, AllCalls, Points
  <2>2. caller[c].pc = "new" /\ caller[c].op = NoId
    BY <1>0, <1>2 DEF CallClose, CallOK, RecordOK
  <2>3. CallOK(c, r)
    BY <1>0, <2>1, <2>2 DEF CallOK, RecordOK, Kept, OwnIds, PassWaitOK, SleepOK, OwnerOK, AnswerOK
  <2>. QED BY <1>2, <2>a, <2>1, <2>3, SealedSafe DEF CallClose
<1>. QED BY <1>1, <1>2
-----------------------------------------------------------------------------
(***************************************************************************)
(* The steps of the pass.                                                  *)
(***************************************************************************)
LEMMA PassMovesSafe ==
  ASSUME IInv, PassWaitsForRetry \/ RetryTimer \/ PassSuspends \/ PassPolls
  PROVE  IInv'
<1>0. LaneOK
  BY DEF IInv
<1>1. /\ operation \in Ops /\ drive \in Passes /\ Driven /\ operation.id = drive.op
      /\ operation.id \in Ids /\ idleOwner = None
  BY <1>0, NoIdIsNone DEF PassWaitsForRetry, RetryTimer, PassSuspends, PassPolls, Lives, Driven,
     LaneOK, LaneTyped, Ops, Passes
<1>2. /\ operation' \in Ops /\ operation'.id = operation.id /\ operation'.ctl = operation.ctl
      /\ caller' = Woken(caller) /\ UNCHANGED results /\ UNCHANGED idleOwner
  <2>1. operation.waits \in 0..MaxWaits /\ MaxWaits \in Nat
    BY <1>1, CallersAssumption DEF CallersAssumption, Ops
  <2>2. PICK leaf \in {"work", "retry", "deferred"}, w \in {0, 1} :
          PassMoves(leaf, w) /\ operation.waits + w \in 0..MaxWaits
    BY <2>1 DEF PassWaitsForRetry, RetryTimer, PassSuspends, PassPolls
  <2>3. operation' = [operation EXCEPT !.leaf = leaf, !.waits = operation.waits + w]
    BY <2>2 DEF PassMoves
  <2>4. /\ operation' \in Ops /\ operation'.id = operation.id /\ operation'.ctl = operation.ctl
    BY <1>1, <2>2, <2>3 DEF Ops
  <2>. QED BY <2>2, <2>4 DEF PassMoves
<1>3. drive' \in Passes /\ drive'.op = drive.op
  BY <1>1 DEF PassWaitsForRetry, RetryTimer, PassSuspends, PassPolls, Passes
<1>4. Driven' /\ Active' /\ Active
  BY <1>1, <1>2, <1>3, NoIdIsNone DEF Driven, Active
<1>5. LaneOK'
  BY <1>0, <1>1, <1>2, <1>3, <1>4 DEF LaneOK, LaneTyped
<1>6. ASSUME NEW d \in Callers, NEW s, CallOK(d, s) PROVE Kept(d, s)'
  BY <1>1, <1>2, <1>3, <1>4, <1>6 DEF CallOK, Kept, OwnIds, PassWaitOK, OwnerOK, AnswerOK,
     CancelledOrAborted
<1>. QED BY <1>2, <1>5, <1>6, WokenSafe

LEMMA PassSettlesSafe ==
  ASSUME IInv, PassSettles
  PROVE  IInv'
<1>0. LaneOK
  BY DEF IInv
<1>1. /\ operation \in Ops /\ drive \in Passes /\ operation.id = drive.op /\ idleOwner = None
      /\ operation.id \in Ids /\ results[operation.id] = "none"
      /\ results \in [Ids -> Statuses \cup {"none"}] /\ operation.ctl \in {"running", "cancel_requested"}
  BY <1>0, NoIdIsNone DEF PassSettles, Lives, Driven, Active, LaneOK, LaneTyped, Ops, Passes
<1>2. /\ results' \in [Ids -> Statuses \cup {"none"}]
      /\ results'[operation.id] \in Statuses
      /\ operation.ctl = "cancel_requested" => results'[operation.id] = "aborted"
      /\ \A i \in Ids : results[i] # "none" => results'[i] = results[i]
      /\ \A i \in Ids : results'[i] # "none" => results[i] # "none" \/ i = operation.id
  BY <1>1 DEF PassSettles, Statuses
<1>3. LaneOK'
  BY <1>0, <1>1, <1>2 DEF PassSettles, Lives, LaneOK, LaneTyped, Active, Driven, Statuses
<1>4. ASSUME NEW d \in Callers, NEW s, CallOK(d, s) PROVE Kept(d, s)'
  <2>1. OwnIds(d, s)'
    BY <1>1, <1>2, <1>4, OwnIdsDiffer, NoIdIsNone DEF PassSettles, CallOK, Kept, OwnIds
  <2>2. PassWaitOK(s)' /\ OwnerOK(d, s)'
    BY <1>4 DEF PassSettles, CallOK, Kept, PassWaitOK, OwnerOK, Driven
  <2>3. AnswerOK(s)'
    BY <1>1, <1>2, <1>4 DEF CallOK, RecordOK, Kept, AnswerOK, CancelledOrAborted, Statuses
  <2>. QED BY <2>1, <2>2, <2>3 DEF Kept
<1>. QED BY <1>3, <1>4, WokenSafe DEF PassSettles

LEMMA PassAnswersSafe ==
  ASSUME IInv, PassEnds \/ PassReturnsWaiting \/ PassFails
  PROVE  IInv'
<1>0. LaneOK
  BY DEF IInv
<1>1. CASE PassEnds
  <2>1. ASSUME NEW d \in Callers, NEW s, CallOK(d, s) /\ s.pc = "observe"
        PROVE  TellOK(s, "settled")
    BY <1>0, <1>1, <2>1 DEF PassEnds, LaneOK, CallOK, RecordOK, Kept, PassWaitOK, AnswerOK,
       CancelledOrAborted, TellOK
  <2>. QED BY <1>1, <2>1, EndPassSafe DEF PassEnds, Answers
<1>2. CASE PassReturnsWaiting
  <2>1. operation.id = drive.op /\ operation.ctl = "running" /\ results[operation.id] = "none"
    BY <1>0, <1>2, NoIdIsNone DEF PassReturnsWaiting, Lives, MayWait, LaneOK, LaneTyped, Active,
       Driven, Passes
  <2>2. ASSUME NEW d \in Callers, NEW s, CallOK(d, s) /\ s.pc = "observe",
               NEW answer \in {"retry", "deferred"}
        PROVE  TellOK(s, answer)
    BY <2>1, <2>2 DEF CallOK, RecordOK, Kept, PassWaitOK, AnswerOK, CancelledOrAborted, TellOK
  <2>3. EndPass("retry") \/ EndPass("deferred")
    BY <1>2 DEF PassReturnsWaiting
  <2>. QED BY <2>2, <2>3, EndPassSafe DEF Answers
<1>3. CASE PassFails
  <2>1. ASSUME NEW d \in Callers, NEW s PROVE TellOK(s, "error")
    BY DEF TellOK
  <2>. QED BY <1>3, <2>1, EndPassSafe DEF PassFails, Answers
<1>. QED BY <1>1, <1>2, <1>3
-----------------------------------------------------------------------------
LEMMA Step == IInv /\ [Next]_vars => IInv'
<1>. SUFFICES ASSUME IInv, [Next]_vars PROVE IInv'
  OBVIOUS
<1>1. ASSUME NEW c \in Callers, Call(c) \/ CallClose(c) \/ Abandon(c) \/ CallStep(c)
      PROVE  IInv'
  <2>1. CASE QuietCall(c)
    BY <2>1, QuietCallSafe
  <2>2. CASE RunAccept(c)
    BY <2>2, AcceptSafe
  <2>3. CASE RunClaim(c)
    BY <2>3, ClaimSafe
  <2>4. CASE RunCancel(c)
    BY <2>4, CancelSafe
  <2>5. CASE RunOwn(c) \/ RefuseCallback(c) \/ EndCallback(c)
    BY <2>5, OwnSafe
  <2>6. CASE FaultCall(c) \/ CallClose(c)
    BY <2>6, FaultSafe
  <2>. QED BY <1>1, <2>1, <2>2, <2>3, <2>4, <2>5, <2>6 DEF CallStep, QuietCall
<1>2. CASE PassStep
  BY <1>2, PassMovesSafe, PassSettlesSafe, PassAnswersSafe DEF PassStep
<1>3. CASE UNCHANGED vars
  BY <1>3 DEF vars, IInv, LaneOK, LaneTyped, Active, Driven, Callbacks, CallOK, RecordOK, Kept,
     OwnIds, PassWaitOK, SleepOK, OwnerOK, AnswerOK, CancelledOrAborted
<1>. QED BY <1>1, <1>2, <1>3 DEF Next

LEMMA InvariantHolds == Spec => []IInv
BY Start, Step, PTL DEF Spec

\* runWhenIdle's callback has the lane to itself: no operation, no pass, not
\* even one that still delivers its last events, and no second callback.
THEOREM IdleCallbackIsExclusive == Spec => []IdleExclusive
<1>1. IInv => IdleExclusive
  BY DEF IInv, LaneOK, CallOK, Kept, OwnerOK, IdleExclusive
<1>. QED BY <1>1, InvariantHolds, PTL

\* Whoever sleeps will be woken: by the pass that is installed, by the next
\* change of an open lane nobody drives, by the callback that owns the lane.
THEOREM WaitersAreWoken == Spec => []NoLostWakeup
<1>1. IInv => NoLostWakeup
  BY DEF IInv, CallOK, Kept, PassWaitOK, SleepOK, NoLostWakeup
<1>. QED BY <1>1, InvariantHolds, PTL

\* "settled" is said of the caller's own operation only.
THEOREM CallsAnswerTheirOwn == Spec => []AnswersItsOwn
<1>1. IInv => AnswersItsOwn
  BY DEF IInv, CallOK, Kept, AnswerOK, AnswersItsOwn
<1>. QED BY <1>1, InvariantHolds, PTL

\* abort() reports success only of an operation that settled as aborted.
THEOREM AbortsSettle == Spec => []AbortMeansSettled
<1>1. IInv => AbortMeansSettled
  BY DEF IInv, CallOK, Kept, AnswerOK, AbortMeansSettled
<1>. QED BY <1>1, InvariantHolds, PTL
-----------------------------------------------------------------------------
(***************************************************************************)
(* close() waits for the idle callback.                                    *)
(***************************************************************************)
CloseOK(r) ==
  r.call = "close" =>
    /\ r.pc \in {"closing", "returned"} /\ harness = "closed"
    /\ r.pc = "returned" => idleOwner = None

ClosedForGood == \A c \in Callers : CloseOK(caller[c])

\* What happens to a record while somebody else moves.
Passive(d) == /\ caller'[d].call = caller[d].call
              /\ caller[d].pc \in {"closing", "returned"} => caller'[d].pc = caller[d].pc
              /\ caller'[d].pc = "queued" <=> caller[d].pc = "queued"

LEMMA PassiveWhenAwake ==
  ASSUME NEW r \in CallRecords, NEW answer \in Answers \ {"none"}
  PROVE  /\ Awake(r).call = r.call /\ Awake(r).pc = r.pc
         /\ Told(Awake(r), answer).call = r.call
         /\ Awake(Told(r, answer)).call = r.call
         /\ r.pc \in {"closing", "returned"} =>
              Told(Awake(r), answer).pc = r.pc /\ Awake(Told(r, answer)).pc = r.pc
         /\ Told(Awake(r), answer).pc = "queued" <=> r.pc = "queued"
         /\ Awake(Told(r, answer)).pc = "queued" <=> r.pc = "queued"
<1>1. Awake(r) \in CallRecords /\ Awake(r).call = r.call /\ Awake(r).pc = r.pc
  BY AwakeKeeps
<1>2. Told(r, answer) \in CallRecords
  BY ToldFields
<1>. QED BY <1>1, <1>2, AwakeKeeps, ToldFields

\* No closed lane is claimed, no closed harness is opened.
LEMMA ClosedStays ==
  ASSUME Next, harness = "closed"
  PROVE  harness' = "closed" /\ (idleOwner = None => idleOwner' = None)
<1>1. ASSUME NEW c \in Callers, Call(c) \/ CallClose(c) \/ Abandon(c) \/ CallStep(c)
      PROVE  harness' = "closed" /\ (idleOwner = None => idleOwner' = None)
  BY <1>1 DEF Call, CallClose, Abandon, CallStep, Submit, WakeUp, RunRefused, RunAccept, RunClaim,
     RunInspect, RunCancel, RunIdle, RunOwn, StartCallback, RefuseCallback, EndCallback,
     ReleaseIdle, Continue, Conclude, FaultCall, CloseReturns, Runs, Open
<1>2. CASE PassStep
  BY <1>2 DEF PassStep, PassWaitsForRetry, RetryTimer, PassSuspends, PassPolls, PassMoves,
     PassSettles, PassEnds, PassReturnsWaiting, PassFails, EndPass
<1>. QED BY <1>1, <1>2 DEF Next

\* A step of one call leaves the others passive; the call itself keeps its
\* name, and only CloseReturns moves a call of close.
LEMMA CallSteps ==
  ASSUME IInv, NEW c \in Callers, Abandon(c) \/ CallStep(c)
  PROVE  /\ \A d \in Callers \ {c} : Passive(d)
         /\ caller'[c].call = caller[c].call
         /\ \/ caller[c].pc \notin {"closing", "returned"}
            \/ caller[c].pc = "closing" /\ caller'[c].pc = "returned" /\ idleOwner' = None
               /\ idleOwner = None
<1>0. caller[c] \in CallRecords /\ Callbacks
  BY DEF IInv, CallOK, RecordOK
<1>1. ASSUME NEW r \in CallRecords, r.call = caller[c].call,
             Alone(c, r) \/ Signalling(c, r) \/ caller' = SealedLane([caller EXCEPT ![c] = r])
      PROVE  (\A d \in Callers \ {c} : Passive(d)) /\ caller'[c].call = caller[c].call
  <2>1. CASE Alone(c, r)
    BY <1>0, <1>1, <2>1 DEF Alone, Callbacks, Passive
  <2>2. CASE Signalling(c, r)
    <3>1. \A d \in Callers : caller'[d] = Awake(IF d = c THEN r ELSE caller[d])
      BY <1>0, <2>2 DEF Signalling, Woken, Callbacks
    <3>2. \A d \in Callers : caller[d] \in CallRecords
      BY DEF IInv, CallOK, RecordOK
    <3>. QED BY <1>1, <3>1, <3>2, AwakeKeeps DEF Passive
  <2>3. CASE caller' = SealedLane([caller EXCEPT ![c] = r])
    <3>1. \A d \in Callers : caller'[d] = Awake(Told(IF d = c THEN r ELSE caller[d], "error"))
      BY <1>0, <2>3 DEF SealedLane, Completed, Woken, Callbacks
    <3>2. \A d \in Callers : caller[d] \in CallRecords
      BY DEF IInv, CallOK, RecordOK
    <3>3. "error" \in Answers \ {"none"}
      BY DEF Answers
    <3>. QED BY <1>1, <3>1, <3>2, <3>3, PassiveWhenAwake DEF Passive
  <2>. QED BY <1>1, <2>1, <2>2, <2>3
<1> DEFINE Same(r) == r \in CallRecords /\ r.call = caller[c].call
<1>2. /\ \A pc \in Points : Same(At(c, pc))
      /\ \A command \in Commands : Same(Then(c, command))
      /\ \A r, id : Same(r) /\ id \in Ids \cup {NoId} => Same([r EXCEPT !.op = id])
      /\ \A r, got : Same(r) /\ got \in Answers => Same([r EXCEPT !.got = got])
  <2>1. \A pc \in Points : Same(At(c, pc))
    BY <1>0 DEF At, CallRecords
  <2>2. \A command \in Commands : Same(Then(c, command))
    BY <1>0 DEF Then, CallRecords, Points
  <2>3. \A r, id : Same(r) /\ id \in Ids \cup {NoId} => Same([r EXCEPT !.op = id])
    BY DEF CallRecords
  <2>4. \A r, got : Same(r) /\ got \in Answers => Same([r EXCEPT !.got = got])
    BY DEF CallRecords
  <2>. QED BY <2>1, <2>2, <2>3, <2>4
<1>3. operation.id \in Ids \cup {NoId} /\ NextId(c) \in Ids
  BY NoIdIsNone, OwnIdsDiffer DEF IInv, LaneOK, LaneTyped, Ops, NextId
<1>4. \E r : Same(r) /\ (Alone(c, r) \/ Signalling(c, r) \/ caller' = SealedLane([caller EXCEPT ![c] = r]))
  <2>1. CASE Submit(c) \/ WakeUp(c) \/ Abandon(c) \/ RunRefused(c) \/ StartCallback(c)
             \/ Conclude(c) \/ CloseReturns(c)
    BY <1>2, <2>1 DEF Submit, WakeUp, Abandon, RunRefused, StartCallback, Conclude, CloseReturns,
       Return, Points
  <2>2. CASE RunIdle(c) \/ RunOwn(c)
    BY <1>2, <2>2 DEF RunIdle, RunOwn, WaitForLane, Return, Points
  <2>3. CASE RunAccept(c)
    BY <1>2, <1>3, <2>3 DEF RunAccept, Return, Points, Commands
  <2>4. CASE RunClaim(c)
    BY <1>2, <2>4 DEF RunClaim, Points, Answers
  <2>5. CASE RunInspect(c) \/ RunCancel(c)
    BY <1>2, <1>3, <2>5 DEF RunInspect, RunCancel, Return, Points, Commands
  <2>6. CASE RefuseCallback(c) \/ EndCallback(c)
    BY <1>2, <2>6 DEF RefuseCallback, EndCallback, ReleaseIdle, Released, Signalling, Return, Points
  <2>7. CASE Continue(c)
    BY <1>2, <2>7 DEF Continue, Commands, Answers
  <2>8. CASE FaultCall(c)
    BY <1>2, <2>8 DEF FaultCall, Return, Points
  <2>. QED BY <2>1, <2>2, <2>3, <2>4, <2>5, <2>6, <2>7, <2>8 DEF CallStep
<1>5. \/ caller[c].pc \notin {"closing", "returned"}
      \/ caller[c].pc = "closing" /\ caller'[c].pc = "returned" /\ idleOwner' = None
         /\ idleOwner = None
  <2>1. CASE CloseReturns(c)
    BY <1>0, <2>1 DEF CloseReturns, OwnerGone, Alone, Return, At, Callbacks, CallRecords
  <2>2. CASE ~CloseReturns(c)
    BY <2>2 DEF CallStep, Submit, WakeUp, Abandon, RunRefused, StartCallback, Conclude,
       RunIdle, RunOwn, RunAccept, RunClaim, RunInspect, RunCancel, RefuseCallback, EndCallback,
       Continue, FaultCall, Runs, Running
  <2>. QED BY <2>1, <2>2
<1>. QED BY <1>1, <1>4, <1>5

LEMMA ClosedStep == IInv /\ ClosedForGood /\ [Next]_vars => ClosedForGood'
<1>. SUFFICES ASSUME IInv, ClosedForGood, Next PROVE ClosedForGood'
  BY DEF ClosedForGood, CloseOK, vars
<1>0. \A d \in Callers : caller[d] \in CallRecords
  BY DEF IInv, CallOK, RecordOK
<1>1. ASSUME NEW d \in Callers, Passive(d) PROVE CloseOK(caller[d])'
  BY <1>1, ClosedStays DEF ClosedForGood, CloseOK, Passive
<1>2. ASSUME NEW c \in Callers, Abandon(c) \/ CallStep(c) PROVE ClosedForGood'
  <2>1. CloseOK(caller[c])'
    BY <1>2, CallSteps, ClosedStays DEF ClosedForGood, CloseOK
  <2>. QED BY <1>1, <1>2, <2>1, CallSteps DEF ClosedForGood
<1>3. ASSUME NEW c \in Callers, Call(c) PROVE ClosedForGood'
  <2>1. PICK call \in Calls \ {"close"} :
          Alone(c, [NewCall EXCEPT !.pc = "submit", !.call = call, !.command = FirstCommand(call)])
    BY <1>3 DEF Call
  <2>2. caller'[c].call = call /\ \A d \in Callers \ {c} : Passive(d)
    BY <2>1 DEF IInv, Callbacks, Alone, Passive, NewCall
  <2>. QED BY <1>1, <2>2 DEF ClosedForGood, CloseOK
<1>4. ASSUME NEW c \in Callers, CallClose(c) PROVE ClosedForGood'
  <2>a. PICK r : r = [NewCall EXCEPT !.call = "close", !.pc = "closing"]
    OBVIOUS
  <2>1. \A d \in Callers : caller'[d] = Awake(Told(IF d = c THEN r ELSE caller[d], "error"))
    BY <1>4, <2>a DEF CallClose, SealedLane, Completed, Woken, IInv, Callbacks
  <2>2. "error" \in Answers \ {"none"}
    BY DEF Answers
  <2>3. \A d \in Callers \ {c} : Passive(d)
    BY <1>0, <2>1, <2>2, PassiveWhenAwake DEF Passive
  <2>4. r.pc = "closing"
    BY <2>a DEF NewCall
  <2>5. caller'[c].pc = "closing" /\ harness' = "closed"
    BY <1>4, <2>1, <2>4 DEF Told, Awake, CallClose
  <2>. QED BY <1>1, <2>3, <2>5 DEF ClosedForGood, CloseOK
<1>5. CASE PassStep
  <2>1. caller' = Woken(caller) \/ \E answer \in Answers \ {"none"} : EndPass(answer)
    BY <1>5 DEF PassStep, PassWaitsForRetry, RetryTimer, PassSuspends, PassPolls, PassMoves,
       PassSettles, PassEnds, PassReturnsWaiting, PassFails, Answers
  <2>2. ASSUME NEW d \in Callers PROVE Passive(d)
    BY <1>0, <2>1, AwakeKeeps, PassiveWhenAwake DEF Passive, EndPass, Completed, Woken
  <2>. QED BY <1>1, <2>2 DEF ClosedForGood
<1>. QED BY <1>2, <1>3, <1>4, <1>5 DEF Next

\* close() resolves only after the idle callback that was running has returned,
\* and none starts afterwards.
THEOREM CloseWaits == Spec => []CloseWaitsForCallback
<1>1. Init => ClosedForGood
  BY DEF Init, ClosedForGood, CloseOK, NewCall
<1>2. IInv /\ ClosedForGood => CloseWaitsForCallback
  BY CallersAssumption DEF CallersAssumption, IInv, CallOK, Kept, OwnerOK, ClosedForGood, CloseOK,
     CloseWaitsForCallback
<1>3. Spec => []ClosedForGood
  BY <1>1, ClosedStep, InvariantHolds, PTL DEF Spec
<1>. QED BY <1>2, <1>3, InvariantHolds, PTL

(***************************************************************************)
(* The mutation line holds every queued caller, and holds it once.         *)
(***************************************************************************)
QueueOK ==
  /\ line \in Seq(Callers)
  /\ \A i, j \in DOMAIN line : line[i] = line[j] => i = j
  /\ \A c \in Callers : caller[c].pc = "queued" <=> \E i \in DOMAIN line : line[i] = c

\* A step of one call is no command, joins the line or runs at its head.
LineStep(c) ==
  \/ line' = line /\ caller[c].pc # "queued" /\ caller'[c].pc # "queued"
  \/ line' = Append(line, c) /\ caller[c].pc # "queued" /\ caller'[c].pc = "queued"
  \/ line # <<>> /\ Head(line) = c /\ line' = Tail(line) /\ caller'[c].pc # "queued"

LEMMA OneMovesOnTheLine ==
  ASSUME IInv, NEW c \in Callers, Abandon(c) \/ CallStep(c)
  PROVE  LineStep(c)
<1>0. caller[c] \in CallRecords /\ Callbacks
  BY DEF IInv, CallOK, RecordOK
<1>1. ASSUME NEW r \in CallRecords,
             Alone(c, r) \/ Signalling(c, r) \/ caller' = SealedLane([caller EXCEPT ![c] = r])
      PROVE  caller'[c].pc = "queued" <=> r.pc = "queued"
  <2>1. CASE Alone(c, r)
    BY <1>0, <2>1 DEF Alone, Callbacks
  <2>2. CASE Signalling(c, r)
    <3>1. caller'[c] = Awake(r)
      BY <1>0, <2>2 DEF Signalling, Woken, Callbacks
    <3>. QED BY <1>1, <3>1, AwakeKeeps
  <2>3. CASE caller' = SealedLane([caller EXCEPT ![c] = r])
    <3>1. caller'[c] = Awake(Told(r, "error"))
      BY <1>0, <2>3 DEF SealedLane, Completed, Woken, Callbacks
    <3>2. "error" \in Answers \ {"none"}
      BY DEF Answers
    <3>. QED BY <1>1, <3>1, <3>2, PassiveWhenAwake
  <2>. QED BY <1>1, <2>1, <2>2, <2>3
<1> DEFINE Leads(r) == r \in CallRecords /\ r.pc # "queued"
<1>2. /\ \A pc \in Points \ {"queued"} : Leads(At(c, pc))
      /\ \A command \in Commands : Leads(Then(c, command))
      /\ \A r, id : Leads(r) /\ id \in Ids \cup {NoId} => Leads([r EXCEPT !.op = id])
      /\ \A r, got : Leads(r) /\ got \in Answers => Leads([r EXCEPT !.got = got])
  <2>1. \A pc \in Points \ {"queued"} : Leads(At(c, pc))
    BY <1>0 DEF At, CallRecords
  <2>2. \A command \in Commands : Leads(Then(c, command))
    BY <1>0 DEF Then, CallRecords, Points
  <2>3. \A r, id : Leads(r) /\ id \in Ids \cup {NoId} => Leads([r EXCEPT !.op = id])
    BY DEF CallRecords
  <2>4. \A r, got : Leads(r) /\ got \in Answers => Leads([r EXCEPT !.got = got])
    BY DEF CallRecords
  <2>. QED BY <2>1, <2>2, <2>3, <2>4
<1>3. operation.id \in Ids \cup {NoId} /\ NextId(c) \in Ids
  BY NoIdIsNone, OwnIdsDiffer DEF IInv, LaneOK, LaneTyped, Ops, NextId
<1> DEFINE Goes == \E r : /\ Leads(r)
                          /\ \/ Alone(c, r) \/ Signalling(c, r)
                             \/ caller' = SealedLane([caller EXCEPT ![c] = r])
<1>4. Goes => caller'[c].pc # "queued"
  BY <1>1
<1>5. ASSUME NEW command, Running(c, command), Goes PROVE LineStep(c)
  BY <1>4, <1>5 DEF Running, LineStep
<1>6. ASSUME line' = line, caller[c].pc # "queued", Goes PROVE LineStep(c)
  BY <1>4, <1>6 DEF LineStep
<1>7. CASE Submit(c)
  <2>1. CASE Alone(c, At(c, "queued")) /\ line' = Append(line, c)
    <3>1. At(c, "queued") \in CallRecords /\ At(c, "queued").pc = "queued"
      BY <1>0 DEF At, CallRecords, Points
    <3>. QED BY <1>1, <1>7, <2>1, <3>1 DEF Submit, LineStep
  <2>2. CASE (Alone(c, Return(c)) \/ Alone(c, At(c, "blocked"))) /\ line' = line
    <3>1. Goes
      BY <1>2, <2>2 DEF Return, Points
    <3>. QED BY <1>6, <1>7, <2>2, <3>1 DEF Submit
  <2>. QED BY <1>7, <2>1, <2>2 DEF Submit
<1>8. CASE WakeUp(c) \/ Abandon(c) \/ StartCallback(c) \/ Conclude(c) \/ CloseReturns(c)
  <2>1. Goes
    BY <1>2, <1>8 DEF WakeUp, Abandon, StartCallback, Conclude, CloseReturns, Return, Points
  <2>. QED BY <1>6, <1>8, <2>1 DEF WakeUp, Abandon, StartCallback, Conclude, CloseReturns
<1>9. CASE RefuseCallback(c) \/ EndCallback(c)
  <2>1. Goes
    BY <1>2, <1>9 DEF RefuseCallback, EndCallback, ReleaseIdle, Released, Signalling, Return, Points
  <2>. QED BY <1>6, <1>9, <2>1 DEF RefuseCallback, EndCallback, ReleaseIdle
<1>10. CASE Continue(c)
  <2>1. Goes
    BY <1>2, <1>10 DEF Continue, Commands, Answers
  <2>. QED BY <1>6, <1>10, <2>1 DEF Continue
<1>11. CASE FaultCall(c)
  <2>1. Goes
    BY <1>2, <1>11 DEF FaultCall, Return, Points
  <2>. QED BY <1>6, <1>11, <2>1 DEF FaultCall
<1>12. CASE RunRefused(c)
  <2>1. Goes
    BY <1>2, <1>12 DEF RunRefused, Return, Points
  <2>. QED BY <1>5, <1>12, <2>1 DEF RunRefused
<1>13. CASE RunIdle(c) \/ RunOwn(c)
  <2>1. Goes
    BY <1>2, <1>13 DEF RunIdle, RunOwn, WaitForLane, Return, Points
  <2>. QED BY <1>5, <1>13, <2>1 DEF RunIdle, RunOwn, Runs
<1>14. CASE RunAccept(c)
  <2>1. Goes
    BY <1>2, <1>3, <1>14 DEF RunAccept, Return, Points, Commands
  <2>. QED BY <1>5, <1>14, <2>1 DEF RunAccept, Runs
<1>15. CASE RunClaim(c)
  <2>1. Goes
    BY <1>2, <1>15 DEF RunClaim, Points, Answers
  <2>. QED BY <1>5, <1>15, <2>1 DEF RunClaim, Runs
<1>16. CASE RunInspect(c) \/ RunCancel(c)
  <2>1. Goes
    BY <1>2, <1>3, <1>16 DEF RunInspect, RunCancel, Return, Points, Commands
  <2>. QED BY <1>5, <1>16, <2>1 DEF RunInspect, RunCancel, Runs
<1>. QED BY <1>7, <1>8, <1>9, <1>10, <1>11, <1>12, <1>13, <1>14, <1>15, <1>16 DEF CallStep

\* Nobody joins or leaves.
LEMMA LineStays ==
  ASSUME QueueOK, line' = line,
         \A d \in Callers : caller'[d].pc = "queued" <=> caller[d].pc = "queued"
  PROVE  QueueOK'
BY DEF QueueOK

LEMMA LineJoined ==
  ASSUME QueueOK, NEW c \in Callers, line' = Append(line, c),
         caller[c].pc # "queued", caller'[c].pc = "queued",
         \A d \in Callers \ {c} : caller'[d].pc = "queued" <=> caller[d].pc = "queued"
  PROVE  QueueOK'
<1>1. /\ line' \in Seq(Callers) /\ Len(line') = Len(line) + 1
      /\ \A i \in 1..Len(line) : line'[i] = line[i]
      /\ line'[Len(line) + 1] = c
  BY AppendProperties DEF QueueOK
<1>2. /\ line \in Seq(Callers) /\ Len(line) \in Nat
      /\ DOMAIN line = 1..Len(line) /\ DOMAIN line' = 1..(Len(line) + 1)
  BY <1>1 DEF QueueOK
<1>3. \A i \in 1..Len(line) : line[i] # c
  BY <1>2 DEF QueueOK
<1>4. \A i, j \in DOMAIN line' : line'[i] = line'[j] => i = j
  BY <1>1, <1>2, <1>3 DEF QueueOK
<1>5. ASSUME NEW d \in Callers
      PROVE  caller'[d].pc = "queued" <=> \E i \in DOMAIN line' : line'[i] = d
  <2>1. (\E i \in DOMAIN line' : line'[i] = d) <=> d = c \/ \E i \in DOMAIN line : line[i] = d
    BY <1>1, <1>2
  <2>. QED BY <2>1 DEF QueueOK
<1>. QED BY <1>1, <1>4, <1>5 DEF QueueOK

LEMMA LineServed ==
  ASSUME QueueOK, NEW c \in Callers, line # <<>>, Head(line) = c, line' = Tail(line),
         caller'[c].pc # "queued",
         \A d \in Callers \ {c} : caller'[d].pc = "queued" <=> caller[d].pc = "queued"
  PROVE  QueueOK'
<1>1. /\ line' \in Seq(Callers) /\ Len(line') = Len(line) - 1
      /\ \A i \in 1..Len(line') : line'[i] = line[i + 1]
  BY HeadTailProperties DEF QueueOK
<1>2. /\ line \in Seq(Callers) /\ Len(line) \in Nat /\ Len(line) > 0 /\ line[1] = c
      /\ DOMAIN line = 1..Len(line) /\ DOMAIN line' = 1..(Len(line) - 1)
  BY <1>1 DEF QueueOK
<1>3. \A i, j \in DOMAIN line' : line'[i] = line'[j] => i = j
  <2>. SUFFICES ASSUME NEW i \in DOMAIN line', NEW j \in DOMAIN line', line'[i] = line'[j]
                PROVE  i = j
    OBVIOUS
  <2>1. i + 1 \in DOMAIN line /\ j + 1 \in DOMAIN line /\ line[i + 1] = line[j + 1]
    BY <1>1, <1>2
  <2>2. i + 1 = j + 1
    BY <2>1 DEF QueueOK
  <2>. QED BY <1>2, <2>2
<1>4. ASSUME NEW d \in Callers
      PROVE  caller'[d].pc = "queued" <=> \E i \in DOMAIN line' : line'[i] = d
  <2>1. CASE d = c
    <3>1. \A i \in DOMAIN line' : line'[i] # c
      <4>. SUFFICES ASSUME NEW i \in DOMAIN line', line'[i] = c PROVE FALSE
        OBVIOUS
      <4>1. i + 1 \in DOMAIN line /\ 1 \in DOMAIN line /\ line[i + 1] = line[1]
        BY <1>1, <1>2
      <4>2. i + 1 = 1
        BY <4>1 DEF QueueOK
      <4>. QED BY <1>2, <4>2
    <3>. QED BY <2>1, <3>1
  <2>2. CASE d # c
    <3>1. ASSUME NEW i \in DOMAIN line, line[i] = d PROVE \E j \in DOMAIN line' : line'[j] = d
      <4>1. i # 1
        BY <1>2, <2>2, <3>1
      <4>2. i - 1 \in DOMAIN line' /\ line'[i - 1] = line[i]
        BY <1>1, <1>2, <4>1
      <4>. QED BY <3>1, <4>2
    <3>2. ASSUME NEW i \in DOMAIN line', line'[i] = d PROVE \E j \in DOMAIN line : line[j] = d
      <4>1. i + 1 \in DOMAIN line /\ line[i + 1] = d
        BY <1>1, <1>2, <3>2
      <4>. QED BY <4>1
    <3>. QED BY <2>2, <3>1, <3>2 DEF QueueOK
  <2>. QED BY <2>1, <2>2
<1>. QED BY <1>1, <1>3, <1>4 DEF QueueOK

LEMMA QueueStep == IInv /\ QueueOK /\ [Next]_vars => QueueOK'
<1>. SUFFICES ASSUME IInv, QueueOK, [Next]_vars PROVE QueueOK'
  OBVIOUS
<1>0. \A d \in Callers : caller[d] \in CallRecords
  BY DEF IInv, CallOK, RecordOK
<1>1. ASSUME NEW c \in Callers, Abandon(c) \/ CallStep(c) PROVE QueueOK'
  <2>1. LineStep(c) /\ \A d \in Callers \ {c} : caller'[d].pc = "queued" <=> caller[d].pc = "queued"
    BY <1>1, OneMovesOnTheLine, CallSteps DEF Passive
  <2>. QED BY <2>1, LineStays, LineJoined, LineServed DEF LineStep
<1>2. ASSUME NEW c \in Callers, Call(c) PROVE QueueOK'
  <2>1. PICK call \in Calls \ {"close"} :
          Alone(c, [NewCall EXCEPT !.pc = "submit", !.call = call, !.command = FirstCommand(call)])
    BY <1>2 DEF Call
  <2>2. \A d \in Callers : caller'[d].pc = "queued" <=> caller[d].pc = "queued"
    BY <1>2, <2>1 DEF Call, IInv, Callbacks, Alone, NewCall
  <2>. QED BY <1>2, <2>2, LineStays DEF Call
<1>3. ASSUME NEW c \in Callers, CallClose(c) PROVE QueueOK'
  <2>a. PICK r : r = [NewCall EXCEPT !.call = "close", !.pc = "closing"]
    OBVIOUS
  <2>1. \A d \in Callers : caller'[d] = Awake(Told(IF d = c THEN r ELSE caller[d], "error"))
    BY <1>3, <2>a DEF CallClose, SealedLane, Completed, Woken, IInv, Callbacks
  <2>2. "error" \in Answers \ {"none"}
    BY DEF Answers
  <2>3. \A d \in Callers \ {c} : caller'[d].pc = "queued" <=> caller[d].pc = "queued"
    BY <1>0, <2>1, <2>2, PassiveWhenAwake
  <2>4. r.pc = "closing"
    BY <2>a DEF NewCall
  <2>5. caller'[c].pc = "closing"
    BY <2>1, <2>4 DEF Told, Awake
  <2>6. \A d \in Callers : caller'[d].pc = "queued" <=> caller[d].pc = "queued"
    BY <1>3, <2>3, <2>5 DEF CallClose
  <2>. QED BY <1>3, <2>6, LineStays DEF CallClose
<1>4. CASE PassStep
  <2>1. caller' = Woken(caller) \/ \E answer \in Answers \ {"none"} : EndPass(answer)
    BY <1>4 DEF PassStep, PassWaitsForRetry, RetryTimer, PassSuspends, PassPolls, PassMoves,
       PassSettles, PassEnds, PassReturnsWaiting, PassFails, Answers
  <2>2. \A d \in Callers : caller'[d].pc = "queued" <=> caller[d].pc = "queued"
    BY <1>0, <2>1, AwakeKeeps, PassiveWhenAwake DEF EndPass, Completed, Woken
  <2>3. line' = line
    BY <1>4 DEF PassStep, PassWaitsForRetry, RetryTimer, PassSuspends, PassPolls, PassMoves,
       PassSettles, PassEnds, PassReturnsWaiting, PassFails, EndPass
  <2>. QED BY <2>2, <2>3, LineStays
<1>5. CASE UNCHANGED vars
  BY <1>5 DEF QueueOK, vars
<1>. QED BY <1>1, <1>2, <1>3, <1>4, <1>5 DEF Next

HarnessOK == harness \in {"open", "closed", "fault"}

LEMMA HarnessStep == HarnessOK /\ [Next]_vars => HarnessOK'
<1>. SUFFICES ASSUME HarnessOK, [Next]_vars PROVE HarnessOK'
  OBVIOUS
<1>1. ASSUME NEW c \in Callers, Call(c) \/ CallClose(c) \/ Abandon(c) \/ CallStep(c)
      PROVE  HarnessOK'
  BY <1>1 DEF HarnessOK, Call, CallClose, Abandon, CallStep, Submit, WakeUp, RunRefused, RunAccept,
     RunClaim, RunInspect, RunCancel, RunIdle, RunOwn, StartCallback, RefuseCallback, EndCallback,
     ReleaseIdle, Continue, Conclude, FaultCall, CloseReturns, Runs, Open
<1>2. CASE PassStep
  BY <1>2 DEF HarnessOK, PassStep, PassWaitsForRetry, RetryTimer, PassSuspends, PassPolls,
     PassMoves, PassSettles, PassEnds, PassReturnsWaiting, PassFails, EndPass
<1>. QED BY <1>1, <1>2 DEF Next, vars, HarnessOK

\* Every variable has its type and the line holds exactly the queued callers,
\* each of them once: no command is lost on the line and none runs twice.
THEOREM TypeCorrect == Spec => [](TypeOK /\ QueueOK)
<1>1. Init => QueueOK /\ HarnessOK
  BY DEF Init, QueueOK, HarnessOK, NewCall
<1>2. IInv /\ QueueOK /\ HarnessOK => TypeOK
  BY DEF IInv, LaneOK, LaneTyped, Callbacks, CallOK, RecordOK, QueueOK, HarnessOK, TypeOK
<1>. QED BY <1>1, <1>2, QueueStep, HarnessStep, InvariantHolds, PTL DEF Spec
=============================================================================
