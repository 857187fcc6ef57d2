----------------------------- MODULE StudioRoom -----------------------------
(***************************************************************************)
(* Room edits of conversations through connected Studios: the broker that  *)
(* routes each request to the Studio of a room (studio-broker.ts), the     *)
(* journal of commands (studio-journal.ts), the Session runtime and the    *)
(* prompt, abort and recovery of a conversation around them                *)
(* (studio-session.ts, studio-tools.ts, decorator-session.ts).  The Studio *)
(* is the companion application behind docs/Studio-Contract.md.            *)
(***************************************************************************)
EXTENDS Naturals, Sequences, FiniteSets

CONSTANTS Sessions,     \* conversations
          Rooms,        \* designs, each open in one Studio tab
          NoRoom,       \* no room attached
          MaxOps,       \* bound: prompts of a conversation
          MaxCommands,  \* bound: room tool calls of a conversation
          MaxReads,     \* bound: context requests of a conversation
          MaxFaults     \* bound: edits by hand, selections, attachments after the
                        \* first, lost connections and lost server processes

ASSUME StudioAssumption ==
  /\ NoRoom \notin Rooms
  /\ {MaxOps, MaxCommands, MaxReads, MaxFaults} \subseteq Nat

VARIABLES
  \* the Studio
  room,     \* saved revision of each design
  saves,    \* history: the commands saved, with the room they changed
  studio,   \* its registration, the sequence it published last, requests seen
  work,     \* requests it has seen and not handled
  \* the broker
  conn,     \* the registered connection of each room
  wire,     \* calls of the Studio under way to the broker
  \* a conversation
  bound,    \* the durable binding
  op,       \* the lane's operation with its admission, whether cancelPrepared is
            \* still due, and (history) whether a restart recovered it
  command,  \* the journal, and what each tool call told the model
  used,     \* tool calls so far
  blocked,  \* the journal refuses mutations of the operation
  plan,     \* room evidence of the current turn
  fresh,    \* evidence of get_room_context for the next turn
  begun,    \* history: room revisions when the last two turns began
  call,     \* the tool or the turn in progress and its pending request
  \* bounds
  reads, faults

studioVars == <<room, saves, studio, work>>
brokerVars == <<conn, wire>>
sessionVars == <<bound, op, command, used, blocked, plan, fresh, begun, call>>
bounds == <<reads, faults>>
vars == <<studioVars, brokerVars, sessionVars, bounds>>

Bindings == Rooms \cup {NoRoom}
Fault == faults < MaxFaults /\ faults' = faults + 1

Commands == 1..MaxCommands
Kinds == {"single", "batch", "add"}

Offline == [gen |-> 0, ready |-> FALSE, seq |-> 0, snap |-> 0]
NoOp == [n |-> 0, open |-> FALSE, room |-> NoRoom, add |-> FALSE, cancelled |-> FALSE, driven |-> FALSE,
         due |-> FALSE, recovered |-> FALSE]
NoEvidence == [ok |-> FALSE, rev |-> 0, n |-> 0]
NoCall == [pc |-> "none", id |-> 0, gen |-> 0]
InTurn == [NoCall EXCEPT !.pc = "turn"]
Unused == [state |-> "none", kind |-> "single", card |-> FALSE, op |-> 0, room |-> NoRoom, rev |-> 0,
           stale |-> FALSE, sent |-> 0, told |-> "none"]

Init ==
  /\ room = [r \in Rooms |-> 1] /\ saves = {}
  /\ studio = [r \in Rooms |-> [gen |-> 0, seq |-> 0, seen |-> {}]]
  /\ work = [r \in Rooms |-> <<>>]
  /\ conn = [r \in Rooms |-> Offline] /\ wire = [r \in Rooms |-> <<>>]
  /\ bound \in [Sessions -> Bindings]
  /\ op = [s \in Sessions |-> NoOp]
  /\ command = [s \in Sessions |-> [c \in Commands |-> Unused]]
  /\ used = [s \in Sessions |-> 0]
  /\ blocked = [s \in Sessions |-> FALSE]
  /\ plan = [s \in Sessions |-> NoEvidence] /\ fresh = [s \in Sessions |-> NoEvidence]
  /\ begun = [s \in Sessions |-> <<0, 0>>]
  /\ call = [s \in Sessions |-> NoCall]
  /\ reads = [s \in Sessions |-> 0] /\ faults = 0
-----------------------------------------------------------------------------
(***************************************************************************)
(* Requests.  A conversation awaits one at a time; the mailbox of a room   *)
(* shows the requests pending on its connection.                           *)
(***************************************************************************)
Reading == {"planning", "refreshing"}
Pending(s) == call[s].pc \in Reading \cup {"waiting"}
Request(s) == [s |-> s, id |-> call[s].id, gen |-> call[s].gen,
               read |-> call[s].pc \in Reading]
Mailbox(r) == {Request(s) : s \in {t \in Sessions :
                  Pending(t) /\ op[t].room = r /\ call[t].gen = conn[r].gen}}

Current(s) == used[s]        \* the command of the tool call in progress
Connected(r) == r \in Rooms /\ conn[r].gen # 0 /\ conn[r].ready

\* settle: the first result of a command stands; an unknown batch blocks the
\* operation.
Settled(c, told, stale) ==
  [c EXCEPT !.state = CASE told = "saved" -> "committed" [] told = "rejected" -> "rejected"
                        [] OTHER -> "unknown",
            !.told = told, !.stale = stale]
BlocksAfter(c, told) == told = "unknown" /\ c.kind = "batch"

\* The tool call of `s` ends with what Studio said.
EndTool(s, told, stale) ==
  /\ command' = [command EXCEPT ![s][Current(s)] = Settled(@, told, stale)]
  /\ call' = [call EXCEPT ![s] = InTurn]
  /\ UNCHANGED <<blocked, plan, fresh>>

\* context(): the evidence a read leaves, if the conversation is still
\* attached to the admitted room.
EndRead(s, rev) ==
  LET found == IF rev # 0 /\ bound[s] = op[s].room
                 THEN [ok |-> TRUE, rev |-> rev, n |-> op[s].n] ELSE NoEvidence
  IN  /\ IF call[s].pc = "planning"
           THEN plan' = [plan EXCEPT ![s] = found] /\ UNCHANGED fresh
           ELSE fresh' = [fresh EXCEPT ![s] = found] /\ UNCHANGED plan
      /\ call' = [call EXCEPT ![s] = InTurn]
      /\ UNCHANGED <<command, blocked>>

\* Requests that end without an answer: to a command its outcome is unknown,
\* to a read there is no context.
GiveUp(S) ==
  LET sent == {s \in S : call[s].pc = "waiting"}
  IN  /\ command' = [s \in Sessions |->
           IF s \in sent THEN [command[s] EXCEPT ![Current(s)] = Settled(@, "unknown", FALSE)]
                         ELSE command[s]]
      /\ blocked' = [s \in Sessions |->
           blocked[s] \/ (s \in sent /\ BlocksAfter(command[s][Current(s)], "unknown"))]
      /\ call' = [s \in Sessions |-> IF s \in S THEN InTurn ELSE call[s]]
      /\ UNCHANGED <<plan, fresh>>
-----------------------------------------------------------------------------
(***************************************************************************)
(* The conversation: attachment, prompt, abort and the end of a drive.     *)
(***************************************************************************)
Bind(s, r) ==
  /\ Fault /\ bound[s] # r
  /\ bound' = [bound EXCEPT ![s] = r]
  /\ UNCHANGED <<studioVars, brokerVars, op, command, used, blocked, plan, fresh, begun,
                 call, reads>>

Revision(r) == IF r \in Rooms THEN room[r] ELSE 0

\* prompt: the binding is pinned before the lane accepts; a busy lane drops
\* the admission again.
Admitted(s, add) ==
  [n |-> op[s].n + 1, open |-> TRUE, room |-> bound[s], add |-> add, cancelled |-> FALSE,
   driven |-> TRUE, due |-> FALSE, recovered |-> FALSE]
Prompt(s, add) ==
  /\ op[s].n < MaxOps /\ ~op[s].open
  /\ op' = [op EXCEPT ![s] = Admitted(s, add)]
  /\ begun' = [begun EXCEPT ![s] = <<Revision(bound[s]), Revision(bound[s])>>]
  /\ UNCHANGED <<studioVars, brokerVars, bound, command, used, blocked, plan, fresh, call,
                 bounds>>

\* The signal reaches what the pass awaits; cancelPrepared follows later, and
\* a lane nobody drives is driven again.
RequestAbort(s) ==
  /\ op[s].open /\ ~op[s].cancelled
  /\ op' = [op EXCEPT ![s].cancelled = TRUE, ![s].due = TRUE, ![s].driven = TRUE]
  /\ GiveUp({t \in {s} : Pending(t)})
  /\ UNCHANGED <<studioVars, brokerVars, bound, used, begun, bounds>>

CancelPrepared(s) ==
  /\ op[s].due
  /\ op' = [op EXCEPT ![s].due = FALSE]
  /\ command' = [command EXCEPT ![s] = [c \in Commands |->
                   IF command[s][c].op = op[s].n /\ command[s][c].state = "prepared"
                     THEN [command[s][c] EXCEPT !.state = "cancelled"] ELSE command[s][c]]]
  /\ UNCHANGED <<studioVars, brokerVars, bound, used, blocked, plan, fresh, begun, call, bounds>>

\* The lane settles the operation; discardAdmission forgets what the journal
\* holds of it in memory.
Forgotten(c) == [c EXCEPT !.state = IF @ = "committed" THEN @ ELSE "gone"]
Finish(s) ==
  /\ op[s].driven /\ ~op[s].due /\ call[s].pc \in {"none", "turn"}
  /\ op' = [op EXCEPT ![s] = [NoOp EXCEPT !.n = op[s].n]]
  /\ command' = [command EXCEPT ![s] = [c \in Commands |->
                   IF command[s][c].op = op[s].n THEN Forgotten(command[s][c])
                                                 ELSE command[s][c]]]
  /\ blocked' = [blocked EXCEPT ![s] = FALSE]
  /\ plan' = [plan EXCEPT ![s] = NoEvidence]
  /\ call' = [call EXCEPT ![s] = NoCall]
  /\ UNCHANGED <<studioVars, brokerVars, bound, used, fresh, begun, bounds>>

\* A drive that fails leaves the operation open and its admission pinned.
DriveFails(s) ==
  /\ op[s].driven /\ ~op[s].cancelled /\ call[s].pc \in {"none", "turn"}
  /\ op' = [op EXCEPT ![s].driven = FALSE]
  /\ call' = [call EXCEPT ![s] = NoCall]
  /\ UNCHANGED <<studioVars, brokerVars, bound, command, used, blocked, plan, fresh, begun,
                 bounds>>

\* The server process is lost.  The next one restores the operation, refuses
\* its room edits, and only then drives it.
Recovered(s) == op[s].open
NotBlocked(s) == FALSE                        \* mutant: recovery only drives
BlockedAfterRestart(s) == Recovered(s)
Crash ==
  /\ Fault
  /\ conn' = [r \in Rooms |-> Offline] /\ wire' = [r \in Rooms |-> <<>>]
  /\ op' = [s \in Sessions |-> [op[s] EXCEPT !.driven = Recovered(s), !.due = FALSE,
                                             !.recovered = Recovered(s)]]
  /\ blocked' = [s \in Sessions |-> BlockedAfterRestart(s)]
  /\ command' = [s \in Sessions |-> [c \in Commands |->
                   IF command[s][c].state = "none" THEN Unused ELSE Forgotten(command[s][c])]]
  /\ plan' = [s \in Sessions |-> NoEvidence] /\ fresh' = [s \in Sessions |-> NoEvidence]
  /\ call' = [s \in Sessions |-> NoCall]
  /\ UNCHANGED <<studioVars, bound, used, begun, reads>>
-----------------------------------------------------------------------------
(***************************************************************************)
(* Evidence: planning context of a generation and get_room_context.        *)
(***************************************************************************)
\* freshContext up to its request; without an attached and connected Studio
\* there is no evidence and no request.
Ask(s, pc) ==
  IF bound[s] = op[s].room /\ Connected(op[s].room) /\ ~op[s].cancelled
    THEN /\ reads[s] < MaxReads
         /\ reads' = [reads EXCEPT ![s] = @ + 1]
         /\ call' = [call EXCEPT ![s] = [pc |-> pc, id |-> reads[s] + 1,
                                         gen |-> conn[op[s].room].gen]]
    ELSE /\ call' = [call EXCEPT ![s] = InTurn]
         /\ UNCHANGED reads

\* A generation plans once, against refreshed evidence if a tool of the turn
\* before left some.
Plan(s) ==
  /\ op[s].driven /\ call[s].pc \in {"none", "turn"}
  /\ begun' = [begun EXCEPT ![s] = <<@[2], Revision(op[s].room)>>]
  /\ fresh' = [fresh EXCEPT ![s] = NoEvidence]
  /\ IF fresh[s].ok /\ fresh[s].n = op[s].n /\ bound[s] = op[s].room
       THEN /\ plan' = [plan EXCEPT ![s] = fresh[s]]
            /\ call' = [call EXCEPT ![s] = InTurn]
            /\ UNCHANGED reads
       ELSE /\ plan' = [plan EXCEPT ![s] = NoEvidence]
            /\ Ask(s, "planning")
  /\ UNCHANGED <<studioVars, brokerVars, bound, op, command, used, blocked, faults>>

\* The calls already generated keep the evidence they were planned with.
Refresh(s) ==
  /\ call[s].pc = "turn" /\ op[s].driven
  /\ fresh' = [fresh EXCEPT ![s] = NoEvidence]
  /\ Ask(s, "refreshing")
  /\ UNCHANGED <<studioVars, brokerVars, bound, op, command, used, blocked, plan, begun,
                 faults>>
-----------------------------------------------------------------------------
(***************************************************************************)
(* A room tool call.                                                       *)
(***************************************************************************)
Ours(s) == {c \in Commands : command[s][c].op = op[s].n /\ command[s][c].state # "gone"}
StaleRejections(s) == Cardinality({c \in Ours(s) : command[s][c].stale})

\* The admitted product was submitted before, unless that is known to have
\* changed nothing.
OnlySaved(s) ==                               \* mutant: an unknown outcome is retried
  \E c \in Ours(s) : command[s][c].kind = "add" /\ command[s][c].state = "committed"
AddSubmitted(s) ==
  \E c \in Ours(s) : command[s][c].kind = "add"
                     /\ command[s][c].state \notin {"rejected", "cancelled"}

\* journal.prepare
MayPrepare(s, kind) ==
  /\ ~blocked[s]
  /\ kind = "batch" => StaleRejections(s) < 3
  /\ kind = "add" /\ op[s].add => ~AddSubmitted(s)

\* Up to the prepared record: the evidence of the turn, the binding and a
\* ready Studio; an invalid call has no effect.
Prepared(s, kind) ==
  [state |-> "prepared", kind |-> kind, card |-> kind = "add" /\ op[s].add, op |-> op[s].n,
   room |-> op[s].room, rev |-> plan[s].rev, stale |-> FALSE, sent |-> 0, told |-> "none"]
Prepare(s, kind) ==
  /\ call[s].pc = "turn" /\ op[s].driven /\ used[s] < MaxCommands
  /\ plan[s].ok /\ bound[s] = op[s].room /\ Connected(op[s].room)
  /\ MayPrepare(s, kind)
  /\ used' = [used EXCEPT ![s] = @ + 1]
  /\ command' = [command EXCEPT ![s][used[s] + 1] = Prepared(s, kind)]
  /\ call' = [call EXCEPT ![s].pc = "prepared"]
  /\ UNCHANGED <<studioVars, brokerVars, bound, op, blocked, plan, fresh, begun, bounds>>

ToolDone(s) == call' = [call EXCEPT ![s] = InTurn]

\* journal.dispatch: from here the outcome is unknown until Studio reports it.
Dispatched == "unknown"
Dispatch(s) ==
  /\ call[s].pc = "prepared"
  /\ LET c == command[s][Current(s)]
         cancel == c.state = "cancelled" \/ op[s].cancelled
     IN  /\ command' = [command EXCEPT ![s][Current(s)] =
                          IF cancel THEN [c EXCEPT !.state = "cancelled", !.told = "cancelled"]
                                    ELSE [c EXCEPT !.state = Dispatched]]
         /\ IF cancel THEN ToolDone(s) ELSE call' = [call EXCEPT ![s].pc = "send"]
  /\ UNCHANGED <<studioVars, brokerVars, bound, op, used, blocked, plan, fresh, begun, bounds>>

\* broker.execute: refused without a connection or after an abort, else shown
\* in the mailbox.
Send(s) ==
  /\ call[s].pc = "send"
  /\ LET r == command[s][Current(s)].room
     IN  IF ~Connected(r) \/ op[s].cancelled
           THEN /\ command' = [command EXCEPT ![s][Current(s)] = Settled(@, "unknown", FALSE)]
                /\ blocked' = [blocked EXCEPT ![s] =
                                 @ \/ BlocksAfter(command[s][Current(s)], "unknown")]
                /\ ToolDone(s)
           ELSE /\ command' = [command EXCEPT ![s][Current(s)].sent = @ + 1]
                /\ call' = [call EXCEPT ![s] = [pc |-> "waiting", id |-> Current(s),
                                                gen |-> conn[r].gen]]
                /\ UNCHANGED blocked
  /\ UNCHANGED <<studioVars, brokerVars, bound, op, used, plan, fresh, begun, bounds>>

\* The timer of a request.
TimesReadsOnly(s) == Pending(s) /\ call[s].pc \in Reading  \* mutant: no timer on a command
Times(s) == Pending(s)
Timeout(s) ==
  /\ Times(s)
  /\ GiveUp({s})
  /\ UNCHANGED <<studioVars, brokerVars, bound, op, used, begun, bounds>>
-----------------------------------------------------------------------------
(***************************************************************************)
(* The Studio.  It answers a command with an error or a rejection only     *)
(* when it has not applied it and will not; calls of one connection arrive *)
(* in the order it makes them, and are lost with the connection.           *)
(***************************************************************************)
Registered(r) == conn[r].gen # 0
Says(r, m) == wire' = IF Registered(r) THEN [wire EXCEPT ![r] = Append(@, m)] ELSE wire
NextSeq(r) == studio[r].seq + 1

\* register: a tab holds one connection.
Register(r) ==
  /\ ~Registered(r)
  /\ LET gen == studio[r].gen + 1
     IN  /\ conn' = [conn EXCEPT ![r] = [Offline EXCEPT !.gen = gen]]
         /\ studio' = [studio EXCEPT ![r] = [gen |-> gen, seq |-> 0, seen |-> {}]]
  /\ UNCHANGED <<room, saves, work, wire, sessionVars, bounds>>

Ready(r) ==
  /\ Registered(r) /\ ~conn[r].ready
  /\ conn' = [conn EXCEPT ![r].ready = TRUE]
  /\ UNCHANGED <<studioVars, wire, sessionVars, bounds>>

\* release: every request waiting on the connection ends.
Disconnect(r) ==
  /\ Fault /\ Registered(r)
  /\ conn' = [conn EXCEPT ![r] = Offline] /\ wire' = [wire EXCEPT ![r] = <<>>]
  /\ GiveUp({s \in Sessions : Pending(s) /\ Request(s) \in Mailbox(r)})
  /\ UNCHANGED <<studioVars, bound, op, used, begun, reads>>

StudioTakes(r) ==
  /\ \E q \in Mailbox(r) \ studio[r].seen :
       /\ work' = [work EXCEPT ![r] = Append(@, q)]
       /\ studio' = [studio EXCEPT ![r].seen = @ \cup {q}]
  /\ UNCHANGED <<room, saves, brokerVars, sessionVars, bounds>>

\* adapter respond: a request of an earlier registration is dropped.
StudioReads(r) ==
  /\ work[r] # <<>> /\ Head(work[r]).read
  /\ work' = [work EXCEPT ![r] = Tail(@)]
  /\ IF Head(work[r]).gen = studio[r].gen
       THEN /\ studio' = [studio EXCEPT ![r].seq = @ + 1]
            /\ Says(r, [type |-> "context", of |-> Head(work[r]), seq |-> NextSeq(r),
                        rev |-> room[r]])
       ELSE UNCHANGED <<studio, wire>>
  /\ UNCHANGED <<room, saves, conn, sessionVars, bounds>>

\* execute: refused when the room is not the planned one; otherwise saved in
\* one revision or refused.  The reply may be lost, and may not match what
\* was asked.
StudioExecutes(r) ==
  /\ work[r] # <<>> /\ ~Head(work[r]).read
  /\ work' = [work EXCEPT ![r] = Tail(@)]
  /\ LET q == Head(work[r])
     IN  IF q.gen = studio[r].gen
           THEN \E told \in IF command[q.s][q.id].rev = room[r] THEN {"saved", "rejected"}
                                                                ELSE {"stale"},
                   reply \in {"sound", "mismatched", "lost"} :
                  /\ reply = "mismatched" => told = "saved"
                  /\ room' = [room EXCEPT ![r] = IF told = "saved" THEN @ + 1 ELSE @]
                  /\ saves' = saves \cup IF told = "saved" THEN {<<q.s, q.id>>} ELSE {}
                  /\ IF reply = "lost" THEN UNCHANGED <<studio, wire>>
                       ELSE /\ studio' = [studio EXCEPT ![r].seq = @ + 1]
                            /\ Says(r, [type |-> IF reply = "sound" THEN told ELSE "mismatch",
                                        of |-> q, seq |-> NextSeq(r), rev |-> room'[r]])
           ELSE UNCHANGED <<room, saves, studio, wire>>
  /\ UNCHANGED <<conn, sessionVars, bounds>>

ManualEdit(r) ==
  /\ Fault
  /\ room' = [room EXCEPT ![r] = @ + 1]
  /\ studio' = [studio EXCEPT ![r].seq = @ + 1]
  /\ Says(r, [type |-> "publish", of |-> 0, seq |-> NextSeq(r), rev |-> room'[r]])
  /\ UNCHANGED <<saves, work, conn, sessionVars, reads>>

Select(r) ==
  /\ Fault
  /\ studio' = [studio EXCEPT ![r].seq = @ + 1]
  /\ Says(r, [type |-> "select", of |-> 0, seq |-> NextSeq(r), rev |-> 0])
  /\ UNCHANGED <<room, saves, work, conn, sessionVars, reads>>
-----------------------------------------------------------------------------
(***************************************************************************)
(* The broker handles a call of the Studio.                                *)
(***************************************************************************)
Waiting(q) == Pending(q.s) /\ Request(q.s) = q

Kept(c, m) == IF c.snap = 0 THEN [c EXCEPT !.seq = m.seq, !.snap = m.rev]
              ELSE [c EXCEPT !.seq = m.seq]   \* mutant: a known scene is enough
\* applyContext: the scene of a later sequence number replaces the earlier.
Applied(c, m) == IF m.seq > c.seq THEN [c EXCEPT !.seq = m.seq, !.snap = m.rev] ELSE c

Selected(c, m) == IF m.seq > c.seq /\ c.snap # 0 THEN [c EXCEPT !.seq = m.seq] ELSE c

HandlePublication(r) ==
  /\ wire[r] # <<>>
  /\ LET m == Head(wire[r])
     IN  /\ m.type \in {"publish", "select"}
         /\ conn' = [conn EXCEPT ![r] = IF m.type = "publish" THEN Applied(@, m)
                                                              ELSE Selected(@, m)]
  /\ wire' = [wire EXCEPT ![r] = Tail(@)]
  /\ UNCHANGED <<studioVars, sessionVars, bounds>>

\* respond: a late reply does not reopen a completed wait.  A reply that does
\* not fit is a save whose outcome is unknown.
MismatchRejected(told) == CASE told = "mismatch" -> "rejected"  \* mutant: no save assumed
                            [] told = "stale" -> "rejected" [] OTHER -> told
Outcome(told) == CASE told = "mismatch" -> "unknown" [] told = "stale" -> "rejected"
                   [] OTHER -> told
HandleReply(r) ==
  /\ wire[r] # <<>>
  /\ LET m == Head(wire[r])
     IN  /\ m.type \notin {"publish", "select"}
         /\ IF ~Waiting(m.of) THEN UNCHANGED <<conn, command, blocked, plan, fresh, call>>
            ELSE LET now == IF m.type = "mismatch" THEN conn[r] ELSE Applied(conn[r], m)
                 IN  /\ conn' = [conn EXCEPT ![r] = now]
                     /\ CASE m.type = "context" -> EndRead(m.of.s, now.snap)
                          [] Outcome(m.type) = "unknown" -> GiveUp({m.of.s})
                          [] OTHER -> EndTool(m.of.s, Outcome(m.type), m.type = "stale")
  /\ wire' = [wire EXCEPT ![r] = Tail(@)]
  /\ UNCHANGED <<studioVars, bound, op, used, begun, bounds>>
-----------------------------------------------------------------------------
Next ==
  \/ \E s \in Sessions :
       \/ \E r \in Bindings : Bind(s, r)
       \/ \E add \in BOOLEAN : Prompt(s, add)
       \/ RequestAbort(s) \/ CancelPrepared(s) \/ Finish(s) \/ DriveFails(s)
       \/ Plan(s) \/ Refresh(s)
       \/ \E kind \in Kinds : Prepare(s, kind)
       \/ Dispatch(s) \/ Send(s) \/ Timeout(s)
  \/ \E r \in Rooms :
       \/ Register(r) \/ Ready(r) \/ Disconnect(r)
       \/ StudioTakes(r) \/ StudioReads(r) \/ StudioExecutes(r)
       \/ ManualEdit(r) \/ Select(r)
       \/ HandlePublication(r) \/ HandleReply(r)
  \/ Crash

Spec == Init /\ [][Next]_vars

\* The server runs what it can run, and its timers fire.
Fairness == \A s \in Sessions : WF_vars(Dispatch(s) \/ Send(s) \/ Timeout(s))
FairSpec == Spec /\ Fairness
-----------------------------------------------------------------------------
TypeOK ==
  /\ room \in [Rooms -> Nat \ {0}] /\ saves \subseteq Sessions \X Commands
  /\ bound \in [Sessions -> Bindings] /\ used \in [Sessions -> 0..MaxCommands]
  /\ blocked \in [Sessions -> BOOLEAN]
  /\ \A s \in Sessions : call[s].pc \in {"none", "turn", "prepared", "send", "waiting"} \cup Reading
  /\ \A s \in Sessions, c \in Commands :
       command[s][c].told \in {"none", "saved", "rejected", "cancelled", "unknown"}

\* What the model is told of an edit is true and stays true: "saved" was
\* saved, and an edit told rejected or cancelled never reaches the room, not
\* from a request that outlived its connection either.
ReportsAreTrue ==
  /\ TypeOK
  /\ \A s \in Sessions, c \in Commands :
       /\ command[s][c].told = "saved" => <<s, c>> \in saves
       /\ command[s][c].told \in {"rejected", "cancelled"} => <<s, c>> \notin saves

\* The product a prompt admits with its card is added to the room at most once
\* by that prompt, whatever replies, connections or server processes are lost.
AdmittedAddOnce ==
  \A s \in Sessions, n \in 1..MaxOps :
    Cardinality({c \in Commands : command[s][c].op = n /\ command[s][c].card
                                  /\ <<s, c>> \in saves}) <= 1

\* An edit is sent once, to the room its prompt was admitted for, and never
\* for an operation that was aborted, was recovered after a restart, or has a
\* batch of unknown outcome.
Sends(s, c) == command[s][c].sent # command'[s][c].sent
SentForALiveRequest ==
  [][\A s \in Sessions, c \in Commands : Sends(s, c) =>
       /\ command'[s][c].sent = 1
       /\ command[s][c].op = op[s].n /\ command[s][c].room = op[s].room
       /\ ~op[s].cancelled /\ ~op[s].recovered
       /\ ~\E d \in Commands : /\ command[s][d].op = op[s].n /\ command[s][d].kind = "batch"
                               /\ command[s][d].told = "unknown"]_vars

\* The room a turn edits by is as new as the beginning of the turn before it,
\* also when a refresh of that turn supplied it and not a request of its own.
EvidenceCurrent ==
  \A s \in Sessions : plan[s].ok => plan[s].rev >= begun[s][1]

\* Every request to Studio ends, though Studio never answers.
ToolCallsReturn ==
  \A s \in Sessions : call[s].pc \in {"prepared", "send", "waiting"} \cup Reading
                        ~> call[s].pc \in {"none", "turn"}
=============================================================================
