--------------------------- MODULE StudioRoomProofs ---------------------------
(***************************************************************************)
(* What a model is told of its room edits, the evidence it edits by and    *)
(* who may still send, for every set of conversations and rooms and every  *)
(* bound.                                                                  *)
(*                                                                         *)
(* The invariant has three parts: the journal of one conversation (`Sess`, *)
(* a predicate of the values of its variables), its evidence (`Evid`), and *)
(* the requests that a room has seen, holds or has answered.               *)
(***************************************************************************)
EXTENDS StudioRoom, FiniteSetTheorems, SequenceTheorems, TLAPS

Tool == {"prepared", "send", "waiting"}
Points == {"none", "turn"} \cup Tool \cup Reading
States == {"none", "prepared", "cancelled", "unknown", "committed", "rejected", "gone"}
Reports == {"none", "saved", "rejected", "cancelled", "unknown"}

OpRecords == [n: Nat, open: BOOLEAN, room: Bindings, add: BOOLEAN, cancelled: BOOLEAN,
              driven: BOOLEAN, due: BOOLEAN, recovered: BOOLEAN]
CommandRecords == [state: States, kind: Kinds, card: BOOLEAN, op: Nat, room: Bindings,
                   rev: Nat, stale: BOOLEAN, sent: {0, 1}, told: Reports]
Journals == [Commands -> CommandRecords]
CallRecords == [pc: Points, id: Nat, gen: Nat]
Evidence == [ok: BOOLEAN, rev: Nat, n: Nat]
Requests == [s: Sessions, id: Nat, gen: Nat, read: BOOLEAN]
Replies == [type: {"context", "saved", "rejected", "stale", "mismatch"}, of: Requests,
            seq: Nat, rev: Nat]
Messages == [type: {"publish", "select"}, of: {0}, seq: Nat, rev: Nat] \cup Replies

Typed ==
  /\ room \in [Rooms -> Nat \ {0}] /\ saves \subseteq Sessions \X Commands
  /\ studio \in [Rooms -> [gen: Nat, seq: Nat, seen: SUBSET Requests]]
  /\ work \in [Rooms -> Seq(Requests)] /\ wire \in [Rooms -> Seq(Messages)]
  /\ conn \in [Rooms -> [gen: Nat, ready: BOOLEAN, seq: Nat, snap: Nat]]
  /\ bound \in [Sessions -> Bindings] /\ op \in [Sessions -> OpRecords]
  /\ command \in [Sessions -> Journals] /\ used \in [Sessions -> 0..MaxCommands]
  /\ blocked \in [Sessions -> BOOLEAN]
  /\ plan \in [Sessions -> Evidence] /\ fresh \in [Sessions -> Evidence]
  /\ begun \in [Sessions -> Nat \X Nat] /\ call \in [Sessions -> CallRecords]
  /\ reads \in [Sessions -> Nat]
-----------------------------------------------------------------------------
(***************************************************************************)
(* The journal of a conversation with operation o, call k, journal J, u    *)
(* tool calls, b for blocked and rd reads.                                 *)
(***************************************************************************)
OpenOK(o, k) ==
  /\ k.pc # "none" \/ o.driven \/ o.recovered => o.open
  /\ o.open => o.n > 0

UnusedOK(J, u) == \A c \in Commands : c > u \/ J[c].state = "none" => J[c] = Unused

\* The tool call in progress belongs to the operation, nobody has been told
\* of it, and it is sent when it waits.
ToolOK(o, k, J, u, b) ==
  k.pc \in Tool =>
    /\ u \in Commands /\ ~b
    /\ J[u].op = o.n /\ J[u].room = o.room /\ J[u].told = "none"
    /\ k.pc = "prepared" => J[u].state \in {"prepared", "cancelled"} /\ J[u].sent = 0
    /\ k.pc = "send" => J[u].state = "unknown" /\ J[u].sent = 0
    /\ k.pc = "waiting" => J[u].state = "unknown" /\ J[u].sent = 1 /\ k.id = u

EntryOK(o, k, c, e, u, b) ==
  /\ e.state = "prepared" => c = u /\ k.pc = "prepared"
  /\ e.state = "rejected" => e.told = "rejected"
  /\ e.state = "cancelled" => e.told = "cancelled" \/ (c = u /\ k.pc = "prepared")
  /\ e.told = "cancelled" => e.sent = 0
  /\ e.op <= o.n
  /\ e.card => e.kind = "add"
  /\ o.open /\ e.op = o.n =>
       /\ ~b => e.state # "gone"
       /\ e.kind = "batch" /\ e.told = "unknown" => b

\* A second card of a prompt is prepared only after the first is known to
\* have changed nothing.
CardsOK(J) ==
  \A c, d \in Commands :
    c < d /\ J[c].card /\ J[d].card /\ J[c].op = J[d].op => J[c].told \in {"rejected", "cancelled"}

Sess(o, k, J, u, b, rd) ==
  /\ OpenOK(o, k) /\ UnusedOK(J, u) /\ ToolOK(o, k, J, u, b) /\ CardsOK(J)
  /\ k.pc \in Reading => k.id <= rd
  /\ o.recovered => b
  /\ \A c \in Commands : EntryOK(o, k, c, J[c], u, b)

SessionOK(s) == Sess(op[s], call[s], command[s], used[s], blocked[s], reads[s])

\* Evidence is as new as the turn that asked for it.
Evid(o, p, f, bg) ==
  /\ bg[1] <= bg[2]
  /\ p.ok => o.open /\ p.rev >= bg[1]
  /\ f.ok => f.n <= o.n /\ (f.n = o.n => f.rev >= bg[2])

EvidenceOK(s) ==
  /\ Evid(op[s], plan[s], fresh[s], begun[s])
  /\ op[s].open => begun[s][2] <= Revision(op[s].room)
-----------------------------------------------------------------------------
(***************************************************************************)
(* Requests.                                                               *)
(***************************************************************************)
\* Whoever waits, waits on the installed connection of its room.
LinkOK(s) ==
  Pending(s) => /\ op[s].room \in Rooms /\ conn[op[s].room].gen # 0
                /\ call[s].gen = conn[op[s].room].gen

\* The conversation awaits this request, of whichever registration.
Awaits(q) == Pending(q.s) /\ call[q.s].id = q.id /\ (q.read <=> call[q.s].pc \in Reading)

SameCommand(p, q) == ~p.read /\ ~q.read /\ p.s = q.s /\ p.id = q.id

Reply(m) == m.type \notin {"publish", "select"}

\* A request the Studio of `r` holds or has answered was sent to it; if it is
\* awaited, it is the one awaited and the Studio does not take it again.
IssuedOK(r, q) ==
  /\ q.read => q.id <= reads[q.s]
  /\ ~q.read => q.id \in Commands /\ command[q.s][q.id].sent = 1 /\ command[q.s][q.id].room = r
  /\ Awaits(q) => Request(q.s) = q /\ q \in studio[r].seen /\ op[q.s].room = r

\* A command the Studio holds was neither saved nor answered.
Undone(r, q) ==
  /\ <<q.s, q.id>> \notin saves /\ command[q.s][q.id].told # "rejected"
  /\ \A i \in DOMAIN wire[r] : Reply(wire[r][i]) => ~SameCommand(wire[r][i].of, q)

WorkOK(r) ==
  /\ \A i \in DOMAIN work[r] :
       IssuedOK(r, work[r][i]) /\ (~work[r][i].read => Undone(r, work[r][i]))
  /\ \A i, j \in DOMAIN work[r] : SameCommand(work[r][i], work[r][j]) => i = j

\* A reply is true, and the room of an awaited context is no older than the
\* turn that asked.
ReplyOK(r, m) ==
  /\ IssuedOK(r, m.of)
  /\ m.type = "context" <=> m.of.read
  /\ m.type = "saved" => <<m.of.s, m.of.id>> \in saves
  /\ m.type \in {"rejected", "stale"} => <<m.of.s, m.of.id>> \notin saves
  /\ m.of.read /\ Awaits(m.of) => m.rev >= begun[m.of.s][2]

WireOK(r) == \A i \in DOMAIN wire[r] : Reply(wire[r][i]) => ReplyOK(r, wire[r][i])

\* The calls of one registration arrive in the order of their numbers.
Between(c, w, last) ==
  /\ c.seq <= last
  /\ \A i \in DOMAIN w : c.seq < w[i].seq /\ w[i].seq <= last
  /\ \A i, j \in DOMAIN w : i < j => w[i].seq < w[j].seq

ChannelOK(r) ==
  /\ conn[r].gen # 0 => conn[r].gen = studio[r].gen
  /\ conn[r].gen = 0 => conn[r] = Offline /\ wire[r] = <<>>
  /\ Between(conn[r], wire[r], studio[r].seq)

\* A saved command was sent, is nowhere reported as refused, and while it is
\* awaited the Studio does not take it again.
SavesOK ==
  \A s \in Sessions, c \in Commands : <<s, c>> \in saves =>
    /\ command[s][c].sent = 1 /\ command[s][c].told # "rejected"
    /\ call[s].pc = "waiting" /\ call[s].id = c => Request(s) \in studio[op[s].room].seen

ToldOK == \A s \in Sessions, c \in Commands : command[s][c].told = "saved" => <<s, c>> \in saves

Talks == \A s \in Sessions : SessionOK(s)
Sees == \A s \in Sessions : EvidenceOK(s)
Links == \A s \in Sessions : LinkOK(s)
Channels == \A r \in Rooms : ChannelOK(r)
Asked == (\A r \in Rooms : WorkOK(r) /\ WireOK(r)) /\ SavesOK /\ ToldOK

IInv == Typed /\ Talks /\ Sees /\ Links /\ Channels /\ Asked
-----------------------------------------------------------------------------
(***************************************************************************)
(* The records of the model.                                               *)
(***************************************************************************)
LEMMA Constants == /\ MaxOps \in Nat /\ MaxCommands \in Nat /\ MaxReads \in Nat /\ MaxFaults \in Nat
                   /\ NoRoom \notin Rooms
BY StudioAssumption DEF StudioAssumption

LEMMA Records ==
  /\ NoOp \in OpRecords /\ ~NoOp.open /\ ~NoOp.driven /\ ~NoOp.recovered /\ NoOp.n = 0
  /\ NoCall \in CallRecords /\ NoCall.pc = "none"
  /\ InTurn \in CallRecords /\ InTurn.pc = "turn"
  /\ Unused \in CommandRecords /\ Unused.state = "none" /\ Unused.told = "none" /\ Unused.sent = 0
  /\ Unused.op = 0 /\ ~Unused.card /\ Unused.kind = "single"
  /\ NoEvidence \in Evidence /\ ~NoEvidence.ok
BY DEF NoOp, OpRecords, Bindings, NoCall, InTurn, CallRecords, Points, Unused, CommandRecords,
   States, Kinds, Reports, NoEvidence, Evidence

\* What the journal keeps of a command that has its outcome.
Outcomes == [saved |-> "committed", rejected |-> "rejected", unknown |-> "unknown"]
IsSettled(r, e, told) ==
  /\ r \in CommandRecords /\ r.told = told /\ r.state = Outcomes[told]
  /\ r.kind = e.kind /\ r.card = e.card /\ r.op = e.op /\ r.room = e.room /\ r.sent = e.sent

LEMMA SettledFields ==
  ASSUME NEW e \in CommandRecords, NEW told \in {"saved", "rejected", "unknown"}, NEW stale \in BOOLEAN
  PROVE  IsSettled(Settled(e, told, stale), e, told)
<1>1. CASE told = "saved"
  BY <1>1 DEF Settled, CommandRecords, States, Reports, IsSettled, Outcomes
<1>2. CASE told = "rejected"
  BY <1>2 DEF Settled, CommandRecords, States, Reports, IsSettled, Outcomes
<1>3. CASE told = "unknown"
  BY <1>3 DEF Settled, CommandRecords, States, Reports, IsSettled, Outcomes
<1>. QED BY <1>1, <1>2, <1>3

LEMMA ForgottenFields ==
  ASSUME NEW e \in CommandRecords
  PROVE  /\ Forgotten(e) \in CommandRecords
         /\ Forgotten(e).told = e.told /\ Forgotten(e).kind = e.kind /\ Forgotten(e).card = e.card
         /\ Forgotten(e).op = e.op /\ Forgotten(e).room = e.room /\ Forgotten(e).sent = e.sent
         /\ Forgotten(e).state \in {"committed", "gone"}
BY DEF Forgotten, CommandRecords, States
-----------------------------------------------------------------------------
(***************************************************************************)
(* The journal, step by step.                                              *)
(***************************************************************************)
\* An operation may be marked, driven or left; a prompt opens the next one.
LEMMA OpMoves ==
  ASSUME NEW o \in OpRecords, NEW k \in CallRecords, NEW J \in Journals, NEW u \in 0..MaxCommands,
         NEW b \in BOOLEAN, NEW rd \in Nat, Sess(o, k, J, u, b, rd), NEW o2 \in OpRecords,
         o2.n = o.n /\ o2.room = o.room /\ o2.open = o.open /\ o2.recovered = o.recovered,
         o2.driven => o.open
  PROVE  Sess(o2, k, J, u, b, rd)
BY DEF Sess, OpenOK, ToolOK, EntryOK

LEMMA PromptMoves ==
  ASSUME NEW o \in OpRecords, NEW k \in CallRecords, NEW J \in Journals, NEW u \in 0..MaxCommands,
         NEW b \in BOOLEAN, NEW rd \in Nat, Sess(o, k, J, u, b, rd), NEW o2 \in OpRecords,
         ~o.open, o2.n = o.n + 1, o2.open, ~o2.recovered
  PROVE  Sess(o2, k, J, u, b, rd)
<1>1. k.pc \notin Tool
  BY DEF Sess, OpenOK, Tool
<1>2. \A c \in Commands : J[c].op # o2.n /\ J[c].op <= o2.n
  BY DEF Sess, EntryOK, Journals, CommandRecords, OpRecords
<1>. QED BY <1>1, <1>2 DEF Sess, OpenOK, ToolOK, EntryOK, OpRecords

\* Between tool calls the conversation plans, reads and refreshes.
LEMMA TurnMoves ==
  ASSUME NEW o \in OpRecords, NEW k \in CallRecords, NEW J \in Journals, NEW u \in 0..MaxCommands,
         NEW b \in BOOLEAN, NEW rd \in Nat, Sess(o, k, J, u, b, rd), NEW k2 \in CallRecords,
         NEW rd2 \in Nat, k.pc \notin Tool, k2.pc \notin Tool, k2.pc # "none" => o.open,
         k2.pc \in Reading => k2.id <= rd2
  PROVE  Sess(o, k2, J, u, b, rd2)
BY DEF Sess, OpenOK, ToolOK, EntryOK, Tool

\* A step of the tool call in progress writes its own entry only.
LEMMA EntryMoves ==
  ASSUME NEW o \in OpRecords, NEW k \in CallRecords, NEW J \in Journals, NEW u \in 0..MaxCommands,
         NEW b \in BOOLEAN, NEW rd \in Nat, Sess(o, k, J, u, b, rd), k.pc \in Tool,
         NEW r \in CommandRecords, NEW J2, J2 = [J EXCEPT ![u] = r],
         r.kind = J[u].kind /\ r.card = J[u].card /\ r.op = J[u].op /\ r.room = J[u].room,
         r.state # "none", NEW k2 \in CallRecords, NEW b2 \in BOOLEAN, b => b2,
         k2.pc \in {"turn"} \cup Tool, EntryOK(o, k2, u, r, u, b2), ToolOK(o, k2, J2, u, b2)
  PROVE  Sess(o, k2, J2, u, b2, rd)
<1>1. u \in Commands /\ J[u].told = "none" /\ o.open
  BY DEF Sess, ToolOK, OpenOK, Tool
<1>2. J2[u] = r /\ (\A c \in Commands : c # u => J2[c] = J[c])
  BY <1>1 DEF Journals
<1>3. UnusedOK(J2, u)
  BY <1>1, <1>2 DEF Sess, UnusedOK, Commands
<1>4. CardsOK(J2)
  BY <1>1, <1>2 DEF Sess, CardsOK
<1>5. \A c \in Commands : EntryOK(o, k2, c, J2[c], u, b2)
  <2>1. ASSUME NEW c \in Commands, c # u PROVE EntryOK(o, k2, c, J2[c], u, b2)
    BY <1>2, <2>1 DEF Sess, EntryOK
  <2>. QED BY <1>2, <2>1
<1>. QED BY <1>1, <1>3, <1>4, <1>5 DEF Sess, OpenOK, Tool, Reading

LEMMA SettleMoves ==
  ASSUME NEW o \in OpRecords, NEW k \in CallRecords, NEW J \in Journals, NEW u \in 0..MaxCommands,
         NEW b \in BOOLEAN, NEW rd \in Nat, Sess(o, k, J, u, b, rd), k.pc \in {"send", "waiting"},
         NEW told \in {"saved", "rejected", "unknown"}, NEW r, IsSettled(r, J[u], told),
         NEW J2, NEW b2 \in BOOLEAN, J2 = [J EXCEPT ![u] = r],
         b2 = b \/ b2 = TRUE, told = "unknown" /\ J[u].kind = "batch" => b2 = TRUE
  PROVE  Sess(o, InTurn, J2, u, b2, rd)
<1>1. u \in Commands /\ J[u] \in CommandRecords /\ k.pc \in Tool /\ J[u].op = o.n
  BY DEF Sess, ToolOK, Tool, Journals
<1>2. /\ r \in CommandRecords /\ r.told = told /\ r.state \in {"committed", "rejected", "unknown"}
      /\ r.state = "rejected" => told = "rejected"
      /\ r.kind = J[u].kind /\ r.card = J[u].card /\ r.op = J[u].op /\ r.room = J[u].room
  BY DEF IsSettled, Outcomes
<1>3. EntryOK(o, k, u, J[u], u, b)
  BY <1>1 DEF Sess
<1>4. EntryOK(o, InTurn, u, r, u, b2)
  BY <1>1, <1>2, <1>3, Records DEF EntryOK
<1>5. ToolOK(o, InTurn, J2, u, b2)
  BY Records DEF ToolOK, Tool
<1>6. InTurn \in CallRecords /\ InTurn.pc \in {"turn"} \cup Tool /\ r.state # "none" /\ (b => b2)
  BY <1>2, Records
<1>7. Sess(o, k, J, u, b, rd) /\ J2 = [J EXCEPT ![u] = r]
  OBVIOUS
<1>. QED BY ONLY <1>1, <1>2, <1>4, <1>5, <1>6, <1>7, EntryMoves, ZenonT(60), o \in OpRecords,
       k \in CallRecords, J \in Journals, u \in 0..MaxCommands, b \in BOOLEAN, rd \in Nat,
       b2 \in BOOLEAN

LEMMA DispatchMoves ==
  ASSUME NEW o \in OpRecords, NEW k \in CallRecords, NEW J \in Journals, NEW u \in 0..MaxCommands,
         NEW b \in BOOLEAN, NEW rd \in Nat, Sess(o, k, J, u, b, rd), k.pc = "prepared",
         NEW r \in CommandRecords, NEW J2, J2 = [J EXCEPT ![u] = r], NEW k2 \in CallRecords,
         r.kind = J[u].kind /\ r.card = J[u].card /\ r.op = J[u].op /\ r.room = J[u].room,
         r.sent = J[u].sent,
         \/ k2.pc = "turn" /\ r.state = "cancelled" /\ r.told = "cancelled"
         \/ k2.pc = "send" /\ r.state = "unknown" /\ r.told = J[u].told
  PROVE  Sess(o, k2, J2, u, b, rd)
<1>1. /\ u \in Commands /\ J[u] \in CommandRecords /\ J[u].told = "none" /\ J[u].sent = 0
      /\ J[u].op = o.n /\ J[u].room = o.room /\ ~b
  BY DEF Sess, ToolOK, Tool, Journals
<1>2. J2[u] = r
  BY <1>1 DEF Journals
<1>3. EntryOK(o, k, u, J[u], u, b)
  BY <1>1 DEF Sess
<1>4. EntryOK(o, k2, u, r, u, b)
  BY <1>1, <1>3 DEF EntryOK
<1>5. ToolOK(o, k2, J2, u, b)
  BY <1>1, <1>2 DEF ToolOK, Tool
<1>6. k.pc \in Tool /\ k2.pc \in {"turn"} \cup Tool /\ r.state # "none" /\ (b => b)
  BY DEF Tool
<1>7. Sess(o, k, J, u, b, rd) /\ J2 = [J EXCEPT ![u] = r]
      /\ r.kind = J[u].kind /\ r.card = J[u].card /\ r.op = J[u].op /\ r.room = J[u].room
  OBVIOUS
<1>. QED BY ONLY <1>4, <1>5, <1>6, <1>7, EntryMoves, ZenonT(60), o \in OpRecords, k \in CallRecords,
       J \in Journals, u \in 0..MaxCommands, b \in BOOLEAN, rd \in Nat, k2 \in CallRecords,
       r \in CommandRecords

LEMMA SendMoves ==
  ASSUME NEW o \in OpRecords, NEW k \in CallRecords, NEW J \in Journals, NEW u \in 0..MaxCommands,
         NEW b \in BOOLEAN, NEW rd \in Nat, Sess(o, k, J, u, b, rd), k.pc = "send",
         NEW r, r = [J[u] EXCEPT !.sent = @ + 1], NEW J2, J2 = [J EXCEPT ![u] = r],
         NEW k2 \in CallRecords, k2.pc = "waiting", k2.id = u
  PROVE  Sess(o, k2, J2, u, b, rd)
<1>1. /\ u \in Commands /\ J[u] \in CommandRecords /\ J[u].told = "none" /\ J[u].sent = 0
      /\ J[u].op = o.n /\ J[u].room = o.room /\ ~b /\ J[u].state = "unknown"
  BY DEF Sess, ToolOK, Tool, Journals
<1>2. J2[u] = r
  BY <1>1 DEF Journals
<1>3. EntryOK(o, k, u, J[u], u, b)
  BY <1>1 DEF Sess
<1>4. /\ r \in CommandRecords /\ r.sent = 1 /\ r.state = "unknown" /\ r.told = "none"
      /\ r.kind = J[u].kind /\ r.card = J[u].card /\ r.op = J[u].op /\ r.room = J[u].room
  BY <1>1 DEF CommandRecords
<1>5. EntryOK(o, k2, u, r, u, b)
  BY <1>1, <1>3, <1>4 DEF EntryOK
<1>6. ToolOK(o, k2, J2, u, b)
  BY <1>1, <1>2, <1>4 DEF ToolOK, Tool
<1>7. k.pc \in Tool /\ k2.pc \in {"turn"} \cup Tool /\ r.state # "none" /\ (b => b)
  BY <1>4 DEF Tool
<1>8. Sess(o, k, J, u, b, rd) /\ J2 = [J EXCEPT ![u] = r]
  OBVIOUS
<1>. QED BY ONLY <1>4, <1>5, <1>6, <1>7, <1>8, EntryMoves, ZenonT(60), o \in OpRecords, k \in CallRecords,
       J \in Journals, u \in 0..MaxCommands, b \in BOOLEAN, rd \in Nat, k2 \in CallRecords

\* A new entry: the first of its prompt's cards, or those before are known to
\* have changed nothing.
LEMMA PrepareMoves ==
  ASSUME NEW o \in OpRecords, NEW k \in CallRecords, NEW J \in Journals, NEW u \in 0..MaxCommands,
         NEW b \in BOOLEAN, NEW rd \in Nat, Sess(o, k, J, u, b, rd), k.pc = "turn", ~b,
         u < MaxCommands, NEW r \in CommandRecords, NEW J2, J2 = [J EXCEPT ![u + 1] = r],
         r.state = "prepared" /\ r.op = o.n /\ r.room = o.room /\ r.sent = 0 /\ r.told = "none",
         r.card => r.kind = "add",
         r.card => \A c \in Commands :
           J[c].op = o.n /\ J[c].state # "gone" /\ J[c].kind = "add" =>
             J[c].state \in {"rejected", "cancelled"},
         NEW k2 \in CallRecords, k2.pc = "prepared"
  PROVE  Sess(o, k2, J2, u + 1, b, rd)
<1>0. o.open /\ u \in Nat /\ u + 1 \in Commands /\ Commands \subseteq Nat /\ u + 1 \in 0..MaxCommands
  BY Constants DEF Sess, OpenOK, Commands
<1>1. J2[u + 1] = r /\ (\A c \in Commands : c # u + 1 => J2[c] = J[c])
  BY <1>0 DEF Journals
<1>2. UnusedOK(J2, u + 1)
  BY <1>0, <1>1 DEF Sess, UnusedOK
<1>3. \A c \in Commands : EntryOK(o, k, c, J[c], u, b)
  BY DEF Sess
<1>4. CardsOK(J2)
  <2>. SUFFICES ASSUME NEW c \in Commands, NEW d \in Commands, c < d, J2[c].card, J2[d].card,
                       J2[c].op = J2[d].op
                PROVE  J2[c].told \in {"rejected", "cancelled"}
    BY DEF CardsOK
  <2>1. CASE d # u + 1
    <3>1. c # u + 1
      <4>1. d > u => ~J[d].card
        BY Records DEF Sess, UnusedOK
      <4>. QED BY <1>0, <1>1, <2>1, <4>1
    <3>. QED BY <1>1, <2>1, <3>1 DEF Sess, CardsOK
  <2>2. CASE d = u + 1
    <3>1. c # u + 1 /\ J2[c] = J[c] /\ J[c].op = o.n /\ J[c].card /\ r.card
      BY <1>0, <1>1, <2>2
    <3>2. J[c].state # "gone" /\ J[c].kind = "add"
      BY <1>0, <1>3, <3>1 DEF EntryOK
    <3>3. J[c].state \in {"rejected", "cancelled"}
      BY <3>1, <3>2
    <3>4. J[c].told \in {"rejected", "cancelled"}
      BY <1>3, <3>3 DEF EntryOK
    <3>. QED BY <3>1, <3>4
  <2>. QED BY <2>1, <2>2
<1>5. \A c \in Commands : EntryOK(o, k2, c, J2[c], u + 1, b)
  <2>1. ASSUME NEW c \in Commands, c # u + 1 PROVE EntryOK(o, k2, c, J2[c], u + 1, b)
    BY <1>1, <1>3, <2>1 DEF EntryOK
  <2>2. EntryOK(o, k2, u + 1, r, u + 1, b)
    BY <1>0 DEF EntryOK, OpRecords
  <2>. QED BY <1>1, <2>1, <2>2
<1>6. ToolOK(o, k2, J2, u + 1, b)
  BY <1>0, <1>1 DEF ToolOK, Tool
<1>. QED BY <1>0, <1>2, <1>4, <1>5, <1>6 DEF Sess, OpenOK, Reading

LEMMA CancelMoves ==
  ASSUME NEW o \in OpRecords, NEW k \in CallRecords, NEW J \in Journals, NEW u \in 0..MaxCommands,
         NEW b \in BOOLEAN, NEW rd \in Nat, Sess(o, k, J, u, b, rd), NEW J2 \in Journals,
         \A c \in Commands :
           J2[c] = IF J[c].op = o.n /\ J[c].state = "prepared"
                     THEN [J[c] EXCEPT !.state = "cancelled"] ELSE J[c]
  PROVE  Sess(o, k, J2, u, b, rd)
<1>1. ASSUME NEW c \in Commands
      PROVE  /\ J2[c].told = J[c].told /\ J2[c].kind = J[c].kind /\ J2[c].card = J[c].card
             /\ J2[c].op = J[c].op /\ J2[c].room = J[c].room /\ J2[c].sent = J[c].sent
             /\ J2[c] = J[c] \/ (J2[c].state = "cancelled" /\ J[c].state = "prepared")
  <2>1. J[c] \in CommandRecords
    BY DEF Journals
  <2>2. CASE J2[c] = J[c]
    BY <2>2
  <2>3. CASE J2[c] = [J[c] EXCEPT !.state = "cancelled"] /\ J[c].state = "prepared"
    BY <2>1, <2>3 DEF CommandRecords
  <2>. QED BY <2>2, <2>3
<1>2. UnusedOK(J2, u)
  <2>1. ASSUME NEW c \in Commands, c > u \/ J2[c].state = "none" PROVE J2[c] = Unused
    BY <1>1, <2>1, Records DEF Sess, UnusedOK
  <2>. QED BY <2>1 DEF UnusedOK
<1>3. CardsOK(J2)
  BY <1>1 DEF Sess, CardsOK
<1>4. \A c \in Commands : EntryOK(o, k, c, J2[c], u, b)
  BY <1>1 DEF Sess, EntryOK
<1>5. ToolOK(o, k, J2, u, b)
  BY <1>1 DEF Sess, ToolOK
<1>. QED BY <1>2, <1>3, <1>4, <1>5 DEF Sess

\* An operation that ends leaves no room edit in memory but the saved ones.
LEMMA FinishMoves ==
  ASSUME NEW o \in OpRecords, NEW k \in CallRecords, NEW J \in Journals, NEW u \in 0..MaxCommands,
         NEW b \in BOOLEAN, NEW rd \in Nat, Sess(o, k, J, u, b, rd), k.pc \notin Tool, o.open,
         NEW J2 \in Journals, NEW o2 \in OpRecords,
         o2.n = o.n /\ ~o2.open /\ ~o2.driven /\ ~o2.recovered,
         \A c \in Commands : J2[c] = IF J[c].op = o.n THEN Forgotten(J[c]) ELSE J[c]
  PROVE  Sess(o2, NoCall, J2, u, FALSE, rd)
<1>1. ASSUME NEW c \in Commands
      PROVE  /\ J2[c].told = J[c].told /\ J2[c].kind = J[c].kind /\ J2[c].card = J[c].card
             /\ J2[c].op = J[c].op /\ J2[c].sent = J[c].sent
             /\ J2[c] = J[c] \/ (J2[c].state \in {"committed", "gone"} /\ J[c].op = o.n)
  <2>1. J[c] \in CommandRecords
    BY DEF Journals
  <2>. QED BY <2>1, ForgottenFields
<1>2. o.n > 0 /\ \A c \in Commands : J[c].state # "prepared" /\ EntryOK(o, k, c, J[c], u, b)
  BY DEF Sess, OpenOK, EntryOK, Tool
<1>3. UnusedOK(J2, u)
  <2>1. ASSUME NEW c \in Commands, c > u \/ J2[c].state = "none" PROVE J2[c] = Unused
    BY <1>1, <1>2, <2>1, Records DEF Sess, UnusedOK
  <2>. QED BY <2>1 DEF UnusedOK
<1>4. CardsOK(J2)
  BY <1>1 DEF Sess, CardsOK
<1>5. \A c \in Commands : EntryOK(o2, NoCall, c, J2[c], u, FALSE)
  BY <1>1, <1>2, Records DEF EntryOK, Tool
<1>. QED BY <1>3, <1>4, <1>5, Records DEF Sess, OpenOK, ToolOK, Tool, Reading

LEMMA CrashMoves ==
  ASSUME NEW o \in OpRecords, NEW k \in CallRecords, NEW J \in Journals, NEW u \in 0..MaxCommands,
         NEW b \in BOOLEAN, NEW rd \in Nat, Sess(o, k, J, u, b, rd),
         NEW J2 \in Journals, NEW o2 \in OpRecords,
         o2.n = o.n /\ o2.open = o.open /\ o2.driven = o.open /\ o2.recovered = o.open,
         \A c \in Commands : J2[c] = IF J[c].state = "none" THEN Unused ELSE Forgotten(J[c])
  PROVE  Sess(o2, NoCall, J2, u, o.open, rd)
<1>1. ASSUME NEW c \in Commands
      PROVE  /\ J2[c].told = J[c].told /\ J2[c].kind = J[c].kind /\ J2[c].card = J[c].card
             /\ J2[c].op = J[c].op /\ J2[c].sent = J[c].sent
             /\ \/ J2[c] = J[c] /\ J[c].state = "none"
                \/ J2[c].state \in {"committed", "gone"} /\ c <= u
  <2>1. J[c] \in CommandRecords /\ c \in Nat /\ u \in Nat
    BY Constants DEF Journals, Commands
  <2>2. CASE J[c].state = "none"
    BY <2>2 DEF Sess, UnusedOK
  <2>3. CASE J[c].state # "none"
    <3>1. c <= u
      BY <2>1, <2>3, Records DEF Sess, UnusedOK
    <3>. QED BY <2>1, <2>3, <3>1, ForgottenFields
  <2>. QED BY <2>2, <2>3
<1>2. \A c \in Commands : EntryOK(o, k, c, J[c], u, b)
  BY DEF Sess
<1>3. UnusedOK(J2, u)
  <2>1. ASSUME NEW c \in Commands, c > u \/ J2[c].state = "none" PROVE J2[c] = Unused
    BY <1>1, <2>1, Constants DEF Sess, UnusedOK, Commands
  <2>. QED BY <2>1 DEF UnusedOK
<1>4. CardsOK(J2)
  BY <1>1 DEF Sess, CardsOK
<1>5. \A c \in Commands : EntryOK(o2, NoCall, c, J2[c], u, o.open)
  BY <1>1, <1>2, Records DEF EntryOK
<1>. QED BY <1>3, <1>4, <1>5, Records DEF Sess, OpenOK, ToolOK, Tool, Reading
-----------------------------------------------------------------------------
(***************************************************************************)
(* What a step of the conversations does to the requests: a request is     *)
(* still awaited, is no longer awaited, or has a number never used before. *)
(***************************************************************************)
Refused(s, c) ==
  /\ <<s, c>> \notin saves
  /\ \A r \in Rooms : \A i \in DOMAIN work[r] :
       ~(~work[r][i].read /\ work[r][i].s = s /\ work[r][i].id = c)

StillWaits(s) == call'[s] = call[s] /\ op'[s].room = op[s].room /\ begun'[s] = begun[s]
NewRead(s) == call'[s].pc \in Reading /\ call'[s].id > reads[s]
NewCommand(s) == /\ call'[s].pc = "waiting" /\ call'[s].id \in Commands
                 /\ command[s][call'[s].id].sent = 0

Moves(s) ==
  /\ reads[s] <= reads'[s]
  /\ \A c \in Commands :
       /\ command[s][c].sent = 1 =>
            command'[s][c].sent = 1 /\ command'[s][c].room = command[s][c].room
       /\ command'[s][c].told = "rejected" => command[s][c].told = "rejected" \/ Refused(s, c)
       /\ command'[s][c].told = "saved" => command[s][c].told = "saved" \/ <<s, c>> \in saves
  /\ call'[s].pc \in Reading \cup {"waiting"} => StillWaits(s) \/ NewRead(s) \/ NewCommand(s)

\* A message leaves the wire or stays on it.
WireShrinks == \A r \in Rooms : \A j \in DOMAIN wire'[r] : \E i \in DOMAIN wire[r] :
                 wire'[r][j] = wire[r][i]

LEMMA IssuedStays ==
  ASSUME Typed, NEW r \in Rooms, NEW q \in Requests, IssuedOK(r, q), Moves(q.s),
         reads'[q.s] \in Nat, studio'[r].seen = studio[r].seen
  PROVE  /\ IssuedOK(r, q)'
         /\ Awaits(q)' => Awaits(q) /\ begun'[q.s] = begun[q.s]
<1>0. q.s \in Sessions /\ q.id \in Nat /\ reads[q.s] \in Nat /\ q.read \in BOOLEAN
  BY DEF Requests, Typed
<1>1. ASSUME Awaits(q)' PROVE StillWaits(q.s)
  <2>1. /\ call'[q.s].pc \in Reading \cup {"waiting"} /\ call'[q.s].id = q.id
        /\ q.read <=> call'[q.s].pc \in Reading
    BY <1>1 DEF Awaits, Pending
  <2>2. ~NewRead(q.s)
    BY <1>0, <2>1 DEF IssuedOK, NewRead
  <2>3. ~NewCommand(q.s)
    BY <1>0, <2>1 DEF IssuedOK, NewCommand, Reading
  <2>. QED BY <2>1, <2>2, <2>3 DEF Moves
<1>2. ASSUME Awaits(q)' PROVE Awaits(q) /\ begun'[q.s] = begun[q.s] /\ op'[q.s].room = op[q.s].room
  BY <1>1, <1>2 DEF Awaits, Pending, StillWaits
<1>3. ASSUME Awaits(q)' PROVE Request(q.s)' = Request(q.s)
  BY <1>1, <1>3 DEF Request, StillWaits
<1>4. q.read => q.id <= reads'[q.s]
  BY <1>0 DEF IssuedOK, Moves
<1>5. ~q.read => /\ q.id \in Commands /\ command'[q.s][q.id].sent = 1
                 /\ command'[q.s][q.id].room = r
  BY DEF IssuedOK, Moves
<1>. QED BY <1>2, <1>3, <1>4, <1>5 DEF IssuedOK

LEMMA AskedStays ==
  ASSUME Typed, Asked, Typed', \A s \in Sessions : Moves(s), WireShrinks,
         UNCHANGED <<saves, studio, work>>
  PROVE  Asked'
<1>1. ASSUME NEW r \in Rooms, NEW q \in Requests, IssuedOK(r, q)
      PROVE  /\ IssuedOK(r, q)' /\ Moves(q.s)
             /\ Awaits(q)' => Awaits(q) /\ begun'[q.s] = begun[q.s]
  <2>1. q.s \in Sessions /\ reads'[q.s] \in Nat
    BY DEF Requests, Typed
  <2>. QED BY <1>1, <2>1, IssuedStays
<1>2. ASSUME NEW r \in Rooms, NEW i \in DOMAIN work[r]
      PROVE  /\ work[r][i] \in Requests
             /\ IssuedOK(r, work[r][i])'
             /\ ~work[r][i].read => Undone(r, work[r][i])'
  <2>1. work[r][i] \in Requests /\ IssuedOK(r, work[r][i])
    BY DEF Typed, Asked, WorkOK
  <2>2. PICK q \in Requests : q = work[r][i] /\ IssuedOK(r, q)
    BY <2>1
  <2>3. ASSUME ~q.read PROVE Undone(r, q)'
    <3>1. Undone(r, q) /\ q.id \in Commands /\ q.s \in Sessions
      BY <2>2, <2>3 DEF Asked, WorkOK, IssuedOK, Requests
    <3>2. ~Refused(q.s, q.id)
      BY <2>2, <2>3 DEF Refused
    <3>3. command'[q.s][q.id].told # "rejected"
      BY <3>1, <3>2 DEF Moves, Undone
    <3>. QED BY <3>1, <3>3 DEF Undone, WireShrinks
  <2>. QED BY <1>1, <2>2, <2>3
<1>3. ASSUME NEW r \in Rooms PROVE WorkOK(r)'
  BY <1>2 DEF Asked, WorkOK
<1>4. ASSUME NEW r \in Rooms PROVE WireOK(r)'
  <2>1. ASSUME NEW j \in DOMAIN wire'[r], Reply(wire'[r][j])
        PROVE  \E i \in DOMAIN wire[r] : wire'[r][j] = wire[r][i] /\ wire[r][i] \in Replies
    BY <2>1 DEF WireShrinks, Typed, Messages, Reply
  <2>2. SUFFICES ASSUME NEW m \in Replies, NEW i \in DOMAIN wire[r], m = wire[r][i]
                 PROVE  ReplyOK(r, m)'
    BY <2>1 DEF WireOK
  <2>3. Reply(m)
    BY DEF Reply, Replies
  <2>4. ReplyOK(r, m) /\ m.of \in Requests
    BY <2>2, <2>3 DEF Asked, WireOK, Replies
  <2>5. IssuedOK(r, m.of)' /\ (Awaits(m.of)' => Awaits(m.of) /\ begun'[m.of.s] = begun[m.of.s])
    BY <1>1, <2>4 DEF ReplyOK
  <2>. QED BY <2>4, <2>5 DEF ReplyOK
<1>5. SavesOK'
  <2>. SUFFICES ASSUME NEW s \in Sessions, NEW c \in Commands, <<s, c>> \in saves
                PROVE  /\ command'[s][c].sent = 1 /\ command'[s][c].told # "rejected"
                       /\ call'[s].pc = "waiting" /\ call'[s].id = c =>
                            Request(s)' \in studio[op'[s].room].seen
    BY DEF SavesOK
  <2>1. /\ command[s][c].sent = 1 /\ command[s][c].told # "rejected" /\ ~Refused(s, c)
        /\ call[s].pc = "waiting" /\ call[s].id = c => Request(s) \in studio[op[s].room].seen
    BY DEF Asked, SavesOK, Refused
  <2>2. command'[s][c].sent = 1 /\ command'[s][c].told # "rejected"
    BY <2>1 DEF Moves
  <2>3. ASSUME call'[s].pc = "waiting", call'[s].id = c
        PROVE  Request(s)' \in studio[op'[s].room].seen
    <3>1. StillWaits(s)
      BY <2>1, <2>3 DEF Moves, NewRead, NewCommand, Reading
    <3>2. Request(s)' = Request(s)
      BY <3>1 DEF Request, StillWaits
    <3>. QED BY <2>1, <2>3, <3>1, <3>2 DEF StillWaits
  <2>. QED BY <2>2, <2>3
<1>6. ToldOK'
  BY DEF Asked, ToldOK, Moves
<1>. QED BY <1>3, <1>4, <1>5, <1>6 DEF Asked
-----------------------------------------------------------------------------
(***************************************************************************)
(* The steps of one conversation.                                          *)
(***************************************************************************)
Rests(s) ==
  /\ op'[s] = op[s] /\ command'[s] = command[s] /\ used'[s] = used[s] /\ blocked'[s] = blocked[s]
  /\ plan'[s] = plan[s] /\ fresh'[s] = fresh[s] /\ begun'[s] = begun[s] /\ call'[s] = call[s]
  /\ reads'[s] = reads[s]

ConversationOK(s) == SessionOK(s) /\ EvidenceOK(s) /\ LinkOK(s)

LEMMA RestsOK ==
  ASSUME IInv, Typed', NEW s \in Sessions, Rests(s),
         \A r \in Rooms : room[r] <= room'[r] /\ (conn'[r].gen = conn[r].gen)
  PROVE  ConversationOK(s)' /\ Moves(s)
<1>1. SessionOK(s) /\ EvidenceOK(s) /\ LinkOK(s)
  BY DEF IInv, Talks, Sees, Links
<1>2. reads[s] \in Nat /\ begun[s] \in Nat \X Nat /\ op[s] \in OpRecords
  BY DEF IInv, Typed
<1>3. \A r \in Rooms : room[r] \in Nat /\ room'[r] \in Nat
  BY DEF IInv, Typed
<1>4. SessionOK(s)'
  BY <1>1 DEF SessionOK, Rests
<1>5. EvidenceOK(s)'
  BY <1>1, <1>2, <1>3 DEF EvidenceOK, Evid, Rests, Revision
<1>6. LinkOK(s)'
  BY <1>1 DEF LinkOK, Rests, Pending
<1>7. Moves(s)
  BY <1>2 DEF Moves, Rests, StillWaits
<1>. QED BY <1>4, <1>5, <1>6, <1>7 DEF ConversationOK

LEMMA ConversationMoves ==
  ASSUME IInv, Typed', NEW s \in Sessions, \A t \in Sessions \ {s} : Rests(t),
         ConversationOK(s)', Moves(s), UNCHANGED <<room, saves, studio, work>>, WireShrinks,
         Channels', \A r \in Rooms : conn'[r].gen = conn[r].gen
  PROVE  IInv'
<1>1. \A r \in Rooms : room[r] <= room'[r]
  BY DEF IInv, Typed
<1>2. \A t \in Sessions : ConversationOK(t)' /\ Moves(t)
  BY <1>1, RestsOK
<1>3. Talks' /\ Sees' /\ Links'
  BY <1>2 DEF ConversationOK, Talks, Sees, Links
<1>4. Asked'
  BY <1>2, AskedStays DEF IInv
<1>. QED BY <1>3, <1>4 DEF IInv

\* Most steps do not touch the rooms and their connections at all.
LEMMA ConversationAlone ==
  ASSUME IInv, Typed', NEW s \in Sessions, \A t \in Sessions \ {s} : Rests(t),
         ConversationOK(s)', Moves(s), UNCHANGED <<studioVars, brokerVars>>
  PROVE  IInv'
<1>1. WireShrinks
  BY DEF WireShrinks, brokerVars
<1>2. Channels'
  BY DEF IInv, Channels, ChannelOK, brokerVars, studioVars
<1>. QED BY <1>1, <1>2, ConversationMoves DEF brokerVars, studioVars

LEMMA Parts ==
  ASSUME IInv, NEW s \in Sessions
  PROVE  /\ Sess(op[s], call[s], command[s], used[s], blocked[s], reads[s])
         /\ EvidenceOK(s) /\ LinkOK(s)
         /\ op[s] \in OpRecords /\ command[s] \in Journals /\ used[s] \in 0..MaxCommands
         /\ blocked[s] \in BOOLEAN /\ plan[s] \in Evidence /\ fresh[s] \in Evidence
         /\ begun[s] \in Nat \X Nat /\ call[s] \in CallRecords /\ reads[s] \in Nat
         /\ bound[s] \in Bindings
BY DEF IInv, Typed, Talks, SessionOK, Sees, Links

LEMMA BindSafe ==
  ASSUME IInv, NEW s \in Sessions, NEW r \in Bindings, Bind(s, r)
  PROVE  IInv'
<1>1. Typed'
  BY DEF IInv, Typed, Bind, studioVars, brokerVars
<1>2. \A t \in Sessions : Rests(t)
  BY DEF Bind, Rests
<1>3. \A q \in Rooms : room[q] <= room'[q] /\ conn'[q].gen = conn[q].gen
  BY DEF Bind, studioVars, brokerVars, IInv, Typed
<1>4. ConversationOK(s)' /\ Moves(s)
  BY <1>1, <1>2, <1>3, RestsOK
<1>. QED BY <1>1, <1>2, <1>4, ConversationAlone DEF Bind

LEMMA PromptSafe ==
  ASSUME IInv, NEW s \in Sessions, NEW add \in BOOLEAN, Prompt(s, add)
  PROVE  IInv'
<1>1. /\ Sess(op[s], call[s], command[s], used[s], blocked[s], reads[s])
      /\ EvidenceOK(s) /\ LinkOK(s)
      /\ op[s] \in OpRecords /\ command[s] \in Journals /\ used[s] \in 0..MaxCommands
      /\ blocked[s] \in BOOLEAN /\ plan[s] \in Evidence /\ fresh[s] \in Evidence
      /\ begun[s] \in Nat \X Nat /\ call[s] \in CallRecords /\ reads[s] \in Nat
      /\ bound[s] \in Bindings
  BY Parts
<1>a. /\ Admitted(s, add) \in OpRecords /\ Admitted(s, add).n = op[s].n + 1
      /\ Admitted(s, add).open /\ Admitted(s, add).room = bound[s] /\ ~Admitted(s, add).recovered
  BY <1>1 DEF OpRecords, Admitted
<1>2. PICK o \in OpRecords : o = Admitted(s, add)
  BY <1>a
<1>3. op' = [op EXCEPT ![s] = o]
  BY <1>2 DEF Prompt
<1>4. Revision(bound[s]) \in Nat
  BY DEF Revision, IInv, Typed
<1>5. Typed'
  BY <1>2, <1>3, <1>4 DEF IInv, Typed, Prompt, studioVars, brokerVars, bounds
<1>6. op'[s] = o /\ begun'[s] = <<Revision(bound[s]), Revision(bound[s])>> /\ ~op[s].open
  BY <1>3 DEF Prompt, IInv, Typed
<1>7. \A t \in Sessions \ {s} : Rests(t)
  BY <1>3 DEF Prompt, Rests, bounds, IInv, Typed
<1>8. call[s].pc = "none" /\ UNCHANGED <<call, command, used, blocked, reads, plan, fresh>>
  BY <1>1, <1>6 DEF Prompt, bounds, Sess, OpenOK
<1>9. SessionOK(s)'
  BY <1>1, <1>a, <1>2, <1>6, <1>8, PromptMoves DEF SessionOK
<1>10. EvidenceOK(s)'
  <2>1. Revision(o.room)' = Revision(bound[s]) /\ op'[s].open
    BY <1>a, <1>2, <1>6 DEF Revision, Prompt, studioVars
  <2>2. ~plan[s].ok /\ (fresh[s].ok => fresh[s].n < o.n)
    BY <1>1, <1>a, <1>2, <1>6 DEF EvidenceOK, Evid, OpRecords, Evidence
  <2>3. begun'[s][1] = Revision(bound[s]) /\ begun'[s][2] = Revision(bound[s])
    BY <1>6
  <2>4. Evid(op'[s], plan'[s], fresh'[s], begun'[s])
    BY <1>1, <1>2, <1>4, <1>6, <1>8, <2>2, <2>3 DEF Evid, OpRecords, Evidence
  <2>. QED BY <1>4, <1>6, <2>1, <2>3, <2>4 DEF EvidenceOK
<1>11. LinkOK(s)' /\ Moves(s)
  BY <1>1, <1>8 DEF LinkOK, Pending, Moves, Reading
<1>. QED BY <1>5, <1>7, <1>9, <1>10, <1>11, ConversationAlone DEF Prompt, ConversationOK

\* What the journal is told changes no request.
Keeps(s) ==
  \A c \in Commands :
    /\ command'[s][c].sent = command[s][c].sent /\ command'[s][c].room = command[s][c].room
    /\ command'[s][c].told \in {command[s][c].told, "unknown", "cancelled"}

LEMMA KeepsMoves ==
  ASSUME IInv, NEW s \in Sessions, Keeps(s), reads[s] <= reads'[s],
         StillWaits(s) \/ call'[s].pc \notin Reading \cup {"waiting"} \/ NewRead(s)
  PROVE  Moves(s)
BY DEF Moves, Keeps

\* The tool call in progress gets its outcome.
LEMMA Settling ==
  ASSUME IInv, NEW s \in Sessions, call[s].pc \in {"send", "waiting"}, call'[s] = InTurn,
         NEW told \in {"saved", "rejected", "unknown"}, NEW r,
         IsSettled(r, command[s][used[s]], told),
         command'[s] = [command[s] EXCEPT ![used[s]] = r], blocked'[s] \in BOOLEAN,
         blocked'[s] = blocked[s] \/ blocked'[s] = TRUE,
         told = "unknown" /\ command[s][used[s]].kind = "batch" => blocked'[s] = TRUE
  PROVE  /\ Sess(op[s], call'[s], command'[s], used[s], blocked'[s], reads[s])
         /\ command'[s] \in Journals
         /\ \A c \in Commands :
              /\ command'[s][c].sent = command[s][c].sent /\ command'[s][c].room = command[s][c].room
              /\ command'[s][c].told = IF c = used[s] THEN told ELSE command[s][c].told
<1>1. /\ Sess(op[s], call[s], command[s], used[s], blocked[s], reads[s])
      /\ op[s] \in OpRecords /\ command[s] \in Journals /\ used[s] \in 0..MaxCommands
      /\ blocked[s] \in BOOLEAN /\ call[s] \in CallRecords /\ reads[s] \in Nat
  BY Parts
<1>2. PICK o, k, J, u, b, rd, J2, b2 :
        /\ o = op[s] /\ k = call[s] /\ J = command[s] /\ u = used[s] /\ b = blocked[s]
        /\ rd = reads[s] /\ J2 = command'[s] /\ b2 = blocked'[s]
  OBVIOUS
<1>3. /\ Sess(o, k, J, u, b, rd) /\ o \in OpRecords /\ k \in CallRecords /\ J \in Journals
      /\ u \in 0..MaxCommands /\ b \in BOOLEAN /\ rd \in Nat /\ b2 \in BOOLEAN
      /\ J2 = [J EXCEPT ![u] = r] /\ IsSettled(r, J[u], told)
      /\ b2 = b \/ b2 = TRUE
      /\ told = "unknown" /\ J[u].kind = "batch" => b2 = TRUE
      /\ k.pc \in {"send", "waiting"}
  BY <1>1, <1>2
<1>4. Sess(o, InTurn, J2, u, b2, rd)
  BY ONLY <1>3, SettleMoves, told \in {"saved", "rejected", "unknown"}, ZenonT(60)
<1>5. u \in Commands /\ r \in CommandRecords /\ r.told = told /\ r.sent = J[u].sent /\ r.room = J[u].room
  BY <1>3 DEF Sess, ToolOK, Tool, IsSettled
<1>6. J2 \in Journals /\ J2[u] = r /\ \A c \in Commands : c # u => J2[c] = J[c]
  BY <1>3, <1>5 DEF Journals
<1>. QED BY <1>2, <1>4, <1>5, <1>6

LEMMA GiveUpEffect ==
  ASSUME IInv, NEW S \in SUBSET Sessions, \A s \in S : Pending(s), GiveUp(S)
  PROVE  /\ command' \in [Sessions -> Journals] /\ blocked' \in [Sessions -> BOOLEAN]
         /\ call' \in [Sessions -> CallRecords] /\ plan' = plan /\ fresh' = fresh
         /\ \A s \in Sessions :
              /\ s \notin S => call'[s] = call[s] /\ command'[s] = command[s] /\ blocked'[s] = blocked[s]
              /\ s \in S => call'[s] = InTurn
              /\ Sess(op[s], call'[s], command'[s], used[s], blocked'[s], reads[s])
              /\ Keeps(s)
<1> DEFINE sent == {s \in S : call[s].pc = "waiting"}
<1>1. /\ command' = [s \in Sessions |->
           IF s \in sent THEN [command[s] EXCEPT ![Current(s)] = Settled(@, "unknown", FALSE)]
                         ELSE command[s]]
      /\ blocked' = [s \in Sessions |->
           blocked[s] \/ (s \in sent /\ BlocksAfter(command[s][Current(s)], "unknown"))]
      /\ call' = [s \in Sessions |-> IF s \in S THEN InTurn ELSE call[s]]
      /\ plan' = plan /\ fresh' = fresh
  BY DEF GiveUp
<1>2. ASSUME NEW s \in Sessions
      PROVE  /\ command'[s] \in Journals /\ blocked'[s] \in BOOLEAN /\ call'[s] \in CallRecords
             /\ s \notin S => call'[s] = call[s] /\ command'[s] = command[s] /\ blocked'[s] = blocked[s]
             /\ s \in S => call'[s] = InTurn
             /\ Sess(op[s], call'[s], command'[s], used[s], blocked'[s], reads[s])
             /\ Keeps(s)
  <2>1. /\ Sess(op[s], call[s], command[s], used[s], blocked[s], reads[s])
        /\ op[s] \in OpRecords /\ command[s] \in Journals /\ used[s] \in 0..MaxCommands
        /\ blocked[s] \in BOOLEAN /\ call[s] \in CallRecords /\ reads[s] \in Nat
    BY Parts
  <2>2. CASE s \notin sent
    <3>1. command'[s] = command[s] /\ (blocked'[s] <=> blocked[s]) /\ blocked'[s] \in BOOLEAN
      BY <1>1, <2>1, <2>2
    <3>2. CASE s \notin S
      <4>1. call'[s] = call[s] /\ blocked'[s] = blocked[s]
        BY <1>1, <2>1, <3>1, <3>2
      <4>. QED BY <2>1, <3>1, <3>2, <4>1 DEF Keeps
    <3>3. CASE s \in S
      <4>1. call[s].pc \in Reading /\ call'[s] = InTurn
        BY <1>1, <2>2, <3>3 DEF Pending
      <4>2. call[s].pc \notin Tool /\ op[s].open
        BY <2>1, <4>1 DEF Sess, OpenOK, Tool, Reading
      <4>3. blocked'[s] = blocked[s]
        BY <2>1, <3>1
      <4>4. Sess(op[s], InTurn, command[s], used[s], blocked[s], reads[s])
        BY <2>1, <4>2, Records, TurnMoves DEF Tool, Reading
      <4>. QED BY <2>1, <3>1, <3>3, <4>1, <4>3, <4>4, Records DEF Keeps
    <3>. QED BY <3>2, <3>3
  <2>3. CASE s \in sent
    <3>1. command[s][used[s]] \in CommandRecords
      BY <2>1, <2>3 DEF Sess, ToolOK, Tool, Journals
    <3>2. PICK told \in {"saved", "rejected", "unknown"} : told = "unknown"
      OBVIOUS
    <3>3. PICK r : r = Settled(command[s][used[s]], told, FALSE)
                   /\ IsSettled(r, command[s][used[s]], told)
      BY <3>1, SettledFields
    <3>4. /\ command'[s] = [command[s] EXCEPT ![used[s]] = r] /\ call'[s] = InTurn
          /\ blocked'[s] \in BOOLEAN
          /\ blocked'[s] = blocked[s] \/ blocked'[s] = TRUE
          /\ told = "unknown" /\ command[s][used[s]].kind = "batch" => blocked'[s] = TRUE
      BY <1>1, <2>1, <2>3, <3>2, <3>3 DEF Current, BlocksAfter
    <3>5. call[s].pc \in {"send", "waiting"}
      BY <2>3
    <3>6. /\ Sess(op[s], call'[s], command'[s], used[s], blocked'[s], reads[s])
          /\ command'[s] \in Journals
          /\ \A c \in Commands :
               /\ command'[s][c].sent = command[s][c].sent /\ command'[s][c].room = command[s][c].room
               /\ command'[s][c].told = IF c = used[s] THEN told ELSE command[s][c].told
      BY ONLY IInv, s \in Sessions, told \in {"saved", "rejected", "unknown"}, <3>3, <3>4, <3>5,
         Settling
    <3>7. Keeps(s)
      BY <3>2, <3>6 DEF Keeps
    <3>. QED BY <2>3, <3>4, <3>6, <3>7, Records
  <2>. QED BY <2>2, <2>3
<1>. QED BY <1>1, <1>2

LEMMA AbortSafe ==
  ASSUME IInv, NEW s \in Sessions, RequestAbort(s)
  PROVE  IInv'
<1>0. op \in [Sessions -> OpRecords] /\ EvidenceOK(s) /\ LinkOK(s)
  BY DEF IInv, Typed, Sees, Links
<1>1. /\ op' \in [Sessions -> OpRecords] /\ (\A t \in Sessions \ {s} : op'[t] = op[t])
      /\ op'[s].n = op[s].n /\ op'[s].room = op[s].room /\ op'[s].open /\ op[s].open
      /\ op'[s].recovered = op[s].recovered
  BY <1>0, ZenonT(60) DEF RequestAbort, OpRecords
<1> DEFINE S == {t \in {s} : Pending(t)}
<1>2. /\ command' \in [Sessions -> Journals] /\ blocked' \in [Sessions -> BOOLEAN]
      /\ call' \in [Sessions -> CallRecords] /\ plan' = plan /\ fresh' = fresh
      /\ \A t \in Sessions :
           /\ t \notin S => call'[t] = call[t] /\ command'[t] = command[t] /\ blocked'[t] = blocked[t]
           /\ t \in S => call'[t] = InTurn
           /\ Sess(op[t], call'[t], command'[t], used[t], blocked'[t], reads[t])
           /\ Keeps(t)
  <2>1. S \in SUBSET Sessions /\ (\A t \in S : Pending(t)) /\ GiveUp(S)
    BY DEF RequestAbort
  <2>. HIDE DEF S
  <2>. QED BY <2>1, GiveUpEffect
<1>3. UNCHANGED <<studioVars, brokerVars, bound, used, begun, bounds>>
  BY DEF RequestAbort
<1>4. Typed'
  BY <1>1, <1>2, <1>3 DEF IInv, Typed, studioVars, brokerVars, bounds
<1>5. \A t \in Sessions \ {s} : Rests(t)
  BY <1>1, <1>2, <1>3 DEF Rests, bounds
<1>6. SessionOK(s)'
  <2>1. Sess(op[s], call'[s], command'[s], used[s], blocked'[s], reads[s]) /\ used[s] \in 0..MaxCommands
        /\ reads[s] \in Nat
    BY <1>2 DEF IInv, Typed
  <2>2. Sess(op'[s], call'[s], command'[s], used[s], blocked'[s], reads[s])
    <3>1. /\ op[s] \in OpRecords /\ op'[s] \in OpRecords /\ op'[s].open = op[s].open
          /\ op'[s].driven => op[s].open
          /\ call'[s] \in CallRecords /\ command'[s] \in Journals /\ blocked'[s] \in BOOLEAN
      BY <1>0, <1>1, <1>2 DEF OpRecords
    <3>. QED BY ONLY <1>1, <2>1, <3>1, OpMoves, ZenonT(60)
  <2>. QED BY <1>3, <2>2 DEF SessionOK, bounds
<1>7. EvidenceOK(s)'
  BY <1>0, <1>1, <1>2, <1>3 DEF EvidenceOK, Evid, Revision, studioVars
<1>8. LinkOK(s)' /\ Moves(s)
  <2>1. call'[s] = call[s] \/ call'[s].pc = "turn"
    BY <1>2, Records
  <2>2. LinkOK(s)'
    BY <1>0, <1>1, <1>3, <2>1 DEF LinkOK, Pending, brokerVars, Reading
  <2>3. reads[s] <= reads'[s]
    BY <1>3 DEF bounds, IInv, Typed
  <2>4. StillWaits(s) \/ call'[s].pc \notin Reading \cup {"waiting"}
    BY <1>1, <1>3, <2>1 DEF StillWaits, Reading
  <2>. QED BY <1>2, <2>2, <2>3, <2>4, KeepsMoves
<1>. QED BY <1>3, <1>4, <1>5, <1>6, <1>7, <1>8, ConversationAlone DEF ConversationOK

LEMMA CancelPreparedSafe ==
  ASSUME IInv, NEW s \in Sessions, CancelPrepared(s)
  PROVE  IInv'
<1>1. /\ Sess(op[s], call[s], command[s], used[s], blocked[s], reads[s])
      /\ op[s] \in OpRecords /\ command[s] \in Journals /\ used[s] \in 0..MaxCommands
      /\ blocked[s] \in BOOLEAN /\ call[s] \in CallRecords /\ reads[s] \in Nat
      /\ EvidenceOK(s) /\ LinkOK(s)
  BY Parts
<1>2. UNCHANGED <<studioVars, brokerVars, bound, used, blocked, plan, fresh, begun, call, bounds>>
  BY DEF CancelPrepared
<1>3. /\ op'[s] \in OpRecords /\ op' = [op EXCEPT ![s] = op'[s]]
      /\ op'[s].n = op[s].n /\ op'[s].room = op[s].room /\ op'[s].open = op[s].open
      /\ op'[s].recovered = op[s].recovered /\ op'[s].driven = op[s].driven
  BY <1>1 DEF CancelPrepared, OpRecords, IInv, Typed
<1>4. /\ \A t \in Sessions \ {s} : command'[t] = command[t]
      /\ \A c \in Commands :
           command'[s][c] = IF command[s][c].op = op[s].n /\ command[s][c].state = "prepared"
                              THEN [command[s][c] EXCEPT !.state = "cancelled"] ELSE command[s][c]
      /\ command' = [command EXCEPT ![s] = command'[s]]
      /\ command'[s] = [c \in Commands |-> command'[s][c]]
  BY DEF CancelPrepared, IInv, Typed
<1>5. ASSUME NEW c \in Commands
      PROVE  /\ command'[s][c] \in CommandRecords /\ command'[s][c].sent = command[s][c].sent
             /\ command'[s][c].room = command[s][c].room /\ command'[s][c].told = command[s][c].told
  <2>1. command[s][c] \in CommandRecords
    BY <1>1 DEF Journals
  <2>2. PICK e \in CommandRecords : e = command[s][c]
    BY <2>1
  <2>3. command'[s][c] \in {e, [e EXCEPT !.state = "cancelled"]}
    BY <1>4, <2>2
  <2>4. [e EXCEPT !.state = "cancelled"] \in CommandRecords
    BY DEF CommandRecords, States
  <2>5. command'[s][c] \in CommandRecords /\ command'[s][c].sent = e.sent
        /\ command'[s][c].room = e.room /\ command'[s][c].told = e.told
    BY <2>3, <2>4 DEF CommandRecords
  <2>. QED BY <2>2, <2>5
<1>6. command'[s] \in Journals
  BY <1>4, <1>5 DEF Journals
<1>7. Typed'
  BY <1>2, <1>3, <1>4, <1>6 DEF IInv, Typed, studioVars, brokerVars, bounds
<1>8. \A t \in Sessions \ {s} : Rests(t)
  BY <1>2, <1>3, <1>4 DEF Rests, bounds, IInv, Typed
<1>9. SessionOK(s)'
  <2>1. Sess(op[s], call[s], command'[s], used[s], blocked[s], reads[s])
    <3>1. PICK o, k, J, u, b, rd, J2 :
            /\ o = op[s] /\ k = call[s] /\ J = command[s] /\ u = used[s] /\ b = blocked[s]
            /\ rd = reads[s] /\ J2 = command'[s]
      OBVIOUS
    <3>2. /\ Sess(o, k, J, u, b, rd) /\ o \in OpRecords /\ k \in CallRecords /\ J \in Journals
          /\ u \in 0..MaxCommands /\ b \in BOOLEAN /\ rd \in Nat /\ J2 \in Journals
          /\ \A c \in Commands :
               J2[c] = IF J[c].op = o.n /\ J[c].state = "prepared"
                         THEN [J[c] EXCEPT !.state = "cancelled"] ELSE J[c]
      BY <1>1, <1>4, <1>6, <3>1
    <3>3. Sess(o, k, J2, u, b, rd)
      BY ONLY <3>2, CancelMoves
    <3>. QED BY <3>1, <3>3
  <2>2. op'[s].driven => op[s].open
    BY <1>1, <1>3 DEF Sess, OpenOK
  <2>3. Sess(op'[s], call[s], command'[s], used[s], blocked[s], reads[s])
    BY ONLY <1>1, <1>3, <1>6, <2>1, <2>2, OpMoves
  <2>. QED BY <1>2, <2>3 DEF SessionOK, bounds
<1>10. EvidenceOK(s)'
  BY <1>1, <1>2, <1>3 DEF EvidenceOK, Evid, Revision, studioVars
<1>11. LinkOK(s)' /\ Moves(s)
  <2>1. LinkOK(s)'
    BY <1>1, <1>2, <1>3 DEF LinkOK, Pending, brokerVars
  <2>2. Keeps(s) /\ reads[s] <= reads'[s] /\ StillWaits(s)
    BY <1>1, <1>2, <1>3, <1>5 DEF Keeps, StillWaits, bounds
  <2>. QED BY <2>1, <2>2, KeepsMoves
<1>. QED BY <1>2, <1>7, <1>8, <1>9, <1>10, <1>11, ConversationAlone DEF ConversationOK

LEMMA ClosedOp ==
  ASSUME NEW n \in Nat
  PROVE  LET o == [NoOp EXCEPT !.n = n]
         IN  o \in OpRecords /\ o.n = n /\ ~o.open /\ ~o.driven /\ ~o.recovered
BY DEF NoOp, OpRecords, Bindings

LEMMA FinishSafe ==
  ASSUME IInv, NEW s \in Sessions, Finish(s)
  PROVE  IInv'
<1>1. /\ Sess(op[s], call[s], command[s], used[s], blocked[s], reads[s])
      /\ op[s] \in OpRecords /\ command[s] \in Journals /\ used[s] \in 0..MaxCommands
      /\ blocked[s] \in BOOLEAN /\ call[s] \in CallRecords /\ reads[s] \in Nat
      /\ EvidenceOK(s) /\ LinkOK(s)
  BY Parts
<1>2. UNCHANGED <<studioVars, brokerVars, bound, used, fresh, begun, bounds>>
  BY DEF Finish
<1>3. PICK o \in OpRecords : /\ o = [NoOp EXCEPT !.n = op[s].n] /\ o.n = op[s].n
                             /\ ~o.open /\ ~o.driven /\ ~o.recovered
  <2>1. op[s].n \in Nat
    BY <1>1 DEF OpRecords
  <2>. QED BY <2>1, ClosedOp
<1>4. /\ op' = [op EXCEPT ![s] = o] /\ blocked' = [blocked EXCEPT ![s] = FALSE]
      /\ plan' = [plan EXCEPT ![s] = NoEvidence] /\ call' = [call EXCEPT ![s] = NoCall]
  BY <1>3 DEF Finish
<1>5. /\ \A c \in Commands :
           command'[s][c] = IF command[s][c].op = op[s].n THEN Forgotten(command[s][c])
                                                          ELSE command[s][c]
      /\ command' = [command EXCEPT ![s] = command'[s]]
      /\ command'[s] = [c \in Commands |-> command'[s][c]]
  BY DEF Finish, IInv, Typed
<1>6. ASSUME NEW c \in Commands
      PROVE  /\ command'[s][c] \in CommandRecords /\ command'[s][c].sent = command[s][c].sent
             /\ command'[s][c].room = command[s][c].room /\ command'[s][c].told = command[s][c].told
  <2>1. command[s][c] \in CommandRecords
    BY <1>1 DEF Journals
  <2>. QED BY <1>5, <2>1, ForgottenFields
<1>7. command'[s] \in Journals
  BY <1>5, <1>6 DEF Journals
<1>8. Typed'
  BY <1>2, <1>4, <1>5, <1>7, Records DEF IInv, Typed, studioVars, brokerVars, bounds
<1>9. \A t \in Sessions \ {s} : Rests(t)
  BY <1>2, <1>4, <1>5 DEF Rests, bounds, IInv, Typed
<1>10. op'[s] = o /\ blocked'[s] = FALSE /\ plan'[s] = NoEvidence /\ call'[s] = NoCall
  BY <1>4 DEF IInv, Typed
<1>11. SessionOK(s)'
  <2>1. call[s].pc \notin Tool /\ op[s].open
    BY <1>1 DEF Finish, Tool, Sess, OpenOK
  <2>2. Sess(o, NoCall, command'[s], used[s], FALSE, reads[s])
    <3>1. PICK q, k, J, u, b, rd, J2 :
            /\ q = op[s] /\ k = call[s] /\ J = command[s] /\ u = used[s] /\ b = blocked[s]
            /\ rd = reads[s] /\ J2 = command'[s]
      OBVIOUS
    <3>2. /\ Sess(q, k, J, u, b, rd) /\ q \in OpRecords /\ k \in CallRecords /\ J \in Journals
          /\ u \in 0..MaxCommands /\ b \in BOOLEAN /\ rd \in Nat /\ J2 \in Journals
          /\ k.pc \notin Tool /\ q.open /\ o.n = q.n /\ ~o.open /\ ~o.driven /\ ~o.recovered
          /\ \A c \in Commands : J2[c] = IF J[c].op = q.n THEN Forgotten(J[c]) ELSE J[c]
      BY <1>1, <1>3, <1>5, <1>7, <2>1, <3>1
    <3>3. Sess(o, NoCall, J2, u, FALSE, rd)
      BY ONLY <3>2, FinishMoves, o \in OpRecords
    <3>. QED BY <3>1, <3>3
  <2>. QED BY <1>2, <1>10, <2>2 DEF SessionOK, bounds
<1>12. EvidenceOK(s)'
  BY <1>1, <1>2, <1>3, <1>10, Records DEF EvidenceOK, Evid
<1>13. LinkOK(s)' /\ Moves(s)
  <2>1. call'[s].pc \notin Reading \cup {"waiting"}
    BY <1>10, Records DEF Reading
  <2>2. Keeps(s) /\ reads[s] <= reads'[s]
    BY <1>1, <1>2, <1>6 DEF Keeps, bounds
  <2>. QED BY <2>1, <2>2, KeepsMoves DEF LinkOK, Pending
<1>. QED BY <1>2, <1>8, <1>9, <1>11, <1>12, <1>13, ConversationAlone DEF ConversationOK

LEMMA DriveFailsSafe ==
  ASSUME IInv, NEW s \in Sessions, DriveFails(s)
  PROVE  IInv'
<1>1. /\ Sess(op[s], call[s], command[s], used[s], blocked[s], reads[s])
      /\ op[s] \in OpRecords /\ command[s] \in Journals /\ used[s] \in 0..MaxCommands
      /\ blocked[s] \in BOOLEAN /\ call[s] \in CallRecords /\ reads[s] \in Nat
      /\ EvidenceOK(s) /\ LinkOK(s)
  BY Parts
<1>2. UNCHANGED <<studioVars, brokerVars, bound, command, used, blocked, plan, fresh, begun, bounds>>
  BY DEF DriveFails
<1>3. /\ op'[s] \in OpRecords /\ op' = [op EXCEPT ![s] = op'[s]]
      /\ op'[s].n = op[s].n /\ op'[s].room = op[s].room /\ op'[s].open = op[s].open
      /\ op'[s].recovered = op[s].recovered /\ ~op'[s].driven
  BY <1>1 DEF DriveFails, OpRecords, IInv, Typed
<1>4. call' = [call EXCEPT ![s] = NoCall] /\ call'[s] = NoCall
  BY DEF DriveFails, IInv, Typed
<1>5. Typed'
  BY <1>2, <1>3, <1>4, Records DEF IInv, Typed, studioVars, brokerVars, bounds
<1>6. \A t \in Sessions \ {s} : Rests(t)
  BY <1>2, <1>3, <1>4 DEF Rests, bounds, IInv, Typed
<1>7. SessionOK(s)'
  <2>1. call[s].pc \notin Tool /\ NoCall.pc \notin Tool /\ NoCall \in CallRecords
        /\ NoCall.pc = "none" /\ NoCall.pc \notin Reading
    BY Records DEF DriveFails, Tool, Reading
  <2>2. Sess(op[s], NoCall, command[s], used[s], blocked[s], reads[s])
    BY ONLY <1>1, <2>1, TurnMoves
  <2>3. Sess(op'[s], NoCall, command[s], used[s], blocked[s], reads[s])
    BY ONLY <1>1, <1>3, <2>1, <2>2, OpMoves
  <2>. QED BY <1>2, <1>4, <2>3 DEF SessionOK, bounds
<1>8. EvidenceOK(s)'
  BY <1>1, <1>2, <1>3 DEF EvidenceOK, Evid, Revision, studioVars
<1>9. LinkOK(s)' /\ Moves(s)
  <2>1. call'[s].pc \notin Reading \cup {"waiting"}
    BY <1>4, Records DEF Reading
  <2>2. Keeps(s) /\ reads[s] <= reads'[s]
    BY <1>1, <1>2 DEF Keeps, bounds
  <2>. QED BY <2>1, <2>2, KeepsMoves DEF LinkOK, Pending
<1>. QED BY <1>2, <1>5, <1>6, <1>7, <1>8, <1>9, ConversationAlone DEF ConversationOK

LEMMA TimeoutSafe ==
  ASSUME IInv, NEW s \in Sessions, Timeout(s)
  PROVE  IInv'
<1>1. UNCHANGED <<studioVars, brokerVars, bound, op, used, begun, bounds>>
  BY DEF Timeout
<1>2. /\ command' \in [Sessions -> Journals] /\ blocked' \in [Sessions -> BOOLEAN]
      /\ call' \in [Sessions -> CallRecords] /\ plan' = plan /\ fresh' = fresh
      /\ \A t \in Sessions :
           /\ t # s => call'[t] = call[t] /\ command'[t] = command[t] /\ blocked'[t] = blocked[t]
           /\ t = s => call'[t] = InTurn
           /\ Sess(op[t], call'[t], command'[t], used[t], blocked'[t], reads[t])
           /\ Keeps(t)
  <2>1. \A t \in {s} : Pending(t)
    BY DEF Timeout, Times
  <2>2. GiveUp({s})
    BY DEF Timeout
  <2>. QED BY <2>1, <2>2, GiveUpEffect
<1>3. Typed'
  BY <1>1, <1>2 DEF IInv, Typed, studioVars, brokerVars, bounds
<1>4. \A t \in Sessions \ {s} : Rests(t)
  BY <1>1, <1>2 DEF Rests, bounds
<1>5. SessionOK(s)' /\ EvidenceOK(s)'
  BY <1>1, <1>2 DEF SessionOK, bounds, IInv, Sees, EvidenceOK, Revision, studioVars
<1>6. call'[s].pc \notin Reading \cup {"waiting"} /\ reads[s] <= reads'[s]
  BY <1>1, <1>2, Records DEF Reading, bounds, IInv, Typed
<1>7. LinkOK(s)' /\ Moves(s)
  BY <1>2, <1>6, KeepsMoves DEF LinkOK, Pending
<1>. QED BY <1>1, <1>3, <1>4, <1>5, <1>7, ConversationAlone DEF ConversationOK

\* A read is asked under a new number on the connection of the room.
Asking(s, pc) ==
  /\ call' = [call EXCEPT ![s] = call'[s]] /\ call'[s] \in CallRecords
  /\ reads' = [reads EXCEPT ![s] = reads'[s]] /\ reads'[s] \in Nat /\ reads[s] <= reads'[s]
  /\ \/ call'[s].pc = "turn"
     \/ /\ call'[s].pc = pc /\ call'[s].id = reads'[s] /\ reads'[s] > reads[s]
        /\ op[s].room \in Rooms /\ conn[op[s].room].gen # 0
        /\ call'[s].gen = conn[op[s].room].gen

LEMMA AskEffect ==
  ASSUME IInv, NEW s \in Sessions, NEW pc \in Reading, Ask(s, pc)
  PROVE  Asking(s, pc)
<1>1. call \in [Sessions -> CallRecords] /\ reads \in [Sessions -> Nat]
      /\ conn \in [Rooms -> [gen: Nat, ready: BOOLEAN, seq: Nat, snap: Nat]]
  BY DEF IInv, Typed
<1>2. CASE call' = [call EXCEPT ![s] = InTurn] /\ UNCHANGED reads
  BY <1>1, <1>2, Records DEF Asking
<1>3. CASE /\ reads' = [reads EXCEPT ![s] = @ + 1] /\ Connected(op[s].room)
           /\ call' = [call EXCEPT ![s] = [pc |-> pc, id |-> reads[s] + 1,
                                           gen |-> conn[op[s].room].gen]]
  <2>1. reads'[s] = reads[s] + 1 /\ reads[s] \in Nat
    BY <1>1, <1>3
  <2>2. op[s].room \in Rooms /\ conn[op[s].room].gen # 0 /\ conn[op[s].room].gen \in Nat
    BY <1>1, <1>3 DEF Connected
  <2>3. call'[s] = [pc |-> pc, id |-> reads[s] + 1, gen |-> conn[op[s].room].gen]
    BY <1>1, <1>3
  <2>4. call'[s] \in CallRecords
    BY <2>1, <2>2, <2>3 DEF CallRecords, Points
  <2>. QED BY <1>1, <1>3, <2>1, <2>2, <2>3, <2>4 DEF Asking
<1>. QED BY <1>2, <1>3 DEF Ask

LEMMA AskingSafe ==
  ASSUME IInv, NEW s \in Sessions, NEW pc \in Reading, Asking(s, pc), call[s].pc \notin Tool,
         op[s].open, UNCHANGED <<op, command, used, blocked, conn>>
  PROVE  SessionOK(s)' /\ LinkOK(s)' /\ Moves(s)
<1>1. /\ Sess(op[s], call[s], command[s], used[s], blocked[s], reads[s])
      /\ op[s] \in OpRecords /\ command[s] \in Journals /\ used[s] \in 0..MaxCommands
      /\ blocked[s] \in BOOLEAN /\ call[s] \in CallRecords /\ reads[s] \in Nat
  BY Parts
<1>2. /\ call'[s] \in CallRecords /\ reads'[s] \in Nat /\ reads[s] <= reads'[s]
      /\ call'[s].pc \notin Tool
      /\ call'[s].pc \in Reading => call'[s].id <= reads'[s]
  BY DEF Asking, Tool, Reading
<1>3. Sess(op[s], call'[s], command[s], used[s], blocked[s], reads'[s])
  BY ONLY <1>1, <1>2, TurnMoves, op[s].open, call[s].pc \notin Tool
<1>4. LinkOK(s)'
  BY DEF LinkOK, Pending, Asking, Reading
<1>5. Moves(s)
  <2>1. Keeps(s)
    BY DEF Keeps
  <2>2. call'[s].pc \notin Reading \cup {"waiting"} \/ NewRead(s)
    BY DEF Asking, NewRead, Reading
  <2>. QED BY <1>2, <2>1, <2>2, KeepsMoves
<1>. QED BY <1>3, <1>4, <1>5 DEF SessionOK

LEMMA PlanSafe ==
  ASSUME IInv, NEW s \in Sessions, Plan(s)
  PROVE  IInv'
<1>1. /\ Sess(op[s], call[s], command[s], used[s], blocked[s], reads[s]) /\ EvidenceOK(s)
      /\ op[s] \in OpRecords /\ call[s] \in CallRecords /\ reads[s] \in Nat
      /\ begun[s] \in Nat \X Nat /\ fresh[s] \in Evidence
  BY Parts
<1>2. UNCHANGED <<studioVars, brokerVars, bound, op, command, used, blocked, faults>>
  BY DEF Plan
<1>3. call[s].pc \notin Tool /\ op[s].open
  BY <1>1 DEF Plan, Tool, Sess, OpenOK
<1>4. Asking(s, "planning")
  <2>1. CASE call' = [call EXCEPT ![s] = InTurn] /\ UNCHANGED reads
    BY <1>1, <2>1, Records DEF Asking, IInv, Typed
  <2>2. CASE Ask(s, "planning")
    BY <2>2, AskEffect DEF Reading
  <2>. QED BY <2>1, <2>2 DEF Plan
<1>5. SessionOK(s)' /\ LinkOK(s)' /\ Moves(s)
  BY <1>2, <1>3, <1>4, AskingSafe DEF Reading, brokerVars
<1>6. /\ begun' = [begun EXCEPT ![s] = <<begun[s][2], Revision(op[s].room)>>]
      /\ fresh' = [fresh EXCEPT ![s] = NoEvidence]
      /\ plan' = [plan EXCEPT ![s] = plan'[s]]
      /\ plan'[s] = NoEvidence \/ (plan'[s] = fresh[s] /\ fresh[s].ok /\ fresh[s].n = op[s].n)
  BY DEF Plan, IInv, Typed
<1>7. Revision(op[s].room) \in Nat /\ Revision(op[s].room)' = Revision(op[s].room)
  BY <1>2 DEF Revision, IInv, Typed, studioVars
<1>8. Typed'
  <2>1. plan'[s] \in Evidence
    BY <1>1, <1>6, Records
  <2>2. PICK pair \in Nat \X Nat : pair = <<begun[s][2], Revision(op[s].room)>>
    BY <1>1, <1>7
  <2>3. begun' \in [Sessions -> Nat \X Nat]
    BY <1>6, <2>2 DEF IInv, Typed
  <2>4. /\ plan' \in [Sessions -> Evidence] /\ fresh' \in [Sessions -> Evidence]
        /\ call' \in [Sessions -> CallRecords] /\ reads' \in [Sessions -> Nat]
    BY <1>4, <1>6, <2>1, Records DEF IInv, Typed, Asking
  <2>. QED BY <1>2, <2>3, <2>4 DEF IInv, Typed, studioVars, brokerVars
<1>9. \A t \in Sessions \ {s} : Rests(t)
  BY <1>2, <1>4, <1>6 DEF Rests, Asking, IInv, Typed
<1>10. EvidenceOK(s)'
  <2>1. begun'[s][1] = begun[s][2] /\ begun'[s][2] = Revision(op[s].room) /\ fresh'[s] = NoEvidence
    BY <1>6 DEF IInv, Typed
  <2>2. Evid(op[s], plan'[s], fresh'[s], begun'[s])
    BY <1>1, <1>3, <1>6, <2>1, Records DEF EvidenceOK, Evid, Evidence
  <2>. QED BY <1>2, <1>7, <2>1, <2>2 DEF EvidenceOK
<1>. QED BY <1>2, <1>5, <1>8, <1>9, <1>10, ConversationAlone DEF ConversationOK

LEMMA RefreshSafe ==
  ASSUME IInv, NEW s \in Sessions, Refresh(s)
  PROVE  IInv'
<1>1. /\ Sess(op[s], call[s], command[s], used[s], blocked[s], reads[s]) /\ EvidenceOK(s)
  BY Parts
<1>2. UNCHANGED <<studioVars, brokerVars, bound, op, command, used, blocked, plan, begun, faults>>
  BY DEF Refresh
<1>3. call[s].pc \notin Tool /\ op[s].open
  BY <1>1 DEF Refresh, Tool, Sess, OpenOK
<1>4. Asking(s, "refreshing")
  BY AskEffect DEF Reading, Refresh
<1>5. SessionOK(s)' /\ LinkOK(s)' /\ Moves(s)
  BY <1>2, <1>3, <1>4, AskingSafe DEF Reading, brokerVars
<1>6. fresh' = [fresh EXCEPT ![s] = NoEvidence]
  BY DEF Refresh
<1>7. Typed'
  BY <1>2, <1>4, <1>6, Records DEF IInv, Typed, Asking, studioVars, brokerVars
<1>8. \A t \in Sessions \ {s} : Rests(t)
  BY <1>2, <1>4, <1>6 DEF Rests, Asking, IInv, Typed
<1>9. EvidenceOK(s)'
  <2>1. fresh'[s] = NoEvidence
    BY <1>6 DEF IInv, Typed
  <2>. QED BY <1>1, <1>2, <2>1, Records DEF EvidenceOK, Evid, Revision, studioVars
<1>. QED BY <1>2, <1>5, <1>7, <1>8, <1>9, ConversationAlone DEF ConversationOK

\* The parts of the state only a step of the tool call changes.
LEMMA ToolTyped ==
  ASSUME IInv, NEW s \in Sessions, NEW J2 \in Journals, NEW k2 \in CallRecords,
         NEW b2 \in BOOLEAN, NEW u2 \in 0..MaxCommands,
         command' = [command EXCEPT ![s] = J2], call' = [call EXCEPT ![s] = k2],
         blocked' = [blocked EXCEPT ![s] = b2], used' = [used EXCEPT ![s] = u2],
         UNCHANGED <<studioVars, brokerVars, bound, op, plan, fresh, begun, bounds>>
  PROVE  /\ Typed' /\ EvidenceOK(s)' /\ \A t \in Sessions \ {s} : Rests(t)
         /\ command'[s] = J2 /\ call'[s] = k2 /\ blocked'[s] = b2 /\ used'[s] = u2
<1>1. Typed'
  BY DEF IInv, Typed, studioVars, brokerVars, bounds
<1>2. EvidenceOK(s)'
  BY Parts DEF EvidenceOK, Revision, studioVars
<1>3. \A t \in Sessions \ {s} : Rests(t)
  BY DEF Rests, bounds, IInv, Typed
<1>. QED BY <1>1, <1>2, <1>3 DEF IInv, Typed

LEMMA PrepareSafe ==
  ASSUME IInv, NEW s \in Sessions, NEW kind \in Kinds, Prepare(s, kind)
  PROVE  IInv'
<1>1. /\ Sess(op[s], call[s], command[s], used[s], blocked[s], reads[s])
      /\ op[s] \in OpRecords /\ command[s] \in Journals /\ used[s] \in 0..MaxCommands
      /\ blocked[s] \in BOOLEAN /\ call[s] \in CallRecords /\ reads[s] \in Nat
      /\ plan[s] \in Evidence
  BY Parts
<1>2. UNCHANGED <<studioVars, brokerVars, bound, op, blocked, plan, fresh, begun, bounds>>
  BY DEF Prepare
<1>3. /\ Prepared(s, kind) \in CommandRecords /\ Prepared(s, kind).state = "prepared"
      /\ Prepared(s, kind).op = op[s].n /\ Prepared(s, kind).room = op[s].room
      /\ Prepared(s, kind).sent = 0 /\ Prepared(s, kind).told = "none"
      /\ Prepared(s, kind).card => kind = "add" /\ op[s].add
      /\ Prepared(s, kind).kind = kind
  BY <1>1 DEF Prepared, CommandRecords, States, Reports, OpRecords, Evidence
<1>4. PICK o, k, J, u, b, rd, r, k2, J2 :
        /\ o = op[s] /\ k = call[s] /\ J = command[s] /\ u = used[s] /\ b = blocked[s]
        /\ rd = reads[s] /\ r = Prepared(s, kind) /\ k2 = [call[s] EXCEPT !.pc = "prepared"]
        /\ J2 = [J EXCEPT ![u + 1] = r]
  OBVIOUS
<1>5. \A c \in Commands : r.card /\ J[c].op = o.n /\ J[c].state # "gone" /\ J[c].kind = "add" =>
        J[c].state \in {"rejected", "cancelled"}
  BY <1>3, <1>4 DEF Prepare, MayPrepare, AddSubmitted, Ours
<1>6. /\ Sess(o, k, J, u, b, rd) /\ o \in OpRecords /\ k \in CallRecords /\ J \in Journals
      /\ u \in 0..MaxCommands /\ b \in BOOLEAN /\ rd \in Nat /\ k.pc = "turn" /\ ~b
      /\ u < MaxCommands /\ r \in CommandRecords /\ J2 = [J EXCEPT ![u + 1] = r]
      /\ r.state = "prepared" /\ r.op = o.n /\ r.room = o.room /\ r.sent = 0 /\ r.told = "none"
      /\ r.card => r.kind = "add"
      /\ r.card => \A c \in Commands :
           J[c].op = o.n /\ J[c].state # "gone" /\ J[c].kind = "add" =>
             J[c].state \in {"rejected", "cancelled"}
      /\ k2 \in CallRecords /\ k2.pc = "prepared"
  BY <1>1, <1>3, <1>4, <1>5 DEF Prepare, MayPrepare, CallRecords, Points, Tool
<1>7. Sess(o, k2, J2, u + 1, b, rd)
  BY ONLY <1>6, PrepareMoves
<1>8. u + 1 \in 0..MaxCommands /\ u + 1 \in Commands
  BY <1>6, Constants DEF Commands
<1>9. /\ J2 \in Journals /\ J2[u + 1] = r /\ \A c \in Commands : c # u + 1 => J2[c] = J[c]
      /\ J[u + 1] = Unused
  BY <1>6, <1>8 DEF Journals, Sess, UnusedOK
<1>10. /\ command' = [command EXCEPT ![s] = J2] /\ call' = [call EXCEPT ![s] = k2]
       /\ blocked' = [blocked EXCEPT ![s] = b] /\ used' = [used EXCEPT ![s] = u + 1]
  BY <1>2, <1>4 DEF Prepare, IInv, Typed
<1>11. /\ Typed' /\ EvidenceOK(s)' /\ \A t \in Sessions \ {s} : Rests(t)
       /\ command'[s] = J2 /\ call'[s] = k2 /\ blocked'[s] = b /\ used'[s] = u + 1
  <2>1. PICK u2 \in 0..MaxCommands : u2 = u + 1
    BY <1>8
  <2>2. /\ command' = [command EXCEPT ![s] = J2] /\ call' = [call EXCEPT ![s] = k2]
        /\ blocked' = [blocked EXCEPT ![s] = b] /\ used' = [used EXCEPT ![s] = u2]
    BY ONLY <1>10, <2>1
  <2>3. /\ J2 \in Journals /\ k2 \in CallRecords /\ b \in BOOLEAN
        /\ UNCHANGED <<studioVars, brokerVars, bound, op, plan, fresh, begun, bounds>>
    BY <1>2, <1>6, <1>9
  <2>4. /\ Typed' /\ EvidenceOK(s)' /\ \A t \in Sessions \ {s} : Rests(t)
        /\ command'[s] = J2 /\ call'[s] = k2 /\ blocked'[s] = b /\ used'[s] = u2
    BY ONLY IInv, <2>2, <2>3, ToolTyped, s \in Sessions, u2 \in 0..MaxCommands
  <2>. QED BY ONLY <2>1, <2>4
<1>12. SessionOK(s)'
  BY <1>2, <1>4, <1>7, <1>11 DEF SessionOK, bounds
<1>13. LinkOK(s)' /\ Moves(s)
  <2>1. call'[s].pc \notin Reading \cup {"waiting"}
    BY <1>6, <1>11 DEF Reading
  <2>2. \A c \in Commands :
          /\ command[s][c].sent = 1 => command'[s][c] = command[s][c]
          /\ command'[s][c].told \in {command[s][c].told, "none"}
    BY <1>4, <1>6, <1>9, <1>11, Records
  <2>3. reads[s] <= reads'[s]
    BY <1>1, <1>2 DEF bounds
  <2>. QED BY <2>1, <2>2, <2>3 DEF LinkOK, Pending, Moves
<1>. QED BY <1>2, <1>11, <1>12, <1>13, ConversationAlone DEF ConversationOK

LEMMA DispatchSafe ==
  ASSUME IInv, NEW s \in Sessions, Dispatch(s)
  PROVE  IInv'
<1>1. /\ Sess(op[s], call[s], command[s], used[s], blocked[s], reads[s])
      /\ op[s] \in OpRecords /\ command[s] \in Journals /\ used[s] \in 0..MaxCommands
      /\ blocked[s] \in BOOLEAN /\ call[s] \in CallRecords /\ reads[s] \in Nat
  BY Parts
<1>2. UNCHANGED <<studioVars, brokerVars, bound, op, used, blocked, plan, fresh, begun, bounds>>
  BY DEF Dispatch
<1>3. PICK o, k, J, u, b, rd :
        /\ o = op[s] /\ k = call[s] /\ J = command[s] /\ u = used[s] /\ b = blocked[s]
        /\ rd = reads[s]
  OBVIOUS
<1>4. u \in Commands /\ k.pc = "prepared" /\ J[u] \in CommandRecords
  BY <1>1, <1>3 DEF Dispatch, Sess, ToolOK, Tool, Journals
<1>5. PICK e \in CommandRecords : e = J[u]
  BY <1>4
<1>6. \E r \in CommandRecords, k2 \in CallRecords :
        /\ r.kind = e.kind /\ r.card = e.card /\ r.op = e.op /\ r.room = e.room /\ r.sent = e.sent
        /\ \/ k2.pc = "turn" /\ r.state = "cancelled" /\ r.told = "cancelled"
           \/ k2.pc = "send" /\ r.state = "unknown" /\ r.told = e.told
        /\ command' = [command EXCEPT ![s][u] = r] /\ call' = [call EXCEPT ![s] = k2]
  <2>1. CASE /\ command' = [command EXCEPT ![s][u] = [e EXCEPT !.state = "cancelled", !.told = "cancelled"]]
             /\ call' = [call EXCEPT ![s] = InTurn]
    <3>1. PICK r : r = [e EXCEPT !.state = "cancelled", !.told = "cancelled"]
      OBVIOUS
    <3>2. /\ r \in CommandRecords /\ r.state = "cancelled" /\ r.told = "cancelled"
          /\ r.kind = e.kind /\ r.card = e.card /\ r.op = e.op /\ r.room = e.room /\ r.sent = e.sent
      BY <3>1 DEF CommandRecords, States, Reports
    <3>. QED BY <2>1, <3>1, <3>2, Records
  <2>2. CASE /\ command' = [command EXCEPT ![s][u] = [e EXCEPT !.state = "unknown"]]
             /\ call' = [call EXCEPT ![s].pc = "send"]
    <3>1. PICK r, k2 : r = [e EXCEPT !.state = "unknown"] /\ k2 = [k EXCEPT !.pc = "send"]
      OBVIOUS
    <3>2. /\ r \in CommandRecords /\ r.state = "unknown" /\ r.told = e.told
          /\ r.kind = e.kind /\ r.card = e.card /\ r.op = e.op /\ r.room = e.room /\ r.sent = e.sent
      BY <3>1 DEF CommandRecords, States
    <3>3. k2 \in CallRecords /\ k2.pc = "send"
      BY <1>1, <1>3, <3>1 DEF CallRecords, Points, Tool
    <3>. QED BY <1>3, <2>2, <3>1, <3>2, <3>3
  <2>. QED BY <1>3, <1>5, <2>1, <2>2 DEF Dispatch, Current, ToolDone, Dispatched
<1>7. PICK r \in CommandRecords, k2 \in CallRecords :
        /\ r.kind = e.kind /\ r.card = e.card /\ r.op = e.op /\ r.room = e.room /\ r.sent = e.sent
        /\ \/ k2.pc = "turn" /\ r.state = "cancelled" /\ r.told = "cancelled"
           \/ k2.pc = "send" /\ r.state = "unknown" /\ r.told = e.told
        /\ command' = [command EXCEPT ![s][u] = r] /\ call' = [call EXCEPT ![s] = k2]
  BY <1>6
<1>8. PICK J2 : J2 = [J EXCEPT ![u] = r]
  OBVIOUS
<1>9. /\ Sess(o, k, J, u, b, rd) /\ o \in OpRecords /\ k \in CallRecords /\ J \in Journals
      /\ u \in 0..MaxCommands /\ b \in BOOLEAN /\ rd \in Nat /\ k.pc = "prepared"
      /\ J2 = [J EXCEPT ![u] = r]
      /\ r.kind = J[u].kind /\ r.card = J[u].card /\ r.op = J[u].op /\ r.room = J[u].room
      /\ r.sent = J[u].sent
      /\ \/ k2.pc = "turn" /\ r.state = "cancelled" /\ r.told = "cancelled"
         \/ k2.pc = "send" /\ r.state = "unknown" /\ r.told = J[u].told
  BY <1>1, <1>3, <1>4, <1>5, <1>7, <1>8
<1>10. Sess(o, k2, J2, u, b, rd)
  BY ONLY <1>9, DispatchMoves, r \in CommandRecords, k2 \in CallRecords
<1>11. J2 \in Journals /\ J2[u] = r /\ \A c \in Commands : c # u => J2[c] = J[c]
  BY <1>4, <1>9 DEF Journals
<1>12. /\ command' = [command EXCEPT ![s] = J2] /\ call' = [call EXCEPT ![s] = k2]
       /\ blocked' = [blocked EXCEPT ![s] = b] /\ used' = [used EXCEPT ![s] = u]
  BY <1>2, <1>3, <1>7, <1>8 DEF IInv, Typed
<1>13. /\ Typed' /\ EvidenceOK(s)' /\ \A t \in Sessions \ {s} : Rests(t)
       /\ command'[s] = J2 /\ call'[s] = k2 /\ blocked'[s] = b /\ used'[s] = u
  <2>1. /\ J2 \in Journals /\ k2 \in CallRecords /\ b \in BOOLEAN /\ u \in 0..MaxCommands
        /\ UNCHANGED <<studioVars, brokerVars, bound, op, plan, fresh, begun, bounds>>
    BY <1>2, <1>9, <1>11
  <2>. QED BY ONLY IInv, <1>12, <2>1, ToolTyped, s \in Sessions
<1>14. SessionOK(s)'
  BY <1>2, <1>3, <1>10, <1>13 DEF SessionOK, bounds
<1>15. LinkOK(s)' /\ Moves(s)
  <2>1. call'[s].pc \notin Reading \cup {"waiting"}
    BY <1>9, <1>13 DEF Reading
  <2>2. Keeps(s) /\ reads[s] <= reads'[s]
    BY <1>1, <1>2, <1>3, <1>9, <1>11, <1>13 DEF Keeps, bounds
  <2>. QED BY <2>1, <2>2, KeepsMoves DEF LinkOK, Pending
<1>. QED BY <1>2, <1>13, <1>14, <1>15, ConversationAlone DEF ConversationOK

LEMMA SendSafe ==
  ASSUME IInv, NEW s \in Sessions, Send(s)
  PROVE  IInv'
<1>1. /\ Sess(op[s], call[s], command[s], used[s], blocked[s], reads[s])
      /\ op[s] \in OpRecords /\ command[s] \in Journals /\ used[s] \in 0..MaxCommands
      /\ blocked[s] \in BOOLEAN /\ call[s] \in CallRecords /\ reads[s] \in Nat
  BY Parts
<1>2. UNCHANGED <<studioVars, brokerVars, bound, op, used, plan, fresh, begun, bounds>>
  BY DEF Send
<1>3. PICK o, k, J, u, b, rd :
        /\ o = op[s] /\ k = call[s] /\ J = command[s] /\ u = used[s] /\ b = blocked[s]
        /\ rd = reads[s]
  OBVIOUS
<1>4. /\ u \in Commands /\ k.pc = "send" /\ J[u] \in CommandRecords /\ J[u].room = o.room
      /\ J[u].sent = 0 /\ ~b
  BY <1>1, <1>3 DEF Send, Sess, ToolOK, Tool, Journals
<1>5. reads[s] <= reads'[s]
  BY <1>1, <1>2 DEF bounds
<1>6. CASE /\ command' = [command EXCEPT ![s][u] = Settled(@, "unknown", FALSE)]
           /\ blocked' = [blocked EXCEPT ![s] = @ \/ BlocksAfter(J[u], "unknown")]
           /\ call' = [call EXCEPT ![s] = InTurn]
  <2>1. PICK told \in {"saved", "rejected", "unknown"} : told = "unknown"
    OBVIOUS
  <2>2. PICK r : r = Settled(J[u], told, FALSE) /\ IsSettled(r, J[u], told)
    BY <1>4, SettledFields
  <2>3. PICK J2, b2 : J2 = [J EXCEPT ![u] = r] /\ b2 = (b \/ BlocksAfter(J[u], "unknown"))
    OBVIOUS
  <2>4. b2 \in BOOLEAN /\ (b2 = b \/ b2 = TRUE) /\ (told = "unknown" /\ J[u].kind = "batch" => b2 = TRUE)
    BY <1>1, <1>3, <2>3 DEF BlocksAfter
  <2>5. J2 \in Journals
    BY <1>1, <1>3, <2>2, <2>3 DEF Journals, IsSettled
  <2>6. /\ command' = [command EXCEPT ![s] = J2] /\ call' = [call EXCEPT ![s] = InTurn]
        /\ blocked' = [blocked EXCEPT ![s] = b2] /\ used' = [used EXCEPT ![s] = u]
    BY <1>2, <1>3, <1>6, <2>1, <2>2, <2>3 DEF IInv, Typed
  <2>7. /\ Typed' /\ EvidenceOK(s)' /\ \A t \in Sessions \ {s} : Rests(t)
        /\ command'[s] = J2 /\ call'[s] = InTurn /\ blocked'[s] = b2 /\ used'[s] = u
    <3>1. /\ J2 \in Journals /\ InTurn \in CallRecords /\ b2 \in BOOLEAN /\ u \in 0..MaxCommands
          /\ UNCHANGED <<studioVars, brokerVars, bound, op, plan, fresh, begun, bounds>>
      BY <1>1, <1>2, <1>3, <2>4, <2>5, Records
    <3>. QED BY ONLY IInv, <2>6, <3>1, ToolTyped, s \in Sessions
  <2>8. /\ call[s].pc \in {"send", "waiting"} /\ call'[s] = InTurn
        /\ IsSettled(r, command[s][used[s]], told)
        /\ command'[s] = [command[s] EXCEPT ![used[s]] = r] /\ blocked'[s] \in BOOLEAN
        /\ blocked'[s] = blocked[s] \/ blocked'[s] = TRUE
        /\ told = "unknown" /\ command[s][used[s]].kind = "batch" => blocked'[s] = TRUE
    BY <1>3, <1>4, <2>2, <2>3, <2>4, <2>7
  <2>9. /\ Sess(op[s], call'[s], command'[s], used[s], blocked'[s], reads[s])
        /\ \A c \in Commands :
             /\ command'[s][c].sent = command[s][c].sent /\ command'[s][c].room = command[s][c].room
             /\ command'[s][c].told = IF c = used[s] THEN told ELSE command[s][c].told
    BY ONLY <2>8, Settling, IInv, s \in Sessions, told \in {"saved", "rejected", "unknown"}, ZenonT(60)
  <2>10. SessionOK(s)'
    BY <1>2, <2>9 DEF SessionOK, bounds
  <2>11. call'[s].pc \notin Reading \cup {"waiting"}
    BY <2>7, Records DEF Reading
  <2>12. Keeps(s)
    BY <2>1, <2>9 DEF Keeps
  <2>13. LinkOK(s)' /\ Moves(s)
    BY <1>5, <2>11, <2>12, KeepsMoves DEF LinkOK, Pending
  <2>. QED BY <1>2, <2>7, <2>10, <2>13, ConversationAlone DEF ConversationOK
<1>7. CASE /\ Connected(J[u].room)
           /\ command' = [command EXCEPT ![s][u].sent = @ + 1]
           /\ call' = [call EXCEPT ![s] = [pc |-> "waiting", id |-> u, gen |-> conn[J[u].room].gen]]
           /\ UNCHANGED blocked
  <2>1. PICK k2 : k2 = [pc |-> "waiting", id |-> u, gen |-> conn[J[u].room].gen]
    OBVIOUS
  <2>2. o.room \in Rooms /\ conn[o.room].gen # 0 /\ conn[o.room].gen \in Nat
    BY <1>4, <1>7 DEF Connected, IInv, Typed
  <2>3. k2 \in CallRecords /\ k2.pc = "waiting" /\ k2.id = u /\ k2.gen = conn[o.room].gen
    BY <1>1, <1>3, <1>4, <2>1, <2>2 DEF CallRecords, Points, Tool
  <2>4. PICK r : r = [J[u] EXCEPT !.sent = @ + 1]
    OBVIOUS
  <2>5. /\ r \in CommandRecords /\ r.sent = 1 /\ r.told = J[u].told /\ r.room = J[u].room
    BY <1>4, <2>4 DEF CommandRecords
  <2>6. PICK J2 : J2 = [J EXCEPT ![u] = r]
    OBVIOUS
  <2>7. /\ Sess(o, k, J, u, b, rd) /\ o \in OpRecords /\ k \in CallRecords /\ J \in Journals
        /\ u \in 0..MaxCommands /\ b \in BOOLEAN /\ rd \in Nat /\ k.pc = "send"
        /\ r = [J[u] EXCEPT !.sent = @ + 1] /\ J2 = [J EXCEPT ![u] = r]
        /\ k2 \in CallRecords /\ k2.pc = "waiting" /\ k2.id = u
    BY <1>1, <1>3, <1>4, <2>3, <2>4, <2>6
  <2>8. Sess(o, k2, J2, u, b, rd)
    BY ONLY <2>7, SendMoves, ZenonT(60)
  <2>9. J2 \in Journals /\ J2[u] = r /\ \A c \in Commands : c # u => J2[c] = J[c]
    BY <1>4, <2>5, <2>7 DEF Journals
  <2>10. /\ command' = [command EXCEPT ![s] = J2] /\ call' = [call EXCEPT ![s] = k2]
         /\ blocked' = [blocked EXCEPT ![s] = b] /\ used' = [used EXCEPT ![s] = u]
    BY <1>2, <1>3, <1>7, <2>1, <2>4, <2>6 DEF IInv, Typed
  <2>11. /\ Typed' /\ EvidenceOK(s)' /\ \A t \in Sessions \ {s} : Rests(t)
         /\ command'[s] = J2 /\ call'[s] = k2 /\ blocked'[s] = b /\ used'[s] = u
    <3>1. /\ J2 \in Journals /\ k2 \in CallRecords /\ b \in BOOLEAN /\ u \in 0..MaxCommands
          /\ UNCHANGED <<studioVars, brokerVars, bound, op, plan, fresh, begun, bounds>>
      BY <1>2, <2>7, <2>9
    <3>. QED BY ONLY IInv, <2>10, <3>1, ToolTyped, s \in Sessions
  <2>12. SessionOK(s)'
    BY <1>2, <1>3, <2>8, <2>11 DEF SessionOK, bounds
  <2>13. LinkOK(s)'
    BY <1>2, <1>3, <2>2, <2>3, <2>11 DEF LinkOK, brokerVars
  <2>14. NewCommand(s)
    BY <1>3, <1>4, <2>3, <2>11 DEF NewCommand
  <2>15. Moves(s)
    <3>1. \A c \in Commands :
            /\ command[s][c].sent = 1 => command'[s][c] = command[s][c]
            /\ command'[s][c].told = command[s][c].told
      BY <1>3, <1>4, <2>5, <2>9, <2>11
    <3>. QED BY <1>5, <2>14, <3>1 DEF Moves
  <2>. QED BY <1>2, <2>11, <2>12, <2>13, <2>15, ConversationAlone DEF ConversationOK
<1>. QED BY <1>3, <1>6, <1>7 DEF Send, Current, ToolDone

LEMMA CrashSafe ==
  ASSUME IInv, Crash
  PROVE  IInv'
<1>1. UNCHANGED <<studioVars, bound, used, begun, reads>>
  BY DEF Crash
<1>2. ASSUME NEW s \in Sessions
      PROVE  /\ op'[s] \in OpRecords /\ command'[s] \in Journals /\ blocked'[s] = op[s].open
             /\ plan'[s] = NoEvidence /\ fresh'[s] = NoEvidence /\ call'[s] = NoCall
             /\ SessionOK(s)' /\ EvidenceOK(s)' /\ LinkOK(s)' /\ Moves(s)
  <2>1. /\ Sess(op[s], call[s], command[s], used[s], blocked[s], reads[s]) /\ EvidenceOK(s)
        /\ op[s] \in OpRecords /\ command[s] \in Journals /\ used[s] \in 0..MaxCommands
        /\ blocked[s] \in BOOLEAN /\ call[s] \in CallRecords /\ reads[s] \in Nat
    BY Parts
  <2>2. /\ blocked'[s] = op[s].open /\ plan'[s] = NoEvidence /\ fresh'[s] = NoEvidence
        /\ call'[s] = NoCall
        /\ command'[s] = [c \in Commands |->
             IF command[s][c].state = "none" THEN Unused ELSE Forgotten(command[s][c])]
    BY DEF Crash, BlockedAfterRestart, Recovered
  <2>3. /\ op'[s] \in OpRecords /\ op'[s].n = op[s].n /\ op'[s].open = op[s].open
        /\ op'[s].driven = op[s].open /\ op'[s].recovered = op[s].open /\ op'[s].room = op[s].room
    <3>1. op'[s] = [op[s] EXCEPT !.driven = op[s].open, !.due = FALSE, !.recovered = op[s].open]
      BY DEF Crash, Recovered
    <3>2. PICK o \in OpRecords : o = op[s]
      BY <2>1
    <3>3. op'[s] = [o EXCEPT !.driven = o.open, !.due = FALSE, !.recovered = o.open]
      BY <3>1, <3>2
    <3>. QED BY <3>2, <3>3 DEF OpRecords
  <2>4. ASSUME NEW c \in Commands
        PROVE  /\ command'[s][c] \in CommandRecords
               /\ command'[s][c].sent = command[s][c].sent
               /\ command'[s][c].room = command[s][c].room
               /\ command'[s][c].told = command[s][c].told
    <3>1. command[s][c] \in CommandRecords
      BY <2>1 DEF Journals
    <3>2. command[s][c].state = "none" => command[s][c] = Unused
      BY <2>1 DEF Sess, UnusedOK
    <3>. QED BY <2>2, <3>1, <3>2, ForgottenFields, Records
  <2>5. command'[s] \in Journals
    BY <2>2, <2>4 DEF Journals
  <2>6. SessionOK(s)'
    <3>1. PICK o, k, J, u, b, rd, J2, o2 :
            /\ o = op[s] /\ k = call[s] /\ J = command[s] /\ u = used[s] /\ b = blocked[s]
            /\ rd = reads[s] /\ J2 = command'[s] /\ o2 = op'[s]
      OBVIOUS
    <3>2. /\ Sess(o, k, J, u, b, rd) /\ o \in OpRecords /\ k \in CallRecords /\ J \in Journals
          /\ u \in 0..MaxCommands /\ b \in BOOLEAN /\ rd \in Nat /\ J2 \in Journals
          /\ o2 \in OpRecords /\ o2.n = o.n /\ o2.open = o.open /\ o2.driven = o.open
          /\ o2.recovered = o.open
          /\ \A c \in Commands : J2[c] = IF J[c].state = "none" THEN Unused ELSE Forgotten(J[c])
      BY <2>1, <2>2, <2>3, <2>5, <3>1
    <3>3. Sess(o2, NoCall, J2, u, o.open, rd)
      BY ONLY <3>2, CrashMoves
    <3>. QED BY <1>1, <2>2, <3>1, <3>3 DEF SessionOK
  <2>7. EvidenceOK(s)'
    BY <1>1, <2>1, <2>2, <2>3, Records DEF EvidenceOK, Evid, Revision, studioVars
  <2>8. call'[s].pc \notin Reading \cup {"waiting"} /\ reads[s] <= reads'[s]
    BY <1>1, <2>1, <2>2, Records DEF Reading
  <2>9. Keeps(s)
    BY <2>4 DEF Keeps
  <2>10. LinkOK(s)' /\ Moves(s)
    BY <2>8, <2>9, KeepsMoves DEF LinkOK, Pending
  <2>. QED BY <2>2, <2>3, <2>5, <2>6, <2>7, <2>10
<1>3. /\ conn' = [r \in Rooms |-> Offline] /\ wire' = [r \in Rooms |-> <<>>]
      /\ Offline \in [gen: Nat, ready: BOOLEAN, seq: Nat, snap: Nat]
      /\ Offline.gen = 0 /\ Offline.seq = 0
  BY DEF Crash, Offline
<1>4. Typed'
  <2>1. /\ op' \in [Sessions -> OpRecords] /\ command' \in [Sessions -> Journals]
        /\ blocked' \in [Sessions -> BOOLEAN]
    <3>1. \A s \in Sessions : op[s].open \in BOOLEAN
      BY DEF IInv, Typed, OpRecords
    <3>. QED BY <1>2, <3>1 DEF Crash
  <2>2. /\ plan' \in [Sessions -> Evidence] /\ fresh' \in [Sessions -> Evidence]
        /\ call' \in [Sessions -> CallRecords]
    BY Records DEF Crash
  <2>3. wire' \in [Rooms -> Seq(Messages)]
    BY <1>3
  <2>. QED BY <1>1, <1>3, <2>1, <2>2, <2>3 DEF IInv, Typed, studioVars
<1>5. Channels'
  <2>1. ASSUME NEW r \in Rooms PROVE ChannelOK(r)'
    <3>1. conn'[r] = Offline /\ wire'[r] = <<>> /\ studio'[r].seq \in Nat
      BY <1>3, <1>4 DEF Typed
    <3>. QED BY <1>3, <3>1 DEF ChannelOK, Between
  <2>. QED BY <2>1 DEF Channels
<1>6. Asked'
  <2>1. WireShrinks
    BY <1>3 DEF WireShrinks
  <2>. QED BY <1>1, <1>2, <1>4, <2>1, AskedStays DEF IInv, studioVars
<1>. QED BY <1>2, <1>4, <1>5, <1>6 DEF IInv, Talks, Sees, Links
-----------------------------------------------------------------------------
(***************************************************************************)
(* The steps of a room and of the broker that leave the conversations be.  *)
(***************************************************************************)
LEMMA TailOf ==
  ASSUME NEW S, NEW w \in Seq(S), w # <<>>
  PROVE  /\ Tail(w) \in Seq(S) /\ Head(w) = w[1] /\ 1 \in DOMAIN w /\ Head(w) \in S
         /\ \A i \in DOMAIN Tail(w) : i + 1 \in DOMAIN w /\ Tail(w)[i] = w[i + 1] /\ i \in Nat /\ i > 0
OBVIOUS

LEMMA AppendOf ==
  ASSUME NEW S, NEW w \in Seq(S), NEW m \in S
  PROVE  /\ Append(w, m) \in Seq(S)
         /\ \A i \in DOMAIN Append(w, m) :
              \/ i \in DOMAIN w /\ Append(w, m)[i] = w[i]
              \/ i \notin DOMAIN w /\ Append(w, m)[i] = m /\ i = Len(w) + 1
         /\ \A i \in DOMAIN w : i \in Nat /\ i <= Len(w)
OBVIOUS

\* The conversations rest while a design gets no older.
LEMMA ConversationsRest ==
  ASSUME IInv, Typed', UNCHANGED <<sessionVars, reads>>, \A r \in Rooms : room[r] <= room'[r]
  PROVE  Talks' /\ Sees' /\ \A s \in Sessions : Moves(s) /\ Pending(s)' = Pending(s)
<1>1. ASSUME NEW s \in Sessions
      PROVE  SessionOK(s)' /\ EvidenceOK(s)' /\ Moves(s) /\ Pending(s)' = Pending(s)
  <2>1. SessionOK(s) /\ EvidenceOK(s) /\ reads[s] \in Nat /\ begun[s] \in Nat \X Nat
    BY DEF IInv, Talks, Sees, Typed
  <2>2. SessionOK(s)' /\ Pending(s)' = Pending(s)
    BY <2>1 DEF SessionOK, Pending, sessionVars
  <2>3. EvidenceOK(s)'
    <3>1. Revision(op[s].room) <= Revision(op[s].room)' /\ Revision(op[s].room) \in Nat
          /\ Revision(op[s].room)' \in Nat
      BY DEF Revision, IInv, Typed, sessionVars
    <3>. QED BY <2>1, <3>1 DEF EvidenceOK, sessionVars
  <2>4. Moves(s)
    BY <2>1 DEF Moves, StillWaits, sessionVars
  <2>. QED BY <2>2, <2>3, <2>4
<1>. QED BY <1>1 DEF Talks, Sees

LEMMA LinksStay ==
  ASSUME IInv, UNCHANGED sessionVars, \A r \in Rooms : conn'[r].gen = conn[r].gen
  PROVE  Links'
BY DEF IInv, Links, LinkOK, Pending, sessionVars

\* What was issued stays issued when the Studio sees more.
LEMMA IssuedKept ==
  ASSUME UNCHANGED <<sessionVars, reads>>, NEW r, NEW q, IssuedOK(r, q),
         studio[r].seen \subseteq studio'[r].seen
  PROVE  IssuedOK(r, q)' /\ Awaits(q)' = Awaits(q)
BY DEF IssuedOK, Awaits, Pending, Request, sessionVars

LEMMA ReadySafe ==
  ASSUME IInv, NEW r \in Rooms, Ready(r)
  PROVE  IInv'
<1>1. UNCHANGED <<studioVars, wire, sessionVars, bounds>>
  BY DEF Ready
<1>2. /\ Typed'
      /\ \A q \in Rooms : conn'[q].gen = conn[q].gen /\ conn'[q].seq = conn[q].seq
      /\ \A q \in Rooms : conn[q].gen = 0 => conn'[q] = conn[q]
  <2>1. conn' = [conn EXCEPT ![r].ready = TRUE] /\ conn[r].gen # 0
    BY DEF Ready, Registered
  <2>2. conn \in [Rooms -> [gen: Nat, ready: BOOLEAN, seq: Nat, snap: Nat]]
    BY DEF IInv, Typed
  <2>3. /\ conn' \in [Rooms -> [gen: Nat, ready: BOOLEAN, seq: Nat, snap: Nat]]
        /\ conn'[r].gen = conn[r].gen /\ conn'[r].seq = conn[r].seq
        /\ \A q \in Rooms : q # r => conn'[q] = conn[q]
    BY ONLY <2>1, <2>2, r \in Rooms
  <2>4. Typed'
    BY <1>1, <2>3 DEF IInv, Typed, studioVars, sessionVars, bounds
  <2>. QED BY <2>1, <2>3, <2>4
<1>3. \A q \in Rooms : room[q] <= room'[q]
  BY <1>1 DEF IInv, Typed, studioVars
<1>4. Talks' /\ Sees' /\ \A s \in Sessions : Moves(s)
  BY <1>1, <1>2, <1>3, ConversationsRest DEF bounds
<1>5. Links'
  BY <1>1, <1>2, LinksStay
<1>6. Channels'
  BY <1>1, <1>2 DEF IInv, Channels, ChannelOK, Between, studioVars
<1>7. Asked'
  BY <1>1, <1>2, <1>4, AskedStays DEF IInv, studioVars, WireShrinks
<1>. QED BY <1>2, <1>4, <1>5, <1>6, <1>7 DEF IInv

LEMMA RegisterSafe ==
  ASSUME IInv, NEW r \in Rooms, Register(r)
  PROVE  IInv'
<1>1. UNCHANGED <<room, saves, work, wire, sessionVars, bounds>>
  BY DEF Register
<1>2. PICK gen \in Nat : gen = studio[r].gen + 1
  BY DEF IInv, Typed
<1>3. /\ conn' = [conn EXCEPT ![r] = [Offline EXCEPT !.gen = gen]] /\ conn[r].gen = 0
      /\ studio' = [studio EXCEPT ![r] = [gen |-> gen, seq |-> 0, seen |-> {}]]
  BY <1>2 DEF Register, Registered
<1>4. /\ conn'[r].gen = gen /\ conn'[r].seq = 0 /\ studio'[r].gen = gen /\ studio'[r].seq = 0
      /\ gen # 0 /\ conn'[r] \in [gen: Nat, ready: BOOLEAN, seq: Nat, snap: Nat]
      /\ \A q \in Rooms \ {r} : conn'[q] = conn[q] /\ studio'[q] = studio[q]
  <2>1. PICK c : c = [Offline EXCEPT !.gen = gen]
    OBVIOUS
  <2>2. c.gen = gen /\ c.seq = 0 /\ c \in [gen: Nat, ready: BOOLEAN, seq: Nat, snap: Nat]
    BY <2>1 DEF Offline
  <2>3. conn' = [conn EXCEPT ![r] = c]
    BY <1>3, <2>1
  <2>4. /\ conn \in [Rooms -> [gen: Nat, ready: BOOLEAN, seq: Nat, snap: Nat]]
        /\ studio \in [Rooms -> [gen: Nat, seq: Nat, seen: SUBSET Requests]]
    BY DEF IInv, Typed
  <2>5. gen # 0
    BY <1>2, <2>4
  <2>6. conn'[r] = c /\ \A q \in Rooms \ {r} : conn'[q] = conn[q]
    BY <2>3, <2>4
  <2>7. /\ studio'[r] = [gen |-> gen, seq |-> 0, seen |-> {}]
        /\ \A q \in Rooms \ {r} : studio'[q] = studio[q]
    BY <1>3, <2>4
  <2>. QED BY <2>2, <2>5, <2>6, <2>7
<1>5. Typed'
  BY <1>1, <1>2, <1>3, <1>4 DEF IInv, Typed, sessionVars, bounds
<1>6. \A q \in Rooms : room[q] <= room'[q]
  BY <1>1 DEF IInv, Typed
<1>7. Talks' /\ Sees'
  BY <1>1, <1>5, <1>6, ConversationsRest DEF bounds
<1>8. \A s \in Sessions : Pending(s) => op[s].room # r
  BY <1>3 DEF IInv, Links, LinkOK
<1>9. Links'
  BY <1>1, <1>4, <1>8 DEF IInv, Links, LinkOK, Pending, sessionVars
<1>10. Channels'
  <2>1. wire'[r] = <<>>
    BY <1>1, <1>3 DEF IInv, Channels, ChannelOK
  <2>2. ChannelOK(r)'
    BY <1>4, <2>1 DEF ChannelOK, Between
  <2>3. ASSUME NEW q \in Rooms \ {r} PROVE ChannelOK(q)'
    BY <1>1, <1>4 DEF IInv, Channels, ChannelOK
  <2>. QED BY <2>2, <2>3 DEF Channels
<1>11. ASSUME NEW h \in Rooms, NEW q \in Requests, IssuedOK(h, q)
       PROVE  IssuedOK(h, q)' /\ Awaits(q)' = Awaits(q)
  <2>1. CASE h # r
    BY <1>1, <1>4, <1>11, <2>1, IssuedKept DEF bounds
  <2>2. CASE h = r
    <3>1. Awaits(q)' = Awaits(q)
      BY <1>1 DEF Awaits, Pending, sessionVars
    <3>2. ~Awaits(q)
      BY <1>8, <1>11, <2>2 DEF IssuedOK, Awaits, Requests
    <3>. QED BY <1>1, <1>11, <3>1, <3>2 DEF IssuedOK, sessionVars, bounds
  <2>. QED BY <2>1, <2>2
<1>12. Asked'
  <2>1. ASSUME NEW h \in Rooms PROVE WorkOK(h)'
    <3>1. WorkOK(h) /\ work[h] \in Seq(Requests)
      BY DEF IInv, Asked, Typed
    <3>2. \A i \in DOMAIN work[h] : work[h][i] \in Requests /\ IssuedOK(h, work[h][i])
      BY ONLY <3>1 DEF WorkOK
    <3>3. \A q \in Requests : IssuedOK(h, q) => IssuedOK(h, q)'
      BY ONLY <1>11, h \in Rooms
    <3>4. work' = work /\ saves' = saves /\ wire' = wire /\ command' = command
      BY <1>1 DEF sessionVars
    <3>5. \A q : Undone(h, q) => Undone(h, q)'
      BY ONLY <3>4 DEF Undone
    <3>. QED BY ONLY <3>1, <3>2, <3>3, <3>4, <3>5 DEF WorkOK
  <2>2. ASSUME NEW h \in Rooms PROVE WireOK(h)'
    <3>1. WireOK(h) /\ wire[h] \in Seq(Messages)
      BY DEF IInv, Asked, Typed
    <3>2. ASSUME NEW m \in Messages, Reply(m), ReplyOK(h, m) PROVE ReplyOK(h, m)'
      <4>1. m.of \in Requests
        BY <3>2 DEF Messages, Replies, Reply
      <4>. QED BY <1>1, <1>11, <3>2, <4>1 DEF ReplyOK, sessionVars
    <3>. QED BY <1>1, <3>1, <3>2 DEF WireOK
  <2>3. SavesOK'
    <3>. SUFFICES ASSUME NEW s \in Sessions, NEW c \in Commands, <<s, c>> \in saves,
                         call[s].pc = "waiting", call[s].id = c
                  PROVE  Request(s) \in studio'[op[s].room].seen
      BY <1>1 DEF IInv, Asked, SavesOK, sessionVars, Request
    <3>1. Request(s) \in studio[op[s].room].seen /\ op[s].room \in Rooms \ {r}
      BY <1>8 DEF IInv, Asked, SavesOK, Links, LinkOK, Pending
    <3>. QED BY <1>4, <3>1
  <2>4. ToldOK'
    BY <1>1 DEF IInv, Asked, ToldOK, sessionVars
  <2>. QED BY <2>1, <2>2, <2>3, <2>4 DEF Asked
<1>. QED BY <1>5, <1>7, <1>9, <1>10, <1>12 DEF IInv

LEMMA DisconnectSafe ==
  ASSUME IInv, NEW r \in Rooms, Disconnect(r)
  PROVE  IInv'
<1>1. UNCHANGED <<studioVars, bound, op, used, begun, reads>>
  BY DEF Disconnect
<1> DEFINE S == {s \in Sessions : Pending(s) /\ Request(s) \in Mailbox(r)}
<1>2. /\ command' \in [Sessions -> Journals] /\ blocked' \in [Sessions -> BOOLEAN]
      /\ call' \in [Sessions -> CallRecords] /\ plan' = plan /\ fresh' = fresh
      /\ \A s \in Sessions :
           /\ s \notin S => call'[s] = call[s] /\ command'[s] = command[s] /\ blocked'[s] = blocked[s]
           /\ s \in S => call'[s] = InTurn
           /\ Sess(op[s], call'[s], command'[s], used[s], blocked'[s], reads[s])
           /\ Keeps(s)
  <2>1. GiveUp(S)
    BY DEF Disconnect
  <2>2. S \in SUBSET Sessions /\ \A s \in S : Pending(s)
    OBVIOUS
  <2>. QED BY ONLY <2>1, <2>2, GiveUpEffect, IInv
<1>3. /\ conn' = [conn EXCEPT ![r] = Offline] /\ wire' = [wire EXCEPT ![r] = <<>>]
      /\ Offline \in [gen: Nat, ready: BOOLEAN, seq: Nat, snap: Nat]
      /\ Offline.gen = 0 /\ Offline.seq = 0
  BY DEF Disconnect, Offline
<1>4. /\ conn'[r] = Offline /\ wire'[r] = <<>>
      /\ \A q \in Rooms \ {r} : conn'[q] = conn[q] /\ wire'[q] = wire[q]
  BY <1>3 DEF IInv, Typed
<1>5. Typed'
  <2>1. wire' \in [Rooms -> Seq(Messages)]
    BY <1>3 DEF IInv, Typed
  <2>. QED BY <1>1, <1>2, <1>3, <2>1 DEF IInv, Typed, studioVars
<1>6. ASSUME NEW s \in Sessions PROVE SessionOK(s)' /\ EvidenceOK(s)' /\ LinkOK(s)' /\ Moves(s)
  <2>1. SessionOK(s)'
    BY <1>1, <1>2 DEF SessionOK
  <2>2. EvidenceOK(s)'
    BY <1>1, <1>2 DEF IInv, Sees, EvidenceOK, Revision, studioVars
  <2>3. Moves(s)
    <3>1. call'[s] = call[s] \/ call'[s].pc \notin Reading \cup {"waiting"}
      BY <1>2, Records DEF Reading
    <3>2. StillWaits(s) \/ call'[s].pc \notin Reading \cup {"waiting"}
      BY <1>1, <3>1 DEF StillWaits
    <3>3. Keeps(s) /\ reads[s] <= reads'[s]
      BY <1>1, <1>2 DEF IInv, Typed
    <3>. QED BY <3>2, <3>3, KeepsMoves
  <2>4. LinkOK(s)'
    <3>. SUFFICES ASSUME Pending(s)'
                  PROVE  /\ op[s].room \in Rooms /\ conn'[op[s].room].gen # 0
                         /\ call'[s].gen = conn'[op[s].room].gen
      BY <1>1 DEF LinkOK
    <3>1. s \notin S
      BY <1>2, Records DEF Pending, Reading
    <3>2. call'[s] = call[s] /\ Pending(s)
      BY <1>2, <3>1 DEF Pending
    <3>3. LinkOK(s)
      BY DEF IInv, Links
    <3>4. op[s].room # r
      BY <3>1, <3>2, <3>3 DEF Mailbox, LinkOK
    <3>. QED BY <1>4, <3>2, <3>3, <3>4 DEF LinkOK
  <2>. QED BY <2>1, <2>2, <2>3, <2>4
<1>7. Channels'
  <2>1. ASSUME NEW q \in Rooms \ {r} PROVE ChannelOK(q)'
    BY <1>1, <1>4 DEF IInv, Channels, ChannelOK, studioVars
  <2>2. ChannelOK(r)'
    <3>1. studio'[r].seq \in Nat
      BY <1>5 DEF Typed
    <3>. QED BY <1>3, <1>4, <3>1 DEF ChannelOK, Between
  <2>. QED BY <2>1, <2>2 DEF Channels
<1>8. WireShrinks
  BY <1>4 DEF WireShrinks
<1>9. Asked'
  BY <1>1, <1>5, <1>6, <1>8, AskedStays DEF IInv, studioVars
<1>. QED BY <1>5, <1>6, <1>7, <1>9 DEF IInv, Talks, Sees, Links

\* A request of a conversation that waits at the room.
LEMMA InMailbox ==
  ASSUME IInv, NEW r \in Rooms, NEW q \in Mailbox(r)
  PROVE  /\ q \in Requests /\ Request(q.s) = q /\ Pending(q.s) /\ op[q.s].room = r
         /\ q.read <=> call[q.s].pc \in Reading
         /\ q.read => q.id <= reads[q.s]
         /\ ~q.read => /\ q.id \in Commands /\ command[q.s][q.id].sent = 1
                       /\ command[q.s][q.id].room = r /\ command[q.s][q.id].told = "none"
<1>1. PICK s \in Sessions : q = Request(s) /\ Pending(s) /\ op[s].room = r
  BY DEF Mailbox
<1>2. Sess(op[s], call[s], command[s], used[s], blocked[s], reads[s]) /\ call[s] \in CallRecords
  BY Parts
<1>3. q.s = s /\ q.id = call[s].id /\ (q.read <=> call[s].pc \in Reading) /\ q \in Requests
  <2>1. PICK k \in CallRecords, b \in BOOLEAN : k = call[s] /\ (b <=> k.pc \in Reading)
    <3>1. CASE call[s].pc \in Reading
      BY <1>2, <3>1
    <3>2. CASE call[s].pc \notin Reading
      BY <1>2, <3>2
    <3>. QED BY <3>1, <3>2
  <2>2. q = [s |-> s, id |-> k.id, gen |-> k.gen, read |-> b]
    BY <1>1, <2>1 DEF Request
  <2>3. k.id \in Nat /\ k.gen \in Nat
    BY DEF CallRecords
  <2>. QED BY <2>1, <2>2, <2>3 DEF Requests
<1>4. ~q.read => call[s].pc = "waiting"
  BY <1>1, <1>3 DEF Pending
<1>. QED BY <1>1, <1>2, <1>3, <1>4 DEF Sess, ToolOK, Tool

LEMMA StudioSees ==
  ASSUME IInv, NEW r \in Rooms, NEW q \in Requests, studio' = [studio EXCEPT ![r].seen = @ \cup {q}]
  PROVE  /\ studio' \in [Rooms -> [gen: Nat, seq: Nat, seen: SUBSET Requests]]
         /\ \A h \in Rooms : /\ studio[h].seen \subseteq studio'[h].seen
                             /\ studio'[h].gen = studio[h].gen /\ studio'[h].seq = studio[h].seq
         /\ q \in studio'[r].seen
<1>1. studio \in [Rooms -> [gen: Nat, seq: Nat, seen: SUBSET Requests]]
  BY DEF IInv, Typed
<1>2. PICK z : z = [studio[r] EXCEPT !.seen = studio[r].seen \cup {q}]
  OBVIOUS
<1>3. z \in [gen: Nat, seq: Nat, seen: SUBSET Requests] /\ z.gen = studio[r].gen
      /\ z.seq = studio[r].seq /\ z.seen = studio[r].seen \cup {q}
  BY <1>1, <1>2
<1>4. studio' = [studio EXCEPT ![r] = z]
  BY <1>2
<1>. QED BY <1>1, <1>3, <1>4

LEMMA StudioNumbers ==
  ASSUME IInv, NEW r \in Rooms, studio' = [studio EXCEPT ![r].seq = @ + 1]
  PROVE  /\ studio' \in [Rooms -> [gen: Nat, seq: Nat, seen: SUBSET Requests]]
         /\ \A h \in Rooms : studio'[h].seen = studio[h].seen /\ studio'[h].gen = studio[h].gen
         /\ studio'[r].seq = studio[r].seq + 1
         /\ \A h \in Rooms \ {r} : studio'[h] = studio[h]
<1>1. studio \in [Rooms -> [gen: Nat, seq: Nat, seen: SUBSET Requests]]
  BY DEF IInv, Typed
<1>2. PICK z : z = [studio[r] EXCEPT !.seq = studio[r].seq + 1]
  OBVIOUS
<1>3. z \in [gen: Nat, seq: Nat, seen: SUBSET Requests] /\ z.gen = studio[r].gen
      /\ z.seq = studio[r].seq + 1 /\ z.seen = studio[r].seen
  BY <1>1, <1>2
<1>4. studio' = [studio EXCEPT ![r] = z]
  BY <1>2
<1>. QED BY <1>1, <1>3, <1>4

LEMMA StudioTakesSafe ==
  ASSUME IInv, NEW r \in Rooms, StudioTakes(r)
  PROVE  IInv'
<1>1. UNCHANGED <<room, saves, brokerVars, sessionVars, bounds>>
  BY DEF StudioTakes
<1>2. PICK q \in Mailbox(r) \ studio[r].seen :
        /\ work' = [work EXCEPT ![r] = Append(@, q)]
        /\ studio' = [studio EXCEPT ![r].seen = @ \cup {q}]
  BY DEF StudioTakes
<1>3. /\ q \in Requests /\ Request(q.s) = q /\ Pending(q.s) /\ op[q.s].room = r
      /\ q.read <=> call[q.s].pc \in Reading
      /\ q.read => q.id <= reads[q.s]
      /\ ~q.read => /\ q.id \in Commands /\ command[q.s][q.id].sent = 1
                    /\ command[q.s][q.id].room = r /\ command[q.s][q.id].told = "none"
  BY InMailbox
<1>4. /\ work[r] \in Seq(Requests) /\ q.s \in Sessions
      /\ \A h \in Rooms \ {r} : work'[h] = work[h]
      /\ work'[r] = Append(work[r], q)
      /\ \A h \in Rooms : /\ studio[h].seen \subseteq studio'[h].seen /\ studio'[h].gen = studio[h].gen
                          /\ studio'[h].seq = studio[h].seq
      /\ q \in studio'[r].seen
      /\ studio' \in [Rooms -> [gen: Nat, seq: Nat, seen: SUBSET Requests]]
  <2>1. work \in [Rooms -> Seq(Requests)] /\ q.s \in Sessions
    BY <1>3 DEF IInv, Typed, Requests
  <2>2. /\ \A h \in Rooms \ {r} : work'[h] = work[h]
        /\ work'[r] = Append(work[r], q)
    BY <1>2, <2>1
  <2>3. studio' = [studio EXCEPT ![r].seen = @ \cup {q}] /\ q \in Requests
    BY <1>2, <1>3
  <2>. QED BY <2>1, <2>2, <2>3, StudioSees
<1>5. Typed'
  <2>1. Append(work[r], q) \in Seq(Requests)
    BY <1>3, <1>4
  <2>2. work' \in [Rooms -> Seq(Requests)]
    BY <1>2, <2>1 DEF IInv, Typed
  <2>. QED BY <1>1, <1>4, <2>2 DEF IInv, Typed, brokerVars, sessionVars, bounds
<1>6. Talks' /\ Sees' /\ Links'
  <2>1. \A h \in Rooms : room[h] <= room'[h] /\ conn'[h].gen = conn[h].gen
    BY <1>1 DEF IInv, Typed, brokerVars
  <2>. QED BY <1>1, <1>5, <2>1, ConversationsRest, LinksStay DEF bounds
<1>7. Channels'
  BY <1>1, <1>4 DEF IInv, Channels, ChannelOK, brokerVars
<1>8. ASSUME NEW h \in Rooms, NEW p, IssuedOK(h, p)
      PROVE  IssuedOK(h, p)' /\ Awaits(p)' = Awaits(p)
  BY <1>1, <1>4, <1>8, IssuedKept DEF bounds
<1>9. IssuedOK(r, q)'
  BY <1>1, <1>3, <1>4 DEF IssuedOK, Request, sessionVars, bounds
\* whoever waits for the request it takes has not been answered
<1>10. ASSUME NEW p, IssuedOK(r, p), SameCommand(p, q) PROVE FALSE
  <2>1. Awaits(p)
    BY <1>3, <1>10 DEF Awaits, SameCommand, Request
  <2>. QED BY <1>2, <1>3, <1>10, <2>1 DEF IssuedOK, SameCommand
<1>11. ASSUME ~q.read PROVE Undone(r, q)'
  <2>1. <<q.s, q.id>> \notin saves
    <3>1. call[q.s].pc = "waiting" /\ call[q.s].id = q.id
      BY <1>3, <1>11 DEF Pending, Request
    <3>. QED BY <1>2, <1>3, <1>4, <1>11, <3>1 DEF IInv, Asked, SavesOK
  <2>2. ASSUME NEW i \in DOMAIN wire[r], Reply(wire[r][i]) PROVE ~SameCommand(wire[r][i].of, q)
    BY <1>10, <2>2 DEF IInv, Asked, WireOK, ReplyOK
  <2>. QED BY <1>1, <1>3, <1>11, <2>1, <2>2 DEF Undone, sessionVars, brokerVars
<1>12. ASSUME NEW h \in Rooms, NEW p, Undone(h, p) PROVE Undone(h, p)'
  BY <1>1, <1>12 DEF Undone, sessionVars, brokerVars
<1>13. ASSUME NEW h \in Rooms PROVE WorkOK(h)'
  <2>0. WorkOK(h)
    BY DEF IInv, Asked
  <2>1. CASE h # r
    BY <1>4, <1>8, <1>12, <2>0, <2>1 DEF WorkOK
  <2>2. CASE h = r
    <3>1. PICK w \in Seq(Requests) : w = work[r]
      BY <1>4
    <3>2. \A i \in DOMAIN work'[r] :
            \/ i \in DOMAIN w /\ work'[r][i] = w[i]
            \/ i \notin DOMAIN w /\ work'[r][i] = q /\ i = Len(w) + 1
      BY <1>3, <1>4, <3>1, AppendOf
    <3>3. \A i \in DOMAIN work'[r] :
            IssuedOK(r, work[r][i])' /\ (~work'[r][i].read => Undone(r, work[r][i])')
      <4>1. ASSUME NEW i \in DOMAIN work'[r], NEW p, p = work'[r][i]
            PROVE  IssuedOK(r, p)' /\ (~p.read => Undone(r, p)')
        <5>1. CASE p = q
          BY <1>9, <1>11, <5>1
        <5>2. CASE i \in DOMAIN w /\ p = w[i]
          <6>1. IssuedOK(r, p) /\ (~p.read => Undone(r, p))
            BY <2>0, <2>2, <3>1, <5>2 DEF WorkOK
          <6>. QED BY <1>8, <1>12, <6>1
        <5>. QED BY <3>2, <4>1, <5>1, <5>2
      <4>. QED BY <4>1
    <3>4. ASSUME NEW i \in DOMAIN work'[r], NEW j \in DOMAIN work'[r],
                 SameCommand(work'[r][i], work'[r][j])
          PROVE  i = j
      <4>1. \A n \in DOMAIN w : ~SameCommand(w[n], q) /\ ~SameCommand(q, w[n])
        BY <1>10, <2>0, <2>2, <3>1 DEF WorkOK, SameCommand
      <4>. QED BY <2>0, <2>2, <3>1, <3>2, <3>4, <4>1 DEF WorkOK
    <3>. QED BY <2>2, <3>3, <3>4 DEF WorkOK
  <2>. QED BY <2>1, <2>2
<1>14. ASSUME NEW h \in Rooms PROVE WireOK(h)'
  <2>1. WireOK(h)
    BY DEF IInv, Asked
  <2>2. ASSUME NEW m, ReplyOK(h, m) PROVE ReplyOK(h, m)'
    BY <1>1, <1>8, <2>2 DEF ReplyOK, sessionVars
  <2>. QED BY <1>1, <2>1, <2>2 DEF WireOK, brokerVars
<1>15. SavesOK'
  <2>. SUFFICES ASSUME NEW s \in Sessions, NEW c \in Commands, <<s, c>> \in saves,
                       call[s].pc = "waiting", call[s].id = c
                PROVE  Request(s) \in studio'[op[s].room].seen
    BY <1>1 DEF IInv, Asked, SavesOK, sessionVars, Request
  <2>1. Request(s) \in studio[op[s].room].seen /\ op[s].room \in Rooms
    BY DEF IInv, Asked, SavesOK, Links, LinkOK, Pending
  <2>. QED BY <1>4, <2>1
<1>16. ToldOK'
  BY <1>1 DEF IInv, Asked, ToldOK, sessionVars
<1>. QED BY <1>5, <1>6, <1>7, <1>13, <1>14, <1>15, <1>16 DEF IInv, Asked

\* A call of the Studio goes last on its connection, under the next number.
LEMMA SaysEffect ==
  ASSUME IInv, NEW r \in Rooms, NEW m \in Messages, Says(r, m), conn' = conn,
         studio' = [studio EXCEPT ![r].seq = @ + 1], m.seq = studio[r].seq + 1
  PROVE  /\ wire' \in [Rooms -> Seq(Messages)]
         /\ \A h \in Rooms \ {r} : wire'[h] = wire[h]
         /\ \A j \in DOMAIN wire'[r] : \/ j \in DOMAIN wire[r] /\ wire'[r][j] = wire[r][j]
                                       \/ wire'[r][j] = m
         /\ Channels'
<1>1. /\ \A h \in Rooms : studio'[h].gen = studio[h].gen
      /\ studio'[r].seq = studio[r].seq + 1
      /\ \A h \in Rooms \ {r} : studio'[h] = studio[h]
      /\ studio[r].seq \in Nat
  BY StudioNumbers DEF IInv, Typed
<1>2. PICK w \in Seq(Messages) : w = wire[r]
  BY DEF IInv, Typed
<1>3. ChannelOK(r) /\ conn[r].seq \in Nat /\ \A i \in DOMAIN w : w[i].seq \in Nat
  BY <1>2 DEF IInv, Channels, Typed, Messages, Replies
<1>4. CASE wire' = wire
  <2>1. conn[r].seq <= studio'[r].seq /\ \A i \in DOMAIN w : w[i].seq <= studio'[r].seq
    BY <1>1, <1>2, <1>3 DEF ChannelOK, Between
  <2>2. ChannelOK(r)'
    BY <1>1, <1>2, <1>3, <1>4, <2>1 DEF ChannelOK, Between
  <2>3. ASSUME NEW h \in Rooms \ {r} PROVE ChannelOK(h)'
    BY <1>1, <1>4 DEF IInv, Channels, ChannelOK
  <2>. QED BY <1>4, <2>2, <2>3 DEF Channels, IInv, Typed
<1>5. CASE wire' = [wire EXCEPT ![r] = Append(@, m)] /\ conn[r].gen # 0
  <2>1. wire'[r] = Append(w, m) /\ \A h \in Rooms \ {r} : wire'[h] = wire[h]
    BY <1>2, <1>5 DEF IInv, Typed
  <2>2. /\ Append(w, m) \in Seq(Messages)
        /\ \A i \in DOMAIN Append(w, m) :
             \/ i \in DOMAIN w /\ Append(w, m)[i] = w[i]
             \/ i \notin DOMAIN w /\ Append(w, m)[i] = m /\ i = Len(w) + 1
        /\ \A i \in DOMAIN w : i \in Nat /\ i <= Len(w)
    BY AppendOf
  <2>3. wire' \in [Rooms -> Seq(Messages)]
    BY <1>2, <1>5, <2>2 DEF IInv, Typed
  <2>4. ChannelOK(r)'
    <3>1. PICK w2 : w2 = wire'[r]
      OBVIOUS
    <3>2. PICK last \in Nat : last = studio[r].seq
      BY <1>1
    <3>3. PICK c : c = conn[r]
      OBVIOUS
    <3>4. /\ c.seq <= last /\ \A i \in DOMAIN w : c.seq < w[i].seq /\ w[i].seq <= last
          /\ \A i, j \in DOMAIN w : i < j => w[i].seq < w[j].seq
          /\ c.seq \in Nat /\ m.seq = last + 1 /\ Len(w) \in Nat
      BY <1>2, <1>3, <3>2, <3>3 DEF ChannelOK, Between
    <3>5. Between(c, w2, last + 1)
      <4>1. \A i \in DOMAIN w2 : \/ i \in DOMAIN w /\ w2[i] = w[i] /\ i \in Nat /\ i <= Len(w)
                                 \/ w2[i] = m /\ i = Len(w) + 1
        BY <2>1, <2>2, <3>1
      <4>. QED BY ONLY <1>3, <3>4, <4>1, last \in Nat DEF Between
    <3>. QED BY <1>1, <1>3, <1>5, <3>1, <3>2, <3>3, <3>5 DEF ChannelOK
  <2>5. ASSUME NEW h \in Rooms \ {r} PROVE ChannelOK(h)'
    BY <1>1, <2>1 DEF IInv, Channels, ChannelOK
  <2>. QED BY <1>2, <2>1, <2>2, <2>3, <2>4, <2>5 DEF Channels
<1>. QED BY <1>4, <1>5 DEF Says, Registered

\* The Studio tells of itself.
LEMMA PublishSafe ==
  ASSUME IInv, NEW r \in Rooms, NEW m \in Messages, ~Reply(m), Says(r, m),
         studio' = [studio EXCEPT ![r].seq = @ + 1], m.seq = studio[r].seq + 1,
         room' \in [Rooms -> Nat \ {0}], \A h \in Rooms : room[h] <= room'[h],
         UNCHANGED <<saves, work, conn, sessionVars, reads>>
  PROVE  IInv'
<1>1. /\ wire' \in [Rooms -> Seq(Messages)]
      /\ \A h \in Rooms \ {r} : wire'[h] = wire[h]
      /\ \A j \in DOMAIN wire'[r] : \/ j \in DOMAIN wire[r] /\ wire'[r][j] = wire[r][j]
                                    \/ wire'[r][j] = m
      /\ Channels'
  BY SaysEffect
<1>2. /\ studio' \in [Rooms -> [gen: Nat, seq: Nat, seen: SUBSET Requests]]
      /\ \A h \in Rooms : studio'[h].seen = studio[h].seen
  BY StudioNumbers
<1>3. Typed'
  BY <1>1, <1>2 DEF IInv, Typed, sessionVars
<1>4. Talks' /\ Sees' /\ Links'
  BY <1>3, ConversationsRest, LinksStay
<1>5. ASSUME NEW h, NEW q, h \in Rooms, IssuedOK(h, q)
      PROVE  IssuedOK(h, q)' /\ Awaits(q)' = Awaits(q)
  BY <1>2, <1>5, IssuedKept
<1>6. \A h \in Rooms : \A j \in DOMAIN wire'[h] :
        Reply(wire'[h][j]) => j \in DOMAIN wire[h] /\ wire'[h][j] = wire[h][j]
  BY <1>1
<1>7. ASSUME NEW h \in Rooms PROVE WorkOK(h)'
  <2>1. WorkOK(h)
    BY DEF IInv, Asked
  <2>2. ASSUME NEW q, Undone(h, q) PROVE Undone(h, q)'
    BY <1>6, <2>2 DEF Undone, sessionVars
  <2>. QED BY <1>5, <2>1, <2>2 DEF WorkOK
<1>8. ASSUME NEW h \in Rooms PROVE WireOK(h)'
  <2>1. WireOK(h)
    BY DEF IInv, Asked
  <2>2. ASSUME NEW n, ReplyOK(h, n) PROVE ReplyOK(h, n)'
    BY <1>5, <2>2 DEF ReplyOK, sessionVars
  <2>. QED BY <1>6, <2>1, <2>2 DEF WireOK
<1>9. SavesOK'
  <2>. SUFFICES ASSUME NEW s \in Sessions, NEW c \in Commands, <<s, c>> \in saves,
                       call[s].pc = "waiting", call[s].id = c
                PROVE  Request(s) \in studio'[op[s].room].seen
    BY DEF IInv, Asked, SavesOK, sessionVars, Request
  <2>1. Request(s) \in studio[op[s].room].seen /\ op[s].room \in Rooms
    BY DEF IInv, Asked, SavesOK, Links, LinkOK, Pending
  <2>. QED BY <1>2, <2>1
<1>10. ToldOK'
  BY DEF IInv, Asked, ToldOK, sessionVars
<1>. QED BY <1>1, <1>3, <1>4, <1>7, <1>8, <1>9, <1>10 DEF IInv, Asked

LEMMA ManualEditSafe ==
  ASSUME IInv, NEW r \in Rooms, ManualEdit(r)
  PROVE  IInv'
<1>1. /\ room \in [Rooms -> Nat \ {0}] /\ studio[r].seq \in Nat
      /\ room' = [room EXCEPT ![r] = @ + 1]
  BY DEF IInv, Typed, ManualEdit
<1>2. room' \in [Rooms -> Nat \ {0}] /\ \A h \in Rooms : room[h] <= room'[h]
  BY <1>1
<1>3. PICK m : m = [type |-> "publish", of |-> 0, seq |-> NextSeq(r), rev |-> room'[r]]
  OBVIOUS
<1>4. m \in Messages /\ ~Reply(m) /\ m.seq = studio[r].seq + 1
  BY <1>1, <1>2, <1>3 DEF Messages, Reply, NextSeq
<1>5. /\ Says(r, m) /\ studio' = [studio EXCEPT ![r].seq = @ + 1]
      /\ UNCHANGED <<saves, work, conn, sessionVars, reads>>
  BY <1>3 DEF ManualEdit
<1>. QED BY <1>2, <1>4, <1>5, PublishSafe

LEMMA SelectSafe ==
  ASSUME IInv, NEW r \in Rooms, Select(r)
  PROVE  IInv'
<1>1. room' \in [Rooms -> Nat \ {0}] /\ (\A h \in Rooms : room[h] <= room'[h]) /\ studio[r].seq \in Nat
  BY DEF IInv, Typed, Select
<1>2. PICK m : m = [type |-> "select", of |-> 0, seq |-> NextSeq(r), rev |-> 0]
  OBVIOUS
<1>3. m \in Messages /\ ~Reply(m) /\ m.seq = studio[r].seq + 1
  BY <1>1, <1>2 DEF Messages, Reply, NextSeq
<1>4. /\ Says(r, m) /\ studio' = [studio EXCEPT ![r].seq = @ + 1]
      /\ UNCHANGED <<saves, work, conn, sessionVars, reads>>
  BY <1>2 DEF Select
<1>. QED BY <1>1, <1>3, <1>4, PublishSafe
-----------------------------------------------------------------------------
(***************************************************************************)
(* The Studio handles a request `q`, whether its answer `m` gets away.     *)
(***************************************************************************)
Answers(q, m) ==
  Reply(m) => /\ m.of = q /\ (m.type = "context" <=> q.read)
              /\ m.type = "saved" => <<q.s, q.id>> \in saves'
              /\ m.type \in {"rejected", "stale"} => <<q.s, q.id>> \notin saves'

LEMMA AskedHandled ==
  ASSUME IInv, NEW r \in Rooms, work[r] # <<>>, NEW q, q = Head(work[r]),
         UNCHANGED <<sessionVars, reads>>, work' = [work EXCEPT ![r] = Tail(@)],
         \A h \in Rooms : studio'[h].seen = studio[h].seen,
         \/ saves' = saves
         \/ ~q.read /\ saves' = saves \cup {<<q.s, q.id>>},
         NEW m, Answers(q, m), q.read /\ Reply(m) => m.rev = room[r],
         \A h \in Rooms \ {r} : wire'[h] = wire[h],
         \A j \in DOMAIN wire'[r] : \/ j \in DOMAIN wire[r] /\ wire'[r][j] = wire[r][j]
                                    \/ wire'[r][j] = m
  PROVE  Asked'
<1>1. PICK w \in Seq(Requests) : w = work[r]
  BY DEF IInv, Typed
<1>2. /\ q = w[1] /\ 1 \in DOMAIN w /\ q \in Requests /\ work'[r] = Tail(w)
      /\ \A i \in DOMAIN Tail(w) : /\ i + 1 \in DOMAIN w /\ Tail(w)[i] = w[i + 1]
                                   /\ i \in Nat /\ i > 0
      /\ \A h \in Rooms \ {r} : work'[h] = work[h]
  BY <1>1, TailOf DEF IInv, Typed
<1>3. /\ \A i \in DOMAIN w : IssuedOK(r, w[i]) /\ (~w[i].read => Undone(r, w[i]))
      /\ \A i, j \in DOMAIN w : SameCommand(w[i], w[j]) => i = j
  BY <1>1 DEF IInv, Asked, WorkOK
<1>4. IssuedOK(r, q) /\ (~q.read => Undone(r, q)) /\ q.s \in Sessions
  BY <1>2, <1>3 DEF Requests
<1>5. ASSUME NEW h, NEW p, h \in Rooms, IssuedOK(h, p)
      PROVE  IssuedOK(h, p)' /\ Awaits(p)' = Awaits(p)
  BY <1>5, IssuedKept
<1>6. ASSUME NEW h \in Rooms, NEW p, IssuedOK(h, p), SameCommand(p, q) PROVE h = r
  BY <1>4, <1>6 DEF IssuedOK, SameCommand
<1>7. ASSUME NEW h \in Rooms, NEW p, ~p.read, IssuedOK(h, p), Undone(h, p), ~SameCommand(p, q)
      PROVE  Undone(h, p)'
  <2>1. <<p.s, p.id>> \notin saves'
    BY <1>7 DEF Undone, SameCommand
  <2>2. \A j \in DOMAIN wire'[h] : Reply(wire'[h][j]) => ~SameCommand(wire'[h][j].of, p)
    BY <1>7, ZenonT(60) DEF Undone, SameCommand, Answers
  <2>. QED BY <1>7, <2>1, <2>2 DEF Undone, sessionVars
<1>8. ASSUME NEW h \in Rooms PROVE WorkOK(h)'
  <2>1. CASE h # r
    <3>1. \A i \in DOMAIN work[h] : IssuedOK(h, work[h][i]) /\ ~SameCommand(work[h][i], q)
      BY <1>6, <2>1 DEF IInv, Asked, WorkOK
    <3>2. WorkOK(h) /\ work'[h] = work[h]
      BY <1>2, <2>1 DEF IInv, Asked
    <3>3. ASSUME NEW i \in DOMAIN work[h], NEW p, p = work[h][i]
          PROVE  IssuedOK(h, p)' /\ (~p.read => Undone(h, p)')
      <4>1. IssuedOK(h, p) /\ (~p.read => Undone(h, p)) /\ ~SameCommand(p, q)
        BY <3>1, <3>2, <3>3 DEF WorkOK
      <4>. QED BY <1>5, <1>7, <4>1
    <3>. QED BY <3>2, <3>3 DEF WorkOK
  <2>2. CASE h = r
    <3>1. ASSUME NEW i \in DOMAIN work'[r], NEW p, p = work'[r][i]
          PROVE  IssuedOK(r, p)' /\ (~p.read => Undone(r, p)')
      <4>1. i + 1 \in DOMAIN w /\ p = w[i + 1] /\ i + 1 # 1
        BY <1>2, <3>1
      <4>2. IssuedOK(r, p) /\ (~p.read => Undone(r, p)) /\ ~SameCommand(p, q)
        BY <1>2, <1>3, <4>1
      <4>. QED BY <1>5, <1>7, <4>2
    <3>2. ASSUME NEW i \in DOMAIN work'[r], NEW j \in DOMAIN work'[r],
                 SameCommand(work'[r][i], work'[r][j])
          PROVE  i = j
      <4>1. i + 1 \in DOMAIN w /\ j + 1 \in DOMAIN w /\ SameCommand(w[i + 1], w[j + 1])
            /\ i \in Nat /\ j \in Nat
        BY <1>2, <3>2
      <4>2. i + 1 = j + 1
        BY <1>3, <4>1
      <4>. QED BY <4>1, <4>2
    <3>. QED BY <2>2, <3>1, <3>2 DEF WorkOK
  <2>. QED BY <2>1, <2>2
<1>9. ASSUME NEW h \in Rooms, NEW i \in DOMAIN wire[h], NEW n, n = wire[h][i], Reply(n)
      PROVE  ReplyOK(h, n)'
  <2>1. ReplyOK(h, n) /\ IssuedOK(h, n.of)
    BY <1>9 DEF IInv, Asked, WireOK, ReplyOK
  <2>2. IssuedOK(h, n.of)' /\ Awaits(n.of)' = Awaits(n.of)
    BY <1>5, <2>1
  <2>3. n.type \in {"rejected", "stale"} => <<n.of.s, n.of.id>> \notin saves'
    <3>. SUFFICES ASSUME n.type \in {"rejected", "stale"}, ~q.read, n.of.s = q.s, n.of.id = q.id
                  PROVE  FALSE
      BY <2>1 DEF ReplyOK
    <3>1. SameCommand(n.of, q)
      BY <2>1 DEF SameCommand, ReplyOK
    <3>2. h = r
      BY <1>6, <2>1, <3>1
    <3>. QED BY <1>4, <1>9, <3>1, <3>2 DEF Undone
  <2>4. n.type = "saved" => <<n.of.s, n.of.id>> \in saves'
    BY <2>1 DEF ReplyOK
  <2>. QED BY <2>1, <2>2, <2>3, <2>4 DEF ReplyOK, sessionVars
<1>10. ASSUME Reply(m) PROVE ReplyOK(r, m)'
  <2>1. IssuedOK(r, q)' /\ Awaits(q)' = Awaits(q)
    BY <1>4, <1>5
  <2>2. q.read /\ Awaits(q) => room[r] >= begun[q.s][2]
    <3>. SUFFICES ASSUME q.read, Awaits(q) PROVE room[r] >= begun[q.s][2]
      OBVIOUS
    <3>1. op[q.s].room = r /\ call[q.s].pc # "none"
      BY <1>4 DEF IssuedOK, Awaits, Pending, Reading
    <3>2. /\ Sess(op[q.s], call[q.s], command[q.s], used[q.s], blocked[q.s], reads[q.s])
          /\ EvidenceOK(q.s)
      BY <1>4, Parts
    <3>3. op[q.s].open
      BY <3>1, <3>2 DEF Sess, OpenOK
    <3>. QED BY <1>4, <3>1, <3>2, <3>3 DEF EvidenceOK, Revision, IInv, Typed
  <2>. QED BY <1>10, <2>1, <2>2 DEF ReplyOK, Answers, sessionVars
<1>11. ASSUME NEW h \in Rooms PROVE WireOK(h)'
  <2>1. ASSUME NEW j \in DOMAIN wire'[h], NEW n, n = wire'[h][j], Reply(n)
        PROVE  ReplyOK(h, n)'
    BY <1>9, <1>10, <2>1
  <2>. QED BY <2>1 DEF WireOK
<1>12. SavesOK'
  <2>. SUFFICES ASSUME NEW s \in Sessions, NEW c \in Commands, <<s, c>> \in saves'
                PROVE  /\ command[s][c].sent = 1 /\ command[s][c].told # "rejected"
                       /\ call[s].pc = "waiting" /\ call[s].id = c =>
                            Request(s) \in studio'[op[s].room].seen
    BY DEF SavesOK, sessionVars, Request
  <2>1. CASE <<s, c>> \in saves
    <3>1. call[s].pc = "waiting" => op[s].room \in Rooms
      BY DEF IInv, Links, LinkOK, Pending
    <3>. QED BY <2>1, <3>1 DEF IInv, Asked, SavesOK
  <2>2. CASE ~q.read /\ s = q.s /\ c = q.id
    <3>1. command[s][c].sent = 1 /\ command[s][c].told # "rejected"
      BY <1>4, <2>2 DEF IssuedOK, Undone
    <3>2. ASSUME call[s].pc = "waiting", call[s].id = c
          PROVE  Request(s) \in studio'[op[s].room].seen
      <4>1. Awaits(q)
        BY <2>2, <3>2 DEF Awaits, Pending, Reading
      <4>. QED BY <1>4, <2>2, <4>1 DEF IssuedOK
    <3>. QED BY <3>1, <3>2
  <2>. QED BY <2>1, <2>2
<1>13. ToldOK'
  BY DEF IInv, Asked, ToldOK, sessionVars
<1>. QED BY <1>8, <1>11, <1>12, <1>13 DEF Asked

LEMMA HandledSafe ==
  ASSUME IInv, NEW r \in Rooms, work[r] # <<>>, NEW q, q = Head(work[r]),
         UNCHANGED <<conn, sessionVars, reads>>, work' = [work EXCEPT ![r] = Tail(@)],
         room' \in [Rooms -> Nat \ {0}], \A h \in Rooms : room[h] <= room'[h],
         \/ saves' = saves
         \/ ~q.read /\ saves' = saves \cup {<<q.s, q.id>>},
         NEW m, Answers(q, m), q.read /\ Reply(m) => m.rev = room[r],
         \/ UNCHANGED <<studio, wire>>
         \/ /\ studio' = [studio EXCEPT ![r].seq = @ + 1] /\ Says(r, m)
            /\ m \in Messages /\ m.seq = studio[r].seq + 1
  PROVE  IInv'
<1>1. /\ wire' \in [Rooms -> Seq(Messages)]
      /\ studio' \in [Rooms -> [gen: Nat, seq: Nat, seen: SUBSET Requests]]
      /\ \A h \in Rooms : studio'[h].seen = studio[h].seen
      /\ \A h \in Rooms \ {r} : wire'[h] = wire[h]
      /\ \A j \in DOMAIN wire'[r] : \/ j \in DOMAIN wire[r] /\ wire'[r][j] = wire[r][j]
                                    \/ wire'[r][j] = m
      /\ Channels'
  <2>1. CASE UNCHANGED <<studio, wire>>
    BY <2>1 DEF IInv, Typed, Channels, ChannelOK
  <2>2. CASE /\ studio' = [studio EXCEPT ![r].seq = @ + 1] /\ Says(r, m)
             /\ m \in Messages /\ m.seq = studio[r].seq + 1
    BY <2>2, SaysEffect, StudioNumbers
  <2>. QED BY <2>1, <2>2
<1>2. work' \in [Rooms -> Seq(Requests)]
  <2>1. work \in [Rooms -> Seq(Requests)] /\ Tail(work[r]) \in Seq(Requests)
    BY TailOf DEF IInv, Typed
  <2>. QED BY <2>1
<1>3. saves' \subseteq Sessions \X Commands
  <2>1. q \in Requests /\ IssuedOK(r, q)
    <3>1. 1 \in DOMAIN work[r] /\ q = work[r][1] /\ q \in Requests
      BY TailOf DEF IInv, Typed
    <3>. QED BY <3>1 DEF IInv, Asked, WorkOK
  <2>2. q.s \in Sessions /\ (~q.read => q.id \in Commands)
    BY <2>1 DEF IssuedOK, Requests
  <2>3. saves \subseteq Sessions \X Commands
    BY DEF IInv, Typed
  <2>. QED BY <2>2, <2>3
<1>4. Typed'
  BY <1>1, <1>2, <1>3 DEF IInv, Typed, sessionVars
<1>5. Talks' /\ Sees' /\ Links'
  BY <1>4, ConversationsRest, LinksStay
<1>6. Asked'
  BY <1>1, AskedHandled
<1>. QED BY <1>1, <1>4, <1>5, <1>6 DEF IInv

LEMMA Silence == \E m \in Messages : ~Reply(m)
<1>1. [type |-> "select", of |-> 0, seq |-> 0, rev |-> 0] \in Messages
  BY DEF Messages
<1>. QED BY <1>1 DEF Reply

LEMMA StudioReadsSafe ==
  ASSUME IInv, NEW r \in Rooms, StudioReads(r)
  PROVE  IInv'
<1>1. /\ room' \in [Rooms -> Nat \ {0}] /\ \A h \in Rooms : room[h] <= room'[h]
      /\ studio[r].seq \in Nat /\ room[r] \in Nat /\ work[r] \in Seq(Requests)
  BY DEF IInv, Typed, StudioReads
<1>2. PICK q \in Requests : q = Head(work[r])
  BY <1>1, TailOf DEF StudioReads
<1>3. /\ q.read /\ work[r] # <<>> /\ work' = [work EXCEPT ![r] = Tail(@)] /\ saves' = saves
      /\ UNCHANGED <<conn, sessionVars, reads>>
  BY <1>2 DEF StudioReads, bounds
<1>4. CASE UNCHANGED <<studio, wire>>
  <2>1. PICK m \in Messages : ~Reply(m)
    BY Silence
  <2>2. Answers(q, m)
    BY <2>1 DEF Answers
  <2>. QED BY ONLY IInv, r \in Rooms, <1>1, <1>2, <1>3, <1>4, <2>1, <2>2, HandledSafe
<1>5. CASE /\ studio' = [studio EXCEPT ![r].seq = @ + 1]
           /\ Says(r, [type |-> "context", of |-> q, seq |-> NextSeq(r), rev |-> room[r]])
  <2>1. PICK m : m = [type |-> "context", of |-> q, seq |-> NextSeq(r), rev |-> room[r]]
    OBVIOUS
  <2>2. /\ m \in Messages /\ m.seq = studio[r].seq + 1 /\ m.rev = room[r] /\ m.of = q
        /\ m.type = "context"
    BY <1>1, <2>1 DEF Messages, Replies, NextSeq
  <2>3. Answers(q, m)
    BY <1>3, <2>2 DEF Answers
  <2>4. Says(r, m)
    BY <1>5, <2>1
  <2>. QED BY ONLY IInv, r \in Rooms, <1>1, <1>2, <1>3, <1>5, <2>2, <2>3, <2>4, HandledSafe
<1>. QED BY <1>2, <1>4, <1>5 DEF StudioReads

LEMMA StudioExecutesSafe ==
  ASSUME IInv, NEW r \in Rooms, StudioExecutes(r)
  PROVE  IInv'
<1>1. /\ room \in [Rooms -> Nat \ {0}] /\ studio[r].seq \in Nat /\ work[r] \in Seq(Requests)
  BY DEF IInv, Typed
<1>2. PICK q \in Requests : q = Head(work[r]) /\ work[r] # <<>>
  BY <1>1, TailOf DEF StudioExecutes
<1>3. /\ ~q.read /\ work' = [work EXCEPT ![r] = Tail(@)]
      /\ UNCHANGED <<conn, sessionVars, reads>>
  BY <1>2 DEF StudioExecutes, bounds
<1>4. <<q.s, q.id>> \notin saves
  <2>1. 1 \in DOMAIN work[r] /\ q = work[r][1]
    BY <1>1, <1>2, TailOf
  <2>. QED BY <1>3, <2>1 DEF IInv, Asked, WorkOK, Undone
<1>5. PICK silent \in Messages : ~Reply(silent)
  BY Silence
<1>6. CASE UNCHANGED <<room, saves, studio, wire>>
  <2>1. Answers(q, silent)
    BY <1>5 DEF Answers
  <2>2. room' \in [Rooms -> Nat \ {0}] /\ \A h \in Rooms : room[h] <= room'[h]
    BY <1>1, <1>6
  <2>. QED BY ONLY IInv, r \in Rooms, <1>2, <1>3, <1>5, <1>6, <2>1, <2>2, HandledSafe
<1>7. ASSUME NEW told \in {"saved", "rejected", "stale"}, NEW reply \in {"sound", "mismatched", "lost"},
             reply = "mismatched" => told = "saved",
             room' = [room EXCEPT ![r] = IF told = "saved" THEN @ + 1 ELSE @],
             saves' = saves \cup (IF told = "saved" THEN {<<q.s, q.id>>} ELSE {}),
             IF reply = "lost" THEN UNCHANGED <<studio, wire>>
               ELSE /\ studio' = [studio EXCEPT ![r].seq = @ + 1]
                    /\ Says(r, [type |-> IF reply = "sound" THEN told ELSE "mismatch",
                                of |-> q, seq |-> NextSeq(r), rev |-> room'[r]])
      PROVE  IInv'
  <2>1. room' \in [Rooms -> Nat \ {0}] /\ \A h \in Rooms : room[h] <= room'[h]
    BY <1>1, <1>7
  <2>2. /\ \/ saves' = saves
           \/ ~q.read /\ saves' = saves \cup {<<q.s, q.id>>}
        /\ told = "saved" => <<q.s, q.id>> \in saves'
        /\ told # "saved" => <<q.s, q.id>> \notin saves'
    BY <1>3, <1>4, <1>7
  <2>3. CASE reply = "lost"
    <3>1. Answers(q, silent) /\ UNCHANGED <<studio, wire>>
      BY <1>5, <1>7, <2>3 DEF Answers
    <3>. QED BY ONLY IInv, r \in Rooms, <1>2, <1>3, <1>5, <2>1, <2>2, <3>1, HandledSafe
  <2>4. CASE reply # "lost"
    <3>1. PICK type : type = IF reply = "sound" THEN told ELSE "mismatch"
      OBVIOUS
    <3>2. PICK m : m = [type |-> type, of |-> q, seq |-> NextSeq(r), rev |-> room'[r]]
      OBVIOUS
    <3>3. /\ type \in {"saved", "rejected", "stale", "mismatch"}
          /\ type \in {"saved", "rejected", "stale"} => type = told
      BY <3>1
    <3>4. m.seq = studio[r].seq + 1 /\ m.of = q /\ m.type = type /\ m \in Messages
      <4>1. NextSeq(r) = studio[r].seq + 1 /\ NextSeq(r) \in Nat /\ room'[r] \in Nat
        BY <1>1, <2>1 DEF NextSeq
      <4>2. m \in Replies
        BY <3>2, <3>3, <4>1 DEF Replies
      <4>. QED BY <3>2, <4>1, <4>2 DEF Messages
    <3>5. Answers(q, m)
      BY <1>3, <2>2, <3>3, <3>4 DEF Answers
    <3>6. studio' = [studio EXCEPT ![r].seq = @ + 1] /\ Says(r, m)
      BY <1>7, <2>4, <3>1, <3>2
    <3>. QED BY ONLY IInv, r \in Rooms, <1>2, <1>3, <2>1, <2>2, <3>4, <3>5, <3>6, HandledSafe
  <2>. QED BY <2>3, <2>4
<1>8. \/ UNCHANGED <<room, saves, studio, wire>>
      \/ \E told \in {"saved", "rejected", "stale"}, reply \in {"sound", "mismatched", "lost"} :
           /\ reply = "mismatched" => told = "saved"
           /\ room' = [room EXCEPT ![r] = IF told = "saved" THEN @ + 1 ELSE @]
           /\ saves' = saves \cup (IF told = "saved" THEN {<<q.s, q.id>>} ELSE {})
           /\ IF reply = "lost" THEN UNCHANGED <<studio, wire>>
                ELSE /\ studio' = [studio EXCEPT ![r].seq = @ + 1]
                     /\ Says(r, [type |-> IF reply = "sound" THEN told ELSE "mismatch",
                                 of |-> q, seq |-> NextSeq(r), rev |-> room'[r]])
  <2>1. CASE q.gen # studio[r].gen
    BY <1>2, <2>1 DEF StudioExecutes
  <2>2. CASE q.gen = studio[r].gen
    <3>1. PICK told \in IF command[q.s][q.id].rev = room[r] THEN {"saved", "rejected"} ELSE {"stale"},
               reply \in {"sound", "mismatched", "lost"} :
           /\ reply = "mismatched" => told = "saved"
           /\ room' = [room EXCEPT ![r] = IF told = "saved" THEN @ + 1 ELSE @]
           /\ saves' = saves \cup (IF told = "saved" THEN {<<q.s, q.id>>} ELSE {})
           /\ IF reply = "lost" THEN UNCHANGED <<studio, wire>>
                ELSE /\ studio' = [studio EXCEPT ![r].seq = @ + 1]
                     /\ Says(r, [type |-> IF reply = "sound" THEN told ELSE "mismatch",
                                 of |-> q, seq |-> NextSeq(r), rev |-> room'[r]])
      BY <1>2, <2>2 DEF StudioExecutes
    <3>2. told \in {"saved", "rejected", "stale"}
      OBVIOUS
    <3>. QED BY <3>1, <3>2
  <2>. QED BY <2>1, <2>2
<1>. QED BY <1>6, <1>7, <1>8

-----------------------------------------------------------------------------
(***************************************************************************)
(* The broker handles the first call on a connection.                      *)
(***************************************************************************)
\* The connection goes on to at most the number of that call.
LEMMA Delivered ==
  ASSUME IInv, NEW r \in Rooms, wire[r] # <<>>, wire' = [wire EXCEPT ![r] = Tail(@)],
         UNCHANGED studio, NEW c \in [gen: Nat, ready: BOOLEAN, seq: Nat, snap: Nat],
         conn' = [conn EXCEPT ![r] = c], c.gen = conn[r].gen,
         c.seq \in {conn[r].seq, Head(wire[r]).seq}
  PROVE  /\ wire' \in [Rooms -> Seq(Messages)]
         /\ conn' \in [Rooms -> [gen: Nat, ready: BOOLEAN, seq: Nat, snap: Nat]]
         /\ \A h \in Rooms : conn'[h].gen = conn[h].gen
         /\ WireShrinks /\ Channels'
<1>1. PICK w \in Seq(Messages) : w = wire[r]
  BY DEF IInv, Typed
<1>2. /\ Tail(w) \in Seq(Messages) /\ Head(w) = w[1] /\ 1 \in DOMAIN w
      /\ \A i \in DOMAIN Tail(w) : i + 1 \in DOMAIN w /\ Tail(w)[i] = w[i + 1] /\ i \in Nat /\ i > 0
  BY <1>1, TailOf
<1>3. /\ wire' \in [Rooms -> Seq(Messages)]
      /\ conn' \in [Rooms -> [gen: Nat, ready: BOOLEAN, seq: Nat, snap: Nat]]
      /\ wire'[r] = Tail(w) /\ conn'[r] = c
      /\ \A h \in Rooms \ {r} : wire'[h] = wire[h] /\ conn'[h] = conn[h]
  BY <1>1, <1>2 DEF IInv, Typed
<1>4. \A h \in Rooms : conn'[h].gen = conn[h].gen
  BY <1>3
<1>5. WireShrinks
  BY <1>1, <1>2, <1>3 DEF WireShrinks
<1>6. ChannelOK(r) /\ conn[r].seq \in Nat /\ \A i \in DOMAIN w : w[i].seq \in Nat
  <2>1. \A n \in Messages : n.seq \in Nat
    BY DEF Messages, Replies
  <2>2. ChannelOK(r) /\ conn[r].seq \in Nat
    BY DEF IInv, Channels, Typed
  <2>3. \A i \in DOMAIN w : w[i] \in Messages
    OBVIOUS
  <2>. QED BY <2>1, <2>2, <2>3
<1>7. ChannelOK(r)'
  <2>0. PICK last \in Nat : last = studio[r].seq
    BY DEF IInv, Typed
  <2>1. PICK d, w2 : d = conn[r] /\ w2 = Tail(w)
    OBVIOUS
  <2>2. Between(d, w, last) /\ c.seq \in {d.seq, w[1].seq} /\ c.seq \in Nat /\ d.gen # 0
    BY <1>1, <1>2, <1>6, <2>0, <2>1 DEF ChannelOK
  <2>3. Between(c, w2, last)
    <3>1. \A i \in DOMAIN w2 : i + 1 \in DOMAIN w /\ w2[i] = w[i + 1] /\ i \in Nat /\ i > 0
      BY <1>2, <2>1
    <3>2. d.seq \in Nat
      BY <1>6, <2>1
    <3>. QED BY ONLY <1>2, <1>6, <2>2, <3>1, <3>2, last \in Nat DEF Between
  <2>. QED BY <1>3, <1>6, <2>0, <2>1, <2>2, <2>3 DEF ChannelOK
<1>8. ASSUME NEW h \in Rooms \ {r} PROVE ChannelOK(h)'
  BY <1>3 DEF IInv, Channels, ChannelOK
<1>. QED BY <1>3, <1>4, <1>5, <1>7, <1>8 DEF Channels

LEMMA AppliedFields ==
  ASSUME IInv, NEW r \in Rooms, wire[r] # <<>>, NEW m, m = Head(wire[r])
  PROVE  /\ m \in Messages /\ m.seq > conn[r].seq
         /\ Applied(conn[r], m) \in [gen: Nat, ready: BOOLEAN, seq: Nat, snap: Nat]
         /\ Applied(conn[r], m).gen = conn[r].gen
         /\ Applied(conn[r], m).seq \in {conn[r].seq, m.seq}
         /\ Applied(conn[r], m).snap = m.rev
         /\ Selected(conn[r], m) \in [gen: Nat, ready: BOOLEAN, seq: Nat, snap: Nat]
         /\ Selected(conn[r], m).gen = conn[r].gen
         /\ Selected(conn[r], m).seq \in {conn[r].seq, m.seq}
<1>1. /\ wire[r] \in Seq(Messages)
      /\ conn[r] \in [gen: Nat, ready: BOOLEAN, seq: Nat, snap: Nat]
  BY DEF IInv, Typed
<1>2. PICK c \in [gen: Nat, ready: BOOLEAN, seq: Nat, snap: Nat] : c = conn[r]
  BY <1>1
<1>3. m \in Messages /\ 1 \in DOMAIN wire[r] /\ m = wire[r][1]
  BY <1>1, TailOf
<1>4. m.seq \in Nat /\ m.rev \in Nat
  BY <1>3 DEF Messages, Replies
<1>5. m.seq > c.seq
  BY <1>2, <1>3, <1>4 DEF IInv, Channels, ChannelOK, Between
<1>6. /\ Applied(c, m) \in [gen: Nat, ready: BOOLEAN, seq: Nat, snap: Nat]
      /\ Applied(c, m).gen = c.gen /\ Applied(c, m).seq = m.seq /\ Applied(c, m).snap = m.rev
  BY <1>4, <1>5 DEF Applied
<1>7. /\ Selected(c, m) \in [gen: Nat, ready: BOOLEAN, seq: Nat, snap: Nat]
      /\ Selected(c, m).gen = c.gen /\ Selected(c, m).seq \in {c.seq, m.seq}
  BY <1>4, <1>5 DEF Selected
<1>. QED BY <1>2, <1>3, <1>5, <1>6, <1>7

LEMMA HandlePublicationSafe ==
  ASSUME IInv, NEW r \in Rooms, HandlePublication(r)
  PROVE  IInv'
<1>1. /\ wire[r] # <<>> /\ wire' = [wire EXCEPT ![r] = Tail(@)]
      /\ UNCHANGED <<studioVars, sessionVars, bounds>>
  BY DEF HandlePublication
<1>2. PICK m : m = Head(wire[r])
  OBVIOUS
<1>3. PICK c \in {Applied(conn[r], m), Selected(conn[r], m)} : conn' = [conn EXCEPT ![r] = c]
  BY <1>2 DEF HandlePublication
<1>4. /\ c \in [gen: Nat, ready: BOOLEAN, seq: Nat, snap: Nat]
      /\ c.gen = conn[r].gen /\ c.seq \in {conn[r].seq, Head(wire[r]).seq}
  BY <1>1, <1>2, <1>3, AppliedFields
<1>5. /\ wire' \in [Rooms -> Seq(Messages)]
      /\ conn' \in [Rooms -> [gen: Nat, ready: BOOLEAN, seq: Nat, snap: Nat]]
      /\ \A h \in Rooms : conn'[h].gen = conn[h].gen
      /\ WireShrinks /\ Channels'
  BY <1>1, <1>3, <1>4, Delivered DEF studioVars
<1>6. Typed'
  BY <1>1, <1>5 DEF IInv, Typed, studioVars, sessionVars, bounds
<1>7. \A h \in Rooms : room[h] <= room'[h]
  BY <1>1 DEF IInv, Typed, studioVars
<1>8. Talks' /\ Sees' /\ Links' /\ \A s \in Sessions : Moves(s)
  BY <1>1, <1>5, <1>6, <1>7, ConversationsRest, LinksStay DEF bounds
<1>9. Asked'
  BY <1>1, <1>5, <1>6, <1>8, AskedStays DEF IInv, studioVars
<1>. QED BY <1>5, <1>6, <1>8, <1>9 DEF IInv

\* The head of a connection, when it answers what a conversation awaits.
LEMMA Answered ==
  ASSUME IInv, NEW r \in Rooms, wire[r] # <<>>, NEW m, m = Head(wire[r]), Reply(m), Waiting(m.of)
  PROVE  /\ m \in Replies /\ m.of \in Requests /\ m.of.s \in Sessions /\ ReplyOK(r, m)
         /\ Awaits(m.of) /\ op[m.of.s].room = r /\ call[m.of.s].id = m.of.id
         /\ m.of.read <=> call[m.of.s].pc \in Reading
<1>1. 1 \in DOMAIN wire[r] /\ m = wire[r][1] /\ m \in Messages
  BY TailOf DEF IInv, Typed
<1>2. m \in Replies
  BY <1>1 DEF Messages, Reply
<1>3. m.of \in Requests /\ m.of.s \in Sessions
  BY <1>2 DEF Replies, Requests
<1>4. ReplyOK(r, m)
  BY <1>1 DEF IInv, Asked, WireOK
<1>5. PICK q \in Requests, s \in Sessions : q = m.of /\ s = m.of.s
  BY <1>3
<1>6. Pending(s) /\ q = [s |-> s, id |-> call[s].id, gen |-> call[s].gen, read |-> call[s].pc \in Reading]
  BY <1>5 DEF Waiting, Request
<1>7. q.id = call[s].id /\ (q.read <=> call[s].pc \in Reading)
  <2>1. q.read = (call[s].pc \in Reading) /\ q.id = call[s].id
    BY ONLY <1>6
  <2>. QED BY <2>1
<1>8. Awaits(q)
  BY <1>5, <1>6, <1>7 DEF Awaits
<1>9. op[s].room = r
  BY <1>4, <1>5, <1>8 DEF ReplyOK, IssuedOK
<1>. QED BY <1>2, <1>3, <1>4, <1>5, <1>7, <1>8, <1>9

\* What an answer does to the conversation that awaits it.
LEMMA EndReadSafe ==
  ASSUME IInv, NEW r \in Rooms, wire[r] # <<>>, NEW m, m = Head(wire[r]), Reply(m), Waiting(m.of),
         m.type = "context", NEW s, s = m.of.s, EndRead(s, m.rev),
         UNCHANGED <<studioVars, bound, op, used, begun, bounds>>
  PROVE  /\ plan' \in [Sessions -> Evidence] /\ fresh' \in [Sessions -> Evidence]
         /\ call' \in [Sessions -> CallRecords] /\ UNCHANGED <<command, blocked>>
         /\ s \in Sessions /\ \A t \in Sessions \ {s} : Rests(t)
         /\ ConversationOK(s)' /\ Moves(s)
<1>1. /\ m \in Replies /\ s \in Sessions /\ ReplyOK(r, m) /\ Awaits(m.of) /\ op[s].room = r
      /\ m.of.read <=> call[s].pc \in Reading
  BY Answered
<1>2. /\ Sess(op[s], call[s], command[s], used[s], blocked[s], reads[s]) /\ EvidenceOK(s)
      /\ op[s] \in OpRecords /\ command[s] \in Journals /\ used[s] \in 0..MaxCommands
      /\ blocked[s] \in BOOLEAN /\ call[s] \in CallRecords /\ reads[s] \in Nat
      /\ plan[s] \in Evidence /\ fresh[s] \in Evidence /\ begun[s] \in Nat \X Nat
  BY <1>1, Parts
<1>3. call[s].pc \in Reading /\ m.rev \in Nat /\ m.rev >= begun[s][2]
  BY <1>1 DEF ReplyOK, Replies
<1>4. PICK found : found = IF m.rev # 0 /\ bound[s] = op[s].room
                             THEN [ok |-> TRUE, rev |-> m.rev, n |-> op[s].n] ELSE NoEvidence
  OBVIOUS
<1>5. found \in Evidence /\ (found.ok => found.rev = m.rev /\ found.n = op[s].n)
  <2>1. op[s].n \in Nat
    BY <1>2 DEF OpRecords
  <2>2. CASE found = [ok |-> TRUE, rev |-> m.rev, n |-> op[s].n]
    BY <1>3, <2>1, <2>2 DEF Evidence
  <2>3. CASE found = NoEvidence
    BY <2>3, Records
  <2>. QED BY <1>4, <2>2, <2>3
<1>6. /\ \/ plan' = [plan EXCEPT ![s] = found] /\ fresh' = fresh
         \/ fresh' = [fresh EXCEPT ![s] = found] /\ plan' = plan
      /\ call' = [call EXCEPT ![s] = InTurn] /\ UNCHANGED <<command, blocked>>
  BY <1>4 DEF EndRead
<1>7. /\ plan' \in [Sessions -> Evidence] /\ fresh' \in [Sessions -> Evidence]
      /\ call' \in [Sessions -> CallRecords] /\ call'[s] = InTurn
      /\ plan'[s] \in {plan[s], found} /\ fresh'[s] \in {fresh[s], found}
  BY <1>1, <1>5, <1>6, Records, ZenonT(60) DEF IInv, Typed
<1>8. \A t \in Sessions \ {s} : Rests(t)
  BY <1>6 DEF Rests, IInv, Typed, bounds
<1>9. call[s].pc \notin Tool /\ op[s].open
  BY <1>2, <1>3 DEF Sess, OpenOK, Tool, Reading
<1>10. SessionOK(s)'
  <2>1. Sess(op[s], InTurn, command[s], used[s], blocked[s], reads[s])
    BY ONLY <1>2, <1>9, Records, TurnMoves DEF Tool, Reading
  <2>. QED BY <1>6, <1>7, <2>1 DEF SessionOK, bounds
<1>11. EvidenceOK(s)'
  <2>1. Evid(op[s], plan'[s], fresh'[s], begun[s])
    <3>1. /\ begun[s][1] <= begun[s][2] /\ begun[s][1] \in Nat /\ begun[s][2] \in Nat
          /\ plan[s].ok => plan[s].rev >= begun[s][1]
          /\ fresh[s].ok => fresh[s].n <= op[s].n /\ (fresh[s].n = op[s].n => fresh[s].rev >= begun[s][2])
      BY <1>2 DEF EvidenceOK, Evid
    <3>2. op[s].n \in Nat
      BY <1>2 DEF OpRecords
    <3>3. found.ok => found.rev >= begun[s][1] /\ found.rev >= begun[s][2]
                      /\ found.n = op[s].n /\ found.n <= op[s].n
      <4>1. PICK a \in Nat, b \in Nat, n \in Nat : a = begun[s][1] /\ b = begun[s][2] /\ n = op[s].n
        BY <3>1, <3>2
      <4>2. m.rev \in Nat /\ m.rev >= b /\ b >= a
        BY <1>3, <3>1, <4>1
      <4>3. m.rev >= a /\ n <= n
        BY ONLY <4>2, a \in Nat, b \in Nat, n \in Nat
      <4>. QED BY ONLY <1>5, <4>1, <4>2, <4>3
    <3>4. plan'[s].ok => plan'[s].rev >= begun[s][1]
      BY <1>7, <3>1, <3>3
    <3>5. fresh'[s].ok => /\ fresh'[s].n <= op[s].n
                          /\ fresh'[s].n = op[s].n => fresh'[s].rev >= begun[s][2]
      BY <1>7, <3>1, <3>3
    <3>. QED BY <1>9, <3>1, <3>4, <3>5 DEF Evid
  <2>. QED BY <1>2, <2>1 DEF EvidenceOK, Revision, studioVars
<1>12. LinkOK(s)' /\ Moves(s)
  <2>1. call'[s].pc \notin Reading \cup {"waiting"}
    BY <1>7, Records DEF Reading
  <2>2. command' = command
    BY <1>6
  <2>3. Keeps(s) /\ reads[s] <= reads'[s]
    <3>1. reads' = reads /\ reads[s] \in Nat
      BY <1>2 DEF bounds
    <3>. QED BY ONLY <2>2, <3>1 DEF Keeps
  <2>. QED BY <1>1, <2>1, <2>3, KeepsMoves DEF LinkOK, Pending
<1>. QED BY <1>1, <1>6, <1>7, <1>8, <1>10, <1>11, <1>12 DEF ConversationOK

LEMMA EndToolSafe ==
  ASSUME IInv, NEW r \in Rooms, wire[r] # <<>>, NEW m, m = Head(wire[r]), Reply(m), Waiting(m.of),
         NEW told \in {"saved", "rejected"}, NEW s, s = m.of.s,
         told = "saved" => m.type = "saved", told = "rejected" => m.type \in {"rejected", "stale"},
         NEW stale \in BOOLEAN, EndTool(s, told, stale),
         UNCHANGED <<studioVars, bound, op, used, begun, bounds>>
  PROVE  /\ command' \in [Sessions -> Journals] /\ call' \in [Sessions -> CallRecords]
         /\ UNCHANGED <<blocked, plan, fresh>>
         /\ s \in Sessions /\ \A t \in Sessions \ {s} : Rests(t)
         /\ ConversationOK(s)' /\ Moves(s)
<1>1. /\ m \in Replies /\ m.of \in Requests /\ s \in Sessions /\ ReplyOK(r, m) /\ Awaits(m.of)
      /\ call[s].id = m.of.id /\ (m.of.read <=> call[s].pc \in Reading)
  BY Answered
<1>2. /\ Sess(op[s], call[s], command[s], used[s], blocked[s], reads[s]) /\ EvidenceOK(s)
      /\ op[s] \in OpRecords /\ command[s] \in Journals /\ used[s] \in 0..MaxCommands
      /\ blocked[s] \in BOOLEAN /\ call[s] \in CallRecords /\ reads[s] \in Nat
  BY <1>1, Parts
<1>3. ~m.of.read /\ call[s].pc = "waiting"
  BY <1>1 DEF ReplyOK, Awaits, Pending
<1>4. used[s] \in Commands /\ used[s] = m.of.id /\ command[s][used[s]] \in CommandRecords
  BY <1>1, <1>2, <1>3 DEF Sess, ToolOK, Tool, Journals
<1>5. PICK r2 : r2 = Settled(command[s][used[s]], told, stale)
                /\ IsSettled(r2, command[s][used[s]], told)
  BY <1>4, SettledFields
<1>6. /\ command' = [command EXCEPT ![s][used[s]] = r2] /\ call' = [call EXCEPT ![s] = InTurn]
      /\ UNCHANGED <<blocked, plan, fresh>>
  BY <1>5 DEF EndTool, Current
<1>7. /\ command'[s] = [command[s] EXCEPT ![used[s]] = r2] /\ call'[s] = InTurn
      /\ blocked'[s] = blocked[s] /\ blocked'[s] \in BOOLEAN
  BY <1>1, <1>2, <1>6 DEF IInv, Typed
<1>8. /\ call[s].pc \in {"send", "waiting"} /\ call'[s] = InTurn
      /\ told \in {"saved", "rejected", "unknown"} /\ IsSettled(r2, command[s][used[s]], told)
      /\ command'[s] = [command[s] EXCEPT ![used[s]] = r2] /\ blocked'[s] \in BOOLEAN
      /\ blocked'[s] = blocked[s] \/ blocked'[s] = TRUE
      /\ told = "unknown" /\ command[s][used[s]].kind = "batch" => blocked'[s] = TRUE
  BY <1>3, <1>5, <1>7
<1>9. /\ Sess(op[s], call'[s], command'[s], used[s], blocked'[s], reads[s])
      /\ command'[s] \in Journals
      /\ \A c \in Commands :
           /\ command'[s][c].sent = command[s][c].sent /\ command'[s][c].room = command[s][c].room
           /\ command'[s][c].told = IF c = used[s] THEN told ELSE command[s][c].told
  BY ONLY <1>1, <1>8, Settling, IInv
<1>10. command' \in [Sessions -> Journals] /\ call' \in [Sessions -> CallRecords]
  <2>1. command' = [command EXCEPT ![s] = command'[s]]
    BY <1>6, <1>7 DEF IInv, Typed
  <2>. QED BY <1>6, <1>9, <2>1, Records DEF IInv, Typed
<1>11. \A t \in Sessions \ {s} : Rests(t)
  BY <1>6 DEF Rests, IInv, Typed, bounds
<1>12. SessionOK(s)' /\ EvidenceOK(s)'
  BY <1>2, <1>6, <1>9 DEF SessionOK, EvidenceOK, Revision, studioVars, bounds
\* what is told of the command is true, and nobody holds the command any more
<1>13. told = "saved" => <<s, used[s]>> \in saves
  BY <1>1, <1>4 DEF ReplyOK
<1>14. told = "rejected" => Refused(s, used[s])
  <2>. SUFFICES ASSUME told = "rejected" PROVE Refused(s, used[s])
    OBVIOUS
  <2>1. <<s, used[s]>> \notin saves
    BY <1>1, <1>4 DEF ReplyOK
  <2>2. ASSUME NEW h \in Rooms, NEW i \in DOMAIN work[h], NEW p, p = work[h][i],
               ~p.read, p.s = s, p.id = used[s]
        PROVE  FALSE
    <3>1. IssuedOK(h, p) /\ Undone(h, p)
      BY <2>2 DEF IInv, Asked, WorkOK
    <3>2. h = r
      BY <1>1, <1>3, <1>4, <2>2, <3>1 DEF ReplyOK, IssuedOK
    <3>3. 1 \in DOMAIN wire[r] /\ m = wire[r][1]
      BY TailOf DEF IInv, Typed
    <3>. QED BY <1>3, <1>4, <2>2, <3>1, <3>2, <3>3 DEF Undone, SameCommand
  <2>. QED BY <2>1, <2>2 DEF Refused
<1>15. LinkOK(s)' /\ Moves(s)
  <2>1. call'[s].pc \notin Reading \cup {"waiting"}
    BY <1>7, Records DEF Reading
  <2>2. reads[s] <= reads'[s]
    <3>1. reads' = reads /\ reads[s] \in Nat
      BY <1>2 DEF bounds
    <3>. QED BY ONLY <3>1
  <2>. QED BY <1>9, <1>13, <1>14, <2>1, <2>2 DEF LinkOK, Pending, Moves
<1>. QED BY <1>1, <1>6, <1>10, <1>11, <1>12, <1>15 DEF ConversationOK

LEMMA HandleReplySafe ==
  ASSUME IInv, NEW r \in Rooms, HandleReply(r)
  PROVE  IInv'
<1>1. /\ wire[r] # <<>> /\ wire' = [wire EXCEPT ![r] = Tail(@)]
      /\ UNCHANGED <<studioVars, bound, op, used, begun, bounds>>
  BY DEF HandleReply
<1>2. PICK m : m = Head(wire[r])
  OBVIOUS
<1>3. Reply(m)
  BY <1>2 DEF HandleReply, Reply
<1>4. /\ m \in Messages /\ m.seq > conn[r].seq
      /\ Applied(conn[r], m) \in [gen: Nat, ready: BOOLEAN, seq: Nat, snap: Nat]
      /\ Applied(conn[r], m).gen = conn[r].gen
      /\ Applied(conn[r], m).seq \in {conn[r].seq, m.seq}
      /\ Applied(conn[r], m).snap = m.rev
  BY <1>1, <1>2, AppliedFields
<1>5. \A h \in Rooms : room[h] <= room'[h]
  BY <1>1 DEF IInv, Typed, studioVars
<1>6. conn \in [Rooms -> [gen: Nat, ready: BOOLEAN, seq: Nat, snap: Nat]]
  BY DEF IInv, Typed
<1>7. CASE ~Waiting(m.of)
  <2>1. UNCHANGED <<conn, command, blocked, plan, fresh, call>>
    BY <1>2, <1>7 DEF HandleReply
  <2>2. PICK c \in [gen: Nat, ready: BOOLEAN, seq: Nat, snap: Nat] : c = conn[r]
    BY <1>6
  <2>3. conn' = [conn EXCEPT ![r] = c]
    BY <1>6, <2>1, <2>2
  <2>4. /\ wire' \in [Rooms -> Seq(Messages)]
        /\ \A h \in Rooms : conn'[h].gen = conn[h].gen
        /\ WireShrinks /\ Channels'
    BY <1>1, <2>2, <2>3, Delivered DEF studioVars
  <2>5. Typed'
    BY <1>1, <2>1, <2>4 DEF IInv, Typed, studioVars, bounds
  <2>6. UNCHANGED sessionVars
    BY <1>1, <2>1 DEF sessionVars
  <2>7. Talks' /\ Sees' /\ Links' /\ \A s \in Sessions : Moves(s)
    BY <1>1, <1>5, <2>4, <2>5, <2>6, ConversationsRest, LinksStay DEF bounds
  <2>8. Asked'
    BY <1>1, <2>4, <2>5, <2>7, AskedStays DEF IInv, studioVars
  <2>. QED BY <2>4, <2>5, <2>7, <2>8 DEF IInv
<1>8. CASE Waiting(m.of)
  <2>1. PICK now : now = IF m.type = "mismatch" THEN conn[r] ELSE Applied(conn[r], m)
    OBVIOUS
  <2>2. PICK s : s = m.of.s
    OBVIOUS
  <2>3. /\ conn' = [conn EXCEPT ![r] = now]
        /\ CASE m.type = "context" -> EndRead(s, now.snap)
             [] Outcome(m.type) = "unknown" -> GiveUp({s})
             [] OTHER -> EndTool(s, Outcome(m.type), m.type = "stale")
    BY <1>2, <1>3, <1>8, <2>1, <2>2 DEF HandleReply, Reply
  <2>4. /\ now \in [gen: Nat, ready: BOOLEAN, seq: Nat, snap: Nat]
        /\ now.gen = conn[r].gen /\ now.seq \in {conn[r].seq, Head(wire[r]).seq}
    BY <1>2, <1>4, <1>6, <2>1
  <2>5. /\ wire' \in [Rooms -> Seq(Messages)]
        /\ conn' \in [Rooms -> [gen: Nat, ready: BOOLEAN, seq: Nat, snap: Nat]]
        /\ \A h \in Rooms : conn'[h].gen = conn[h].gen
        /\ WireShrinks /\ Channels'
    BY <1>1, <2>3, <2>4, Delivered DEF studioVars
  <2>6. m \in Replies /\ s \in Sessions
    BY <1>1, <1>2, <1>3, <1>8, <2>2, Answered
  <2>7. /\ command' \in [Sessions -> Journals] /\ blocked' \in [Sessions -> BOOLEAN]
        /\ call' \in [Sessions -> CallRecords]
        /\ plan' \in [Sessions -> Evidence] /\ fresh' \in [Sessions -> Evidence]
        /\ \A t \in Sessions \ {s} : Rests(t)
        /\ SessionOK(s)' /\ EvidenceOK(s)' /\ LinkOK(s)' /\ Moves(s)
    <3>0. /\ command \in [Sessions -> Journals] /\ blocked \in [Sessions -> BOOLEAN]
          /\ plan \in [Sessions -> Evidence] /\ fresh \in [Sessions -> Evidence]
      BY DEF IInv, Typed
    <3>1. CASE m.type = "context"
      <4>1. EndRead(s, m.rev)
        <5>1. EndRead(s, now.snap)
          BY <2>3, <3>1 DEF Outcome
        <5>2. now.snap = m.rev
          BY <1>4, <2>1, <3>1
        <5>. QED BY <5>1, <5>2 DEF EndRead
      <4>. QED BY <1>1, <1>2, <1>3, <1>8, <2>2, <3>0, <3>1, <4>1, EndReadSafe DEF ConversationOK
    <3>2. CASE m.type = "mismatch"
      <4>1. GiveUp({s}) /\ Pending(s)
        BY <1>8, <2>2, <2>3, <3>2 DEF Outcome, Waiting
      <4>2. /\ command' \in [Sessions -> Journals] /\ blocked' \in [Sessions -> BOOLEAN]
            /\ call' \in [Sessions -> CallRecords] /\ plan' = plan /\ fresh' = fresh
            /\ \A t \in Sessions :
                 /\ t # s => call'[t] = call[t] /\ command'[t] = command[t] /\ blocked'[t] = blocked[t]
                 /\ t = s => call'[t] = InTurn
                 /\ Sess(op[t], call'[t], command'[t], used[t], blocked'[t], reads[t])
                 /\ Keeps(t)
        BY <2>6, <4>1, GiveUpEffect
      <4>3. \A t \in Sessions \ {s} : Rests(t)
        BY <1>1, <4>2 DEF Rests, bounds
      <4>4. SessionOK(s)' /\ EvidenceOK(s)'
        BY <1>1, <2>6, <4>2 DEF SessionOK, bounds, IInv, Sees, EvidenceOK, Revision, studioVars
      <4>5. call'[s].pc \notin Reading \cup {"waiting"} /\ reads[s] <= reads'[s]
        BY <1>1, <2>6, <4>2, Records DEF Reading, bounds, IInv, Typed
      <4>6. LinkOK(s)' /\ Moves(s)
        BY <2>6, <4>2, <4>5, KeepsMoves DEF LinkOK, Pending
      <4>. QED BY <3>0, <4>2, <4>3, <4>4, <4>6
    <3>3. CASE m.type \in {"saved", "rejected", "stale"}
      <4>1. PICK told \in {"saved", "rejected"}, stale \in BOOLEAN :
              /\ told = Outcome(m.type) /\ EndTool(s, told, stale)
              /\ told = "saved" => m.type = "saved"
              /\ told = "rejected" => m.type \in {"rejected", "stale"}
        <5>1. Outcome(m.type) \in {"saved", "rejected"}
              /\ (Outcome(m.type) = "saved" => m.type = "saved")
              /\ (Outcome(m.type) = "rejected" => m.type \in {"rejected", "stale"})
          BY <3>3 DEF Outcome
        <5>2. EndTool(s, Outcome(m.type), m.type = "stale")
          BY <2>3, <3>3, <5>1
        <5>3. (m.type = "stale") \in BOOLEAN
          OBVIOUS
        <5>. QED BY <5>1, <5>2, <5>3
      <4>. QED BY <1>1, <1>2, <1>3, <1>8, <2>2, <3>0, <4>1, EndToolSafe DEF ConversationOK
    <3>4. m.type \in {"context", "saved", "rejected", "stale", "mismatch"}
      BY <2>6 DEF Replies
    <3>. QED BY <3>1, <3>2, <3>3, <3>4
  <2>8. Typed'
    BY <1>1, <2>5, <2>7 DEF IInv, Typed, studioVars, bounds
  <2>9. UNCHANGED <<room, saves, studio, work>>
    BY <1>1 DEF studioVars
  <2>10. ConversationOK(s)'
    BY <2>7 DEF ConversationOK
  <2>. QED BY ONLY IInv, <2>5, <2>6, <2>7, <2>8, <2>9, <2>10, ConversationMoves
<1>. QED BY <1>7, <1>8

-----------------------------------------------------------------------------
(***************************************************************************)
(* The invariant and the properties.                                       *)
(***************************************************************************)
LEMMA InitOK == Init => IInv
<1>. SUFFICES ASSUME Init PROVE IInv
  OBVIOUS
<1>1. /\ room = [r \in Rooms |-> 1] /\ saves = {}
      /\ studio = [r \in Rooms |-> [gen |-> 0, seq |-> 0, seen |-> {}]]
      /\ work = [r \in Rooms |-> <<>>]
      /\ conn = [r \in Rooms |-> Offline] /\ wire = [r \in Rooms |-> <<>>]
      /\ bound \in [Sessions -> Bindings]
      /\ op = [s \in Sessions |-> NoOp]
      /\ command = [s \in Sessions |-> [c \in Commands |-> Unused]]
      /\ used = [s \in Sessions |-> 0] /\ blocked = [s \in Sessions |-> FALSE]
      /\ plan = [s \in Sessions |-> NoEvidence] /\ fresh = [s \in Sessions |-> NoEvidence]
      /\ begun = [s \in Sessions |-> <<0, 0>>]
      /\ call = [s \in Sessions |-> NoCall] /\ reads = [s \in Sessions |-> 0]
  BY DEF Init
<1>2. /\ Offline \in [gen: Nat, ready: BOOLEAN, seq: Nat, snap: Nat]
      /\ Offline.gen = 0 /\ Offline.seq = 0
  BY DEF Offline
<1>3. Typed
  <2>1. [c \in Commands |-> Unused] \in Journals
    BY Records DEF Journals
  <2>2. command \in [Sessions -> Journals] /\ op \in [Sessions -> OpRecords]
    BY <1>1, <2>1, Records
  <2>3. /\ work \in [Rooms -> Seq(Requests)] /\ wire \in [Rooms -> Seq(Messages)]
        /\ studio \in [Rooms -> [gen: Nat, seq: Nat, seen: SUBSET Requests]]
        /\ conn \in [Rooms -> [gen: Nat, ready: BOOLEAN, seq: Nat, snap: Nat]]
        /\ room \in [Rooms -> Nat \ {0}]
    BY <1>1, <1>2
  <2>4. /\ used \in [Sessions -> 0..MaxCommands] /\ begun \in [Sessions -> Nat \X Nat]
    BY <1>1, Constants
  <2>. QED BY <1>1, <2>2, <2>3, <2>4, Records DEF Typed
<1>4. ASSUME NEW s \in Sessions PROVE SessionOK(s) /\ EvidenceOK(s) /\ LinkOK(s)
  <2>1. /\ op[s] = NoOp /\ call[s] = NoCall /\ used[s] = 0 /\ blocked[s] = FALSE /\ reads[s] = 0
        /\ plan[s] = NoEvidence /\ fresh[s] = NoEvidence /\ begun[s] = <<0, 0>>
        /\ \A c \in Commands : command[s][c] = Unused
    BY <1>1
  <2>2. SessionOK(s)
    BY <2>1, Records DEF SessionOK, Sess, OpenOK, UnusedOK, ToolOK, EntryOK, CardsOK, Tool, Reading
  <2>3. EvidenceOK(s) /\ LinkOK(s)
    BY <2>1, Records DEF EvidenceOK, Evid, LinkOK, Pending, Reading
  <2>. QED BY <2>2, <2>3
<1>5. Channels
  <2>1. ASSUME NEW r \in Rooms PROVE ChannelOK(r)
    <3>1. conn[r] = Offline /\ wire[r] = <<>> /\ studio[r].seq = 0
      BY <1>1
    <3>. QED BY <1>2, <3>1 DEF ChannelOK, Between
  <2>. QED BY <2>1 DEF Channels
<1>6. Asked
  <2>1. \A r \in Rooms : work[r] = <<>> /\ wire[r] = <<>>
    BY <1>1
  <2>2. \A s \in Sessions, c \in Commands : command[s][c].told = "none"
    BY <1>1, Records
  <2>3. \A r \in Rooms : WorkOK(r) /\ WireOK(r)
    BY <2>1 DEF WorkOK, WireOK
  <2>4. SavesOK /\ ToldOK
    BY <1>1, <2>2 DEF SavesOK, ToldOK
  <2>. QED BY <2>3, <2>4 DEF Asked
<1>. QED BY <1>3, <1>4, <1>5, <1>6 DEF IInv, Talks, Sees, Links

LEMMA Stutters == ASSUME IInv, UNCHANGED vars PROVE IInv'
<1>1. UNCHANGED <<studioVars, brokerVars, sessionVars, reads>>
  BY DEF vars, bounds
<1>2. Typed'
  BY <1>1 DEF IInv, Typed, studioVars, brokerVars, sessionVars
<1>3. (\A r \in Rooms : room[r] <= room'[r]) /\ \A r \in Rooms : conn'[r].gen = conn[r].gen
  BY <1>1 DEF IInv, Typed, studioVars, brokerVars
<1>4. Talks' /\ Sees' /\ Links' /\ \A s \in Sessions : Moves(s)
  BY <1>1, <1>2, <1>3, ConversationsRest, LinksStay
<1>5. Channels' /\ WireShrinks
  BY <1>1 DEF IInv, Channels, ChannelOK, WireShrinks, studioVars, brokerVars
<1>6. Asked'
  BY <1>1, <1>2, <1>4, <1>5, AskedStays DEF IInv, studioVars
<1>. QED BY <1>2, <1>4, <1>5, <1>6 DEF IInv

LEMMA StepOK == IInv /\ [Next]_vars => IInv'
<1>. SUFFICES ASSUME IInv, [Next]_vars PROVE IInv'
  OBVIOUS
<1>1. ASSUME NEW s \in Sessions,
             \/ \E r \in Bindings : Bind(s, r)
             \/ \E add \in BOOLEAN : Prompt(s, add)
             \/ RequestAbort(s) \/ CancelPrepared(s) \/ Finish(s) \/ DriveFails(s)
             \/ Plan(s) \/ Refresh(s)
             \/ \E kind \in Kinds : Prepare(s, kind)
             \/ Dispatch(s) \/ Send(s) \/ Timeout(s)
      PROVE  IInv'
  BY <1>1, BindSafe, PromptSafe, AbortSafe, CancelPreparedSafe, FinishSafe, DriveFailsSafe,
     PlanSafe, RefreshSafe, PrepareSafe, DispatchSafe, SendSafe, TimeoutSafe
<1>2. ASSUME NEW r \in Rooms,
             \/ Register(r) \/ Ready(r) \/ Disconnect(r)
             \/ StudioTakes(r) \/ StudioReads(r) \/ StudioExecutes(r)
             \/ ManualEdit(r) \/ Select(r)
             \/ HandlePublication(r) \/ HandleReply(r)
      PROVE  IInv'
  BY <1>2, RegisterSafe, ReadySafe, DisconnectSafe, StudioTakesSafe, StudioReadsSafe,
     StudioExecutesSafe, ManualEditSafe, SelectSafe, HandlePublicationSafe, HandleReplySafe
<1>. QED BY <1>1, <1>2, CrashSafe, Stutters DEF Next

\* The invariant that the properties below follow from.
THEOREM Inductive == Spec => []IInv
<1>. QED BY InitOK, StepOK, PTL DEF Spec

\* An edit told "saved" was saved, and one told rejected or cancelled never
\* reaches the room (journal, broker and adapter together).
THEOREM TrueReports == Spec => []ReportsAreTrue
<1>1. ASSUME IInv PROVE ReportsAreTrue
  <2>1. ASSUME NEW s \in Sessions, NEW c \in Commands
        PROVE  /\ command[s][c].told \in Reports
               /\ command[s][c].told = "saved" => <<s, c>> \in saves
               /\ command[s][c].told \in {"rejected", "cancelled"} => <<s, c>> \notin saves
    <3>1. /\ Sess(op[s], call[s], command[s], used[s], blocked[s], reads[s])
          /\ command[s] \in Journals
      BY <1>1, Parts
    <3>2. command[s][c] \in CommandRecords /\ (command[s][c].told = "cancelled" => command[s][c].sent = 0)
      BY <3>1 DEF Journals, Sess, EntryOK
    <3>3. command[s][c].told = "saved" => <<s, c>> \in saves
      BY <1>1 DEF IInv, Asked, ToldOK
    <3>4. <<s, c>> \in saves => command[s][c].sent = 1 /\ command[s][c].told # "rejected"
      BY <1>1 DEF IInv, Asked, SavesOK
    <3>. QED BY <3>2, <3>3, <3>4 DEF CommandRecords
  <2>2. TypeOK
    <3>1. \A s \in Sessions : call[s].pc \in Points
      BY <1>1 DEF IInv, Typed, CallRecords
    <3>. QED BY <1>1, <2>1, <3>1 DEF TypeOK, IInv, Typed, Points, Tool, Reports
  <2>. QED BY <2>1, <2>2 DEF ReportsAreTrue
<1>. QED BY <1>1, Inductive, PTL

\* A second card of a prompt is prepared only when the first is known to have
\* changed nothing, so at most one is saved (journal.prepare).
THEOREM OneAddition == Spec => []AdmittedAddOnce
<1>1. ASSUME IInv PROVE AdmittedAddOnce
  <2>. SUFFICES ASSUME NEW s \in Sessions, NEW n \in 1..MaxOps
                PROVE  Cardinality({c \in Commands : command[s][c].op = n /\ command[s][c].card
                                                     /\ <<s, c>> \in saves}) <= 1
    BY DEF AdmittedAddOnce
  <2>1. PICK S : S = {c \in Commands : command[s][c].op = n /\ command[s][c].card
                                       /\ <<s, c>> \in saves}
    OBVIOUS
  <2>2. ASSUME NEW c \in S, NEW d \in S, c < d PROVE FALSE
    <3>1. Sess(op[s], call[s], command[s], used[s], blocked[s], reads[s])
      BY <1>1, Parts
    <3>2. c \in Commands /\ d \in Commands /\ command[s][c].told \in {"rejected", "cancelled"}
      BY <2>1, <2>2, <3>1 DEF Sess, CardsOK
    <3>3. command[s][c].sent = 1 /\ command[s][c].told # "rejected"
      BY <1>1, <2>1, <3>2 DEF IInv, Asked, SavesOK
    <3>. QED BY <3>1, <3>2, <3>3 DEF Sess, EntryOK
  <2>3. \A c, d \in S : c = d
    BY <2>1, <2>2, Constants DEF Commands
  <2>4. Cardinality(S) \in {0, 1}
    <3>1. CASE S = {}
      BY <3>1, FS_EmptySet
    <3>2. CASE S # {}
      <4>1. PICK c : S = {c}
        BY <2>3, <3>2
      <4>. QED BY <4>1, FS_Singleton
    <3>. QED BY <3>1, <3>2
  <2>. QED BY <2>1, <2>4
<1>. QED BY <1>1, Inductive, PTL

\* The room a turn edits by is as new as the beginning of the turn before it
\* (planning context, refresh and applyContext together).
THEOREM CurrentEvidence == Spec => []EvidenceCurrent
<1>1. ASSUME IInv PROVE EvidenceCurrent
  BY <1>1 DEF IInv, Sees, EvidenceOK, Evid, EvidenceCurrent
<1>. QED BY <1>1, Inductive, PTL
-----------------------------------------------------------------------------
(***************************************************************************)
(* Only broker.execute sends an edit.                                      *)
(***************************************************************************)
Quiet(s) == \A c \in Commands : command'[s][c].sent = command[s][c].sent

LEMMA ConversationQuiet ==
  ASSUME IInv, NEW t \in Sessions, NEW s \in Sessions,
         \/ \E r \in Bindings : Bind(t, r)
         \/ \E add \in BOOLEAN : Prompt(t, add)
         \/ RequestAbort(t) \/ CancelPrepared(t) \/ Finish(t) \/ DriveFails(t)
         \/ Plan(t) \/ Refresh(t)
         \/ \E kind \in Kinds : Prepare(t, kind)
         \/ Dispatch(t) \/ Send(t) \/ Timeout(t)
  PROVE  Quiet(s) \/ (s = t /\ Send(s))
<1>0. command \in [Sessions -> Journals] /\ used[t] \in 0..MaxCommands
  BY DEF IInv, Typed
<1>1. CASE \/ \E r \in Bindings : Bind(t, r)
           \/ \E add \in BOOLEAN : Prompt(t, add)
           \/ DriveFails(t) \/ Plan(t) \/ Refresh(t)
  <2>1. command' = command
    BY <1>1 DEF Bind, Prompt, DriveFails, Plan, Refresh
  <2>. QED BY <2>1 DEF Quiet
<1>2. CASE RequestAbort(t) \/ Timeout(t)
  <2>1. PICK S \in SUBSET Sessions : GiveUp(S) /\ \A h \in S : Pending(h)
    <3>1. CASE RequestAbort(t)
      <4>1. {h \in {t} : Pending(h)} \in SUBSET Sessions
        OBVIOUS
      <4>. QED BY <3>1, <4>1 DEF RequestAbort
    <3>2. CASE Timeout(t)
      BY <3>2 DEF Timeout, Times
    <3>. QED BY <1>2, <3>1, <3>2
  <2>2. Keeps(s)
    BY <2>1, GiveUpEffect
  <2>. QED BY <2>2 DEF Keeps, Quiet
<1>3. CASE CancelPrepared(t)
  <2>1. ASSUME NEW c \in Commands PROVE command'[s][c].sent = command[s][c].sent
    <3>1. PICK e \in CommandRecords : e = command[s][c]
      BY <1>0 DEF Journals
    <3>2. command'[s][c] \in {e, [e EXCEPT !.state = "cancelled"]}
      BY <1>0, <1>3, <3>1 DEF CancelPrepared
    <3>. QED BY <3>1, <3>2 DEF CommandRecords
  <2>. QED BY <2>1 DEF Quiet
<1>4. CASE Finish(t)
  <2>1. ASSUME NEW c \in Commands PROVE command'[s][c].sent = command[s][c].sent
    <3>1. command[s][c] \in CommandRecords
      BY <1>0 DEF Journals
    <3>2. command'[s][c] \in {command[s][c], Forgotten(command[s][c])}
      BY <1>0, <1>4 DEF Finish
    <3>. QED BY <3>1, <3>2, ForgottenFields
  <2>. QED BY <2>1 DEF Quiet
<1>5. CASE \E kind \in Kinds : Prepare(t, kind)
  <2>1. PICK kind \in Kinds : Prepare(t, kind)
    BY <1>5
  <2>0. PICK r : r = Prepared(t, kind)
    OBVIOUS
  <2>2. r = Prepared(t, kind) /\ r.sent = 0
    BY <2>0 DEF Prepared
  <2>3. command' = [command EXCEPT ![t][used[t] + 1] = r]
    BY <2>1, <2>2 DEF Prepare
  <2>4. \A c \in Commands : c = used[t] + 1 => command[t][c].sent = 0
    <3>1. Sess(op[t], call[t], command[t], used[t], blocked[t], reads[t])
      BY Parts
    <3>2. used[t] + 1 > used[t]
      BY <1>0, Constants
    <3>. QED BY <3>1, <3>2, Records DEF Sess, UnusedOK
  <2>5. ASSUME NEW c \in Commands PROVE command'[s][c].sent = command[s][c].sent
    BY <1>0, <2>2, <2>3, <2>4 DEF Journals
  <2>. QED BY <2>5 DEF Quiet
<1>6. CASE Dispatch(t)
  <2>1. used[t] \in Commands
    BY <1>6, Parts DEF Dispatch, Sess, ToolOK, Tool
  <2>2. PICK e \in CommandRecords : e = command[t][used[t]]
    BY <1>0, <2>1 DEF Journals
  <2>3. PICK r \in {[e EXCEPT !.state = "cancelled", !.told = "cancelled"], [e EXCEPT !.state = "unknown"]} :
          command' = [command EXCEPT ![t][used[t]] = r]
    BY <1>6, <2>2 DEF Dispatch, Current, Dispatched
  <2>4. r.sent = e.sent
    BY <2>3 DEF CommandRecords
  <2>5. ASSUME NEW c \in Commands PROVE command'[s][c].sent = command[s][c].sent
    BY <1>0, <2>2, <2>3, <2>4 DEF Journals
  <2>. QED BY <2>5 DEF Quiet
<1>7. CASE Send(t)
  <2>1. CASE s # t
    <3>1. command'[s] = command[s]
      BY <1>0, <1>7, <2>1 DEF Send
    <3>. QED BY <3>1 DEF Quiet
  <2>. QED BY <1>7, <2>1
<1>. QED BY <1>1, <1>2, <1>3, <1>4, <1>5, <1>6, <1>7

LEMMA RoomQuiet ==
  ASSUME IInv, NEW r \in Rooms, NEW s \in Sessions,
         \/ Register(r) \/ Ready(r) \/ Disconnect(r)
         \/ StudioTakes(r) \/ StudioReads(r) \/ StudioExecutes(r)
         \/ ManualEdit(r) \/ Select(r)
         \/ HandlePublication(r) \/ HandleReply(r)
  PROVE  Quiet(s)
<1>1. CASE command' = command
  BY <1>1 DEF Quiet
<1>2. CASE Disconnect(r)
  <2>1. PICK S \in SUBSET Sessions : GiveUp(S) /\ \A h \in S : Pending(h)
    <3>1. {h \in Sessions : Pending(h) /\ Request(h) \in Mailbox(r)} \in SUBSET Sessions
      OBVIOUS
    <3>. QED BY <1>2, <3>1 DEF Disconnect
  <2>2. Keeps(s)
    BY <2>1, GiveUpEffect
  <2>. QED BY <2>2 DEF Keeps, Quiet
<1>3. CASE HandleReply(r)
  <2>1. PICK m : m = Head(wire[r]) /\ wire[r] # <<>> /\ Reply(m)
    BY <1>3 DEF HandleReply, Reply
  <2>2. CASE ~Waiting(m.of)
    BY <1>1, <1>3, <2>1, <2>2 DEF HandleReply
  <2>3. CASE Waiting(m.of)
    <3>0. PICK t \in Sessions : t = m.of.s
      BY <2>1, <2>3, Answered
    <3>1. \/ command' = command
          \/ GiveUp({t})
          \/ \E told \in {"saved", "rejected"}, stale \in BOOLEAN : EndTool(t, told, stale)
      <4>1. m.type \in {"context", "saved", "rejected", "stale", "mismatch"}
        BY <2>1, <2>3, Answered DEF Replies
      <4>2. PICK now : CASE m.type = "context" -> EndRead(t, now.snap)
                         [] Outcome(m.type) = "unknown" -> GiveUp({t})
                         [] OTHER -> EndTool(t, Outcome(m.type), m.type = "stale")
        BY <1>3, <2>1, <2>3, <3>0 DEF HandleReply, Reply
      <4>3. CASE m.type = "context"
        <5>1. EndRead(t, now.snap)
          BY <4>2, <4>3 DEF Outcome
        <5>. QED BY <5>1 DEF EndRead
      <4>4. CASE m.type = "mismatch"
        BY <4>2, <4>4 DEF Outcome
      <4>5. CASE m.type \in {"saved", "rejected", "stale"}
        <5>1. Outcome(m.type) \in {"saved", "rejected"}
          BY <4>5 DEF Outcome
        <5>2. EndTool(t, Outcome(m.type), m.type = "stale")
          BY <4>2, <4>5, <5>1
        <5>3. (m.type = "stale") \in BOOLEAN
          OBVIOUS
        <5>. QED BY <5>1, <5>2, <5>3
      <4>. QED BY <4>1, <4>3, <4>4, <4>5
    <3>2. CASE GiveUp({t})
      <4>1. Pending(t)
        BY <2>3, <3>0 DEF Waiting
      <4>2. Keeps(s)
        BY <3>2, <4>1, GiveUpEffect
      <4>. QED BY <4>2 DEF Keeps, Quiet
    <3>3. CASE \E told \in {"saved", "rejected"}, stale \in BOOLEAN : EndTool(t, told, stale)
      <4>1. PICK told \in {"saved", "rejected"}, stale \in BOOLEAN : EndTool(t, told, stale)
        BY <3>3
      <4>2. command \in [Sessions -> Journals]
        BY DEF IInv, Typed
      <4>3. PICK e : e = Settled(command[t][used[t]], told, stale)
        OBVIOUS
      <4>4. command' = [command EXCEPT ![t][used[t]] = e]
        BY <4>1, <4>3 DEF EndTool, Current
      <4>5. \A c \in Commands : c = used[t] => e.sent = command[t][c].sent
        BY <4>2, <4>3, SettledFields DEF Journals, IsSettled
      <4>. QED BY <4>2, <4>4, <4>5 DEF Quiet, Journals
    <3>. QED BY <1>1, <3>1, <3>2, <3>3
  <2>. QED BY <2>2, <2>3
<1>. QED BY <1>1, <1>2, <1>3 DEF Register, Ready, StudioTakes, StudioReads, StudioExecutes,
       ManualEdit, Select, HandlePublication, sessionVars

LEMMA CrashQuiet ==
  ASSUME IInv, Crash, NEW s \in Sessions
  PROVE  Quiet(s)
<1>1. ASSUME NEW c \in Commands PROVE command'[s][c].sent = command[s][c].sent
  <2>1. Sess(op[s], call[s], command[s], used[s], blocked[s], reads[s]) /\ command[s] \in Journals
    BY Parts
  <2>2. command[s][c] \in CommandRecords /\ (command[s][c].state = "none" => command[s][c] = Unused)
    BY <2>1 DEF Journals, Sess, UnusedOK
  <2>3. command'[s][c] = IF command[s][c].state = "none" THEN Unused ELSE Forgotten(command[s][c])
    BY DEF Crash
  <2>. QED BY <2>2, <2>3, ForgottenFields
<1>. QED BY <1>1 DEF Quiet

\* An edit is sent once, to the admitted room, and for a live request only
\* (broker.execute behind the guards of the journal).
THEOREM SentOnce == Spec => SentForALiveRequest
<1>1. ASSUME IInv, Next, NEW s \in Sessions, NEW c \in Commands, Sends(s, c)
      PROVE  /\ command'[s][c].sent = 1
             /\ command[s][c].op = op[s].n /\ command[s][c].room = op[s].room
             /\ ~op[s].cancelled /\ ~op[s].recovered
             /\ ~\E d \in Commands : /\ command[s][d].op = op[s].n /\ command[s][d].kind = "batch"
                                     /\ command[s][d].told = "unknown"
  <2>1. Send(s)
    <3>1. ~Quiet(s)
      BY <1>1 DEF Sends, Quiet
    <3>2. CASE Crash
      BY <1>1, <3>1, <3>2, CrashQuiet
    <3>3. ASSUME NEW r \in Rooms,
                 \/ Register(r) \/ Ready(r) \/ Disconnect(r)
                 \/ StudioTakes(r) \/ StudioReads(r) \/ StudioExecutes(r)
                 \/ ManualEdit(r) \/ Select(r)
                 \/ HandlePublication(r) \/ HandleReply(r)
          PROVE  FALSE
      BY <1>1, <3>1, <3>3, RoomQuiet
    <3>4. ASSUME NEW t \in Sessions,
                 \/ \E r \in Bindings : Bind(t, r)
                 \/ \E add \in BOOLEAN : Prompt(t, add)
                 \/ RequestAbort(t) \/ CancelPrepared(t) \/ Finish(t) \/ DriveFails(t)
                 \/ Plan(t) \/ Refresh(t)
                 \/ \E kind \in Kinds : Prepare(t, kind)
                 \/ Dispatch(t) \/ Send(t) \/ Timeout(t)
          PROVE  Send(s)
      BY <1>1, <3>1, <3>4, ConversationQuiet
    <3>. QED BY <1>1, <3>2, <3>3, <3>4 DEF Next
  <2>2. /\ Sess(op[s], call[s], command[s], used[s], blocked[s], reads[s])
        /\ command[s] \in Journals
    BY <1>1, Parts
  <2>3. /\ call[s].pc = "send" /\ op[s].open /\ ~blocked[s] /\ used[s] \in Commands
        /\ command[s][used[s]].op = op[s].n /\ command[s][used[s]].room = op[s].room
        /\ command[s][used[s]].sent = 0 /\ command[s][used[s]] \in CommandRecords
    BY <2>1, <2>2 DEF Send, Sess, OpenOK, ToolOK, Tool, Journals
  <2>4. command \in [Sessions -> Journals]
    BY <1>1 DEF IInv, Typed
  <2>5. CASE command' = [command EXCEPT ![s][Current(s)] = Settled(@, "unknown", FALSE)]
    <3>1. PICK told \in {"saved", "rejected", "unknown"} : told = "unknown"
      OBVIOUS
    <3>0. PICK r : r = Settled(command[s][used[s]], told, FALSE)
                   /\ IsSettled(r, command[s][used[s]], told)
      BY <2>3, SettledFields
    <3>2. r = Settled(command[s][used[s]], told, FALSE) /\ r.sent = command[s][used[s]].sent
      BY <3>0 DEF IsSettled
    <3>3. command' = [command EXCEPT ![s][used[s]] = r]
      BY <2>5, <3>1, <3>2 DEF Current
    <3>4. command'[s][c].sent = command[s][c].sent
      BY <1>1, <2>4, <3>2, <3>3 DEF Journals
    <3>. QED BY <1>1, <3>4 DEF Sends
  <2>6. CASE /\ command' = [command EXCEPT ![s][Current(s)].sent = @ + 1] /\ ~op[s].cancelled
    <3>1. PICK e \in CommandRecords : e = command[s][used[s]]
      BY <2>3
    <3>2. PICK r : r = [e EXCEPT !.sent = @ + 1]
      OBVIOUS
    <3>3. r.sent = 1
      BY <2>3, <3>1, <3>2 DEF CommandRecords
    <3>4. command' = [command EXCEPT ![s][used[s]] = r]
      BY <2>6, <3>1, <3>2 DEF Current
    <3>5. /\ c = used[s] => command'[s][c] = r
          /\ c # used[s] => command'[s][c] = command[s][c]
      BY <2>4, <3>4 DEF Journals
    <3>6. c = used[s] /\ command'[s][c].sent = 1
      BY <1>1, <3>3, <3>5 DEF Sends
    <3>7. ~op[s].recovered
      BY <2>2, <2>3 DEF Sess
    <3>8. ~\E d \in Commands : /\ command[s][d].op = op[s].n /\ command[s][d].kind = "batch"
                               /\ command[s][d].told = "unknown"
      BY <2>2, <2>3 DEF Sess, EntryOK
    <3>. QED BY <2>3, <2>6, <3>6, <3>7, <3>8
  <2>. QED BY <2>1, <2>5, <2>6 DEF Send
<1>2. ASSUME IInv, UNCHANGED vars, NEW s \in Sessions, NEW c \in Commands, Sends(s, c) PROVE FALSE
  BY <1>2 DEF vars, sessionVars, Sends
<1>3. IInv /\ [Next]_vars =>
        [\A s \in Sessions, c \in Commands : Sends(s, c) =>
           /\ command'[s][c].sent = 1
           /\ command[s][c].op = op[s].n /\ command[s][c].room = op[s].room
           /\ ~op[s].cancelled /\ ~op[s].recovered
           /\ ~\E d \in Commands : /\ command[s][d].op = op[s].n /\ command[s][d].kind = "batch"
                                   /\ command[s][d].told = "unknown"]_vars
  BY <1>1
<1>. QED BY <1>3, Inductive, PTL DEF Spec, SentForALiveRequest
=============================================================================
