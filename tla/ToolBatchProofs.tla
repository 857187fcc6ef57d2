--------------------------- MODULE ToolBatchProofs ---------------------------
(***************************************************************************)
(* The safety properties of ToolBatch and its refinement of OrderedResults, *)
(* for batches of any size.                                                *)
(***************************************************************************)
EXTENDS ToolBatch, TLAPS, FiniteSetTheorems, WellFoundedInduction, SequenceTheorems

-----------------------------------------------------------------------------
(***************************************************************************)
(* The inductive invariant.                                                *)
(***************************************************************************)
Members(q) == {q[i] : i \in DOMAIN q}
Executing == {"admit", "parked", "inflight", "afterGate", "afterHook"}
Starting == {"gate", "hook", "parked", "intent", "clear"}
Open == {"planned", "effect_pending"}
Ready == {"outcome_ready", "completed"}
Placing == {"read", "emit", "place"}

\* What the continuations, the materializations and the calls are records of.
MainStates == [pc: {"none", "placing", "next", "gate", "hook", "parked", "intent", "clear",
                    "wait", "final", "return", "fault"},
               at: 0..NCalls, par: BOOLEAN, turns: Nat, recovery: BOOLEAN]
JobStates == [pc: {"idle", "admit", "parked", "inflight", "afterGate", "afterHook",
                   "stage", "done"}, res: Outcomes]
MatStates == [pc: {"idle", "waiting", "read", "emit", "place"}, lo: 1..NCalls, hi: 0..NCalls]
CallStates == [status: {"planned", "effect_pending", "outcome_ready", "completed"},
               safe: BOOLEAN, term: BOOLEAN]

\* The transcript holds a prefix of the batch, in source order.
Transcript ==
  /\ Len(placed) <= NCalls
  /\ \A i \in 1..Len(placed) : placed[i] = i
  /\ \A c \in Calls : call[c].status = "completed" <=> c <= Len(placed)
  /\ over <=> Len(placed) = NCalls

\* What a call's durable state, its tool and its continuation say agrees.
CallOK(c) ==
  /\ outcome[c] = "none" <=> call[c].status \in Open
  /\ call[c].status = "planned" => started[c] = 0
  /\ c \in rows => call[c].status = "effect_pending"
  /\ outcome[c] = "aborted" => started[c] = 0
  /\ job[c].pc \in Executing => call[c].status = "effect_pending"
  /\ job[c].pc = "stage" => /\ call[c].status \in Open /\ job[c].res # "none"
                            /\ job[c].res = "aborted" => started[c] = 0
  /\ job[c].pc = "done" => call[c].status \in Ready
  /\ job[c].pc \in {"admit", "parked"} => started[c] = 0 \/ call[c].safe

\* Without recovery no effect was pending when the batch was dispatched.
FreshOK(c) ==
  main.pc # "none" /\ ~main.recovery /\ call[c].status = "effect_pending"
    /\ job[c].pc \in {"idle", "admit", "parked"} => started[c] = 0

\* The call that runTools is starting has not been started, and a batch just
\* dispatched has started none.
StartingOK ==
  /\ main.pc = "placing" /\ main.turns = 0 =>
       main.at = 0 /\ \A c \in Calls : job[c].pc = "idle"
  /\ main.pc \in Starting =>
       /\ main.at \in Calls /\ job[main.at].pc = "idle"
       /\ call[main.at].status = IF main.pc = "clear" THEN "effect_pending" ELSE "planned"
       /\ main.pc = "clear" => call[main.at].safe

\* No continuation outlives runTools.
RestOK ==
  /\ main.pc = "none" => \A c \in Calls : job[c].pc = "idle"
  /\ main.pc \in {"none", "return"} =>
       /\ chain = <<>> /\ \A m \in 0..NCalls : mat[m].pc = "idle"
       /\ \A c \in Calls : Settled(c)
  /\ main.pc = "return" => over
  /\ main.pc # "fault"

\* runSequential works on the first call that has no result.
SequentialOK ==
  ~main.par /\ main.pc # "none" =>
    /\ main.pc \notin {"next", "final"}
    /\ chain = <<>> /\ \A m \in Calls : mat[m].pc = "idle"
    /\ \A c \in Calls : Settled(c) \/ (main.pc = "wait" /\ c = main.at)
    /\ main.pc \in Starting \cup {"wait"} =>
         /\ main.at \in Calls /\ main.at = Len(placed) + 1 /\ main.turns <= Len(placed)
         /\ mat[0].pc = "idle"
    /\ main.pc = "wait" => job[main.at].pc # "idle"
    /\ main.pc = "placing" => over \/ IF mat[0].pc = "idle"
         THEN main.turns <= Len(placed) /\ call[Len(placed) + 1].status # "outcome_ready"
         ELSE \/ main.turns <= Len(placed)
              \/ main.turns = Len(placed) + 1 /\ call[Len(placed) + 1].status = "outcome_ready"

\* runParallel has a continuation for every call it passed and left open.
ParallelOK ==
  main.par =>
    /\ main.pc \in Starting \cup {"next", "wait", "final", "return"}
    /\ \A c \in Calls : c > main.at => job[c].pc = "idle"
    /\ \A c \in Calls : c <= main.at /\ call[c].status \in Open =>
         ~Settled(c) \/ (main.pc \in Starting /\ c = main.at)
    /\ main.pc \in {"wait", "final"} => \A c \in Calls : c > main.at => call[c].status \in Ready
    /\ main.pc = "final" =>
         /\ \A c \in Calls : Settled(c) /\ mat[c].pc = "idle"
         /\ IF mat[0].pc = "idle" THEN over /\ chain = <<>> ELSE chain = <<0>>
    /\ main.pc # "final" => mat[0].pc = "idle"

\* One materialization at a time is past its turn; it holds the ready prefix
\* behind what is placed.
MatOK(m) ==
  /\ m \in Calls /\ mat[m].pc # "idle" => main.par /\ job[m].pc = "done"
  /\ mat[m].pc \in Placing => \/ m = 0 /\ main.pc = "placing" /\ chain = <<>>
                              \/ chain # <<>> /\ Head(chain) = m
  /\ mat[m].pc = "waiting" => main.par /\ m \in Members(chain)
  /\ mat[m].pc \in {"emit", "place"} =>
       /\ mat[m].lo = Len(placed) + 1 /\ mat[m].lo <= mat[m].hi /\ mat[m].hi <= NCalls
       /\ \A c \in mat[m].lo .. mat[m].hi : call[c].status = "outcome_ready"
       /\ m = 0 => mat[m].hi = NCalls \/ call[mat[m].hi + 1].status # "outcome_ready"

\* A queued command serves the continuation that waits for it.
CommandOK(cmd) ==
  /\ cmd.k = "claim" => main.pc = "none" /\ cmd.c = 0
  /\ cmd.k = "abort" => cmd.c = 0 \/ (cmd.c = 1 /\ gate # "open")
  /\ cmd.k \in {"intent", "clear"} => main.pc = cmd.k /\ main.at = cmd.c
  /\ cmd.k \in {"write", "stage"} => cmd.c \in Calls
  /\ cmd.k = "stage" => job[cmd.c].pc = "stage"
  /\ cmd.k \in {"read", "place"} => mat[cmd.c].pc = cmd.k

\* An abort that captured no pass is ahead of the first read of one that was
\* claimed before it.
AbortAhead(q) ==
  \A i \in DOMAIN q : q[i] = Cmd("abort", 0) => \E j \in DOMAIN q : i < j /\ q[j] = Cmd("read", 0)

\* No command but an abort is queued twice.
OnceEach(q) == \A i, j \in DOMAIN q : q[i] = q[j] /\ q[i].k # "abort" => i = j

LineOK ==
  /\ \A cmd \in Members(line) : CommandOK(cmd)
  /\ OnceEach(line)
  /\ main.pc # "none" => AbortAhead(line)
  /\ main.pc # "none" /\ Cmd("abort", 0) \in Members(line) =>
       main.pc = "placing" /\ main.turns = 0

\* No tool is admitted once cancellation is durable.
CancelOK ==
  Cancelled /\ gate = "open" =>
    /\ main.pc \in {"none", "placing", "wait", "return"} /\ ~main.par
    /\ \A c \in Calls : job[c].pc \in {"idle", "stage", "done"}

\* In sequence nothing is started beyond the first call without a result.
SuffixOK ==
  ~Parallel => ~main.par /\ \A c \in Calls : c > Len(placed) + 1 => call[c].status = "planned"

IInv ==
  /\ TypeOK /\ Transcript
  /\ (\A c \in Calls : CallOK(c)) /\ (\A c \in Calls : FreshOK(c))
  /\ StartingOK /\ RestOK /\ SequentialOK /\ ParallelOK
  /\ (\A m \in 0..NCalls : MatOK(m))
  /\ LineOK /\ CancelOK /\ SuffixOK
-----------------------------------------------------------------------------
(***************************************************************************)
(* Lemmas about queues.                                                    *)
(***************************************************************************)

\* The members of a queue are what it is a queue of.
LEMMA MembersTyped ==
  ASSUME NEW S, NEW q \in Seq(S), NEW x \in Members(q)
  PROVE  x \in S
BY DEF Members

\* What joins a queue is its last member.
LEMMA Joined ==
  ASSUME NEW S, NEW q \in Seq(S), NEW e \in S
  PROVE  /\ Append(q, e) \in Seq(S)
         /\ Members(Append(q, e)) = Members(q) \cup {e}
         /\ Append(q, e) # <<>>
         /\ Head(Append(q, e)) = IF q = <<>> THEN e ELSE Head(q)
<1>1. /\ Append(q, e) \in Seq(S)
      /\ Len(Append(q, e)) = Len(q) + 1
      /\ \A i \in 1 .. Len(q) : Append(q, e)[i] = q[i]
      /\ Append(q, e)[Len(q) + 1] = e
  BY AppendProperties
<1>2. Members(Append(q, e)) = Members(q) \cup {e}
  BY <1>1 DEF Members
<1>. QED BY <1>1, <1>2, HeadTailAppend, AppendProperties

\* Taking the head leaves the other members.
LEMMA Taken ==
  ASSUME NEW S, NEW q \in Seq(S), q # <<>>
  PROVE  /\ Head(q) \in S /\ Tail(q) \in Seq(S)
         /\ Head(q) \in Members(q)
         /\ Members(Tail(q)) \subseteq Members(q)
         /\ Members(q) = Members(Tail(q)) \cup {Head(q)}
<1>1. /\ Tail(q) \in Seq(S) /\ Head(q) \in S
      /\ Len(Tail(q)) = Len(q) - 1
      /\ \A i \in 1 .. Len(Tail(q)) : Tail(q)[i] = q[i+1]
  BY HeadTailProperties
<1>2. Head(q) = q[1] /\ Len(q) \in Nat \ {0} /\ DOMAIN q = 1 .. Len(q) /\ DOMAIN Tail(q) = 1 .. (Len(q) - 1)
  BY <1>1, EmptySeq
<1>3. Members(Tail(q)) \subseteq Members(q)
  BY <1>1, <1>2 DEF Members
<1>4. ASSUME NEW x \in Members(q), x # Head(q) PROVE x \in Members(Tail(q))
  <2>1. PICK i \in 1 .. Len(q) : x = q[i]
    BY <1>2 DEF Members
  <2>2. i - 1 \in 1 .. Len(Tail(q)) /\ Tail(q)[i - 1] = q[i]
    BY <1>1, <1>2, <1>4, <2>1
  <2>. QED BY <1>1, <1>2, <2>1, <2>2 DEF Members
<1>5. Head(q) \in Members(q)
  BY <1>2 DEF Members
<1>. QED BY <1>1, <1>3, <1>4, <1>5

\* A command that joins the line for the first time keeps it free of doubles.
LEMMA JoinedOnce ==
  ASSUME NEW q \in Seq(Commands), NEW e \in Commands, OnceEach(q),
         e.k = "abort" \/ e \notin Members(q)
  PROVE  OnceEach(Append(q, e))
BY AppendProperties DEF OnceEach, Members

\* What is left of the line after its head is free of doubles too.
LEMMA TakenOnce ==
  ASSUME NEW q \in Seq(Commands), q # <<>>, OnceEach(q)
  PROVE  /\ OnceEach(Tail(q))
         /\ Head(q).k # "abort" => Head(q) \notin Members(Tail(q))
<1>1. /\ Tail(q) \in Seq(Commands)
      /\ Len(Tail(q)) = Len(q) - 1
      /\ \A i \in 1 .. Len(Tail(q)) : Tail(q)[i] = q[i+1]
  BY HeadTailProperties
<1>2. Head(q) = q[1] /\ Len(q) \in Nat \ {0} /\ DOMAIN q = 1 .. Len(q) /\ DOMAIN Tail(q) = 1 .. (Len(q) - 1)
  BY <1>1, EmptySeq
<1>. QED BY <1>1, <1>2 DEF OnceEach, Members

\* What joins behind does not overtake an abort.
LEMMA AbortAheadJoined ==
  ASSUME NEW q \in Seq(Commands), NEW e \in Commands,
         (AbortAhead(q) /\ e # Cmd("abort", 0)) \/ e = Cmd("read", 0)
  PROVE  AbortAhead(Append(q, e))
<1>1. /\ Len(Append(q, e)) = Len(q) + 1
      /\ \A i \in 1 .. Len(q) : Append(q, e)[i] = q[i]
      /\ Append(q, e)[Len(q) + 1] = e
      /\ DOMAIN Append(q, e) = 1 .. (Len(q) + 1) /\ Len(q) \in Nat
      /\ DOMAIN q = 1 .. Len(q)
  BY AppendProperties
<1>2. CASE e = Cmd("read", 0)
  <2>1. e # Cmd("abort", 0)
    BY <1>2 DEF Cmd
  <2>. QED BY <1>1, <1>2, <2>1 DEF AbortAhead
<1>3. CASE AbortAhead(q) /\ e # Cmd("abort", 0)
  BY <1>1, <1>3 DEF AbortAhead
<1>. QED BY <1>2, <1>3

\* A read is not taken before the aborts ahead of it.
LEMMA AbortAheadTaken ==
  ASSUME NEW q \in Seq(Commands), q # <<>>, AbortAhead(q), OnceEach(q)
  PROVE  AbortAhead(Tail(q))
<1>1. /\ Tail(q) \in Seq(Commands)
      /\ Len(Tail(q)) = Len(q) - 1
      /\ \A i \in 1 .. Len(Tail(q)) : Tail(q)[i] = q[i+1]
  BY HeadTailProperties
<1>2. Len(q) \in Nat \ {0} /\ DOMAIN q = 1 .. Len(q) /\ DOMAIN Tail(q) = 1 .. (Len(q) - 1)
  BY <1>1, EmptySeq
<1>3. ASSUME NEW i \in DOMAIN Tail(q), Tail(q)[i] = Cmd("abort", 0)
      PROVE  \E j \in DOMAIN Tail(q) : i < j /\ Tail(q)[j] = Cmd("read", 0)
  <2>1. i + 1 \in DOMAIN q /\ q[i + 1] = Cmd("abort", 0)
    BY <1>1, <1>2, <1>3
  <2>2. PICK j \in DOMAIN q : i + 1 < j /\ q[j] = Cmd("read", 0)
    BY <2>1 DEF AbortAhead
  <2>3. j - 1 \in DOMAIN Tail(q) /\ i < j - 1 /\ Tail(q)[j - 1] = q[j]
    BY <1>1, <1>2, <2>1, <2>2
  <2>. QED BY <2>2, <2>3
<1>. QED BY <1>3 DEF AbortAhead

\* What the assumption says of the batch of a behavior.
LEMMA BatchFacts ==
  ASSUME TypeOK
  PROVE  /\ NCalls \in Nat \ {0} /\ Calls = 1 .. NCalls
         /\ batch.aborts \in Nat /\ batch.crashes \in Nat /\ MaxPasses \in Nat
BY BatchAssumption DEF BatchAssumption, TypeOK, NCalls, Calls

\* The types of what the continuations are made of.
LEMMA Types ==
  ASSUME TypeOK
  PROVE  /\ main \in MainStates /\ job \in [Calls -> JobStates]
         /\ mat \in [0 .. NCalls -> MatStates] /\ call \in [Calls -> CallStates]
         /\ started \in [Calls -> Nat] /\ outcome \in [Calls -> Outcomes]
         /\ line \in Seq(Commands) /\ chain \in Seq(0 .. NCalls) /\ placed \in Seq(Calls)
BY DEF TypeOK, MainStates, JobStates, MatStates, CallStates

\* The calls and the commands depend on the batch only.
LEMMA SameBatch ==
  ASSUME UNCHANGED batch
  PROVE  NCalls' = NCalls /\ Calls' = Calls /\ Parallel' = Parallel /\ Commands' = Commands
BY DEF NCalls, Calls, Parallel, Commands


-----------------------------------------------------------------------------
(***************************************************************************)
(* The choices of the model: the first open call, the ready prefix.        *)
(***************************************************************************)

\* Every non-empty set of naturals has a smallest element: of two initial
\* segments one is a part of the other, and finite sets are well-founded.
LEMMA SmallestOf ==
  ASSUME NEW S \in SUBSET Nat, S # {}
  PROVE  \E m \in S : \A n \in S : m <= n
<1>. DEFINE Below == {1..n : n \in S}
<1>. DEFINE R == StrictSubsetOrdering(Nat)
<1>1. Below \subseteq FiniteSubsetsOf(Nat)
  BY FS_Interval DEF FiniteSubsetsOf
<1>2. \E x \in Below : \A y \in Below : ~(<<y, x>> \in R)
  <2>1. IsWellFoundedOn(R, FiniteSubsetsOf(Nat))
    BY FS_StrictSubsetOrderingWellFounded
  <2>2. Below # {}
    OBVIOUS
  <2>. HIDE DEF R, Below
  <2>. QED BY <1>1, <2>1, <2>2, WFMin
<1>3. PICK m \in S : \A y \in Below : ~(<<y, 1..m>> \in R)
  BY <1>2
<1>4. ASSUME NEW n \in S, n < m PROVE FALSE
  <2>1. 1..n \subseteq 1..m /\ 1..n # 1..m
    BY <1>4
  <2>2. 1..n \in SUBSET Nat /\ 1..m \in SUBSET Nat /\ 1..n \in Below
    OBVIOUS
  <2>3. <<1..n, 1..m>> \in R
    BY <2>1, <2>2 DEF StrictSubsetOrdering
  <2>. QED BY <1>3, <2>2, <2>3
<1>. QED BY <1>4

\* First is what its name says.
LEMMA FirstOf ==
  ASSUME NEW S \in SUBSET Nat, S # {}
  PROVE  First(S) \in S /\ \A d \in S : First(S) <= d
BY SmallestOf DEF First

\* Until the batch is over its first unfinished call follows the transcript.
LEMMA FirstUnfinished ==
  ASSUME TypeOK, Transcript
  PROVE  /\ Len(placed) \in 0 .. NCalls
         /\ Unfinished = {c \in Calls : c > Len(placed)}
         /\ over <=> Unfinished = {}
         /\ ~over => First(Unfinished) = Len(placed) + 1 /\ Len(placed) + 1 \in Calls
<1>a. NCalls \in Nat \ {0} /\ Calls = 1 .. NCalls
  BY BatchFacts
<1>1. Len(placed) \in 0 .. NCalls
  BY <1>a DEF TypeOK, Transcript
<1>2. Unfinished = {c \in Calls : c > Len(placed)}
  BY <1>a, <1>1 DEF Transcript, Unfinished
<1>3. over <=> Unfinished = {}
  BY <1>a, <1>1, <1>2 DEF Transcript
<1>4. ASSUME ~over PROVE First(Unfinished) = Len(placed) + 1 /\ Len(placed) + 1 \in Calls
  <2>1. Len(placed) + 1 \in Unfinished
    BY <1>a, <1>1, <1>2, <1>4 DEF Transcript
  <2>2. First(Unfinished) \in Unfinished /\ \A d \in Unfinished : First(Unfinished) <= d
    BY <1>a, <1>2, <2>1, FirstOf
  <2>. QED BY <1>a, <1>1, <1>2, <2>1, <2>2
<1>. QED BY <1>1, <1>2, <1>3, <1>4

\* ReadyUpTo ends before the first call that is not ready.
LEMMA ReadyPrefix ==
  ASSUME TypeOK, NEW first \in Calls
  PROVE  /\ ReadyUpTo(first) \in (first - 1) .. NCalls
         /\ \A c \in first .. ReadyUpTo(first) : call[c].status = "outcome_ready"
         /\ ReadyUpTo(first) = NCalls \/ call[ReadyUpTo(first) + 1].status # "outcome_ready"
<1>a. NCalls \in Nat \ {0} /\ Calls = 1 .. NCalls
  BY BatchFacts
<1>. DEFINE Ends(n) == /\ \A c \in first .. n : call[c].status = "outcome_ready"
                       /\ n = NCalls \/ call[n + 1].status # "outcome_ready"
<1>. DEFINE Not == {c \in first .. NCalls : call[c].status # "outcome_ready"}
<1>1. \E n \in (first - 1) .. NCalls : Ends(n)
  <2>1. CASE Not = {}
    <3>1. Ends(NCalls)
      BY <1>a, <2>1
    <3>. QED BY <1>a, <3>1
  <2>2. CASE Not # {}
    <3>1. PICK m \in Not : \A n \in Not : m <= n
      <4>1. Not \in SUBSET Nat
        BY <1>a
      <4>. HIDE DEF Not
      <4>. QED BY <2>2, <4>1, SmallestOf
    <3>2. m - 1 \in (first - 1) .. NCalls /\ Ends(m - 1)
      BY <1>a, <3>1
    <3>. QED BY <3>2
  <2>. QED BY <2>1, <2>2
<1>2. ReadyUpTo(first) = CHOOSE n \in (first - 1) .. NCalls : Ends(n)
  BY DEF ReadyUpTo
<1>3. ReadyUpTo(first) \in (first - 1) .. NCalls /\ Ends(ReadyUpTo(first))
  <2>. HIDE DEF Ends
  <2>. QED BY <1>1, <1>2
<1>. QED BY <1>3
-----------------------------------------------------------------------------
(***************************************************************************)
(* The mutation line.                                                      *)
(***************************************************************************)

\* What a command that joins the line leaves of LineOK to check.
LEMMA CommandJoins ==
  ASSUME NEW q \in Seq(Commands), OnceEach(q), NEW e \in Commands,
         e.k = "abort" \/ e \notin Members(q)
  PROVE  /\ Append(q, e) \in Seq(Commands)
         /\ Members(Append(q, e)) = Members(q) \cup {e}
         /\ OnceEach(Append(q, e))
         /\ AbortAhead(q) /\ e # Cmd("abort", 0) => AbortAhead(Append(q, e))
         /\ e = Cmd("read", 0) => AbortAhead(Append(q, e))
BY Joined, JoinedOnce, AbortAheadJoined

\* What the command that runs next leaves behind.
LEMMA CommandRuns ==
  ASSUME TypeOK, LineOK, line # <<>>
  PROVE  /\ Tail(line) \in Seq(Commands) /\ Head(line) \in Commands
         /\ CommandOK(Head(line))
         /\ Members(line) = Members(Tail(line)) \cup {Head(line)}
         /\ OnceEach(Tail(line))
         /\ Head(line).k # "abort" => Head(line) \notin Members(Tail(line))
         /\ main.pc # "none" => AbortAhead(Tail(line))
BY Taken, TakenOnce, AbortAheadTaken DEF TypeOK, LineOK

\* A name and an argument make a command.
LEMMA CommandTyped ==
  ASSUME NEW k \in {"claim", "abort", "intent", "clear", "write", "stage", "read", "place"},
         NEW c \in 0 .. NCalls
  PROVE  /\ Cmd(k, c) \in Commands /\ Cmd(k, c).k = k /\ Cmd(k, c).c = c
         /\ \A cmd \in Commands : cmd.k = k /\ cmd.c = c => cmd = Cmd(k, c)
BY DEF Cmd, Commands

\* No abort of an earlier time waits once the pass has read.
LEMMA NoLateAbort ==
  ASSUME TypeOK, LineOK, main.pc # "none",
         main.pc = "placing" /\ main.turns = 0 => mat[0].pc # "read"
  PROVE  Cmd("abort", 0) \notin Members(line)
<1>1. SUFFICES ASSUME Cmd("abort", 0) \in Members(line), mat[0].pc # "read"
               PROVE  FALSE
  BY DEF LineOK
<1>2. Cmd("read", 0) \in Members(line)
  BY <1>1 DEF LineOK, AbortAhead, Members
<1>. QED BY <1>1, <1>2 DEF LineOK, CommandOK, Cmd
-----------------------------------------------------------------------------
(***************************************************************************)
(* Callers, cancellation and process loss keep the invariant.              *)
(***************************************************************************)
\* A drive pass queues its claim.
LEMMA DriveOK ==
  ASSUME IInv, Drive
  PROVE  IInv'
<1>0. TypeOK /\ LineOK
  BY DEF IInv
<1>a. /\ NCalls' = NCalls /\ Calls' = Calls /\ Parallel' = Parallel /\ Commands' = Commands
      /\ NCalls \in Nat \ {0} /\ Calls = 1 .. NCalls
  BY <1>0, SameBatch, BatchFacts DEF Drive, durable
<1>u. /\ UNCHANGED <<batch, call, outcome, placed, rows, ctl, over, gate, main, job, mat,
                     chain, started>>
      /\ main.pc = "none"
  BY DEF Drive, durable
<1>1. /\ line' \in Seq(Commands) /\ OnceEach(line')
      /\ Members(line') = Members(line) \cup {Cmd("claim", 0)}
      /\ Cmd("claim", 0).k = "claim" /\ Cmd("claim", 0).c = 0
  <2>1. Cmd("claim", 0) \in Commands /\ Cmd("claim", 0) \notin Members(line)
    BY <1>a, CommandTyped DEF Drive, Queued, Members
  <2>. QED BY <1>0, <1>a, <2>1, CommandJoins, CommandTyped DEF TypeOK, LineOK, Drive
<1>2. TypeOK'
  <2>1. passes' \in 0 .. MaxPasses /\ UNCHANGED <<aborts, crashes>>
    BY <1>0, BatchFacts DEF TypeOK, Drive
  <2>. QED BY <1>0, <1>a, <1>u, <1>1, <2>1 DEF TypeOK
<1>3. LineOK'
  BY <1>0, <1>a, <1>u, <1>1 DEF LineOK, CommandOK
<1>4. /\ Transcript' /\ StartingOK' /\ RestOK' /\ SequentialOK' /\ ParallelOK' /\ CancelOK'
      /\ SuffixOK' /\ (\A c \in Calls : CallOK(c)' /\ FreshOK(c)')
      /\ \A m \in 0 .. NCalls : MatOK(m)'
  BY <1>a, <1>u DEF IInv, Transcript, StartingOK, RestOK, SequentialOK, ParallelOK, CancelOK,
     SuffixOK, CallOK, FreshOK, MatOK, Members, Settled, Cancelled
<1>. QED BY <1>a, <1>2, <1>3, <1>4 DEF IInv

\* An abort aborts the gate of the pass it finds and queues its command.
LEMMA RequestAbortOK ==
  ASSUME IInv, RequestAbort
  PROVE  IInv'
<1>0. TypeOK /\ LineOK
  BY DEF IInv
<1>a. /\ NCalls' = NCalls /\ Calls' = Calls /\ Parallel' = Parallel /\ Commands' = Commands
      /\ NCalls \in Nat \ {0} /\ Calls = 1 .. NCalls
  BY <1>0, SameBatch, BatchFacts DEF RequestAbort, durable
<1>u. /\ UNCHANGED <<batch, call, outcome, placed, rows, ctl, over, main, job, mat,
                     chain, started>>
      /\ gate' = IF main.pc # "none" /\ gate = "open" THEN "aborting" ELSE gate
  BY DEF RequestAbort, durable
<1>. DEFINE e == Cmd("abort", IF main.pc = "none" THEN 0 ELSE 1)
<1>1. /\ line' \in Seq(Commands) /\ OnceEach(line')
      /\ Members(line') = Members(line) \cup {e}
      /\ e.k = "abort" /\ e.c = IF main.pc = "none" THEN 0 ELSE 1
      /\ main.pc # "none" => e # Cmd("abort", 0) /\ AbortAhead(line')
  <2>1. /\ e \in Commands /\ e.k = "abort" /\ e.c = IF main.pc = "none" THEN 0 ELSE 1
        /\ Cmd("abort", 0).c = 0
    BY <1>a, CommandTyped
  <2>2. main.pc # "none" => e # Cmd("abort", 0)
    BY <2>1
  <2>. QED BY <1>0, <2>1, <2>2, CommandJoins DEF TypeOK, LineOK, RequestAbort
<1>2. TypeOK'
  <2>1. aborts' \in 0 .. batch.aborts /\ UNCHANGED <<passes, crashes>>
    BY <1>0, BatchFacts DEF TypeOK, RequestAbort
  <2>. QED BY <1>0, <1>a, <1>u, <1>1, <2>1 DEF TypeOK
<1>3. LineOK'
  BY <1>0, <1>a, <1>u, <1>1 DEF LineOK, CommandOK
<1>4. /\ Transcript' /\ StartingOK' /\ RestOK' /\ SequentialOK' /\ ParallelOK' /\ CancelOK'
      /\ SuffixOK' /\ (\A c \in Calls : CallOK(c)' /\ FreshOK(c)')
      /\ \A m \in 0 .. NCalls : MatOK(m)'
  BY <1>a, <1>u DEF IInv, Transcript, StartingOK, RestOK, SequentialOK, ParallelOK, CancelOK,
     SuffixOK, CallOK, FreshOK, MatOK, Members, Settled, Cancelled
<1>. QED BY <1>a, <1>2, <1>3, <1>4 DEF IInv

\* The cancellation becomes durable and the captured gate signals it.
LEMMA RunAbortOK ==
  ASSUME IInv, RunAbort
  PROVE  IInv'
<1>0. TypeOK /\ LineOK
  BY DEF IInv
<1>a. /\ NCalls' = NCalls /\ Calls' = Calls /\ Parallel' = Parallel /\ Commands' = Commands
      /\ NCalls \in Nat \ {0} /\ Calls = 1 .. NCalls
  BY <1>0, SameBatch, BatchFacts DEF RunAbort
<1>u. /\ UNCHANGED <<batch, call, outcome, placed, rows, over, main, job, mat, chain, started>>
      /\ ctl' = "cancel_requested"
      /\ gate' = IF Head(line).c = 1 /\ gate = "aborting" THEN "signalled" ELSE gate
  BY DEF RunAbort, PullsGate
<1>1. /\ line' \in Seq(Commands) /\ OnceEach(line')
      /\ Members(line) = Members(line') \cup {Head(line)}
      /\ main.pc # "none" => AbortAhead(line')
      /\ Head(line).k = "abort" /\ CommandOK(Head(line)) /\ Head(line) \in Commands
  BY <1>0, CommandRuns DEF RunAbort, Runs
<1>2. TypeOK'
  BY <1>0, <1>a, <1>u, <1>1 DEF TypeOK, RunAbort, bounds
<1>3. LineOK'
  BY <1>0, <1>a, <1>u, <1>1 DEF LineOK, CommandOK
<1>4. CancelOK'
  <2>1. SUFFICES ASSUME gate' = "open"
                 PROVE  /\ main.pc \in {"none", "placing", "wait", "return"} /\ ~main.par
                        /\ \A c \in Calls : job[c].pc \in {"idle", "stage", "done"}
    BY <1>a, <1>u DEF CancelOK
  <2>2. Head(line) = Cmd("abort", 0)
    BY <1>a, <1>u, <1>1, <2>1, CommandTyped DEF CommandOK
  <2>3. main.pc # "none" => main.pc = "placing" /\ main.turns = 0
    BY <1>0, <1>1, <2>2 DEF LineOK
  <2>. QED BY <2>3 DEF IInv, StartingOK, RestOK, ParallelOK, Starting
<1>5. /\ Transcript' /\ StartingOK' /\ RestOK' /\ SequentialOK' /\ ParallelOK'
      /\ SuffixOK' /\ (\A c \in Calls : CallOK(c)' /\ FreshOK(c)')
      /\ \A m \in 0 .. NCalls : MatOK(m)'
  BY <1>a, <1>u DEF IInv, Transcript, StartingOK, RestOK, SequentialOK, ParallelOK,
     SuffixOK, CallOK, FreshOK, MatOK, Members, Settled
<1>. QED BY <1>a, <1>2, <1>3, <1>4, <1>5 DEF IInv

\* A crash leaves the durable half of the invariant and no continuation.
LEMMA CrashOK ==
  ASSUME IInv, Crash
  PROVE  IInv'
<1>0. TypeOK
  BY DEF IInv
<1>a. /\ NCalls' = NCalls /\ Calls' = Calls /\ Parallel' = Parallel /\ Commands' = Commands
      /\ NCalls \in Nat \ {0} /\ Calls = 1 .. NCalls
  BY <1>0, SameBatch, BatchFacts DEF Crash, durable
<1>u. /\ UNCHANGED <<batch, call, outcome, placed, rows, ctl, over, started>>
      /\ line' = <<>> /\ gate' = "open" /\ chain' = <<>>
      /\ main'.pc = "none" /\ main'.par = FALSE
      /\ \A c \in Calls : job'[c].pc = "idle"
      /\ \A m \in 0 .. NCalls : mat'[m].pc = "idle"
  BY <1>a DEF Crash, durable, NoMain, Idle, NoMat
<1>1. TypeOK'
  <2>1. crashes' \in 0 .. batch.crashes /\ UNCHANGED <<passes, aborts>>
    BY <1>0, BatchFacts DEF TypeOK, Crash
  <2>2. main' = NoMain /\ job' = [c \in Calls |-> Idle] /\ mat' = [m \in 0 .. NCalls |-> NoMat]
    BY DEF Crash
  <2>3. /\ main' \in MainStates /\ job' \in [Calls -> JobStates]
        /\ mat' \in [0 .. NCalls -> MatStates]
    BY <1>a, <2>2 DEF NoMain, Idle, NoMat, Outcomes, MainStates, JobStates, MatStates
  <2>4. line' \in Seq(Commands) /\ chain' \in Seq(0 .. NCalls)
    BY <1>u
  <2>. QED BY <1>0, <1>a, <1>u, <2>1, <2>3, <2>4 DEF TypeOK, MainStates, JobStates, MatStates
<1>2. LineOK'
  BY <1>u DEF LineOK, Members, OnceEach
<1>3. /\ Transcript' /\ StartingOK' /\ RestOK' /\ SequentialOK' /\ ParallelOK' /\ CancelOK'
      /\ SuffixOK' /\ (\A c \in Calls : CallOK(c)' /\ FreshOK(c)')
      /\ \A m \in 0 .. NCalls : MatOK(m)'
  BY <1>a, <1>u DEF IInv, Transcript, StartingOK, RestOK, SequentialOK, ParallelOK, CancelOK,
     SuffixOK, CallOK, FreshOK, MatOK, Settled, Cancelled, Starting, Executing, Placing, Open, Ready
<1>. QED BY <1>a, <1>1, <1>2, <1>3 DEF IInv

\* A claimed pass begins with a read of its own.
LEMMA RunClaimOK ==
  ASSUME IInv, RunClaim
  PROVE  IInv'
<1>0. TypeOK /\ LineOK /\ RestOK
  BY DEF IInv
<1>a. /\ NCalls' = NCalls /\ Calls' = Calls /\ Parallel' = Parallel /\ Commands' = Commands
      /\ NCalls \in Nat \ {0} /\ Calls = 1 .. NCalls
  BY <1>0, SameBatch, BatchFacts DEF RunClaim, durable
<1>l. /\ Tail(line) \in Seq(Commands) /\ OnceEach(Tail(line))
      /\ Members(line) = Members(Tail(line)) \cup {Head(line)}
      /\ Head(line) \in Commands /\ Head(line).k = "claim" /\ Head(line).c = 0
      /\ Head(line) \notin Members(Tail(line)) /\ main.pc = "none"
  BY <1>0, CommandRuns DEF RunClaim, Runs, CommandOK
<1>u. /\ UNCHANGED <<batch, call, outcome, placed, rows, ctl, over, job, chain, started>>
      /\ gate' = IF Cancelled THEN "signalled" ELSE gate
      /\ main' = [NoMain EXCEPT !.pc = "placing",
                !.recovery = \E c \in Calls : call[c].status \in {"effect_pending", "outcome_ready"}]
      /\ mat' = [mat EXCEPT ![0].pc = "read"]
      /\ line' = Append(Tail(line), Cmd("read", 0))
  BY DEF RunClaim, StartBatch, durable
<1>1. /\ main'.pc = "placing" /\ main'.par = FALSE /\ main'.turns = 0 /\ main'.at = 0
      /\ ~main'.recovery => \A c \in Calls : call[c].status # "effect_pending"
      /\ mat'[0].pc = "read" /\ \A m \in Calls : mat'[m] = mat[m]
  BY <1>0, <1>a, <1>u DEF TypeOK, NoMain
<1>2. TypeOK'
  <2>1. line' \in Seq(Commands) /\ UNCHANGED bounds
    BY <1>a, <1>u, <1>l, CommandTyped DEF RunClaim
  <2>2. main' \in MainStates
    <3>. DEFINE found == \E c \in Calls : call[c].status \in {"effect_pending", "outcome_ready"}
    <3>1. found \in BOOLEAN /\ main' = [NoMain EXCEPT !.pc = "placing", !.recovery = found]
      BY <1>u
    <3>. HIDE DEF found
    <3>. QED BY <1>a, <3>1, 0 \in 0 .. NCalls DEF NoMain, MainStates
  <2>3. mat' \in [0 .. NCalls -> MatStates]
    BY <1>0, <1>a, <1>u, Types DEF MatStates
  <2>. QED BY <1>0, <1>a, <1>u, <2>1, <2>2, <2>3 DEF TypeOK, MainStates, MatStates, bounds
<1>3. /\ OnceEach(line') /\ AbortAhead(line')
      /\ Members(line') = Members(Tail(line)) \cup {Cmd("read", 0)}
      /\ Cmd("read", 0).k = "read" /\ Cmd("read", 0).c = 0
  <2>1. Cmd("read", 0) \in Commands /\ Cmd("read", 0).k = "read" /\ Cmd("read", 0).c = 0
    BY <1>a, CommandTyped
  <2>2. Cmd("read", 0) \notin Members(Tail(line))
    BY <1>0, <1>a, <1>l, <2>1 DEF LineOK, CommandOK, RestOK
  <2>. QED BY <1>u, <1>l, <2>1, <2>2, CommandJoins
<1>4. \A cmd \in Members(Tail(line)) : cmd.k # "claim"
  <2>1. ASSUME NEW cmd \in Members(Tail(line)), cmd.k = "claim" PROVE FALSE
    <3>1. cmd \in Commands
      BY <1>l, <2>1 DEF Members
    <3>2. cmd.c = 0
      BY <1>0, <1>l, <2>1 DEF LineOK, CommandOK
    <3>. QED BY <1>a, <1>l, <2>1, <3>1, <3>2, CommandTyped
  <2>. QED BY <2>1
<1>5. LineOK'
  <2>1. ASSUME NEW cmd \in Members(Tail(line)) PROVE CommandOK(cmd)'
    <3>1. CommandOK(cmd)
      BY <1>0, <1>l DEF LineOK
    <3>2. cmd.k \notin {"claim", "intent", "clear", "read", "place"}
      <4>1. cmd \in Commands /\ cmd.k # "claim"
        BY <1>l, <1>4 DEF Members
      <4>. QED BY <1>0, <1>a, <1>l, <3>1, <4>1 DEF CommandOK, RestOK, Commands
    <3>. QED BY <1>a, <1>u, <3>1, <3>2 DEF CommandOK
  <2>2. CommandOK(Cmd("read", 0))'
    BY <1>1, <1>3 DEF CommandOK
  <2>. QED BY <1>1, <1>3, <2>1, <2>2 DEF LineOK
<1>6. /\ Transcript' /\ StartingOK' /\ RestOK' /\ ParallelOK' /\ CancelOK'
      /\ SuffixOK' /\ (\A c \in Calls : CallOK(c)' /\ FreshOK(c)')
  BY <1>0, <1>a, <1>u, <1>1, <1>l DEF IInv, Transcript, StartingOK, RestOK, ParallelOK, CancelOK,
     SuffixOK, CallOK, FreshOK, Settled, Cancelled, Starting, Executing, Placing, Open, Ready
<1>7. SequentialOK'
  <2>1. 0 <= Len(placed)
    BY <1>0 DEF TypeOK
  <2>. QED BY <1>0, <1>a, <1>u, <1>1, <1>l, <2>1 DEF SequentialOK, RestOK, Settled, Starting
<1>8. \A m \in 0 .. NCalls : MatOK(m)'
  BY <1>0, <1>a, <1>u, <1>1, <1>l DEF MatOK, RestOK, Placing
<1>. QED BY <1>a, <1>2, <1>5, <1>6, <1>7, <1>8 DEF IInv

-----------------------------------------------------------------------------
(***************************************************************************)
(* The continuation of a started call keeps the invariant.                 *)
(***************************************************************************)
\* An admitted tool runs behind an open gate.
LEMMA AdmitToolOK ==
  ASSUME IInv, NEW c \in Calls, AdmitTool(c)
  PROVE  IInv'
<1>0. TypeOK
  BY DEF IInv
<1>a. /\ NCalls' = NCalls /\ Calls' = Calls /\ Parallel' = Parallel /\ Commands' = Commands
      /\ NCalls \in Nat \ {0} /\ Calls = 1 .. NCalls
  BY <1>0, SameBatch, BatchFacts DEF AdmitTool, durable
<1>u. UNCHANGED <<batch, call, outcome, placed, rows, ctl, over, line, gate, main, mat, chain>>
  BY DEF AdmitTool, durable
<1>1. TypeOK'
  <2>1. job' \in [Calls -> JobStates]
    <3>1. job \in [Calls -> JobStates]
      BY <1>0, Types
    <3>2. \E pc \in {"inflight", "parked"} : job' = [job EXCEPT ![c].pc = pc]
      BY DEF AdmitTool, Admitted
    <3>. QED BY <3>1, <3>2 DEF JobStates
  <2>2. started' \in [Calls -> Nat] /\ UNCHANGED bounds
    <3>1. started \in [Calls -> Nat]
      BY <1>0, Types
    <3>2. started' \in {started, [started EXCEPT ![c] = @ + 1]} /\ UNCHANGED bounds
      BY DEF AdmitTool, Admitted
    <3>. QED BY <3>1, <3>2
  <2>. QED BY <1>0, <1>a, <1>u, <2>1, <2>2 DEF TypeOK, JobStates, bounds
<1>2. /\ job[c].pc = "admit" /\ job'[c].pc \in {"parked", "inflight"}
      /\ job'[c].pc = "inflight" => gate = "open"
      /\ \A d \in Calls : d # c => job'[d] = job[d] /\ started'[d] = started[d]
      /\ started'[c] # started[c] => job'[c].pc = "inflight"
  BY <1>0 DEF TypeOK, AdmitTool, Admitted
<1>3. Transcript' /\ SuffixOK'
  BY <1>a, <1>u DEF IInv, Transcript, SuffixOK
<1>4. \A d \in Calls : CallOK(d)' /\ FreshOK(d)'
  BY <1>u, <1>2 DEF IInv, CallOK, FreshOK, Executing, Open, Ready
<1>5. StartingOK' /\ RestOK'
  BY <1>a, <1>u, <1>2 DEF IInv, StartingOK, Starting, RestOK, Settled
<1>6. SequentialOK'
  BY <1>a, <1>u, <1>2 DEF IInv, SequentialOK, Settled, Starting
<1>7. ParallelOK'
  BY <1>a, <1>u, <1>2 DEF IInv, ParallelOK, Settled, Starting
<1>8. \A m \in 0 .. NCalls : MatOK(m)'
  BY <1>a, <1>u, <1>2 DEF IInv, MatOK, Members
<1>9. LineOK'
  BY <1>a, <1>u, <1>2 DEF IInv, LineOK, CommandOK, Members
<1>10. CancelOK'
  BY <1>a, <1>u, <1>2 DEF IInv, CancelOK, Cancelled
<1>. QED BY <1>a, <1>1, <1>3, <1>4, <1>5, <1>6, <1>7, <1>8, <1>9, <1>10 DEF IInv

\* The tool returned, or its after_tool hook is called.
LEMMA JobGoesOn ==
  ASSUME IInv, NEW c \in Calls, NEW pc \in {"afterGate", "afterHook"},
         job[c].pc \in {"inflight", "afterGate"}, job' = [job EXCEPT ![c].pc = pc],
         UNCHANGED <<durable, line, gate, main, mat, chain, started, bounds>>
  PROVE  IInv'
<1>0. TypeOK
  BY DEF IInv
<1>a. /\ NCalls' = NCalls /\ Calls' = Calls /\ Parallel' = Parallel /\ Commands' = Commands
      /\ NCalls \in Nat \ {0} /\ Calls = 1 .. NCalls
  BY <1>0, SameBatch, BatchFacts DEF durable
<1>u. UNCHANGED <<batch, call, outcome, placed, rows, ctl, over, line, gate, main, mat, chain,
                  started>>
  BY DEF durable
<1>1. TypeOK'
  <2>1. job' \in [Calls -> JobStates]
    <3>1. job \in [Calls -> JobStates]
      BY <1>0, Types
    <3>. QED BY <3>1 DEF JobStates
  <2>. QED BY <1>0, <1>a, <1>u, <2>1 DEF TypeOK, JobStates, bounds
<1>2. job'[c].pc = pc /\ \A d \in Calls : d # c => job'[d] = job[d]
  BY <1>0 DEF TypeOK
<1>3. Transcript' /\ SuffixOK'
  BY <1>a, <1>u DEF IInv, Transcript, SuffixOK
<1>4. \A d \in Calls : CallOK(d)' /\ FreshOK(d)'
  BY <1>u, <1>2 DEF IInv, CallOK, FreshOK, Executing, Open, Ready
<1>5. StartingOK' /\ RestOK'
  BY <1>a, <1>u, <1>2 DEF IInv, StartingOK, Starting, RestOK, Settled
<1>6. SequentialOK'
  BY <1>a, <1>u, <1>2 DEF IInv, SequentialOK, Settled, Starting
<1>7. ParallelOK'
  BY <1>a, <1>u, <1>2 DEF IInv, ParallelOK, Settled, Starting
<1>8. \A m \in 0 .. NCalls : MatOK(m)'
  BY <1>a, <1>u, <1>2 DEF IInv, MatOK, Members
<1>9. LineOK'
  BY <1>a, <1>u, <1>2 DEF IInv, LineOK, CommandOK, Members
<1>10. CancelOK'
  BY <1>a, <1>u, <1>2 DEF IInv, CancelOK, Cancelled
<1>. QED BY <1>a, <1>1, <1>3, <1>4, <1>5, <1>6, <1>7, <1>8, <1>9, <1>10 DEF IInv

\* A continuation that has its result queues the staging of it.
LEMMA StageJobOK ==
  ASSUME IInv, NEW c \in Calls, NEW res \in Outcomes \ {"none"}, job[c].pc \in Executing,
         res = "aborted" => started[c] = 0, StageJob(c, res),
         UNCHANGED <<durable, gate, main, mat, chain, started, bounds>>
  PROVE  IInv'
<1>0. TypeOK /\ LineOK
  BY DEF IInv
<1>a. /\ NCalls' = NCalls /\ Calls' = Calls /\ Parallel' = Parallel /\ Commands' = Commands
      /\ NCalls \in Nat \ {0} /\ Calls = 1 .. NCalls
  BY <1>0, SameBatch, BatchFacts DEF durable
<1>u. /\ UNCHANGED <<batch, call, outcome, placed, rows, ctl, over, gate, main, mat, chain,
                     started>>
      /\ job' = [job EXCEPT ![c] = [pc |-> "stage", res |-> res]]
      /\ line' = Append(line, Cmd("stage", c))
  BY DEF durable, StageJob
<1>2. /\ job'[c].pc = "stage" /\ job'[c].res = res
      /\ \A d \in Calls : d # c => job'[d] = job[d]
  BY <1>0, <1>u DEF TypeOK
<1>l. /\ line' \in Seq(Commands) /\ OnceEach(line')
      /\ Members(line') = Members(line) \cup {Cmd("stage", c)}
      /\ Cmd("stage", c).k = "stage" /\ Cmd("stage", c).c = c
      /\ main.pc # "none" => AbortAhead(line') /\ Cmd("stage", c) # Cmd("abort", 0)
  <2>1. /\ Cmd("stage", c) \in Commands /\ Cmd("stage", c).k = "stage" /\ Cmd("stage", c).c = c
        /\ Cmd("abort", 0).k = "abort"
    BY <1>a, CommandTyped
  <2>2. Cmd("stage", c) \notin Members(line)
    BY <1>0, <2>1 DEF LineOK, CommandOK, Executing
  <2>3. Cmd("stage", c) # Cmd("abort", 0)
    BY <2>1
  <2>. QED BY <1>0, <1>u, <2>1, <2>2, <2>3, CommandJoins DEF TypeOK, LineOK
<1>1. TypeOK'
  <2>1. job' \in [Calls -> JobStates]
    <3>1. job \in [Calls -> JobStates]
      BY <1>0, Types
    <3>. QED BY <1>u, <3>1 DEF JobStates
  <2>. QED BY <1>0, <1>a, <1>u, <1>l, <2>1 DEF TypeOK, JobStates, bounds
<1>3. Transcript' /\ SuffixOK'
  BY <1>a, <1>u DEF IInv, Transcript, SuffixOK
<1>4. \A d \in Calls : CallOK(d)' /\ FreshOK(d)'
  BY <1>u, <1>2 DEF IInv, CallOK, FreshOK, Executing, Open, Ready
<1>5. StartingOK' /\ RestOK'
  BY <1>a, <1>u, <1>2 DEF IInv, StartingOK, Starting, RestOK, Settled, Executing
<1>6. SequentialOK'
  BY <1>a, <1>u, <1>2 DEF IInv, SequentialOK, Settled, Starting, Executing
<1>7. ParallelOK'
  BY <1>a, <1>u, <1>2 DEF IInv, ParallelOK, Settled, Starting, Executing
<1>8. \A m \in 0 .. NCalls : MatOK(m)'
  BY <1>a, <1>u, <1>2 DEF IInv, MatOK, Members, Executing
<1>9. LineOK'
  BY <1>0, <1>a, <1>u, <1>2, <1>l DEF LineOK, CommandOK
<1>10. CancelOK'
  BY <1>a, <1>u, <1>2 DEF IInv, CancelOK, Cancelled
<1>. QED BY <1>a, <1>1, <1>3, <1>4, <1>5, <1>6, <1>7, <1>8, <1>9, <1>10 DEF IInv

\* Every step of a continuation.
LEMMA JobStepOK ==
  ASSUME IInv, NEW c \in Calls,
         \/ AdmitTool(c) \/ ToolCancelled(c) \/ ToolReturns(c)
         \/ AfterTool(c) \/ AfterToolReturns(c)
  PROVE  IInv'
<1>1. CASE AdmitTool(c)
  BY <1>1, AdmitToolOK
<1>2. CASE ToolCancelled(c)
  <2>1. job[c].pc = "parked" /\ call[c].status = "effect_pending"
    BY <1>2 DEF IInv, ToolCancelled, CallOK, Executing
  <2>2. RefusedResult = "aborted" => started[c] = 0
    BY <2>1 DEF IInv, RestOK, FreshOK, RefusedResult
  <2>. QED BY <1>2, <2>1, <2>2, StageJobOK DEF ToolCancelled, RefusedResult, Executing, Outcomes
<1>3. CASE ToolReturns(c)
  BY <1>3, JobGoesOn DEF ToolReturns
<1>4. CASE AfterTool(c)
  <2>1. CASE gate = "open"
    BY <1>4, <2>1, JobGoesOn DEF AfterTool
  <2>2. CASE gate # "open"
    BY <1>4, <2>2, StageJobOK DEF AfterTool, Executing, Outcomes
  <2>. QED BY <2>1, <2>2
<1>5. CASE AfterToolReturns(c)
  BY <1>5, StageJobOK DEF AfterToolReturns, Executing, Outcomes
<1>. QED BY <1>1, <1>2, <1>3, <1>4, <1>5

\* A running tool queues a write.
LEMMA WriteRowOK ==
  ASSUME IInv, NEW c \in Calls, WriteRow(c)
  PROVE  IInv'
<1>0. TypeOK /\ LineOK
  BY DEF IInv
<1>a. /\ NCalls' = NCalls /\ Calls' = Calls /\ Parallel' = Parallel /\ Commands' = Commands
      /\ NCalls \in Nat \ {0} /\ Calls = 1 .. NCalls
  BY <1>0, SameBatch, BatchFacts DEF WriteRow, durable
<1>u. /\ UNCHANGED <<batch, call, outcome, placed, rows, ctl, over, gate, main, job, mat, chain,
                     started>>
      /\ UNCHANGED bounds
  BY DEF WriteRow, durable
<1>1. /\ line' \in Seq(Commands) /\ OnceEach(line')
      /\ Members(line') = Members(line) \cup {Cmd("write", c)}
      /\ Cmd("write", c).k = "write" /\ Cmd("write", c).c = c
      /\ Cmd("write", c) # Cmd("abort", 0)
      /\ main.pc # "none" => AbortAhead(line')
  <2>1. /\ Cmd("write", c) \in Commands /\ Cmd("write", c).k = "write" /\ Cmd("write", c).c = c
        /\ Cmd("abort", 0).k = "abort"
    BY <1>a, CommandTyped
  <2>2. Cmd("write", c) \notin Members(line) /\ Cmd("write", c) # Cmd("abort", 0)
    BY <2>1 DEF WriteRow, Queued, Members
  <2>. QED BY <1>0, <2>1, <2>2, CommandJoins DEF TypeOK, LineOK, WriteRow
<1>2. TypeOK'
  BY <1>0, <1>a, <1>u, <1>1 DEF TypeOK, bounds
<1>3. LineOK'
  BY <1>0, <1>a, <1>u, <1>1 DEF LineOK, CommandOK
<1>4. /\ Transcript' /\ StartingOK' /\ RestOK' /\ SequentialOK' /\ ParallelOK' /\ CancelOK'
      /\ SuffixOK' /\ (\A d \in Calls : CallOK(d)' /\ FreshOK(d)')
      /\ \A m \in 0 .. NCalls : MatOK(m)'
  BY <1>a, <1>u DEF IInv, Transcript, StartingOK, RestOK, SequentialOK, ParallelOK, CancelOK,
     SuffixOK, CallOK, FreshOK, MatOK, Members, Settled, Cancelled
<1>. QED BY <1>a, <1>2, <1>3, <1>4 DEF IInv

\* What a materialization that is scheduled does to the chain.
LEMMA ChainJoins ==
  ASSUME chain \in Seq(0 .. NCalls), NEW m \in 0 .. NCalls
  PROVE  /\ Append(chain, m) \in Seq(0 .. NCalls)
         /\ Members(Append(chain, m)) = Members(chain) \cup {m}
         /\ Append(chain, m) # <<>>
         /\ Head(Append(chain, m)) = IF chain = <<>> THEN m ELSE Head(chain)
BY Joined

\* A write lands only while its call is pending.
LEMMA RunWriteOK ==
  ASSUME IInv, RunWrite
  PROVE  IInv'
<1>0. TypeOK /\ LineOK
  BY DEF IInv
<1>a. /\ NCalls' = NCalls /\ Calls' = Calls /\ Parallel' = Parallel /\ Commands' = Commands
      /\ NCalls \in Nat \ {0} /\ Calls = 1 .. NCalls
  BY <1>0, SameBatch, BatchFacts DEF RunWrite
<1>u. /\ UNCHANGED <<batch, call, outcome, placed, ctl, over, gate, main, job, mat, chain,
                     started>>
      /\ UNCHANGED bounds /\ line' = Tail(line)
      /\ rows' = rows \cup {c \in {Head(line).c} : ~over /\ call[c].status = "effect_pending"}
  BY DEF RunWrite
<1>l. /\ line' \in Seq(Commands) /\ OnceEach(line')
      /\ Members(line) = Members(line') \cup {Head(line)}
      /\ main.pc # "none" => AbortAhead(line')
      /\ Head(line).c \in Calls
  BY <1>0, <1>u, CommandRuns DEF RunWrite, Runs, CommandOK
<1>1. TypeOK'
  <2>1. rows' \in SUBSET Calls
    BY <1>0, <1>u, <1>l DEF TypeOK
  <2>. QED BY <1>0, <1>a, <1>u, <1>l, <2>1 DEF TypeOK, bounds
<1>2. LineOK'
  BY <1>0, <1>a, <1>u, <1>l DEF LineOK, CommandOK
<1>3. \A d \in Calls : CallOK(d)' /\ FreshOK(d)'
  BY <1>a, <1>u DEF IInv, CallOK, FreshOK
<1>4. /\ Transcript' /\ StartingOK' /\ RestOK' /\ SequentialOK' /\ ParallelOK' /\ CancelOK'
      /\ SuffixOK' /\ \A m \in 0 .. NCalls : MatOK(m)'
  BY <1>a, <1>u DEF IInv, Transcript, StartingOK, RestOK, SequentialOK, ParallelOK, CancelOK,
     SuffixOK, MatOK, Members, Settled, Cancelled
<1>. QED BY <1>a, <1>1, <1>2, <1>3, <1>4 DEF IInv

\* Staging gives an open call its outcome and schedules a materialization.
LEMMA RunStageOK ==
  ASSUME IInv, RunStage
  PROVE  IInv'
<1>0. TypeOK /\ LineOK /\ \A d \in Calls : CallOK(d)
  BY DEF IInv
<1>a. /\ NCalls' = NCalls /\ Calls' = Calls /\ Parallel' = Parallel /\ Commands' = Commands
      /\ NCalls \in Nat \ {0} /\ Calls = 1 .. NCalls
  BY <1>0, SameBatch, BatchFacts DEF RunStage
<1>. DEFINE c == Head(line).c
            res == job[c].res
<1>l. /\ line' \in Seq(Commands) /\ OnceEach(line')
      /\ Members(line) = Members(line') \cup {Head(line)}
      /\ main.pc # "none" => AbortAhead(line')
      /\ Head(line) \in Commands /\ Head(line).k = "stage" /\ Head(line) \notin Members(line')
      /\ c \in Calls /\ job[c].pc = "stage"
  BY <1>0, CommandRuns DEF RunStage, Runs, CommandOK
<1>u. /\ UNCHANGED <<batch, placed, ctl, over, gate, main, started>> /\ UNCHANGED bounds
      /\ outcome' = [outcome EXCEPT ![c] = res]
      /\ \E term \in BOOLEAN :
            call' = [call EXCEPT ![c].status = "outcome_ready", ![c].term = term]
      /\ rows' = rows \ {c}
      /\ job' = [job EXCEPT ![c].pc = "done"]
      /\ IF main.par THEN chain' = Append(chain, c) /\ mat' = [mat EXCEPT ![c].pc = "waiting"]
                     ELSE chain' = chain /\ mat' = mat
  BY DEF RunStage, RowsAfterStaging
<1>r. res = job[c].res
  OBVIOUS
<1>. HIDE DEF c, res
<1>v. UNCHANGED <<batch, placed, ctl, over, gate, main, started>> /\ rows' = rows \ {c}
  BY <1>u
<1>b. /\ call[c].status \in Open /\ res # "none" /\ mat[c].pc = "idle"
      /\ res = "aborted" => started[c] = 0
      /\ main.pc \notin {"none", "placing", "return", "final"}
      /\ main.pc \in Starting => main.at # c
      /\ ~main.par => main.at = c /\ main.pc = "wait"
  <2>1. call[c].status \in Open /\ res # "none" /\ (res = "aborted" => started[c] = 0)
    BY <1>0, <1>l, <1>r DEF CallOK
  <2>2. mat[c].pc = "idle" /\ c \in 0 .. NCalls
    BY <1>a, <1>l DEF IInv, MatOK
  <2>3. main.pc \notin {"none", "return"}
    BY <1>l DEF IInv, RestOK, Settled
  <2>4. ~main.par => main.at = c /\ main.pc = "wait"
    BY <1>l, <2>3 DEF IInv, SequentialOK, Settled
  <2>5. main.par => main.pc \notin {"placing", "final"}
    BY <1>l DEF IInv, ParallelOK, Settled, Starting
  <2>6. main.pc \in Starting => main.at # c
    BY <1>l DEF IInv, StartingOK
  <2>. QED BY <2>1, <2>2, <2>3, <2>4, <2>5, <2>6
<1>1. /\ job'[c].pc = "done" /\ \A d \in Calls : d # c => job'[d] = job[d]
      /\ call'[c].status = "outcome_ready" /\ \A d \in Calls : d # c => call'[d] = call[d]
      /\ outcome'[c] = res /\ \A d \in Calls : d # c => outcome'[d] = outcome[d]
      /\ call'[c].safe = call[c].safe
  BY <1>0, <1>l, <1>u, Types DEF JobStates, CallStates
<1>2. /\ \A m \in 0 .. NCalls : m # c => mat'[m] = mat[m]
      /\ IF main.par THEN mat'[c].pc = "waiting" ELSE mat'[c].pc = "idle"
      /\ Members(chain) \subseteq Members(chain') /\ (main.par => c \in Members(chain'))
      /\ ~main.par => chain' = chain
      /\ chain # <<>> => chain' # <<>> /\ Head(chain') = Head(chain)
      /\ chain' \in Seq(0 .. NCalls)
      /\ mat' \in [0 .. NCalls -> MatStates]
  <2>1. mat \in [0 .. NCalls -> MatStates] /\ chain \in Seq(0 .. NCalls) /\ c \in 0 .. NCalls
    BY <1>0, <1>a, <1>l, Types
  <2>2. CASE main.par
    <3>1. chain' = Append(chain, c) /\ mat' = [mat EXCEPT ![c].pc = "waiting"]
      BY <1>u, <2>2
    <3>2. mat' \in [0 .. NCalls -> MatStates]
      BY <2>1, <3>1 DEF MatStates
    <3>3. /\ chain' \in Seq(0 .. NCalls) /\ Members(chain') = Members(chain) \cup {c}
          /\ chain' # <<>> /\ Head(chain') = IF chain = <<>> THEN c ELSE Head(chain)
      BY <2>1, <3>1, ChainJoins
    <3>. QED BY <2>1, <2>2, <3>1, <3>2, <3>3 DEF MatStates
  <2>3. CASE ~main.par
    BY <1>b, <1>u, <2>1, <2>3
  <2>. QED BY <2>2, <2>3
<1>3. TypeOK'
  <2>1. /\ job' \in [Calls -> JobStates] /\ call' \in [Calls -> CallStates]
        /\ outcome' \in [Calls -> Outcomes] /\ rows' \in SUBSET Calls
    <3>1. /\ job \in [Calls -> JobStates] /\ call \in [Calls -> CallStates]
          /\ outcome \in [Calls -> Outcomes] /\ rows \in SUBSET Calls /\ res \in Outcomes
      BY <1>0, <1>l, <1>r, Types DEF TypeOK, JobStates
    <3>2. PICK term \in BOOLEAN :
            call' = [call EXCEPT ![c].status = "outcome_ready", ![c].term = term]
      BY <1>u
    <3>3. call' \in [Calls -> CallStates]
      BY <3>1, <3>2 DEF CallStates
    <3>. QED BY <1>u, <3>1, <3>3 DEF JobStates
  <2>2. /\ passes' = passes /\ aborts' = aborts /\ crashes' = crashes
        /\ UNCHANGED <<batch, placed, ctl, over, gate, main, started>>
    BY <1>u DEF bounds
  <2>3. /\ line' \in Seq(Commands) /\ chain' \in Seq(0 .. NCalls)
        /\ mat' \in [0 .. NCalls -> MatStates]
    BY <1>l, <1>2
  <2>. QED BY ONLY <1>0, <1>a, <2>1, <2>2, <2>3 DEF TypeOK, JobStates, CallStates, MatStates
<1>4. Transcript'
  BY <1>a, <1>l, <1>v, <1>b, <1>1 DEF IInv, Transcript, Open
<1>5. \A d \in Calls : CallOK(d)'
  BY <1>a, <1>l, <1>v, <1>b, <1>1 DEF IInv, CallOK, Executing, Open, Ready
<1>6. \A d \in Calls : FreshOK(d)'
  BY <1>a, <1>u, <1>b, <1>1 DEF IInv, FreshOK
<1>7. StartingOK' /\ RestOK' /\ CancelOK'
  BY <1>a, <1>l, <1>v, <1>b, <1>1 DEF IInv, StartingOK, Starting, RestOK, CancelOK, Cancelled
<1>8. SequentialOK'
  BY <1>a, <1>u, <1>b, <1>1, <1>2 DEF IInv, SequentialOK, Settled, Starting
<1>9. ParallelOK'
  <2>1. SUFFICES ASSUME main.par PROVE ParallelOK'
    BY <1>v DEF ParallelOK
  <2>2. 0 # c /\ mat'[0] = mat[0]
    BY <1>a, <1>l, <1>2
  <2>3. \A d \in Calls : d > main.at => job'[d].pc = "idle"
    BY <1>l, <1>1, <2>1 DEF IInv, ParallelOK
  <2>4. \A d \in Calls : d <= main.at /\ call'[d].status \in Open =>
          ~Settled(d)' \/ (main.pc \in Starting /\ d = main.at)
    BY <1>l, <1>1, <2>1 DEF IInv, ParallelOK, Open, Settled
  <2>5. \A d \in Calls : call[d].status \in Ready => call'[d].status \in Ready
    BY <1>l, <1>1 DEF Ready
  <2>. QED BY <1>a, <1>v, <1>b, <2>1, <2>2, <2>3, <2>4, <2>5 DEF IInv, ParallelOK
<1>10. \A m \in 0 .. NCalls : MatOK(m)'
  <2>1. ASSUME NEW m \in 0 .. NCalls PROVE MatOK(m)'
    <3>1. MatOK(m)
      BY DEF IInv
    <3>2. m = 0 => mat[m].pc \notin {"emit", "place"}
      BY <1>b, <3>1 DEF IInv, ParallelOK, SequentialOK, Starting
    <3>3. /\ mat'[m].pc \in Placing => \/ m = 0 /\ main'.pc = "placing" /\ chain' = <<>>
                                       \/ chain' # <<>> /\ Head(chain') = m
          /\ mat'[m].pc = "waiting" => main'.par /\ m \in Members(chain')
          /\ m \in Calls /\ mat'[m].pc # "idle" => main'.par /\ job'[m].pc = "done"
      BY <1>a, <1>l, <1>u, <1>b, <1>1, <1>2, <3>1 DEF MatOK, Placing
    <3>4. mat'[m].pc \in {"emit", "place"} =>
            /\ mat'[m].lo = Len(placed') + 1 /\ mat'[m].lo <= mat'[m].hi /\ mat'[m].hi <= NCalls
            /\ \A d \in mat'[m].lo .. mat'[m].hi : call'[d].status = "outcome_ready"
      <4>1. SUFFICES ASSUME mat'[m].pc \in {"emit", "place"} PROVE
            /\ mat[m].lo = Len(placed) + 1 /\ mat[m].lo <= mat[m].hi /\ mat[m].hi <= NCalls
            /\ \A d \in mat[m].lo .. mat[m].hi : call'[d].status = "outcome_ready"
        BY <1>u, <1>b, <1>2
      <4>2. mat[m].pc \in {"emit", "place"}
        BY <1>b, <1>2, <4>1
      <4>3. mat[m].lo .. mat[m].hi \subseteq Calls
        <5>1. mat[m] \in MatStates
          BY <1>0, Types
        <5>. QED BY <1>a, <5>1 DEF MatStates
      <4>. QED BY <1>1, <3>1, <4>2, <4>3 DEF MatOK
    <3>5. m = 0 => mat'[m].pc \notin {"emit", "place"}
      BY <1>a, <1>l, <1>2, <3>2
    <3>. QED BY <1>a, <3>3, <3>4, <3>5 DEF MatOK
  <2>. QED BY <2>1
<1>11. LineOK'
  <2>1. ASSUME NEW cmd \in Members(line') PROVE CommandOK(cmd)'
    <3>1. CommandOK(cmd) /\ cmd \in Commands
      BY <1>0, <1>l, <2>1 DEF LineOK, Members
    <3>2. cmd.k = "stage" => cmd.c # c
      <4>1. ASSUME cmd.k = "stage", cmd.c = c PROVE FALSE
        BY <1>a, <1>l, <2>1, <3>1, <4>1, CommandTyped DEF c
      <4>. QED BY <4>1
    <3>3. cmd.k \in {"read", "place"} => cmd.c # c /\ cmd.c \in 0 .. NCalls
      BY <1>b, <3>1 DEF CommandOK, Commands
    <3>. QED BY <1>a, <1>u, <1>1, <1>2, <3>1, <3>2, <3>3 DEF CommandOK
  <2>. QED BY <1>0, <1>u, <1>l, <2>1 DEF LineOK
<1>12. SuffixOK'
  BY <1>a, <1>l, <1>v, <1>b, <1>1 DEF IInv, SuffixOK, SequentialOK
<1>. QED BY <1>a, <1>3, <1>4, <1>5, <1>6, <1>7, <1>8, <1>9, <1>10, <1>11, <1>12 DEF IInv
-----------------------------------------------------------------------------
(***************************************************************************)
(* The start pass keeps the invariant.                                     *)
(***************************************************************************)

\* runTools is at an open call that has no continuation.
MayStart(c) ==
  /\ c \in Calls /\ job[c].pc = "idle" /\ call[c].status \in Open
  /\ main.pc \in Starting \cup {"placing", "next"}
  /\ main.pc \in Starting => c = main.at
  /\ main.pc = "next" =>
       c > main.at /\ \A d \in Calls : main.at < d /\ d < c => call[d].status \notin Open
  /\ main.pc = "placing" => ~over /\ c = Len(placed) + 1 /\ mat[0].pc = "idle"

\* No intent and no replay waits in the line of a runTools that waits for none.
LEMMA NoStartQueued ==
  ASSUME TypeOK, LineOK, NEW cmd \in Members(line), main.pc # "none"
  PROVE  /\ cmd.k # "claim"
         /\ main.pc \notin {"intent", "clear"} => cmd.k \notin {"intent", "clear"}
BY DEF LineOK, CommandOK

\* runTools stages an outcome for the call it is at.
LEMMA StageNowOK ==
  ASSUME IInv, NEW c, MayStart(c), NEW res \in Outcomes \ {"none"},
         res = "aborted" => started[c] = 0,
         NEW rest \in Seq(Commands), OnceEach(rest), AbortAhead(rest),
         Members(rest) \subseteq Members(line),
         \A cmd \in Members(rest) : cmd.k \notin {"intent", "clear"},
         StageNow(c, res, rest),
         UNCHANGED <<durable, gate, mat, chain, started, bounds>>
  PROVE  IInv'
<1>0. TypeOK /\ LineOK /\ c \in Calls /\ main \in MainStates
  BY Types DEF IInv, MayStart
<1>a. /\ NCalls' = NCalls /\ Calls' = Calls /\ Parallel' = Parallel /\ Commands' = Commands
      /\ NCalls \in Nat \ {0} /\ Calls = 1 .. NCalls
  BY <1>0, SameBatch, BatchFacts DEF durable
<1>u. UNCHANGED <<batch, call, outcome, placed, rows, ctl, over, gate, mat, chain, started>>
  BY DEF durable
<1>v. /\ job' = [job EXCEPT ![c] = [pc |-> "stage", res |-> res]]
      /\ line' = Append(rest, Cmd("stage", c))
      /\ main' = [main EXCEPT !.pc = After, !.at = c]
  BY DEF StageNow
<1>1. /\ main' \in MainStates /\ main'.pc = IF main.par THEN "next" ELSE "wait"
      /\ main'.at = c /\ main'.par = main.par /\ main'.turns = main.turns
      /\ main'.recovery = main.recovery
  <2>1. After \in {"next", "wait"} /\ c \in 0 .. NCalls
    BY <1>0, <1>a DEF After
  <2>. QED BY <1>0, <1>v, <2>1 DEF After, MainStates
<1>2. /\ job' \in [Calls -> JobStates]
      /\ job'[c].pc = "stage" /\ job'[c].res = res
      /\ \A d \in Calls : d # c => job'[d] = job[d]
  <2>1. job \in [Calls -> JobStates]
    BY <1>0, Types
  <2>. QED BY <1>0, <1>v, <2>1 DEF JobStates
<1>b. /\ main.pc \notin {"none", "wait", "final", "return"}
      /\ job[c].pc = "idle" /\ call[c].status \in Open
  BY DEF MayStart, Starting
<1>l. /\ line' \in Seq(Commands) /\ OnceEach(line') /\ AbortAhead(line')
      /\ Members(line') = Members(rest) \cup {Cmd("stage", c)}
      /\ Cmd("stage", c).k = "stage" /\ Cmd("stage", c).c = c
      /\ Cmd("stage", c) # Cmd("abort", 0)
  <2>1. /\ Cmd("stage", c) \in Commands /\ Cmd("stage", c).k = "stage" /\ Cmd("stage", c).c = c
        /\ Cmd("abort", 0).k = "abort"
    BY <1>0, <1>a, CommandTyped
  <2>2. Cmd("stage", c) \notin Members(rest) /\ Cmd("stage", c) # Cmd("abort", 0)
    BY <1>0, <1>b, <2>1 DEF LineOK, CommandOK
  <2>. QED BY <1>v, <2>1, <2>2, CommandJoins
<1>3. TypeOK'
  <2>1. UNCHANGED bounds
    OBVIOUS
  <2>. QED BY <1>0, <1>a, <1>u, <1>1, <1>2, <1>l, <2>1 DEF TypeOK, bounds, MainStates, JobStates
<1>4. Transcript' /\ SuffixOK'
  BY <1>a, <1>u, <1>1 DEF IInv, Transcript, SuffixOK
<1>5. \A d \in Calls : CallOK(d)' /\ FreshOK(d)'
  BY <1>u, <1>1, <1>2, <1>b DEF IInv, CallOK, FreshOK, Executing, Open, Ready
<1>6. StartingOK' /\ RestOK' /\ CancelOK'
  BY <1>a, <1>u, <1>1, <1>2, <1>b DEF IInv, StartingOK, Starting, RestOK, Settled, CancelOK, Cancelled
<1>7. SequentialOK'
  BY <1>a, <1>u, <1>1, <1>2, <1>b DEF IInv, MayStart, SequentialOK, Settled, Starting
<1>8. ParallelOK'
  <2>1. SUFFICES ASSUME main.par PROVE ParallelOK'
    BY <1>1 DEF ParallelOK
  <2>2. c >= main.at /\ main.pc # "placing"
    BY <1>0, <1>a, <2>1 DEF IInv, MayStart, ParallelOK, Starting, MainStates
  <2>3. \A d \in Calls : d > c => job'[d].pc = "idle"
    BY <1>0, <1>a, <1>2, <2>1, <2>2 DEF IInv, ParallelOK, MainStates
  <2>4. \A d \in Calls : d <= c /\ call[d].status \in Open => ~Settled(d)'
    BY <1>0, <1>a, <1>2, <1>b, <2>1, <2>2 DEF IInv, MayStart, ParallelOK, MainStates, Settled
  <2>5. mat[0].pc = "idle"
    BY <1>b, <2>1 DEF IInv, ParallelOK
  <2>. QED BY <1>a, <1>u, <1>1, <2>1, <2>3, <2>4, <2>5 DEF ParallelOK
<1>9. \A m \in 0 .. NCalls : MatOK(m)'
  BY <1>a, <1>u, <1>1, <1>2, <1>b DEF IInv, MayStart, MatOK, Placing, Members
<1>10. LineOK'
  <2>1. \A cmd \in Members(rest) : CommandOK(cmd) /\ cmd.k \notin {"intent", "clear", "claim"}
    BY <1>0, <1>b, NoStartQueued DEF LineOK
  <2>2. \A cmd \in Members(line') : CommandOK(cmd)'
    BY <1>0, <1>a, <1>u, <1>1, <1>2, <1>l, <2>1 DEF CommandOK
  <2>3. Cmd("abort", 0) \notin Members(line)
    BY <1>0, <1>b, NoLateAbort DEF MayStart
  <2>. QED BY <1>l, <2>2, <2>3 DEF LineOK
<1>. QED BY <1>a, <1>3, <1>4, <1>5, <1>6, <1>7, <1>8, <1>9, <1>10 DEF IInv

\* runTools goes on with a call that is not started yet: to its hook, to its
\* intent, or to the end of its replay checkpoint.
LEMMA StartAtOK ==
  ASSUME IInv, NEW c, MayStart(c), NEW pc \in Starting,
         call[c].status = IF pc = "clear" THEN "effect_pending" ELSE "planned",
         pc = "clear" => call[c].safe,
         main.pc \notin {"intent", "clear"}, main.pc = "placing" => ~Cancelled,
         main' = [main EXCEPT !.pc = pc, !.at = c],
         line' = IF pc \in {"intent", "clear"} THEN Append(line, Cmd(pc, c)) ELSE line,
         UNCHANGED <<durable, gate, job, mat, chain, started, bounds>>
  PROVE  IInv'
<1>0. TypeOK /\ LineOK /\ c \in Calls /\ main \in MainStates
  BY Types DEF IInv, MayStart
<1>a. /\ NCalls' = NCalls /\ Calls' = Calls /\ Parallel' = Parallel /\ Commands' = Commands
      /\ NCalls \in Nat \ {0} /\ Calls = 1 .. NCalls
  BY <1>0, SameBatch, BatchFacts DEF durable
<1>u. UNCHANGED <<batch, call, outcome, placed, rows, ctl, over, gate, job, mat, chain, started>>
  BY DEF durable
<1>1. /\ main' \in MainStates /\ main'.pc = pc
      /\ main'.at = c /\ main'.par = main.par /\ main'.turns = main.turns
      /\ main'.recovery = main.recovery
  <2>1. c \in 0 .. NCalls
    BY <1>0, <1>a
  <2>. QED BY <1>0, <2>1 DEF Starting, MainStates
<1>b. /\ main.pc \notin {"none", "wait", "final", "return"}
      /\ job[c].pc = "idle" /\ call[c].status \in Open
      /\ pc \in {"gate", "hook", "parked", "intent", "clear"}
  BY DEF MayStart, Starting
<1>c. \A cmd \in Members(line) : CommandOK(cmd) /\ cmd.k \notin {"intent", "clear", "claim"}
  BY <1>0, <1>b, NoStartQueued DEF LineOK
<1>l. /\ line' \in Seq(Commands) /\ OnceEach(line') /\ AbortAhead(line')
      /\ \A cmd \in Members(line') : \/ cmd \in Members(line) /\ cmd # Cmd("abort", 0)
                                     \/ cmd = Cmd(pc, c) /\ cmd.k = pc /\ cmd.c = c
      /\ Cmd(pc, c) # Cmd("abort", 0)
  <2>1. /\ Cmd(pc, c).k = pc /\ Cmd(pc, c).c = c /\ Cmd(pc, c) # Cmd("abort", 0)
        /\ pc \in {"intent", "clear"} => Cmd(pc, c) \in Commands
    <3>1. Cmd(pc, c).k = pc /\ Cmd(pc, c).c = c /\ Cmd("abort", 0).k = "abort"
      BY DEF Cmd
    <3>2. pc \in {"intent", "clear"} => Cmd(pc, c) \in Commands
      BY <1>0, <1>a, CommandTyped
    <3>. QED BY <1>b, <3>1, <3>2
  <2>2. Cmd("abort", 0) \notin Members(line)
    BY <1>0, <1>b, NoLateAbort DEF MayStart
  <2>3. line \in Seq(Commands) /\ OnceEach(line) /\ AbortAhead(line)
    BY <1>0, <1>b DEF TypeOK, LineOK
  <2>4. CASE pc \in {"intent", "clear"}
    <3>1. Cmd(pc, c) \notin Members(line) /\ line' = Append(line, Cmd(pc, c))
      BY <1>c, <2>1, <2>4
    <3>. QED BY <2>1, <2>2, <2>3, <2>4, <3>1, CommandJoins
  <2>5. CASE pc \notin {"intent", "clear"}
    BY <2>1, <2>2, <2>3, <2>5
  <2>. QED BY <2>4, <2>5
<1>3. TypeOK'
  <2>1. UNCHANGED bounds
    OBVIOUS
  <2>. QED BY <1>0, <1>a, <1>u, <1>1, <1>l, <2>1 DEF TypeOK, bounds, MainStates
<1>4. Transcript' /\ SuffixOK'
  BY <1>a, <1>u, <1>1 DEF IInv, Transcript, SuffixOK
<1>5. \A d \in Calls : CallOK(d)' /\ FreshOK(d)'
  BY <1>u, <1>1, <1>b DEF IInv, CallOK, FreshOK
<1>6. StartingOK' /\ RestOK'
  BY <1>0, <1>a, <1>u, <1>1, <1>b DEF IInv, StartingOK, Starting, RestOK
<1>7. CancelOK'
  BY <1>a, <1>u, <1>1, <1>b DEF IInv, MayStart, CancelOK, Cancelled, Starting
<1>8. SequentialOK'
  BY <1>a, <1>u, <1>1, <1>b DEF IInv, MayStart, SequentialOK, Settled, Starting
<1>9. ParallelOK'
  <2>1. SUFFICES ASSUME main.par PROVE ParallelOK'
    BY <1>1 DEF ParallelOK
  <2>2. c >= main.at /\ main.pc # "placing"
    BY <1>0, <1>a, <2>1 DEF IInv, MayStart, ParallelOK, Starting, MainStates
  <2>3. \A d \in Calls : d > c => job[d].pc = "idle"
    BY <1>0, <1>a, <2>1, <2>2 DEF IInv, ParallelOK, MainStates
  <2>4. \A d \in Calls : d <= c /\ call[d].status \in Open => ~Settled(d) \/ d = c
    BY <1>0, <1>a, <1>b, <2>1, <2>2 DEF IInv, MayStart, ParallelOK, MainStates
  <2>5. mat[0].pc = "idle"
    BY <1>b, <2>1 DEF IInv, ParallelOK
  <2>6. \A d \in Calls : Settled(d)' = Settled(d)
    BY <1>u DEF Settled
  <2>. QED BY <1>a, <1>u, <1>b, <1>1, <2>1, <2>3, <2>4, <2>5, <2>6 DEF ParallelOK, Starting
<1>10. \A m \in 0 .. NCalls : MatOK(m)'
  BY <1>a, <1>u, <1>1, <1>b DEF IInv, MayStart, MatOK, Placing, Members
<1>11. LineOK'
  <2>2. ASSUME NEW cmd \in Members(line') PROVE CommandOK(cmd)'
    <3>1. CASE cmd = Cmd(pc, c) /\ cmd.k = pc /\ cmd.c = c
      BY <1>1, <1>b, <3>1 DEF CommandOK
    <3>2. CASE cmd \in Members(line)
      <4>1. CommandOK(cmd) /\ cmd.k \notin {"intent", "clear", "claim"}
        BY <1>c, <3>2
      <4>. QED BY <1>a, <1>u, <4>1 DEF CommandOK
    <3>. QED BY <1>l, <2>2, <3>1, <3>2
  <2>. QED BY <1>l, <2>2 DEF LineOK
<1>. QED BY <1>a, <1>3, <1>4, <1>5, <1>6, <1>7, <1>8, <1>9, <1>10, <1>11 DEF IInv

\* Staging at once while no intent waits.
LEMMA StageHereOK ==
  ASSUME IInv, NEW c, MayStart(c), NEW res \in Outcomes \ {"none"},
         res = "aborted" => started[c] = 0, main.pc \notin {"intent", "clear"},
         StageNow(c, res, line), UNCHANGED <<durable, gate, mat, chain, started, bounds>>
  PROVE  IInv'
<1>1. TypeOK /\ LineOK /\ main.pc # "none"
  BY DEF IInv, MayStart, Starting
<1>2. line \in Seq(Commands) /\ OnceEach(line) /\ AbortAhead(line)
  BY <1>1 DEF TypeOK, LineOK
<1>3. \A cmd \in Members(line) : cmd.k \notin {"intent", "clear"}
  BY <1>1, NoStartQueued
<1>. QED BY <1>2, <1>3, StageNowOK

\* runTools goes on with an open call.
LEMMA BeginOK ==
  ASSUME IInv, NEW c, MayStart(c), main.pc \in {"placing", "next"},
         main.pc = "placing" => ~Cancelled, Begin(c),
         UNCHANGED <<durable, gate, mat, chain, started, bounds>>
  PROVE  IInv'
<1>1. CASE call[c].status = "planned" /\ main' = [main EXCEPT !.pc = "gate", !.at = c]
           /\ UNCHANGED <<line, job>>
  BY <1>1, StartAtOK DEF Starting
<1>2. CASE StageNow(c, "error", line)
  BY <1>2, StageHereOK DEF Outcomes
<1>3. CASE /\ call[c].status = "effect_pending" /\ MayReplay(c)
           /\ main' = [main EXCEPT !.pc = "clear", !.at = c]
           /\ line' = Append(line, Cmd("clear", c))
           /\ UNCHANGED job
  BY <1>3, StartAtOK DEF Starting, MayReplay
<1>4. CASE StageNow(c, "interrupted", line)
  BY <1>4, StageHereOK DEF Outcomes
<1>. QED BY <1>1, <1>2, <1>3, <1>4 DEF Begin

\* The choice after a materialization of runTools itself.
LEMMA ChooseOK ==
  ASSUME IInv, Choose
  PROVE  IInv'
<1>0. /\ TypeOK /\ Transcript /\ LineOK /\ SequentialOK /\ ParallelOK /\ RestOK
      /\ \A d \in Calls : CallOK(d)
      /\ main.pc = "placing" /\ mat[0].pc = "idle" /\ ~over
      /\ UNCHANGED <<durable, gate, mat, chain, started, bounds>>
  BY DEF IInv, Choose
<1>a. /\ NCalls' = NCalls /\ Calls' = Calls /\ Parallel' = Parallel /\ Commands' = Commands
      /\ NCalls \in Nat \ {0} /\ Calls = 1 .. NCalls
  BY <1>0, SameBatch, BatchFacts DEF durable
<1>. DEFINE c == First(Unfinished)
<1>1. c = Len(placed) + 1 /\ c \in Calls /\ Len(placed) \in 0 .. NCalls
  BY <1>0, FirstUnfinished
<1>. HIDE DEF c
<1>b. ~main.par /\ main \in MainStates
  BY <1>0, Types DEF ParallelOK, Starting
<1>2. MayStart(c) /\ call[c].status # "outcome_ready" /\ main.turns <= Len(placed)
  <2>1. call[c].status # "outcome_ready" /\ main.turns <= Len(placed)
    BY <1>0, <1>1, <1>b DEF SequentialOK
  <2>2. call[c].status \in Open
    <3>1. call[c] \in CallStates /\ call[c].status # "completed"
      BY <1>0, <1>1, Types DEF Transcript
    <3>. QED BY <2>1, <3>1 DEF CallStates, Open
  <2>3. job[c].pc = "idle"
    BY <1>0, <1>1, <1>b, <2>2 DEF SequentialOK, Settled, CallOK, Open, Ready
  <2>. QED BY <1>0, <1>1, <2>1, <2>2, <2>3 DEF MayStart, Starting
<1>3. CASE main.turns = 0 /\ Parallel /\ ~Cancelled
  <2>u. /\ UNCHANGED <<batch, call, outcome, placed, rows, ctl, over, gate, mat, chain, started>>
        /\ UNCHANGED <<line, job>>
        /\ main' = [main EXCEPT !.pc = "next", !.par = TRUE, !.turns = 1]
    BY <1>3 DEF Choose, durable
  <2>1. /\ main' \in MainStates /\ main'.pc = "next" /\ main'.par = TRUE /\ main'.turns = 1
        /\ main'.at = 0 /\ main'.recovery = main.recovery
        /\ \A d \in Calls : job[d].pc = "idle"
    BY <1>0, <1>3, <1>b, <2>u DEF IInv, StartingOK, MainStates
  <2>2. TypeOK'
    BY <1>0, <1>a, <2>u, <2>1 DEF TypeOK, bounds, MainStates
  <2>3. /\ Transcript' /\ SuffixOK' /\ StartingOK' /\ RestOK' /\ SequentialOK' /\ CancelOK'
    BY <1>0, <1>a, <1>3, <2>u, <2>1 DEF IInv, Transcript, SuffixOK, StartingOK, Starting, RestOK,
       SequentialOK, CancelOK, Cancelled
  <2>4. ParallelOK'
    BY <1>0, <1>a, <2>u, <2>1 DEF ParallelOK, Starting
  <2>5. (\A d \in Calls : CallOK(d)' /\ FreshOK(d)') /\ \A m \in 0 .. NCalls : MatOK(m)'
    BY <1>0, <1>a, <1>b, <2>u, <2>1 DEF IInv, CallOK, FreshOK, MatOK, Placing
  <2>6. LineOK'
    <3>1. \A cmd \in Members(line) : CommandOK(cmd)'
      BY <1>0, <1>a, <2>u, <2>1, NoStartQueued DEF LineOK, CommandOK
    <3>. QED BY <1>0, <2>u, <3>1, NoLateAbort DEF LineOK
  <2>. QED BY <1>a, <2>2, <2>3, <2>4, <2>5, <2>6 DEF IInv
<1>4. CASE ~(main.turns = 0 /\ Parallel /\ ~Cancelled) /\ Cancelled
  <2>1. StageNow(c, IF call[c].status = "planned" THEN "aborted" ELSE "interrupted", line)
    BY <1>a, <1>0, <1>1, <1>2, <1>4, <1>b DEF Choose, c, MainStates
  <2>2. call[c].status = "planned" => started[c] = 0
    BY <1>0, <1>1 DEF CallOK
  <2>. QED BY <1>0, <1>2, <2>1, <2>2, StageHereOK DEF Outcomes
<1>5. CASE ~(main.turns = 0 /\ Parallel /\ ~Cancelled) /\ ~Cancelled
  <2>1. Begin(c)
    BY <1>a, <1>0, <1>1, <1>2, <1>5, <1>b DEF Choose, c, MainStates
  <2>. QED BY <1>0, <1>2, <1>5, <2>1, BeginOK
<1>. QED BY <1>3, <1>4, <1>5

\* The choice of runParallel.
LEMMA ChooseParallelOK ==
  ASSUME IInv, ChooseParallel
  PROVE  IInv'
<1>0. /\ TypeOK /\ LineOK /\ ParallelOK /\ \A d \in Calls : CallOK(d)
      /\ main.pc = "next" /\ main.par
      /\ UNCHANGED <<durable, gate, mat, chain, started, bounds>>
  BY DEF IInv, ChooseParallel, SequentialOK
<1>a. /\ NCalls' = NCalls /\ Calls' = Calls /\ Parallel' = Parallel /\ Commands' = Commands
      /\ NCalls \in Nat \ {0} /\ Calls = 1 .. NCalls /\ main \in MainStates
  BY <1>0, SameBatch, BatchFacts, Types DEF durable
<1>1. CASE Startable(main.at) = {}
  <2>u. /\ UNCHANGED <<batch, call, outcome, placed, rows, ctl, over, gate, mat, chain, started>>
        /\ UNCHANGED <<line, job>> /\ main' = [main EXCEPT !.pc = "wait"]
    BY <1>1 DEF ChooseParallel, durable
  <2>1. /\ main' \in MainStates /\ main'.pc = "wait" /\ main'.par = main.par
        /\ main'.turns = main.turns /\ main'.at = main.at /\ main'.recovery = main.recovery
    BY <1>a, <2>u DEF MainStates
  <2>2. \A d \in Calls : d > main.at => call[d].status \in Ready
    <3>1. \A d \in Calls : call[d] \in CallStates
      BY <1>0, Types
    <3>. QED BY <1>1, <3>1 DEF Startable, CallStates, Ready
  <2>3. TypeOK'
    BY <1>0, <1>a, <2>u, <2>1 DEF TypeOK, bounds, MainStates
  <2>4. /\ Transcript' /\ SuffixOK' /\ StartingOK' /\ RestOK' /\ SequentialOK' /\ CancelOK'
    BY <1>0, <1>a, <2>u, <2>1 DEF IInv, Transcript, SuffixOK, StartingOK, Starting, RestOK,
       SequentialOK, CancelOK, Cancelled
  <2>5. ParallelOK'
    BY <1>0, <1>a, <2>u, <2>1, <2>2 DEF ParallelOK, Starting, Settled
  <2>6. (\A d \in Calls : CallOK(d)' /\ FreshOK(d)') /\ \A m \in 0 .. NCalls : MatOK(m)'
    BY <1>0, <1>a, <2>u, <2>1 DEF IInv, CallOK, FreshOK, MatOK, Placing, Members
  <2>7. LineOK'
    <3>1. \A cmd \in Members(line) : CommandOK(cmd)'
      BY <1>0, <1>a, <2>u, <2>1, NoStartQueued DEF LineOK, CommandOK
    <3>. QED BY <1>0, <2>u, <2>1, <3>1 DEF LineOK
  <2>. QED BY <1>a, <2>3, <2>4, <2>5, <2>6, <2>7 DEF IInv
<1>2. CASE Startable(main.at) # {}
  <2>. DEFINE c == First(Startable(main.at))
  <2>1. c \in Startable(main.at) /\ \A d \in Startable(main.at) : c <= d
    <3>1. Startable(main.at) \in SUBSET Nat
      BY <1>a DEF Startable
    <3>. QED BY <1>2, <3>1, FirstOf
  <2>. HIDE DEF c
  <2>2. c \in Calls /\ c > main.at /\ call[c].status \in Open
        /\ \A d \in Calls : main.at < d /\ d < c => call[d].status \notin Open
    BY <1>a, <2>1 DEF Startable, Open, MainStates
  <2>3. MayStart(c)
    BY <1>0, <2>2 DEF MayStart, ParallelOK, Starting
  <2>4. Begin(c)
    BY <1>2 DEF ChooseParallel, c
  <2>. QED BY <1>0, <2>3, <2>4, BeginOK
<1>. QED BY <1>1, <1>2

\* before_tool and what follows it.
LEMMA BeforeToolOK ==
  ASSUME IInv, BeforeTool \/ BeforeToolReturns \/ BeforeToolCancelled
  PROVE  IInv'
<1>. DEFINE c == main.at
<1>1. /\ MayStart(c) /\ call[c].status = "planned" /\ started[c] = 0
      /\ main.pc \notin {"intent", "clear", "placing"} /\ main \in MainStates
      /\ UNCHANGED <<durable, gate, mat, chain, started, bounds>>
  <2>1. main.pc \in {"gate", "hook", "parked"}
    BY DEF BeforeTool, BeforeToolReturns, BeforeToolCancelled
  <2>2. c \in Calls /\ job[c].pc = "idle" /\ call[c].status = "planned"
    BY <2>1 DEF IInv, StartingOK, Starting
  <2>3. started[c] = 0 /\ main \in MainStates
    BY <2>2, Types DEF IInv, CallOK
  <2>. QED BY <2>1, <2>2, <2>3 DEF MayStart, Starting, Open, BeforeTool, BeforeToolReturns,
              BeforeToolCancelled
<1>2. ASSUME NEW pc \in {"hook", "parked", "intent"}
      PROVE  [main EXCEPT !.pc = pc] = [main EXCEPT !.pc = pc, !.at = c]
  BY <1>1 DEF MainStates
<1>3. CASE BeforeTool
  <2>1. PICK pc \in {"hook", "parked"} : main' = [main EXCEPT !.pc = pc]
    BY <1>3 DEF BeforeTool
  <2>2. main' = [main EXCEPT !.pc = pc, !.at = c] /\ UNCHANGED <<line, job>>
    BY <1>2, <1>3, <2>1 DEF BeforeTool
  <2>. HIDE DEF c
  <2>. QED BY <1>1, <2>2, StartAtOK DEF Starting
<1>4. CASE BeforeToolReturns /\ StageNow(c, "error", line)
  <2>. HIDE DEF c
  <2>. QED BY <1>1, <1>4, StageHereOK DEF Outcomes
<1>5. CASE BeforeToolReturns /\ ~StageNow(c, "error", line)
  <2>1. /\ main' = [main EXCEPT !.pc = "intent", !.at = c] /\ UNCHANGED job
        /\ line' = Append(line, Cmd("intent", c))
    BY <1>2, <1>5 DEF BeforeToolReturns
  <2>. HIDE DEF c
  <2>. QED BY <1>1, <2>1, StartAtOK DEF Starting
<1>6. CASE BeforeToolCancelled
  <2>1. StageNow(c, "aborted", line)
    BY <1>6 DEF BeforeToolCancelled
  <2>. HIDE DEF c
  <2>. QED BY <1>1, <2>1, StageHereOK DEF Outcomes
<1>. QED BY <1>3, <1>4, <1>5, <1>6

\* The committed intent, or the cleared checkpoint, starts the continuation.
LEMMA StartJobOK ==
  ASSUME IInv, line # <<>>, Head(line).k \in {"intent", "clear"}, StartJob(Head(line).c),
         \/ /\ Head(line).k = "intent" /\ ~Cancelled /\ rows' = rows
            /\ \E safe \in BOOLEAN :
                  call' = [call EXCEPT ![Head(line).c].status = "effect_pending",
                                       ![Head(line).c].safe = safe]
         \/ Head(line).k = "clear" /\ call' = call /\ rows' \subseteq rows,
         UNCHANGED <<batch, outcome, placed, ctl, over, gate, mat, chain, started, bounds>>
  PROVE  IInv'
<1>0. TypeOK /\ LineOK /\ main \in MainStates
  BY Types DEF IInv
<1>a. /\ NCalls' = NCalls /\ Calls' = Calls /\ Parallel' = Parallel /\ Commands' = Commands
      /\ NCalls \in Nat \ {0} /\ Calls = 1 .. NCalls
  BY <1>0, SameBatch, BatchFacts
<1>. DEFINE c == Head(line).c
<1>l. /\ line' \in Seq(Commands) /\ OnceEach(line')
      /\ Members(line) = Members(line') \cup {Head(line)}
      /\ main.pc # "none" => AbortAhead(line')
      /\ Head(line) \in Commands /\ Head(line) \notin Members(line')
      /\ main.pc = Head(line).k /\ main.at = c /\ line' = Tail(line)
  BY <1>0, CommandRuns DEF StartJob, CommandOK
<1>b. /\ c \in Calls /\ job[c].pc = "idle" /\ main.pc \in {"intent", "clear"}
      /\ call[c].status = IF main.pc = "clear" THEN "effect_pending" ELSE "planned"
      /\ main.pc = "clear" => call[c].safe
  BY <1>l DEF IInv, StartingOK, Starting
<1>u. UNCHANGED <<batch, outcome, placed, ctl, over, gate, mat, chain, started>>
  OBVIOUS
<1>v. /\ job' = [job EXCEPT ![c] = [pc |-> "admit", res |-> "none"]]
      /\ main' = [main EXCEPT !.pc = After]
  BY DEF StartJob
<1>w. /\ \/ main.pc = "intent" /\ ~Cancelled
         \/ main.pc = "clear"
      /\ rows' \subseteq rows
      /\ \/ main.pc = "clear" /\ call' = call
         \/ /\ main.pc = "intent"
            /\ \E safe \in BOOLEAN :
                  call' = [call EXCEPT ![c].status = "effect_pending", ![c].safe = safe]
  BY <1>l
<1>. HIDE DEF c
<1>1. /\ main' \in MainStates /\ main'.pc = IF main.par THEN "next" ELSE "wait"
      /\ main'.at = c /\ main'.par = main.par /\ main'.turns = main.turns
      /\ main'.recovery = main.recovery
  <2>1. After \in {"next", "wait"}
    BY DEF After
  <2>. QED BY <1>0, <1>l, <1>v, <2>1 DEF After, MainStates
<1>2. /\ job' \in [Calls -> JobStates] /\ job'[c].pc = "admit"
      /\ \A d \in Calls : d # c => job'[d] = job[d]
  <2>1. job \in [Calls -> JobStates]
    BY <1>0, Types
  <2>. QED BY <1>b, <1>v, <2>1 DEF JobStates, Outcomes
<1>3. /\ call' \in [Calls -> CallStates] /\ call'[c].status = "effect_pending"
      /\ \A d \in Calls : d # c => call'[d] = call[d]
      /\ started[c] = 0 \/ call'[c].safe
      /\ main.pc = "intent" => started[c] = 0
      /\ ~main.recovery => started[c] = 0
      /\ rows' \in SUBSET Calls
  <2>1. call \in [Calls -> CallStates] /\ rows \in SUBSET Calls
    BY <1>0, Types DEF TypeOK
  <2>2. CallOK(c) /\ FreshOK(c)
    BY <1>b DEF IInv
  <2>3. main.pc = "intent" => started[c] = 0
    BY <1>b, <2>2 DEF CallOK
  <2>4. ~main.recovery => started[c] = 0
    BY <1>b, <2>2, <2>3 DEF FreshOK
  <2>5. call' \in [Calls -> CallStates] /\ call'[c].status = "effect_pending"
        /\ \A d \in Calls : d # c => call'[d] = call[d]
    <3>1. CASE main.pc = "clear" /\ call' = call
      BY <1>b, <2>1, <3>1
    <3>2. CASE \E safe \in BOOLEAN :
               call' = [call EXCEPT ![c].status = "effect_pending", ![c].safe = safe]
      BY <1>b, <2>1, <3>2 DEF CallStates
    <3>. QED BY <1>w, <3>1, <3>2
  <2>6. started[c] = 0 \/ call'[c].safe
    BY <1>b, <1>w, <2>3
  <2>. QED BY <1>w, <2>1, <2>3, <2>4, <2>5, <2>6
<1>4. TypeOK'
  <2>1. UNCHANGED bounds
    OBVIOUS
  <2>. QED BY <1>0, <1>a, <1>u, <1>l, <1>1, <1>2, <1>3, <2>1 DEF TypeOK, bounds, MainStates,
          JobStates, CallStates
<1>5. Transcript'
  BY <1>a, <1>u, <1>b, <1>3 DEF IInv, Transcript
<1>6. \A d \in Calls : CallOK(d)'
  <2>1. ASSUME NEW d \in Calls PROVE CallOK(d)'
    <3>1. CallOK(d)
      BY DEF IInv
    <3>2. CASE d = c
      BY <1>u, <1>w, <1>b, <1>2, <1>3, <3>1, <3>2 DEF CallOK, Executing, Open, Ready
    <3>3. CASE d # c
      BY <1>u, <1>w, <1>2, <1>3, <3>1, <3>3 DEF CallOK
    <3>. QED BY <3>2, <3>3
  <2>. QED BY <2>1
<1>7. \A d \in Calls : FreshOK(d)'
  BY <1>u, <1>b, <1>1, <1>2, <1>3 DEF IInv, FreshOK
<1>8. StartingOK' /\ RestOK' /\ CancelOK'
  BY <1>a, <1>u, <1>b, <1>1 DEF IInv, StartingOK, RestOK, CancelOK, Cancelled, Starting
<1>9. SequentialOK'
  <2>1. SUFFICES ASSUME ~main.par PROVE SequentialOK'
    BY <1>1 DEF SequentialOK
  <2>2. SequentialOK /\ main.pc \in Starting /\ main.pc # "none" /\ main'.pc = "wait" /\ main'.at = c
    BY <1>b, <1>1, <2>1 DEF IInv, Starting
  <2>3. /\ chain = <<>> /\ (\A m \in Calls : mat[m].pc = "idle") /\ (\A d \in Calls : Settled(d))
        /\ main.at = Len(placed) + 1 /\ main.turns <= Len(placed) /\ mat[0].pc = "idle"
    BY <2>1, <2>2 DEF SequentialOK, Starting
  <2>4. \A d \in Calls : Settled(d)' \/ d = c
    BY <1>2, <2>3 DEF Settled
  <2>5. /\ c \in Calls /\ main.at = c /\ main'.turns = main.turns /\ job'[c].pc = "admit"
        /\ Calls' = Calls /\ chain' = chain /\ mat' = mat /\ placed' = placed
    BY <1>a, <1>b, <1>l, <1>u, <1>1, <1>2
  <2>. QED BY ONLY <2>2, <2>3, <2>4, <2>5 DEF SequentialOK, Starting
<1>10. ParallelOK'
  <2>1. SUFFICES ASSUME main.par PROVE ParallelOK'
    BY <1>1 DEF ParallelOK
  <2>2. \A d \in Calls : d > c => job'[d].pc = "idle"
    BY <1>0, <1>a, <1>l, <1>b, <1>2, <2>1, SMTT(30) DEF IInv, ParallelOK, MainStates
  <2>3. \A d \in Calls : d <= c /\ call'[d].status \in Open => ~Settled(d)'
    BY <1>a, <1>l, <1>b, <1>2, <1>3, <2>1 DEF IInv, ParallelOK, Settled
  <2>4. mat[0].pc = "idle"
    BY <1>b, <2>1 DEF IInv, ParallelOK
  <2>. QED BY <1>a, <1>u, <1>1, <2>1, <2>2, <2>3, <2>4 DEF ParallelOK
<1>11. \A m \in 0 .. NCalls : MatOK(m)'
  <2>1. ASSUME NEW m \in 0 .. NCalls PROVE MatOK(m)'
    <3>1. MatOK(m) /\ mat[m] \in MatStates
      BY <1>0, Types DEF IInv
    <3>2. m \in Calls /\ mat[m].pc # "idle" => main'.par /\ job'[m].pc = "done"
      BY <1>b, <1>1, <1>2, <3>1 DEF MatOK
    <3>3. mat[m].pc \in {"emit", "place"} => 
            /\ \A d \in mat[m].lo .. mat[m].hi : call'[d].status = "outcome_ready"
            /\ m = 0 => mat[m].hi = NCalls \/ call'[mat[m].hi + 1].status # "outcome_ready"
      <4>1. SUFFICES ASSUME mat[m].pc \in {"emit", "place"}
            PROVE /\ \A d \in mat[m].lo .. mat[m].hi : call'[d].status = "outcome_ready"
                  /\ m = 0 => mat[m].hi = NCalls \/ call'[mat[m].hi + 1].status # "outcome_ready"
        OBVIOUS
      <4>2. mat[m].lo .. mat[m].hi \subseteq Calls /\ mat[m].hi + 1 \in 1 .. (NCalls + 1)
        BY <1>a, <3>1 DEF MatStates
      <4>3. c \notin mat[m].lo .. mat[m].hi
        BY <1>b, <3>1, <4>1 DEF MatOK
      <4>4. \A d \in mat[m].lo .. mat[m].hi : call'[d].status = "outcome_ready"
        BY <1>3, <3>1, <4>1, <4>2, <4>3 DEF MatOK
      <4>5. mat[m].hi + 1 \in Calls \/ mat[m].hi = NCalls
        BY <1>a, <3>1, <4>2 DEF MatStates
      <4>. QED BY <1>3, <3>1, <4>1, <4>4, <4>5 DEF MatOK
    <3>. QED BY <1>a, <1>u, <1>b, <1>1, <3>1, <3>2, <3>3 DEF MatOK, Members
  <2>. QED BY <2>1
<1>12. LineOK'
  <2>1. ASSUME NEW cmd \in Members(line') PROVE CommandOK(cmd)'
    <3>1. CommandOK(cmd) /\ cmd \in Commands /\ cmd.k # "claim"
      BY <1>0, <1>b, <1>l, <2>1, NoStartQueued DEF LineOK, Members
    <3>2. cmd.k \notin {"intent", "clear"}
      <4>1. ASSUME cmd.k \in {"intent", "clear"} PROVE FALSE
        <5>1. cmd.k = Head(line).k /\ cmd.c = Head(line).c
          BY <1>b, <1>l, <3>1, <4>1 DEF CommandOK, c
        <5>2. cmd = Head(line)
          <6>1. Head(line) \in Commands
            BY <1>l
          <6>. QED BY <3>1, <5>1, <6>1 DEF Commands
        <5>. QED BY <1>l, <2>1, <5>2
      <4>. QED BY <4>1
    <3>3. cmd.k = "stage" => cmd.c # c
      BY <1>b, <3>1 DEF CommandOK
    <3>. QED BY <1>a, <1>u, <1>2, <3>1, <3>2, <3>3 DEF CommandOK
  <2>2. Cmd("abort", 0) \notin Members(line')
    BY <1>0, <1>b, <1>l, NoLateAbort
  <2>. QED BY <1>b, <1>l, <2>1, <2>2 DEF LineOK
<1>13. SuffixOK'
  BY <1>a, <1>l, <1>u, <1>b, <1>1, <1>3, SMTT(30) DEF IInv, SuffixOK, SequentialOK, Starting
<1>. QED BY <1>a, <1>4, <1>5, <1>6, <1>7, <1>8, <1>9, <1>10, <1>11, <1>12, <1>13 DEF IInv

\* The intent commits and the call gets its continuation.
LEMMA RunIntentOK ==
  ASSUME IInv, RunIntent
  PROVE  IInv'
<1>0. TypeOK /\ LineOK
  BY DEF IInv
<1>l. /\ line # <<>> /\ Head(line).k = "intent" /\ Head(line) \in Commands
      /\ Tail(line) \in Seq(Commands) /\ OnceEach(Tail(line)) /\ CommandOK(Head(line))
      /\ Members(Tail(line)) \subseteq Members(line) /\ Head(line) \notin Members(Tail(line))
      /\ main.pc # "none" => AbortAhead(Tail(line))
  BY <1>0, CommandRuns DEF RunIntent, Runs
<1>1. CASE Cancelled
  <2>. DEFINE c == Head(line).c
  <2>1. /\ StageNow(c, "aborted", Tail(line))
        /\ UNCHANGED <<durable, gate, mat, chain, started, bounds>>
    BY <1>1 DEF RunIntent, durable
  <2>2. MayStart(c) /\ started[c] = 0 /\ main.pc = "intent"
    <3>1. main.pc = "intent" /\ main.at = c
      BY <1>l DEF CommandOK
    <3>2. c \in Calls /\ job[c].pc = "idle" /\ call[c].status = "planned"
      BY <3>1 DEF IInv, StartingOK, Starting
    <3>3. started[c] = 0
      BY <3>2 DEF IInv, CallOK
    <3>. QED BY <3>1, <3>2, <3>3 DEF MayStart, Starting, Open
  <2>3. ASSUME NEW cmd \in Members(Tail(line)) PROVE cmd.k \notin {"intent", "clear"}
    <3>1. ASSUME cmd.k \in {"intent", "clear"} PROVE FALSE
      <4>1. CommandOK(cmd) /\ cmd \in Commands
        BY <1>0, <1>l, <2>3 DEF LineOK, Members
      <4>2. cmd.k = Head(line).k /\ cmd.c = Head(line).c
        BY <1>l, <3>1, <4>1 DEF CommandOK
      <4>3. cmd = Head(line)
        BY <1>l, <4>1, <4>2 DEF Commands
      <4>. QED BY <1>l, <2>3, <4>3
    <3>. QED BY <3>1
  <2>. HIDE DEF c
  <2>. QED BY <1>l, <2>1, <2>2, <2>3, StageNowOK DEF Outcomes
<1>2. CASE ~Cancelled
  <2>1. /\ StartJob(Head(line).c) /\ rows' = rows
        /\ \E safe \in BOOLEAN : call' = [call EXCEPT ![Head(line).c].status = "effect_pending",
                                                      ![Head(line).c].safe = safe]
        /\ UNCHANGED <<batch, outcome, placed, ctl, over, gate, mat, chain, started, bounds>>
    BY <1>2 DEF RunIntent
  <2>. QED BY <1>l, <1>2, <2>1, StartJobOK
<1>. QED BY <1>1, <1>2

\* A replay gets its continuation.
LEMMA RunClearOK ==
  ASSUME IInv, RunClear
  PROVE  IInv'
<1>1. /\ line # <<>> /\ Head(line).k = "clear" /\ StartJob(Head(line).c)
      /\ call' = call /\ rows' \subseteq rows
      /\ UNCHANGED <<batch, outcome, placed, ctl, over, gate, mat, chain, started, bounds>>
  BY DEF RunClear, Runs
<1>. QED BY <1>1, StartJobOK
-----------------------------------------------------------------------------
(***************************************************************************)
(* Placement keeps the invariant.                                          *)
(***************************************************************************)

\* Materializations take turns.
LEMMA OnePlacing ==
  ASSUME IInv, NEW m \in 0 .. NCalls, NEW k \in 0 .. NCalls,
         mat[m].pc \in Placing, mat[k].pc \in Placing
  PROVE  m = k
BY DEF IInv, MatOK

\* A materialization gets its turn, or queues its commit.
LEMMA MatGoesOn ==
  ASSUME IInv, NEW m \in 0 .. NCalls, NEW pc \in {"read", "place"},
         \/ pc = "read" /\ mat[m].pc = "waiting" /\ Head(chain) = m
         \/ pc = "place" /\ mat[m].pc = "emit",
         mat' = [mat EXCEPT ![m].pc = pc], line' = Append(line, Cmd(pc, m)),
         UNCHANGED <<durable, gate, main, job, chain, started, bounds>>
  PROVE  IInv'
<1>0. TypeOK /\ LineOK /\ MatOK(m)
  BY DEF IInv
<1>a. /\ NCalls' = NCalls /\ Calls' = Calls /\ Parallel' = Parallel /\ Commands' = Commands
      /\ NCalls \in Nat \ {0} /\ Calls = 1 .. NCalls
  BY <1>0, SameBatch, BatchFacts DEF durable
<1>u. UNCHANGED <<batch, call, outcome, placed, rows, ctl, over, gate, main, job, chain, started>>
  BY DEF durable
<1>1. /\ mat' \in [0 .. NCalls -> MatStates] /\ mat'[m].pc = pc
      /\ mat'[m].lo = mat[m].lo /\ mat'[m].hi = mat[m].hi
      /\ \A k \in 0 .. NCalls : k # m => mat'[k] = mat[k]
  <2>1. mat \in [0 .. NCalls -> MatStates]
    BY <1>0, Types
  <2>. QED BY <2>1 DEF MatStates
<1>b. /\ mat[m].pc \in {"waiting", "emit"} /\ main.pc \notin {"none", "return"}
      /\ mat[m].pc = "waiting" => main.par /\ chain # <<>> /\ Head(chain) = m
      /\ ~main.par => m = 0 /\ main.pc = "placing"
  <2>1. mat[m].pc \in {"waiting", "emit"} /\ main.pc \notin {"none", "return"}
    BY DEF IInv, RestOK
  <2>2. mat[m].pc = "waiting" => main.par /\ chain # <<>> /\ Head(chain) = m
    BY <1>0 DEF MatOK, Members
  <2>3. ~main.par => m = 0 /\ main.pc = "placing"
    BY <1>0, <1>a, <2>1, <2>2 DEF IInv, MatOK, SequentialOK, Placing
  <2>. QED BY <2>1, <2>2, <2>3
<1>l. /\ line' \in Seq(Commands) /\ OnceEach(line')
      /\ main.pc # "none" => AbortAhead(line')
      /\ Members(line') = Members(line) \cup {Cmd(pc, m)}
      /\ Cmd(pc, m).k = pc /\ Cmd(pc, m).c = m /\ Cmd(pc, m) # Cmd("abort", 0)
  <2>1. /\ Cmd(pc, m) \in Commands /\ Cmd(pc, m).k = pc /\ Cmd(pc, m).c = m
        /\ Cmd("abort", 0).k = "abort"
    BY <1>0, <1>a, CommandTyped
  <2>2. Cmd(pc, m) \notin Members(line) /\ Cmd(pc, m) # Cmd("abort", 0)
    BY <1>0, <1>b, <2>1 DEF LineOK, CommandOK
  <2>3. line \in Seq(Commands) /\ OnceEach(line) /\ (main.pc # "none" => AbortAhead(line))
    BY <1>0 DEF TypeOK, LineOK
  <2>. QED BY <2>1, <2>2, <2>3, CommandJoins
<1>2. TypeOK'
  <2>1. /\ passes' = passes /\ aborts' = aborts /\ crashes' = crashes
        /\ 0..NCalls' = 0..NCalls
    BY <1>a DEF bounds
  <2>2. mat' \in [0 .. NCalls -> MatStates] /\ line' \in Seq(Commands)
    BY <1>1, <1>l
  <2>. QED BY ONLY <1>0, <1>a, <1>u, <2>1, <2>2 DEF TypeOK, MatStates
<1>3. /\ Transcript' /\ SuffixOK' /\ StartingOK' /\ CancelOK' /\ RestOK'
      /\ \A d \in Calls : CallOK(d)' /\ FreshOK(d)'
  BY <1>a, <1>u, <1>b DEF IInv, Transcript, SuffixOK, StartingOK, CancelOK, Cancelled, RestOK,
     CallOK, FreshOK
<1>4. SequentialOK'
  BY <1>a, <1>u, <1>b, <1>1 DEF IInv, SequentialOK, Settled, Starting
<1>5. ParallelOK'
  BY <1>a, <1>u, <1>b, <1>1 DEF IInv, ParallelOK, Settled, Starting
<1>6. \A k \in 0 .. NCalls : MatOK(k)'
  <2>1. ASSUME NEW k \in 0 .. NCalls PROVE MatOK(k)'
    <3>1. MatOK(k)
      BY DEF IInv
    <3>2. CASE k # m
      BY <1>a, <1>u, <1>1, <3>1, <3>2 DEF MatOK
    <3>3. CASE k = m
      BY <1>a, <1>u, <1>b, <1>1, <3>1, <3>3 DEF MatOK, Placing
    <3>. QED BY <3>2, <3>3
  <2>. QED BY <2>1
<1>7. LineOK'
  <2>1. ASSUME NEW cmd \in Members(line') PROVE CommandOK(cmd)'
    <3>1. CASE cmd = Cmd(pc, m)
      BY <1>1, <1>l, <3>1 DEF CommandOK
    <3>2. CASE cmd \in Members(line)
      <4>1. CommandOK(cmd) /\ cmd.c \in 0 .. NCalls
        <5>1. cmd \in Commands
          BY <1>0, <3>2, MembersTyped DEF TypeOK
        <5>. QED BY <1>0, <3>2, <5>1 DEF LineOK, Commands
      <4>. QED BY <1>a, <1>u, <1>b, <1>1, <4>1 DEF CommandOK
    <3>. QED BY <1>l, <2>1, <3>1, <3>2
  <2>. QED BY <1>0, <1>u, <1>l, <2>1 DEF LineOK
<1>. QED BY <1>a, <1>2, <1>3, <1>4, <1>5, <1>6, <1>7 DEF IInv

\* The end of a materialization lets the next one of the chain have its turn.
LEMMA MaterializedMoves ==
  ASSUME TypeOK, NEW m \in 0 .. NCalls, Materialized(m)
  PROVE  /\ mat' \in [0 .. NCalls -> MatStates] /\ mat'[m].pc = "idle"
         /\ \A k \in 0 .. NCalls : k # m => mat'[k] = mat[k]
         /\ chain' \in Seq(0 .. NCalls)
         /\ \A k \in Members(chain) : k # m => k \in Members(chain')
         /\ chain = <<>> => chain' = <<>>
         /\ m = 0 /\ chain = <<0>> => chain' = <<>>
<1>1. mat \in [0 .. NCalls -> MatStates] /\ chain \in Seq(0 .. NCalls) /\ NCalls \in Nat \ {0}
  BY Types, BatchFacts
<1>2. NoMat \in MatStates
  BY <1>1 DEF NoMat, MatStates
<1>3. mat' \in [0 .. NCalls -> MatStates] /\ mat'[m].pc = "idle"
      /\ \A k \in 0 .. NCalls : k # m => mat'[k] = mat[k]
  BY <1>1, <1>2 DEF Materialized, NoMat
<1>4. CASE chain # <<>> /\ Head(chain) = m
  <2>1. chain' = Tail(chain)
    BY <1>4 DEF Materialized
  <2>2. /\ Tail(chain) \in Seq(0 .. NCalls)
        /\ Members(chain) = Members(Tail(chain)) \cup {Head(chain)}
    BY <1>1, <1>4, Taken
  <2>3. Tail(<<0>>) = <<>>
    OBVIOUS
  <2>. QED BY <1>3, <1>4, <2>1, <2>2, <2>3
<1>5. CASE ~(chain # <<>> /\ Head(chain) = m)
  <2>1. chain' = chain
    BY <1>5 DEF Materialized
  <2>2. <<0>> # <<>> /\ Head(<<0>>) = 0
    OBVIOUS
  <2>. QED BY <1>1, <1>3, <1>5, <2>1, <2>2
<1>. QED BY <1>4, <1>5

\* A read finds the ready prefix, or nothing to place.
LEMMA RunReadPlacementOK ==
  ASSUME IInv, RunReadPlacement
  PROVE  IInv'
<1>0. TypeOK /\ LineOK /\ Transcript
  BY DEF IInv
<1>a. /\ NCalls' = NCalls /\ Calls' = Calls /\ Parallel' = Parallel /\ Commands' = Commands
      /\ NCalls \in Nat \ {0} /\ Calls = 1 .. NCalls
  BY <1>0, SameBatch, BatchFacts DEF RunReadPlacement, durable
<1>u. /\ UNCHANGED <<batch, call, outcome, placed, rows, ctl, over, gate, main, job, started>>
      /\ UNCHANGED bounds
  BY DEF RunReadPlacement, durable
<1>. DEFINE m == Head(line).c
            first == First(Unfinished)
<1>l. /\ line' \in Seq(Commands) /\ OnceEach(line')
      /\ Members(line) = Members(line') \cup {Head(line)}
      /\ main.pc # "none" => AbortAhead(line')
      /\ Head(line).k = "read" /\ Head(line) \in Commands /\ Head(line) \notin Members(line')
      /\ m \in 0 .. NCalls /\ mat[m].pc = "read"
  BY <1>0, CommandRuns DEF RunReadPlacement, Runs, CommandOK, Commands
<1>f. /\ Len(placed) \in 0 .. NCalls
      /\ ~over => first = Len(placed) + 1 /\ first \in Calls
      /\ over <=> Unfinished = {}
  BY <1>0, FirstUnfinished
<1>v. \/ over /\ Materialized(m)
      \/ ~over /\ ReadyUpTo(first) < first /\ Materialized(m)
      \/ /\ ~over /\ ~(ReadyUpTo(first) < first)
         /\ mat' = [mat EXCEPT ![m] = [pc |-> "emit", lo |-> first, hi |-> ReadyUpTo(first)]]
         /\ chain' = chain
  BY <1>f DEF RunReadPlacement
<1>h. m \in 0 .. NCalls /\ Cmd("read", m) = Head(line)
  BY <1>l, CommandTyped
<1>. HIDE DEF m, first
<1>b. /\ main.pc \notin {"none", "return"}
      /\ ~main.par => m = 0 /\ main.pc = "placing"
      /\ \/ m = 0 /\ main.pc = "placing" /\ chain = <<>>
         \/ chain # <<>> /\ Head(chain) = m
  <2>1. main.pc \notin {"none", "return"}
    BY <1>l DEF IInv, RestOK
  <2>2. \/ m = 0 /\ main.pc = "placing" /\ chain = <<>>
        \/ chain # <<>> /\ Head(chain) = m
    BY <1>l DEF IInv, MatOK, Placing
  <2>3. ~main.par => m = 0 /\ main.pc = "placing"
    BY <2>1, <2>2 DEF IInv, SequentialOK
  <2>. QED BY <2>1, <2>2, <2>3
<1>r. ASSUME ~over
      PROVE  /\ ReadyUpTo(first) \in (first - 1) .. NCalls
             /\ \A c \in first .. ReadyUpTo(first) : call[c].status = "outcome_ready"
             /\ ReadyUpTo(first) = NCalls \/ call[ReadyUpTo(first) + 1].status # "outcome_ready"
             /\ ReadyUpTo(first) < first => call[first].status # "outcome_ready"
  <2>1. first \in Calls
    BY <1>f, <1>r
  <2>2. /\ ReadyUpTo(first) \in (first - 1) .. NCalls
        /\ \A c \in first .. ReadyUpTo(first) : call[c].status = "outcome_ready"
        /\ ReadyUpTo(first) = NCalls \/ call[ReadyUpTo(first) + 1].status # "outcome_ready"
    BY <1>0, <2>1, ReadyPrefix
  <2>3. ReadyUpTo(first) < first => ReadyUpTo(first) + 1 = first /\ ReadyUpTo(first) # NCalls
    BY <1>a, <2>1, <2>2
  <2>. QED BY <2>2, <2>3
<1>1. /\ mat' \in [0 .. NCalls -> MatStates]
      /\ \A k \in 0 .. NCalls : k # m => mat'[k] = mat[k]
      /\ chain' \in Seq(0 .. NCalls)
      /\ \A k \in Members(chain) : k # m => k \in Members(chain')
      /\ chain = <<>> => chain' = <<>>
      /\ mat'[m].pc \in {"idle", "emit"}
      /\ mat'[m].pc = "idle" => /\ over \/ call[first].status # "outcome_ready"
                                /\ m = 0 /\ chain = <<0>> => chain' = <<>>
      /\ mat'[m].pc = "emit" =>
           /\ ~over /\ mat'[m].lo = first /\ mat'[m].hi = ReadyUpTo(first)
           /\ first <= ReadyUpTo(first) /\ chain' = chain
  <2>1. CASE Materialized(m) /\ (over \/ ReadyUpTo(first) < first)
    BY <1>0, <1>h, <1>r, <2>1, MaterializedMoves
  <2>2. CASE /\ ~over /\ ~(ReadyUpTo(first) < first)
             /\ mat' = [mat EXCEPT ![m] = [pc |-> "emit", lo |-> first, hi |-> ReadyUpTo(first)]]
             /\ chain' = chain
    <3>1. mat \in [0 .. NCalls -> MatStates] /\ chain \in Seq(0 .. NCalls)
      BY <1>0, Types
    <3>2. first \in 1 .. NCalls /\ ReadyUpTo(first) \in 0 .. NCalls /\ first <= ReadyUpTo(first)
      BY <1>a, <1>f, <1>r, <2>2
    <3>3. [pc |-> "emit", lo |-> first, hi |-> ReadyUpTo(first)] \in MatStates
      BY <3>2 DEF MatStates
    <3>. QED BY <1>h, <2>2, <3>1, <3>2, <3>3
  <2>. QED BY <1>v, <2>1, <2>2
<1>2. TypeOK'
  BY <1>0, <1>a, <1>u, <1>1, <1>l DEF TypeOK, bounds, MatStates
<1>3. /\ Transcript' /\ SuffixOK' /\ StartingOK' /\ CancelOK' /\ RestOK'
      /\ \A d \in Calls : CallOK(d)' /\ FreshOK(d)'
  BY <1>a, <1>u, <1>b DEF IInv, Transcript, SuffixOK, StartingOK, CancelOK, Cancelled, RestOK,
     CallOK, FreshOK
<1>4. SequentialOK'
  <2>1. SUFFICES ASSUME ~main.par PROVE SequentialOK'
    BY <1>u DEF SequentialOK
  <2>2. m = 0 /\ main.pc = "placing" /\ chain = <<>> /\ chain' = <<>>
    BY <1>b, <1>1, <2>1 DEF IInv, SequentialOK
  <2>3. \A k \in Calls : mat'[k].pc = "idle"
    BY <1>a, <1>1, <1>b, <2>1, <2>2 DEF IInv, SequentialOK
  <2>4. over \/ IF mat'[0].pc = "idle"
         THEN main.turns <= Len(placed) /\ call[Len(placed) + 1].status # "outcome_ready"
         ELSE \/ main.turns <= Len(placed)
              \/ main.turns = Len(placed) + 1 /\ call[Len(placed) + 1].status = "outcome_ready"
    BY <1>l, <1>f, <1>1, <1>b, <2>1, <2>2 DEF IInv, SequentialOK
  <2>. QED BY <1>a, <1>u, <2>1, <2>2, <2>3, <2>4 DEF IInv, SequentialOK, Settled, Starting
<1>5. ParallelOK'
  <2>1. SUFFICES ASSUME main.par PROVE ParallelOK'
    BY <1>u DEF ParallelOK
  <2>2. CASE m = 0
    <3>1. main.pc = "final" /\ chain = <<0>>
      BY <1>l, <2>1, <2>2 DEF IInv, ParallelOK
    <3>2. ~over => call[first].status = "outcome_ready"
      <4>1. SUFFICES ASSUME ~over PROVE call[first].status = "outcome_ready"
        OBVIOUS
      <4>2. call[first] \in CallStates /\ call[first].status # "completed" /\ first \in Calls
        BY <1>0, <1>a, <1>f, <4>1, Types DEF Transcript
      <4>3. call[first].status \notin Open
        <5>1. main.at \in 0 .. NCalls
          BY <1>0, Types DEF MainStates
        <5>2. CASE first > main.at
          BY <2>1, <3>1, <4>2, <5>2 DEF IInv, ParallelOK, Open, Ready
        <5>3. CASE first <= main.at
          BY <2>1, <3>1, <4>2, <5>3 DEF IInv, ParallelOK, Starting
        <5>. QED BY <1>a, <4>2, <5>1, <5>2, <5>3
      <4>. QED BY <4>2, <4>3 DEF CallStates, Open
    <3>3. IF mat'[0].pc = "idle" THEN over /\ chain' = <<>> ELSE chain' = <<0>>
      BY <1>1, <2>2, <3>1, <3>2
    <3>4. \A c \in Calls : mat'[c] = mat[c]
      BY <1>a, <1>1, <2>2
    <3>. QED BY <1>a, <1>u, <2>1, <3>1, <3>3, <3>4 DEF IInv, ParallelOK, Settled, Starting
  <2>3. CASE m # 0
    <3>1. mat'[0] = mat[0] /\ m \in Calls
      BY <1>a, <1>h, <1>1, <2>3
    <3>2. main.pc # "final"
      BY <1>l, <2>1, <3>1 DEF IInv, ParallelOK
    <3>. QED BY <1>a, <1>u, <2>1, <3>1, <3>2 DEF IInv, ParallelOK, Settled, Starting
  <2>. QED BY <2>2, <2>3
<1>6. \A k \in 0 .. NCalls : MatOK(k)'
  <2>1. ASSUME NEW k \in 0 .. NCalls PROVE MatOK(k)'
    <3>1. MatOK(k) /\ MatOK(m)
      BY <1>h DEF IInv
    <3>2. CASE k # m
      <4>1. mat[k].pc \notin Placing
        BY <1>h, <1>l, <3>2, OnePlacing DEF Placing
      <4>2. mat'[k] = mat[k]
        BY <1>1, <3>2
      <4>. QED BY <1>a, <1>u, <1>1, <3>1, <3>2, <4>1, <4>2 DEF MatOK, Placing
    <3>3. CASE k = m
      <4>1. mat'[m].pc = "emit" =>
              /\ mat'[m].lo = Len(placed) + 1 /\ mat'[m].lo <= mat'[m].hi /\ mat'[m].hi <= NCalls
              /\ \A c \in mat'[m].lo .. mat'[m].hi : call[c].status = "outcome_ready"
              /\ mat'[m].hi = NCalls \/ call[mat'[m].hi + 1].status # "outcome_ready"
        BY <1>f, <1>r, <1>1
      <4>. QED BY <1>a, <1>l, <1>u, <1>b, <1>1, <3>1, <3>3, <4>1 DEF MatOK, Placing
    <3>. QED BY <3>2, <3>3
  <2>. QED BY <2>1
<1>7. LineOK'
  <2>1. ASSUME NEW cmd \in Members(line') PROVE CommandOK(cmd)'
    <3>1. CommandOK(cmd) /\ cmd \in Commands
      BY <1>0, <1>l, <2>1, MembersTyped DEF LineOK
    <3>2. cmd.k \in {"read", "place"} => cmd.c # m /\ cmd.c \in 0 .. NCalls
      <4>1. cmd.c \in 0 .. NCalls
        BY <3>1 DEF Commands
      <4>2. cmd.k = "read" => cmd.c # m
        BY <1>h, <1>l, <2>1, <3>1, CommandTyped
      <4>3. cmd.k = "place" => cmd.c # m
        BY <1>l, <3>1 DEF CommandOK
      <4>. QED BY <4>1, <4>2, <4>3
    <3>. QED BY <1>a, <1>u, <1>1, <3>1, <3>2 DEF CommandOK
  <2>. QED BY <1>0, <1>u, <1>l, <2>1 DEF LineOK
<1>. QED BY <1>a, <1>2, <1>3, <1>4, <1>5, <1>6, <1>7 DEF IInv

\* The items of a placement are the next results in source order.
LEMMA PlacedItems ==
  ASSUME TypeOK, Transcript, NEW hi \in Nat, Len(placed) + 1 <= hi, hi <= NCalls,
         placed' = placed \o [i \in 1 .. (hi - (Len(placed) + 1) + 1) |-> Len(placed) + 1 + i - 1]
  PROVE  placed' \in Seq(Calls) /\ Len(placed') = hi /\ \A i \in 1 .. hi : placed'[i] = i
<1>. DEFINE n == Len(placed)
            k == hi - (n + 1) + 1
            items == [i \in 1 .. k |-> n + 1 + i - 1]
<1>a. NCalls \in Nat \ {0} /\ Calls = 1 .. NCalls /\ placed \in Seq(Calls)
  BY BatchFacts, Types
<1>1. n \in Nat /\ k \in Nat /\ n + k = hi
  BY <1>a
<1>2. \A i \in 1 .. k : n + 1 + i - 1 \in Calls
  BY <1>a, <1>1
<1>3. items \in Seq(Calls) /\ Len(items) = k
  BY <1>1, <1>2
<1>. HIDE DEF k, items
<1>4. /\ placed' \in Seq(Calls) /\ Len(placed') = n + k
      /\ \A i \in 1 .. (n + k) : placed'[i] = IF i <= n THEN placed[i] ELSE items[i - n]
  BY <1>a, <1>3, ConcatProperties DEF k, items
<1>5. \A i \in 1 .. hi : placed'[i] = i
  <2>1. ASSUME NEW i \in 1 .. hi PROVE placed'[i] = i
    <3>1. CASE i <= n
      BY <1>1, <1>4, <3>1 DEF Transcript
    <3>2. CASE i > n
      <4>1. i - n \in 1 .. k /\ placed'[i] = items[i - n]
        BY <1>1, <1>4, <3>2
      <4>2. items[i - n] = n + 1 + (i - n) - 1
        BY <4>1 DEF items
      <4>. QED BY <1>1, <4>1, <4>2
    <3>. QED BY <1>1, <3>1, <3>2
  <2>. QED BY <2>1
<1>. QED BY <1>1, <1>4, <1>5

\* A placement completes the ready prefix.
LEMMA RunPlaceOK ==
  ASSUME IInv, RunPlace
  PROVE  IInv'
<1>0. TypeOK /\ LineOK /\ Transcript
  BY DEF IInv
<1>a. /\ NCalls' = NCalls /\ Calls' = Calls /\ Parallel' = Parallel /\ Commands' = Commands
      /\ NCalls \in Nat \ {0} /\ Calls = 1 .. NCalls
  BY <1>0, SameBatch, BatchFacts DEF RunPlace
<1>. DEFINE m == Head(line).c
            lo == mat[m].lo
            hi == mat[m].hi
<1>l. /\ line' \in Seq(Commands) /\ OnceEach(line')
      /\ Members(line) = Members(line') \cup {Head(line)}
      /\ main.pc # "none" => AbortAhead(line')
      /\ Head(line).k = "place" /\ Head(line) \in Commands /\ Head(line) \notin Members(line')
      /\ m \in 0 .. NCalls /\ mat[m].pc = "place"
  BY <1>0, CommandRuns DEF RunPlace, Runs, CommandOK, Commands
<1>u. /\ UNCHANGED <<batch, outcome, rows, ctl, gate, main, job, started>> /\ UNCHANGED bounds
      /\ Materialized(m)
  BY DEF RunPlace
<1>v. /\ call' = [c \in Calls |-> IF c \in lo .. hi THEN [call[c] EXCEPT !.status = "completed"]
                                                     ELSE call[c]]
      /\ placed' = placed \o [i \in 1 .. (hi - lo + 1) |-> lo + i - 1]
      /\ over' = (\A c \in Calls : call'[c].status = "completed")
  BY DEF RunPlace
<1>h. Cmd("place", m) = Head(line)
  BY <1>l, CommandTyped
<1>. HIDE DEF m
<1>b. /\ main.pc \notin {"none", "return"}
      /\ ~main.par => m = 0 /\ main.pc = "placing"
      /\ \/ m = 0 /\ main.pc = "placing" /\ chain = <<>>
         \/ chain # <<>> /\ Head(chain) = m
  <2>1. main.pc \notin {"none", "return"}
    BY <1>l DEF IInv, RestOK
  <2>2. \/ m = 0 /\ main.pc = "placing" /\ chain = <<>>
        \/ chain # <<>> /\ Head(chain) = m
    BY <1>l DEF IInv, MatOK, Placing
  <2>3. ~main.par => m = 0 /\ main.pc = "placing"
    BY <2>1, <2>2 DEF IInv, SequentialOK
  <2>. QED BY <2>1, <2>2, <2>3
<1>r. /\ lo = Len(placed) + 1 /\ lo <= hi /\ hi <= NCalls /\ hi \in Nat /\ Len(placed) \in Nat
      /\ \A c \in lo .. hi : call[c].status = "outcome_ready"
      /\ m = 0 => hi = NCalls \/ call[hi + 1].status # "outcome_ready"
  <2>1. MatOK(m) /\ mat[m] \in MatStates /\ placed \in Seq(Calls)
    BY <1>0, <1>l, Types DEF IInv
  <2>. QED BY <1>l, <2>1 DEF MatOK, MatStates
<1>. HIDE DEF lo, hi
<1>1. /\ mat' \in [0 .. NCalls -> MatStates] /\ mat'[m].pc = "idle"
      /\ \A k \in 0 .. NCalls : k # m => mat'[k] = mat[k]
      /\ chain' \in Seq(0 .. NCalls)
      /\ \A k \in Members(chain) : k # m => k \in Members(chain')
      /\ chain = <<>> => chain' = <<>>
      /\ m = 0 /\ chain = <<0>> => chain' = <<>>
  BY <1>0, <1>l, <1>u, MaterializedMoves
<1>2. placed' \in Seq(Calls) /\ Len(placed') = hi /\ \A i \in 1 .. hi : placed'[i] = i
  BY <1>0, <1>r, <1>v, PlacedItems
<1>3. /\ call' \in [Calls -> CallStates]
      /\ \A c \in Calls : c \in lo .. hi =>
           /\ call[c].status = "outcome_ready" /\ call'[c].status = "completed"
           /\ call'[c].safe = call[c].safe
      /\ \A c \in Calls : c \notin lo .. hi => call'[c] = call[c]
  <2>1. call \in [Calls -> CallStates]
    BY <1>0, Types
  <2>2. ASSUME NEW c \in Calls
        PROVE  /\ [call[c] EXCEPT !.status = "completed"] \in CallStates
               /\ [call[c] EXCEPT !.status = "completed"].status = "completed"
               /\ [call[c] EXCEPT !.status = "completed"].safe = call[c].safe
    BY <2>1 DEF CallStates
  <2>. QED BY <1>r, <1>v, <2>1, <2>2
<1>4. \A c \in Calls : call'[c].status = "completed" <=> c <= hi
  <2>1. \A c \in Calls : call[c].status = "completed" <=> c <= Len(placed)
    BY <1>0 DEF Transcript
  <2>. QED BY <1>a, <1>r, <1>3, <2>1
<1>5. /\ over' \in BOOLEAN /\ (over' <=> hi = NCalls)
      /\ ~over
  <2>1. over' \in BOOLEAN
    BY <1>v
  <2>2. over' <=> hi = NCalls
    <3>1. (\A c \in Calls : call'[c].status = "completed") <=> hi = NCalls
      BY <1>a, <1>r, <1>4
    <3>. QED BY <1>v, <3>1
  <2>3. ~over
    BY <1>0, <1>a, <1>r DEF Transcript
  <2>. QED BY <2>1, <2>2, <2>3
<1>6. TypeOK'
  BY <1>0, <1>a, <1>u, <1>1, <1>2, <1>3, <1>5, <1>l DEF TypeOK, bounds, MatStates, CallStates
<1>7. Transcript'
  BY <1>a, <1>r, <1>2, <1>4, <1>5 DEF Transcript
<1>8. \A c \in Calls : CallOK(c)' /\ FreshOK(c)'
  <2>1. ASSUME NEW c \in Calls PROVE CallOK(c)' /\ FreshOK(c)'
    <3>1. CallOK(c) /\ FreshOK(c)
      BY DEF IInv
    <3>2. CASE c \in lo .. hi
      BY <1>u, <1>3, <3>1, <3>2 DEF CallOK, FreshOK, Executing, Open, Ready
    <3>3. CASE c \notin lo .. hi
      BY <1>u, <1>3, <3>1, <3>3 DEF CallOK, FreshOK
    <3>. QED BY <3>2, <3>3
  <2>. QED BY <2>1
<1>9. StartingOK' /\ RestOK' /\ CancelOK'
  <2>1. \A c \in Calls : call[c].status \in {"planned", "effect_pending"} => call'[c] = call[c]
    BY <1>3
  <2>. QED BY <1>a, <1>u, <1>b, <2>1 DEF IInv, StartingOK, RestOK, CancelOK, Cancelled
<1>10. SequentialOK'
  <2>1. SUFFICES ASSUME ~main.par PROVE SequentialOK'
    BY <1>u DEF SequentialOK
  <2>2. m = 0 /\ main.pc = "placing" /\ chain = <<>> /\ chain' = <<>>
    BY <1>b, <1>1, <2>1 DEF IInv, SequentialOK
  <2>3. \A k \in Calls : mat'[k].pc = "idle"
    BY <1>a, <1>1, <1>b, <2>1, <2>2 DEF IInv, SequentialOK
  <2>4. main.turns <= hi
    <3>1. main.turns \in Nat
      BY <1>0, Types DEF MainStates
    <3>. QED BY <1>l, <1>r, <1>5, <1>b, <2>1, <2>2, <3>1 DEF IInv, SequentialOK
  <2>5. hi = NCalls \/ call'[hi + 1].status # "outcome_ready"
    <3>1. hi # NCalls => hi + 1 \in Calls /\ hi + 1 \notin lo .. hi
      BY <1>a, <1>r
    <3>. QED BY <1>r, <1>3, <2>2, <3>1
  <2>. QED BY <1>a, <1>u, <1>1, <1>2, <1>5, <2>1, <2>2, <2>3, <2>4, <2>5
       DEF IInv, SequentialOK, Settled, Starting
<1>11. ParallelOK'
  <2>1. SUFFICES ASSUME main.par PROVE ParallelOK'
    BY <1>u DEF ParallelOK
  <2>2. \A c \in Calls : call'[c].status \in Open => call[c].status \in Open
    BY <1>3 DEF Open
  <2>3. \A c \in Calls : call[c].status \in Ready => call'[c].status \in Ready
    BY <1>3 DEF Ready
  <2>4. CASE m = 0
    <3>1. main.pc = "final" /\ chain = <<0>>
      BY <1>l, <2>1, <2>4 DEF IInv, ParallelOK
    <3>2. hi = NCalls
      <4>1. SUFFICES ASSUME hi # NCalls PROVE FALSE
        OBVIOUS
      <4>2. hi + 1 \in Calls /\ call[hi + 1].status # "completed"
        BY <1>0, <1>a, <1>r, <4>1 DEF Transcript
      <4>3. call[hi + 1].status \in Open
        BY <1>0, <1>r, <2>4, <4>1, <4>2, Types DEF CallStates, Open
      <4>4. main.at \in 0 .. NCalls
        BY <1>0, Types DEF MainStates
      <4>5. CASE hi + 1 > main.at
        BY <2>1, <3>1, <4>2, <4>3, <4>5 DEF IInv, ParallelOK, Open, Ready
      <4>6. CASE hi + 1 <= main.at
        BY <2>1, <3>1, <4>2, <4>3, <4>6 DEF IInv, ParallelOK, Starting
      <4>. QED BY <1>a, <4>2, <4>4, <4>5, <4>6
    <3>3. mat'[0].pc = "idle" /\ over' /\ chain' = <<>>
      BY <1>1, <1>5, <2>4, <3>1, <3>2
    <3>4. \A c \in Calls : mat'[c] = mat[c]
      BY <1>a, <1>1, <2>4
    <3>. QED BY <1>a, <1>u, <2>1, <2>2, <2>3, <3>1, <3>3, <3>4 DEF IInv, ParallelOK, Settled, Starting
  <2>5. CASE m # 0
    <3>1. mat'[0] = mat[0] /\ m \in Calls
      BY <1>a, <1>l, <1>1, <2>5
    <3>2. main.pc # "final"
      BY <1>l, <2>1, <3>1 DEF IInv, ParallelOK
    <3>. QED BY <1>a, <1>u, <2>1, <2>2, <2>3, <3>1, <3>2 DEF IInv, ParallelOK, Settled, Starting
  <2>. QED BY <2>4, <2>5
<1>12. \A k \in 0 .. NCalls : MatOK(k)'
  <2>1. ASSUME NEW k \in 0 .. NCalls PROVE MatOK(k)'
    <3>1. MatOK(k)
      BY DEF IInv
    <3>2. CASE k # m
      <4>1. mat[k].pc \notin Placing
        BY <1>l, <3>2, OnePlacing DEF Placing
      <4>2. mat'[k] = mat[k]
        BY <1>1, <3>2
      <4>. QED BY <1>a, <1>u, <1>1, <3>1, <3>2, <4>1, <4>2 DEF MatOK, Placing
    <3>3. CASE k = m
      BY <1>1, <3>3 DEF MatOK, Placing
    <3>. QED BY <3>2, <3>3
  <2>. QED BY <2>1
<1>13. LineOK'
  <2>1. ASSUME NEW cmd \in Members(line') PROVE CommandOK(cmd)'
    <3>1. CommandOK(cmd) /\ cmd \in Commands
      BY <1>0, <1>l, <2>1, MembersTyped DEF LineOK
    <3>2. cmd.k \in {"read", "place"} => cmd.c # m /\ cmd.c \in 0 .. NCalls
      <4>1. cmd.c \in 0 .. NCalls
        BY <3>1 DEF Commands
      <4>2. cmd.k = "place" => cmd.c # m
        BY <1>h, <1>l, <2>1, <3>1, CommandTyped
      <4>3. cmd.k = "read" => cmd.c # m
        BY <1>l, <3>1 DEF CommandOK
      <4>. QED BY <4>1, <4>2, <4>3
    <3>. QED BY <1>a, <1>u, <1>1, <3>1, <3>2 DEF CommandOK
  <2>. QED BY <1>0, <1>u, <1>l, <2>1 DEF LineOK
<1>14. SuffixOK'
  BY <1>a, <1>r, <1>u, <1>2, <1>3 DEF IInv, SuffixOK
<1>. QED BY <1>a, <1>6, <1>7, <1>8, <1>9, <1>10, <1>11, <1>12, <1>13, <1>14 DEF IInv
-----------------------------------------------------------------------------
(***************************************************************************)
(* The end of a turn and of the procedure keeps the invariant.             *)
(***************************************************************************)
\* runSequential goes on to its next turn.
LEMMA WaitSequentialOK ==
  ASSUME IInv, WaitSequential
  PROVE  IInv'
<1>0. TypeOK /\ LineOK /\ Transcript /\ main \in MainStates
  BY Types DEF IInv
<1>a. /\ NCalls' = NCalls /\ Calls' = Calls /\ Parallel' = Parallel /\ Commands' = Commands
      /\ NCalls \in Nat \ {0} /\ Calls = 1 .. NCalls
  BY <1>0, SameBatch, BatchFacts DEF WaitSequential, durable
<1>u. /\ UNCHANGED <<batch, call, outcome, placed, rows, ctl, over, gate, job, chain, started>>
      /\ UNCHANGED bounds
      /\ mat' = [mat EXCEPT ![0].pc = "read"] /\ line' = Append(line, Cmd("read", 0))
      /\ main' = [main EXCEPT !.pc = "placing", !.turns = @ + 1]
  BY DEF WaitSequential, durable
<1>b. /\ main.pc = "wait" /\ ~main.par /\ Settled(main.at)
      /\ main.at \in Calls /\ main.at = Len(placed) + 1 /\ main.turns <= Len(placed)
      /\ mat[0].pc = "idle" /\ chain = <<>> /\ (\A k \in Calls : mat[k].pc = "idle")
      /\ \A c \in Calls : Settled(c)
  BY DEF WaitSequential, IInv, SequentialOK
<1>1. /\ main' \in MainStates /\ main'.pc = "placing" /\ main'.par = main.par
      /\ main'.turns = main.turns + 1 /\ main'.turns # 0 /\ main'.at = main.at
      /\ main'.recovery = main.recovery
  <2>1. main.turns \in Nat /\ main.turns + 1 \in Nat \ {0}
    BY <1>0 DEF MainStates
  <2>2. /\ main'.pc = "placing" /\ main'.par = main.par /\ main'.turns = main.turns + 1
        /\ main'.at = main.at /\ main'.recovery = main.recovery
    BY <1>0, <1>u DEF MainStates
  <2>3. main' \in MainStates
    BY <1>0, <1>u, <2>1 DEF MainStates
  <2>. QED BY <2>1, <2>2, <2>3
<1>2. /\ mat' \in [0 .. NCalls -> MatStates] /\ mat'[0].pc = "read"
      /\ \A k \in Calls : mat'[k] = mat[k]
  <2>1. mat \in [0 .. NCalls -> MatStates] /\ 0 \in 0 .. NCalls
    BY <1>0, <1>a, Types
  <2>. QED BY <1>a, <1>u, <2>1, SMTT(30) DEF MatStates
<1>l. /\ line' \in Seq(Commands) /\ OnceEach(line') /\ AbortAhead(line')
      /\ Members(line') = Members(line) \cup {Cmd("read", 0)}
      /\ Cmd("read", 0).k = "read" /\ Cmd("read", 0).c = 0
      /\ Cmd("read", 0) # Cmd("abort", 0)
  <2>1. /\ Cmd("read", 0) \in Commands /\ Cmd("read", 0).k = "read" /\ Cmd("read", 0).c = 0
        /\ Cmd("abort", 0).k = "abort"
    BY <1>a, CommandTyped
  <2>2. Cmd("read", 0) \notin Members(line) /\ Cmd("read", 0) # Cmd("abort", 0)
    BY <1>0, <1>b, <2>1 DEF LineOK, CommandOK
  <2>3. line \in Seq(Commands) /\ OnceEach(line)
    BY <1>0 DEF TypeOK, LineOK
  <2>. QED BY <1>u, <2>1, <2>2, <2>3, CommandJoins
<1>3. call[main.at].status = "outcome_ready"
  <2>1. job[main.at].pc = "done"
    BY <1>b DEF IInv, SequentialOK, Settled
  <2>2. call[main.at].status \in Ready
    BY <1>b, <2>1 DEF IInv, CallOK
  <2>3. placed \in Seq(Calls) /\ Len(placed) \in Nat
    BY <1>0, Types
  <2>. QED BY <1>0, <1>b, <2>2, <2>3 DEF Transcript, Ready
<1>4. TypeOK'
  BY <1>0, <1>a, <1>u, <1>1, <1>2, <1>l DEF TypeOK, bounds, MainStates, MatStates
<1>5. /\ Transcript' /\ SuffixOK' /\ StartingOK' /\ CancelOK' /\ RestOK' /\ ParallelOK'
  BY <1>a, <1>u, <1>b, <1>1 DEF IInv, Transcript, SuffixOK, StartingOK, Starting, CancelOK,
     Cancelled, RestOK, ParallelOK
<1>6. \A c \in Calls : CallOK(c)' /\ FreshOK(c)'
  BY <1>a, <1>u, <1>b, <1>1 DEF IInv, CallOK, FreshOK
<1>7. SequentialOK'
  <2>1. Len(placed) \in Nat /\ main.turns \in Nat
    BY <1>0, Types DEF MainStates
  <2>2. \/ main.turns + 1 <= Len(placed)
        \/ main.turns + 1 = Len(placed) + 1 /\ call[Len(placed) + 1].status = "outcome_ready"
    BY <1>b, <1>3, <2>1
  <2>. QED BY <1>a, <1>u, <1>b, <1>1, <1>2, <2>2 DEF SequentialOK, Settled, Starting
<1>8. \A k \in 0 .. NCalls : MatOK(k)'
  BY <1>a, <1>u, <1>b, <1>1, <1>2 DEF MatOK, Placing
<1>9. LineOK'
  <2>1. \A cmd \in Members(line) : CommandOK(cmd) /\ cmd.k \notin {"claim", "intent", "clear"}
    BY <1>0, <1>b, NoStartQueued DEF LineOK
  <2>2. \A cmd \in Members(line) : cmd.k \notin {"read", "place"}
    <3>1. ASSUME NEW cmd \in Members(line), cmd.k \in {"read", "place"} PROVE FALSE
      <4>1. cmd \in Commands
        BY <1>0, <3>1, MembersTyped DEF TypeOK
      <4>. QED BY <1>a, <1>b, <2>1, <3>1, <4>1 DEF CommandOK, Commands
    <3>. QED BY <3>1
  <2>3. \A cmd \in Members(line') : CommandOK(cmd)'
    BY <1>a, <1>u, <1>2, <1>l, <2>1, <2>2 DEF CommandOK
  <2>4. Cmd("abort", 0) \notin Members(line)
    BY <1>0, <1>b, NoLateAbort
  <2>. QED BY <1>l, <2>3, <2>4 DEF LineOK
<1>. QED BY <1>a, <1>4, <1>5, <1>6, <1>7, <1>8, <1>9 DEF IInv

\* runParallel schedules the last materialization.
LEMMA WaitParallelOK ==
  ASSUME IInv, WaitParallel
  PROVE  IInv'
<1>0. TypeOK /\ LineOK /\ main \in MainStates
  BY Types DEF IInv
<1>a. /\ NCalls' = NCalls /\ Calls' = Calls /\ Parallel' = Parallel /\ Commands' = Commands
      /\ NCalls \in Nat \ {0} /\ Calls = 1 .. NCalls
  BY <1>0, SameBatch, BatchFacts DEF WaitParallel, durable
<1>u. /\ UNCHANGED <<batch, call, outcome, placed, rows, ctl, over, line, gate, job, started>>
      /\ UNCHANGED bounds
      /\ mat' = [mat EXCEPT ![0].pc = "waiting"] /\ chain' = <<0>>
      /\ main' = [main EXCEPT !.pc = "final"]
  BY DEF WaitParallel, durable
<1>b. /\ main.pc = "wait" /\ main.par /\ chain = <<>> /\ mat[0].pc = "idle"
      /\ \A c \in Calls : Settled(c)
      /\ \A c \in Calls : mat[c].pc = "idle"
  <2>1. /\ main.pc = "wait" /\ main.par /\ chain = <<>> /\ mat[0].pc = "idle"
        /\ \A c \in Calls : Settled(c)
    BY DEF WaitParallel, IInv, ParallelOK
  <2>2. ASSUME NEW c \in Calls PROVE mat[c].pc = "idle"
    <3>1. MatOK(c) /\ mat[c] \in MatStates
      BY <1>0, <1>a, Types DEF IInv
    <3>. QED BY <1>a, <2>1, <3>1 DEF MatOK, MatStates, Placing, Members
  <2>. QED BY <2>1, <2>2
<1>1. /\ main' \in MainStates /\ main'.pc = "final" /\ main'.par = main.par
      /\ main'.turns = main.turns /\ main'.at = main.at /\ main'.recovery = main.recovery
  BY <1>0, <1>u DEF MainStates
<1>2. /\ mat' \in [0 .. NCalls -> MatStates] /\ mat'[0].pc = "waiting"
      /\ \A k \in Calls : mat'[k] = mat[k]
      /\ chain' \in Seq(0 .. NCalls) /\ 0 \in Members(chain')
  <2>1. mat \in [0 .. NCalls -> MatStates] /\ 0 \in 0 .. NCalls
    BY <1>0, <1>a, Types
  <2>2. 0 \in Members(<<0>>)
    BY DEF Members
  <2>. QED BY <1>a, <1>u, <2>1, <2>2 DEF MatStates
<1>3. TypeOK'
  BY <1>0, <1>a, <1>u, <1>1, <1>2 DEF TypeOK, bounds, MainStates, MatStates
<1>4. /\ Transcript' /\ SuffixOK' /\ StartingOK' /\ CancelOK' /\ RestOK' /\ SequentialOK'
  BY <1>a, <1>u, <1>b, <1>1 DEF IInv, Transcript, SuffixOK, StartingOK, Starting, CancelOK,
     Cancelled, RestOK, SequentialOK
<1>5. \A c \in Calls : CallOK(c)' /\ FreshOK(c)'
  BY <1>a, <1>u, <1>b, <1>1 DEF IInv, CallOK, FreshOK
<1>6. ParallelOK'
  BY <1>a, <1>u, <1>b, <1>1, <1>2 DEF IInv, ParallelOK, Settled, Starting
<1>7. \A k \in 0 .. NCalls : MatOK(k)'
  BY <1>a, <1>u, <1>b, <1>1, <1>2 DEF MatOK, Placing
<1>8. LineOK'
  <2>1. \A cmd \in Members(line) : CommandOK(cmd) /\ cmd.k \notin {"claim", "intent", "clear"}
    BY <1>0, <1>b, NoStartQueued DEF LineOK
  <2>2. \A cmd \in Members(line) : cmd.k \notin {"read", "place"}
    <3>1. ASSUME NEW cmd \in Members(line), cmd.k \in {"read", "place"} PROVE FALSE
      <4>1. cmd \in Commands
        BY <1>0, <3>1, MembersTyped DEF TypeOK
      <4>. QED BY <1>a, <1>b, <2>1, <3>1, <4>1 DEF CommandOK, Commands
    <3>. QED BY <3>1
  <2>3. \A cmd \in Members(line) : CommandOK(cmd)'
    BY <1>a, <1>u, <2>1, <2>2 DEF CommandOK
  <2>4. Cmd("abort", 0) \notin Members(line)
    BY <1>0, <1>b, NoLateAbort
  <2>. QED BY <1>0, <1>u, <1>b, <2>3, <2>4 DEF LineOK
<1>. QED BY <1>a, <1>3, <1>4, <1>5, <1>6, <1>7, <1>8 DEF IInv

\* runTools returns with the batch over.
LEMMA FinishOK ==
  ASSUME IInv, Finish
  PROVE  IInv'
<1>0. TypeOK /\ LineOK /\ main \in MainStates
  BY Types DEF IInv
<1>a. /\ NCalls' = NCalls /\ Calls' = Calls /\ Parallel' = Parallel /\ Commands' = Commands
      /\ NCalls \in Nat \ {0} /\ Calls = 1 .. NCalls
  BY <1>0, SameBatch, BatchFacts DEF Finish, durable
<1>u. /\ UNCHANGED <<batch, call, outcome, placed, rows, ctl, over, line, gate, job, mat, chain,
                     started>>
      /\ UNCHANGED bounds /\ main' = [main EXCEPT !.pc = "return"]
  BY DEF Finish, durable
<1>b. /\ main.pc \in {"placing", "final"} /\ mat[0].pc = "idle" /\ over /\ chain = <<>>
      /\ \A c \in Calls : Settled(c) /\ mat[c].pc = "idle"
  <2>1. main.pc \in {"placing", "final"} /\ mat[0].pc = "idle" /\ (main.pc = "placing" => over)
    BY DEF Finish
  <2>2. CASE main.par
    BY <2>1, <2>2 DEF IInv, ParallelOK, Starting
  <2>3. CASE ~main.par
    BY <2>1, <2>3 DEF IInv, SequentialOK
  <2>. QED BY <2>1, <2>2, <2>3
<1>1. /\ main' \in MainStates /\ main'.pc = "return" /\ main'.par = main.par
      /\ main'.turns = main.turns /\ main'.at = main.at /\ main'.recovery = main.recovery
  BY <1>0, <1>u DEF MainStates
<1>2. TypeOK'
  BY <1>0, <1>a, <1>u, <1>1 DEF TypeOK, bounds, MainStates
<1>3. /\ Transcript' /\ SuffixOK' /\ StartingOK' /\ CancelOK'
      /\ \A c \in Calls : CallOK(c)' /\ FreshOK(c)'
  BY <1>a, <1>u, <1>b, <1>1 DEF IInv, Transcript, SuffixOK, StartingOK, Starting, CancelOK,
     Cancelled, CallOK, FreshOK
<1>4. RestOK' /\ SequentialOK'
  BY <1>a, <1>u, <1>b, <1>1 DEF IInv, RestOK, SequentialOK, Settled, Starting
<1>5. ParallelOK'
  BY <1>a, <1>u, <1>b, <1>1 DEF IInv, ParallelOK, Settled, Starting
<1>6. \A k \in 0 .. NCalls : MatOK(k)'
  BY <1>a, <1>u, <1>b, <1>1 DEF MatOK, Placing
<1>7. LineOK'
  <2>1. \A cmd \in Members(line) : CommandOK(cmd)'
    BY <1>0, <1>a, <1>u, <1>b, <1>1, NoStartQueued DEF LineOK, CommandOK
  <2>2. Cmd("abort", 0) \notin Members(line)
    BY <1>0, <1>b, NoLateAbort
  <2>. QED BY <1>0, <1>u, <1>b, <2>1, <2>2 DEF LineOK
<1>. QED BY <1>a, <1>2, <1>3, <1>4, <1>5, <1>6, <1>7 DEF IInv

\* The leaf is never dispatched again: the batch is over.
LEMMA ReturnOK ==
  ASSUME IInv, Return
  PROVE  IInv'
<1>0. TypeOK /\ LineOK /\ RestOK /\ over /\ main.pc = "return"
  BY DEF IInv, Return, RestOK
<1>a. /\ NCalls' = NCalls /\ Calls' = Calls /\ Parallel' = Parallel /\ Commands' = Commands
      /\ NCalls \in Nat \ {0} /\ Calls = 1 .. NCalls
  BY <1>0, SameBatch, BatchFacts DEF Return, durable
<1>u. /\ UNCHANGED <<batch, call, outcome, placed, rows, ctl, over, line, gate, mat, chain,
                     started>>
      /\ UNCHANGED bounds /\ main' = NoMain /\ job' = [c \in Calls |-> Idle]
  BY <1>0 DEF Return, durable
<1>1. /\ main' \in MainStates /\ main'.pc = "none" /\ main'.par = FALSE
      /\ job' \in [Calls -> JobStates] /\ \A c \in Calls : job'[c].pc = "idle"
  BY <1>a, <1>u DEF NoMain, Idle, MainStates, JobStates, Outcomes
<1>2. TypeOK'
  BY <1>0, <1>a, <1>u, <1>1 DEF TypeOK, bounds, MainStates, JobStates
<1>3. /\ Transcript' /\ SuffixOK' /\ StartingOK' /\ CancelOK' /\ RestOK' /\ SequentialOK' /\ ParallelOK'
  BY <1>0, <1>a, <1>u, <1>1 DEF IInv, Transcript, SuffixOK, StartingOK, Starting, CancelOK,
     Cancelled, RestOK, SequentialOK, ParallelOK, Settled
<1>4. \A c \in Calls : CallOK(c)' /\ FreshOK(c)'
  BY <1>a, <1>u, <1>1 DEF IInv, CallOK, FreshOK, Executing
<1>5. \A k \in 0 .. NCalls : MatOK(k)'
  BY <1>0, <1>a, <1>u, <1>1 DEF RestOK, MatOK, Placing
<1>6. LineOK'
  <2>1. ASSUME NEW cmd \in Members(line) PROVE CommandOK(cmd)'
    <3>1. CommandOK(cmd) /\ cmd.k \notin {"intent", "clear", "claim"}
      BY <1>0, <2>1, NoStartQueued DEF LineOK
    <3>2. cmd.k # "stage"
      BY <1>0, <3>1 DEF CommandOK, RestOK, Settled
    <3>. QED BY <1>a, <1>u, <3>1, <3>2 DEF CommandOK
  <2>. QED BY <1>0, <1>u, <1>1, <2>1 DEF LineOK
<1>. QED BY <1>a, <1>2, <1>3, <1>4, <1>5, <1>6 DEF IInv

-----------------------------------------------------------------------------
(***************************************************************************)
(* The invariant.                                                          *)
(***************************************************************************)
\* A new batch satisfies the invariant.
LEMMA InitOK ==
  Init => IInv
<1>. SUFFICES ASSUME Init PROVE IInv
  OBVIOUS
<1>a. /\ NCalls \in Nat \ {0} /\ Calls = 1 .. NCalls
      /\ batch.aborts \in Nat /\ batch.crashes \in Nat /\ MaxPasses \in Nat
  BY BatchAssumption DEF BatchAssumption, Init, NCalls, Calls
<1>1. /\ \A c \in Calls : /\ call[c].status = "planned" /\ outcome[c] = "none"
                          /\ started[c] = 0 /\ job[c].pc = "idle"
      /\ \A m \in 0 .. NCalls : mat[m].pc = "idle"
      /\ main.pc = "none" /\ main.par = FALSE
      /\ placed = <<>> /\ rows = {} /\ over = FALSE /\ line = <<>> /\ chain = <<>>
      /\ ctl = "running"
  BY <1>a DEF Init, Idle, NoMat, NoMain
<1>2. TypeOK
  <2>1. /\ main \in MainStates /\ job \in [Calls -> JobStates]
        /\ mat \in [0 .. NCalls -> MatStates] /\ call \in [Calls -> CallStates]
        /\ outcome \in [Calls -> Outcomes]
    BY <1>a DEF Init, NoMain, Idle, NoMat, MainStates, JobStates, MatStates, CallStates, Outcomes
  <2>2. line \in Seq(Commands) /\ chain \in Seq(0 .. NCalls) /\ placed \in Seq(Calls)
    BY <1>1
  <2>3. /\ batch \in Batches /\ rows \in SUBSET Calls /\ over \in BOOLEAN /\ gate = "open"
        /\ started \in [Calls -> Nat] /\ passes \in 0 .. MaxPasses
        /\ aborts \in 0 .. batch.aborts /\ crashes \in 0 .. batch.crashes
    BY <1>a, <1>1, SMTT(30) DEF Init
  <2>. QED BY <1>1, <2>1, <2>2, <2>3 DEF TypeOK, MainStates, JobStates, MatStates, CallStates
<1>3. Transcript /\ LineOK
  BY <1>a, <1>1 DEF Transcript, LineOK, Members, OnceEach
<1>4. /\ SuffixOK /\ StartingOK /\ CancelOK /\ RestOK /\ SequentialOK /\ ParallelOK
      /\ \A c \in Calls : CallOK(c) /\ FreshOK(c)
      /\ \A m \in 0 .. NCalls : MatOK(m)
  BY <1>a, <1>1 DEF SuffixOK, StartingOK, Starting, CancelOK, Cancelled, RestOK, SequentialOK,
     ParallelOK, CallOK, FreshOK, MatOK, Placing, Settled, Executing, Open, Ready
<1>. QED BY <1>2, <1>3, <1>4 DEF IInv

\* A stutter preserves it.
LEMMA StutterOK ==
  ASSUME IInv, UNCHANGED vars
  PROVE  IInv'
<1>0. TypeOK
  BY DEF IInv
<1>a. /\ NCalls' = NCalls /\ Calls' = Calls /\ Parallel' = Parallel /\ Commands' = Commands
      /\ UNCHANGED <<batch, call, outcome, placed, rows, ctl, over, line, gate, main, job, mat,
                     chain, started, passes, aborts, crashes>>
  BY SameBatch DEF vars
<1>1. TypeOK'
  BY <1>0, <1>a DEF TypeOK
<1>2. /\ Transcript' /\ StartingOK' /\ RestOK' /\ SequentialOK' /\ ParallelOK' /\ CancelOK'
      /\ SuffixOK' /\ (\A d \in Calls : CallOK(d)' /\ FreshOK(d)')
      /\ \A m \in 0 .. NCalls : MatOK(m)'
  BY <1>a DEF IInv, Transcript, StartingOK, RestOK, SequentialOK, ParallelOK, CancelOK,
     SuffixOK, CallOK, FreshOK, MatOK, Members, Settled, Cancelled
<1>3. LineOK'
  BY <1>a DEF IInv, LineOK, CommandOK, Members
<1>. QED BY <1>a, <1>1, <1>2, <1>3 DEF IInv

\* Every step preserves it.
LEMMA NextOK ==
  ASSUME IInv, [Next]_vars
  PROVE  IInv'
<1>1. CASE Drive \/ RequestAbort \/ Crash \/ \E c \in Calls : WriteRow(c)
  BY <1>1, DriveOK, RequestAbortOK, CrashOK, WriteRowOK
<1>2. CASE PassStep
  <2>1. CASE \/ Choose \/ ChooseParallel \/ BeforeTool \/ BeforeToolReturns
             \/ BeforeToolCancelled \/ WaitSequential \/ WaitParallel \/ Finish \/ Return
    BY <2>1, ChooseOK, ChooseParallelOK, BeforeToolOK, WaitSequentialOK, WaitParallelOK, FinishOK,
       ReturnOK
  <2>2. ASSUME NEW c \in Calls, \/ AdmitTool(c) \/ ToolCancelled(c) \/ ToolReturns(c)
                                \/ AfterTool(c) \/ AfterToolReturns(c)
        PROVE  IInv'
    BY <2>2, JobStepOK
  <2>3. ASSUME NEW m \in 0 .. NCalls, StartMaterialization(m) PROVE IInv'
    BY <2>3, MatGoesOn DEF StartMaterialization, MayMaterialize
  <2>4. ASSUME NEW m \in 0 .. NCalls, EmitPlacement(m) PROVE IInv'
    BY <2>4, MatGoesOn DEF EmitPlacement
  <2>. QED BY <1>2, <2>1, <2>2, <2>3, <2>4 DEF PassStep
<1>3. CASE LineStep
  BY <1>3, RunClaimOK, RunAbortOK, RunIntentOK, RunClearOK, RunWriteOK, RunStageOK,
     RunReadPlacementOK, RunPlaceOK DEF LineStep
<1>4. CASE UNCHANGED vars
  BY <1>4, StutterOK
<1>. QED BY <1>1, <1>2, <1>3, <1>4 DEF Next

\* The strengthening holds of every reachable state.
THEOREM Inductive ==
  Spec => []IInv
BY InitOK, NextOK, PTL DEF Spec

-----------------------------------------------------------------------------
(***************************************************************************)
(* The properties.                                                         *)
(***************************************************************************)

\* One runTools call takes the batch to its end, throws no batch invariant
\* error, and in sequence leaves only planned calls behind the one it is at.
THEOREM ToTheEnd ==
  Spec => []BatchTakenToItsEnd
<1>1. IInv => BatchTakenToItsEnd
  <2>1. SUFFICES ASSUME IInv PROVE BatchTakenToItsEnd
    OBVIOUS
  <2>2. Len(placed) \in Nat /\ Calls = 1 .. NCalls
    BY <2>1, Types, BatchFacts DEF IInv
  <2>3. SequentialSuffix
    BY <2>1, <2>2 DEF IInv, Transcript, SuffixOK, SequentialSuffix
  <2>. QED BY <2>1, <2>3 DEF IInv, RestOK, BatchTakenToItsEnd
<1>. QED BY <1>1, Inductive, PTL

\* No checkpoint and no memo outlives the pending effect of its call.
THEOREM RowsBelong ==
  Spec => []RowsOwned
<1>1. IInv => RowsOwned
  BY DEF IInv, TypeOK, CallOK, RowsOwned
<1>. QED BY <1>1, Inductive, PTL

\* No call whose tool ran is reported to the model as aborted.
THEOREM AbortedMeansNeverRan ==
  Spec => []AbortedNeverRan
<1>1. IInv => AbortedNeverRan
  BY DEF IInv, CallOK, AbortedNeverRan
<1>. QED BY <1>1, Inductive, PTL

\* Only AdmitTool starts a tool.
LEMMA StartedOnlyByAdmission ==
  ASSUME [Next]_vars, started' # started
  PROVE  \E c \in Calls : AdmitTool(c)
BY DEF Next, Drive, RequestAbort, Crash, WriteRow, PassStep, Choose, ChooseParallel, BeforeTool,
   BeforeToolReturns, BeforeToolCancelled, WaitSequential, WaitParallel, Finish, Return,
   ToolCancelled, ToolReturns, AfterTool, AfterToolReturns, StartMaterialization, EmitPlacement,
   LineStep, RunClaim, RunAbort, RunIntent, RunClear, RunWrite, RunStage, RunReadPlacement,
   RunPlace, vars

\* A tool runs behind its durable intent, before its outcome, never once the
\* cancellation is durable, and a second time only if it is replay-safe.
THEOREM IntentFirst ==
  Spec => ToolBehindIntent
<1>. DEFINE Behind == \A c \in Calls : started'[c] # started[c] =>
               /\ call[c].status = "effect_pending" /\ outcome[c] = "none" /\ ~Cancelled
               /\ started[c] = 0 \/ call[c].safe
<1>1. ASSUME IInv, [Next]_vars PROVE [Behind]_vars
  <2>1. SUFFICES ASSUME NEW c \in Calls, started'[c] # started[c]
                 PROVE  /\ call[c].status = "effect_pending" /\ outcome[c] = "none" /\ ~Cancelled
                        /\ started[c] = 0 \/ call[c].safe
    OBVIOUS
  <2>2. PICK d \in Calls : AdmitTool(d)
    BY <1>1, <2>1, StartedOnlyByAdmission
  <2>3. started \in [Calls -> Nat]
    BY <1>1, Types DEF IInv
  <2>4. d = c /\ job[c].pc = "admit" /\ gate = "open"
    BY <2>1, <2>2, <2>3 DEF AdmitTool, Admitted
  <2>5. CallOK(c) /\ ~Cancelled
    BY <1>1, <2>4 DEF IInv, CancelOK
  <2>. QED BY <2>4, <2>5 DEF CallOK, Executing, Open
<1>. QED BY <1>1, Inductive, PTL DEF Spec, ToolBehindIntent

-----------------------------------------------------------------------------
(***************************************************************************)
(* The refinement: staging an outcome and placing a ready prefix are the   *)
(* steps of OrderedResults, every other step is a stutter of it.           *)
(***************************************************************************)

\* Outcomes and transcript move in the commands that stage and place only.
LEMMA OtherStepsStutter ==
  ASSUME [Next]_vars, ~RunStage, ~RunPlace
  PROVE  UNCHANGED <<batch, outcome, placed, over>>
BY DEF Next, Drive, RequestAbort, Crash, WriteRow, PassStep, Choose, ChooseParallel, BeforeTool,
   BeforeToolReturns, BeforeToolCancelled, WaitSequential, WaitParallel, Finish, Return,
   AdmitTool, ToolCancelled, ToolReturns, AfterTool, AfterToolReturns, StartMaterialization,
   EmitPlacement, LineStep, RunClaim, RunAbort, RunIntent, RunClear, RunWrite,
   RunReadPlacement, vars, durable

\* The call whose outcome is staged had none.
LEMMA StagingStages ==
  ASSUME IInv, RunStage
  PROVE  \E c \in Ordered!Calls : Ordered!Stage(c)
<1>. DEFINE c == Head(line).c
<1>0. TypeOK /\ LineOK /\ Calls = 1 .. NCalls
  BY BatchFacts DEF IInv
<1>1. c \in Calls /\ job[c].pc = "stage"
  BY <1>0, CommandRuns DEF RunStage, Runs, CommandOK
<1>2. /\ outcome' = [outcome EXCEPT ![c] = job[c].res]
      /\ UNCHANGED <<batch, placed, over>>
  BY DEF RunStage
<1>. HIDE DEF c
<1>3. outcome[c] = "none"
  BY <1>1 DEF IInv, CallOK, Open
<1>4. job[c].res \in {"answer", "error", "aborted", "interrupted"}
  BY <1>0, <1>1, Types DEF IInv, CallOK, JobStates, Outcomes
<1>5. Ordered!Stage(c)
  BY <1>2, <1>3, <1>4, SameBatch DEF Ordered!Stage
<1>. QED BY <1>0, <1>1, <1>5 DEF Ordered!Calls

\* What is placed is the longest ready prefix behind the transcript.
LEMMA PlacingPlaces ==
  ASSUME IInv, RunPlace
  PROVE  \E c \in Ordered!Calls : Ordered!Place(c)
<1>. DEFINE m == Head(line).c
            lo == mat[m].lo
            hi == mat[m].hi
<1>0. TypeOK /\ LineOK /\ Transcript /\ TypeOK' /\ Transcript'
  BY RunPlaceOK DEF IInv
<1>a. /\ NCalls' = NCalls /\ Calls' = Calls /\ UNCHANGED <<batch, outcome>>
      /\ NCalls \in Nat \ {0} /\ Calls = 1 .. NCalls
  BY <1>0, SameBatch, BatchFacts DEF RunPlace
<1>l. m \in 0 .. NCalls /\ mat[m].pc = "place"
  BY <1>0, CommandRuns DEF RunPlace, Runs, CommandOK, Commands
<1>v. /\ placed' = placed \o [i \in 1 .. (hi - lo + 1) |-> lo + i - 1]
  BY DEF RunPlace
<1>. HIDE DEF m
<1>r. /\ lo = Len(placed) + 1 /\ lo <= hi /\ hi <= NCalls /\ hi \in Nat /\ Len(placed) \in Nat
      /\ \A c \in lo .. hi : call[c].status = "outcome_ready"
  <2>1. MatOK(m) /\ mat[m] \in MatStates /\ placed \in Seq(Calls)
    BY <1>0, <1>l, Types DEF IInv
  <2>. QED BY <1>l, <2>1 DEF MatOK, MatStates
<1>. HIDE DEF lo, hi
<1>1. placed' \in Seq(Calls) /\ Len(placed') = hi /\ \A i \in 1 .. hi : placed'[i] = i
  BY <1>0, <1>r, <1>v, PlacedItems
<1>2. placed' = [i \in 1 .. hi |-> i]
  <2>1. DOMAIN placed' = 1 .. hi /\ placed' = [i \in DOMAIN placed' |-> placed'[i]]
    BY <1>1, <1>r
  <2>. QED BY <1>1, <2>1
<1>3. \A c \in Calls : c <= hi => outcome[c] # "none"
  <2>1. SUFFICES ASSUME NEW c \in Calls, c <= hi PROVE outcome[c] # "none"
    OBVIOUS
  <2>2. CallOK(c) /\ (call[c].status = "completed" <=> c <= Len(placed))
    BY <1>0 DEF IInv, Transcript
  <2>3. call[c].status \in Ready
    BY <1>a, <1>r, <2>1, <2>2 DEF Ready
  <2>. QED BY <2>2, <2>3 DEF CallOK, Ready, Open
<1>4. over' = (hi = NCalls)
  <2>1. over' \in BOOLEAN /\ (over' <=> hi = NCalls)
    BY <1>0, <1>a, <1>1 DEF TypeOK, Transcript
  <2>2. (hi = NCalls) \in BOOLEAN
    OBVIOUS
  <2>. QED BY <2>1, <2>2
<1>5. Ordered!Place(hi)
  BY <1>a, <1>r, <1>2, <1>3, <1>4 DEF Ordered!Place, Ordered!Calls
<1>6. hi \in Ordered!Calls
  BY <1>a, <1>r DEF Ordered!Calls
<1>. QED BY <1>5, <1>6

\* Every call gets one outcome, in any order, and the results enter the
\* transcript in source order, over any jobs, cancellations and crashes.
THEOREM Implements ==
  Spec => OrderedSpec
<1>1. Init => Ordered!Init
  BY BatchAssumption DEF BatchAssumption, Init, NCalls, Calls, Ordered!Init, Ordered!Calls
<1>2. ASSUME IInv, [Next]_vars
      PROVE  [Ordered!Next]_<<NCalls, outcome, placed, over>>
  <2>1. CASE RunStage
    BY <1>2, <2>1, StagingStages DEF Ordered!Next
  <2>2. CASE RunPlace
    BY <1>2, <2>2, PlacingPlaces DEF Ordered!Next
  <2>3. CASE ~RunStage /\ ~RunPlace
    BY <1>2, <2>3, OtherStepsStutter, SameBatch
  <2>. QED BY <2>1, <2>2, <2>3
<1>. QED BY <1>1, <1>2, Inductive, PTL DEF Spec, OrderedSpec, Ordered!Spec
=============================================================================
