------------------------ MODULE SessionRouterProofs ------------------------
(***************************************************************************)
(* The safety properties of SessionRouter, for any number of clients,      *)
(* Sessions and events.                                                    *)
(***************************************************************************)
EXTENDS SessionRouter, TLAPS, SequenceTheorems

-----------------------------------------------------------------------------
(***************************************************************************)
(* The inductive invariant.                                                *)
(***************************************************************************)
Whys == {"none", "switch", "unwanted", "detach", "disconnect", "removed", "terminated", "shutdown"}
\* Releases that the client's own operation waits for.
Own == {"switch", "unwanted", "detach", "disconnect"}
Members(q) == {q[i] : i \in DOMAIN q}

\* What an operation holds across its awaits: the attachment it found is still
\* the client's current one or has been cleared, and the one it is leasing is
\* its own.
OpOK(c) ==
  /\ op[c].pc \in {"opening", "acquired", "switching", "leasing"} => Head1(c).kind = "attach"
  /\ op[c].pc \in {"opening", "acquired", "switching"} =>
       /\ current[c] \in {op[c].att, 0}
       /\ op[c].att # 0 => op[c].att \in DOMAIN att /\ att[op[c].att].client = c
  /\ op[c].pc \in {"acquired", "switching", "leasing"} => op[c].handle \in DOMAIN handle
  /\ op[c].pc \in {"switching", "leasing", "leaving"} =>
       op[c].att \in DOMAIN att /\ att[op[c].att].client = c
  /\ op[c].pc = "leasing" => /\ att[op[c].att].handle = op[c].handle
                             /\ att[op[c].att].lease = "acquiring" /\ current[c] = 0

\* A lease whose release has not begun is current, and its handle registered.
Accounted(a) ==
  att[a].lease = "held" /\ att[a].release = "none" =>
    /\ current[att[a].client] = a \/ shutdown.pc = "done"
    /\ \/ hosted[Session(a)] = att[a].handle /\ shutdown.pc \notin {"releasing", "done"}
       \/ handle[att[a].handle].state = "removed" /\ Session(a) \notin Announcing

\* A release of the client's own holds the client's operation until it is
\* over, so no call is admitted behind the ones it waits for.
ReleaseOK(a) ==
  /\ att[a].release = "none" <=> att[a].why = "none"
  /\ att[a].lease = "acquiring" => att[a].release \in {"none", "calls"}
  /\ ~att[a].listed => att[a].release = "cleared" \/ att[a].lease = "none"
  /\ att[a].why = "disconnect" => att[a].client \notin online
  /\ att[a].why = "shutdown" => Closing
  /\ att[a].release \in {"calls", "lease"} /\ att[a].why \in Own =>
       /\ op[att[a].client].att = a
       /\ op[att[a].client].pc = IF att[a].why = "switch" THEN "switching" ELSE "leaving"
  /\ att[a].release = "calls" /\ att[a].why \notin {"removed", "terminated"} =>
       Running(a) \subseteq att[a].waits

ClientOK(c) ==
  /\ current[c] # 0 => att[current[c]].client = c /\ att[current[c]].release # "cleared"
  /\ \A x \in Members(queue[c]) : x.kind = "disconnect" => c \notin online

SessionOK(s) ==
  /\ hosted[s] # 0 => /\ handle[hosted[s]].session = s
                      /\ handle[hosted[s]].state \in {"open", "closing"}
  /\ s \in opening => hosted[s] = 0
  /\ removal[s].pc # "none" => /\ removal[s].handle \in DOMAIN handle
                               /\ handle[removal[s].handle].session = s

HandleOK(h) == handle[h].state = "open" => hosted[handle[h].session] = h

Offline == shutdown.pc \in {"waiting", "releasing", "done"} => online = {}

IInv ==
  /\ TypeOK
  /\ (\A c \in Clients : OpOK(c) /\ ClientOK(c))
  /\ (\A a \in DOMAIN att : Accounted(a) /\ ReleaseOK(a))
  /\ (\A s \in Sessions : SessionOK(s))
  /\ (\A h \in DOMAIN handle : HandleOK(h))
  /\ Offline /\ RouteCurrent

-----------------------------------------------------------------------------
(***************************************************************************)
(* Lemmas about sequences.                                                 *)
(***************************************************************************)

\* A function on the positions of a sequence is a sequence.
LEMMA SamePositions ==
  ASSUME NEW S, NEW T, NEW q \in Seq(S), NEW f \in [DOMAIN q -> T]
  PROVE  f \in Seq(T) /\ DOMAIN f = DOMAIN q
<1>1. Len(q) \in Nat /\ DOMAIN q = 1 .. Len(q)
  BY LenProperties
<1>. QED BY <1>1, SeqDef

\* One element replaced.
LEMMA OneReplaced ==
  ASSUME NEW S, NEW q \in Seq(S), NEW i \in DOMAIN q, NEW e \in S
  PROVE  /\ [q EXCEPT ![i] = e] \in Seq(S) /\ DOMAIN [q EXCEPT ![i] = e] = DOMAIN q
         /\ [q EXCEPT ![i] = e][i] = e
         /\ \A j \in DOMAIN q : j # i => [q EXCEPT ![i] = e][j] = q[j]
<1>1. q \in [DOMAIN q -> S]
  BY LenProperties
<1>2. [q EXCEPT ![i] = e] \in [DOMAIN q -> S]
  BY <1>1
<1>. QED BY <1>1, <1>2, SamePositions

\* One element added.
LEMMA OneAdded ==
  ASSUME NEW S, NEW q \in Seq(S), NEW e \in S
  PROVE  /\ Append(q, e) \in Seq(S) /\ DOMAIN Append(q, e) = DOMAIN q \cup {Len(q) + 1}
         /\ Len(q) + 1 \notin DOMAIN q /\ Len(q) \in Nat
         /\ \A j \in DOMAIN q : Append(q, e)[j] = q[j]
         /\ Append(q, e)[Len(q) + 1] = e
         /\ Members(Append(q, e)) = Members(q) \cup {e}
         /\ Append(q, e) # <<>>
         /\ q # <<>> => Head(Append(q, e)) = Head(q)
<1>1. /\ Append(q, e) \in Seq(S) /\ Len(Append(q, e)) = Len(q) + 1
      /\ \A i \in 1 .. Len(q) : Append(q, e)[i] = q[i]
      /\ Append(q, e)[Len(q) + 1] = e
  BY AppendProperties
<1>2. Len(q) \in Nat /\ DOMAIN q = 1 .. Len(q) /\ DOMAIN Append(q, e) = 1 .. (Len(q) + 1)
  BY <1>1, LenProperties
<1>3. Members(Append(q, e)) = Members(q) \cup {e}
  BY <1>1, <1>2 DEF Members
<1>. QED BY <1>1, <1>2, <1>3, HeadTailAppend

\* The positions of a sequence are positive.
LEMMA Positions ==
  ASSUME NEW S, NEW q \in Seq(S)
  PROVE  /\ DOMAIN q \subseteq Nat \ {0} /\ Len(q) \in Nat /\ Len(q) + 1 \notin DOMAIN q
         /\ \A i \in DOMAIN q : q[i] \in S
BY LenProperties

\* What is behind the head of a queue.
LEMMA HeadTaken ==
  ASSUME NEW S, NEW q \in Seq(S), q # <<>>
  PROVE  /\ Head(q) \in Members(q) /\ Head(q) \in S
         /\ Tail(q) \in Seq(S) /\ Members(Tail(q)) \subseteq Members(q)
<1>1. /\ Head(q) = q[1] /\ Len(q) \in Nat \ {0} /\ DOMAIN q = 1 .. Len(q)
      /\ Head(q) \in S /\ Tail(q) \in Seq(S) /\ Len(Tail(q)) = Len(q) - 1
      /\ \A i \in 1 .. Len(Tail(q)) : Tail(q)[i] = q[i + 1]
  BY HeadTailProperties, EmptySeq, LenProperties
<1>2. DOMAIN Tail(q) = 1 .. (Len(q) - 1)
  BY <1>1, LenProperties
<1>. QED BY <1>1, <1>2 DEF Members
-----------------------------------------------------------------------------
(***************************************************************************)
(* What the building blocks of the actions do.                             *)
(***************************************************************************)

\* Releasing marks the attachments that are not being released yet.
LEMMA ReleasingFacts ==
  ASSUME TypeOK, NEW A, NEW why \in Whys \ {"none"}, att' = Releasing(A, why)
  PROVE  /\ att' \in Seq(Attachments) /\ DOMAIN att' = DOMAIN att
         /\ \A a \in DOMAIN att :
              /\ att'[a].client = att[a].client /\ att'[a].handle = att[a].handle
              /\ att'[a].lease = att[a].lease /\ att'[a].listed = att[a].listed
              /\ a \notin A \/ att[a].release # "none" => att'[a] = att[a]
              /\ a \in A /\ att[a].release = "none" =>
                   /\ att'[a].release = "calls" /\ att'[a].why = why
                   /\ att'[a].waits = Running(a)
<1>1. att \in Seq(Attachments)
  BY DEF TypeOK
<1>2. \A a \in DOMAIN att : Running(a) \in SUBSET Nat
  BY Positions DEF Running, TypeOK
<1>3. att' \in [DOMAIN att -> Attachments]
  <2>1. ASSUME NEW a \in DOMAIN att
        PROVE  (IF a \in A THEN Released(att[a], a, why) ELSE att[a]) \in Attachments
    <3>1. att[a] \in Attachments /\ Running(a) \in SUBSET Nat
      BY <1>1, <1>2, Positions
    <3>. QED BY <3>1 DEF Released, Attachments, Whys
  <2>. QED BY <2>1 DEF Releasing
<1>4. att' \in Seq(Attachments) /\ DOMAIN att' = DOMAIN att
  BY <1>1, <1>3, SamePositions
<1>5. ASSUME NEW a \in DOMAIN att
      PROVE  /\ att'[a].client = att[a].client /\ att'[a].handle = att[a].handle
             /\ att'[a].lease = att[a].lease /\ att'[a].listed = att[a].listed
             /\ a \notin A \/ att[a].release # "none" => att'[a] = att[a]
             /\ a \in A /\ att[a].release = "none" =>
                  /\ att'[a].release = "calls" /\ att'[a].why = why
                  /\ att'[a].waits = Running(a)
  <2>1. att[a] \in Attachments /\ att'[a] = IF a \in A THEN Released(att[a], a, why) ELSE att[a]
    BY <1>1, Positions DEF Releasing
  <2>. QED BY <2>1 DEF Released, Attachments
<1>. QED BY <1>4, <1>5

\* The operations of the clients in C are over, the others stand where they
\* stood, and nothing joins a queue.
LEMMA FinishFacts ==
  ASSUME TypeOK, NEW C \in SUBSET Clients, \A c \in C : queue[c] # <<>>, Finish(C)
  PROVE  /\ queue' \in [Clients -> Seq(Operations)] /\ op' \in [Clients -> Standings]
         /\ refused' \subseteq Clients /\ shutdown' \in Shutdowns
         /\ shutdown'.pc = shutdown.pc
         /\ \A c \in C : op'[c].pc = "idle"
         /\ \A c \in Clients \ C : op'[c] = op[c] /\ queue'[c] = queue[c]
         /\ \A c \in Clients : Members(queue'[c]) \subseteq Members(queue[c])
<1>1. queue \in [Clients -> Seq(Operations)] /\ op \in [Clients -> Standings]
  BY DEF TypeOK
<1>2. /\ queue' \in [Clients -> Seq(Operations)]
      /\ \A c \in Clients : Members(queue'[c]) \subseteq Members(queue[c])
      /\ \A c \in Clients \ C : queue'[c] = queue[c]
  <2>1. \A c \in Clients : queue'[c] = IF c \in C THEN Tail(queue[c]) ELSE queue[c]
    BY DEF Finish
  <2>2. \A c \in Clients : queue'[c] \in Seq(Operations)
                           /\ Members(queue'[c]) \subseteq Members(queue[c])
    BY <1>1, <2>1, HeadTaken
  <2>. QED BY <2>1, <2>2 DEF Finish
<1>3. /\ op' \in [Clients -> Standings] /\ \A c \in C : op'[c].pc = "idle"
      /\ \A c \in Clients \ C : op'[c] = op[c]
  BY <1>1 DEF Finish, Idle, Standings
<1>4. refused' \subseteq Clients
  BY DEF Finish, TypeOK
<1>5. shutdown' \in Shutdowns /\ shutdown'.pc = shutdown.pc
  <2>1. shutdown \in Shutdowns
    BY DEF TypeOK
  <2>. DEFINE o == [c \in Clients |-> IF c \in C /\ shutdown.owed[c] > 0
                                      THEN shutdown.owed[c] - 1 ELSE shutdown.owed[c]]
  <2>2. shutdown' = [shutdown EXCEPT !.owed = o]
    BY DEF Finish
  <2>3. o \in [Clients -> Nat]
    BY <2>1 DEF Shutdowns
  <2>. HIDE DEF o
  <2>. QED BY <2>1, <2>2, <2>3 DEF Shutdowns
<1>. QED BY <1>2, <1>3, <1>4, <1>5

\* An attachment keeps what is said of it when it stays as it is, its client's
\* operation too, and no call of it begins.
LEMMA KeptRelease ==
  ASSUME NEW a \in DOMAIN att, ReleaseOK(a), att'[a] = att[a],
         online' \subseteq online, Closing => Closing',
         att[a].release = "calls" /\ att[a].why \notin {"removed", "terminated"} =>
           Running(a)' \subseteq Running(a),
         att[a].release \in {"calls", "lease"} /\ att[a].why \in Own =>
           /\ op'[att[a].client].att = op[att[a].client].att
           /\ op'[att[a].client].pc = op[att[a].client].pc
  PROVE  ReleaseOK(a)'
BY DEF ReleaseOK

\* The same for the release itself.
LEMMA ReleasingOK ==
  ASSUME TypeOK, NEW A, NEW why \in Whys \ {"none"}, att' = Releasing(A, why),
         UNCHANGED call, online' \subseteq online, Closing => Closing',
         why = "shutdown" => Closing',
         \A a \in DOMAIN att : ReleaseOK(a),
         \A a \in DOMAIN att : att[a].release \in {"calls", "lease"} /\ att[a].why \in Own =>
           /\ op'[att[a].client].att = op[att[a].client].att
           /\ op'[att[a].client].pc = op[att[a].client].pc,
         \A a \in DOMAIN att : a \in A =>
           /\ why = "disconnect" => att[a].client \notin online'
           /\ why \in Own => /\ op'[att[a].client].att = a
                             /\ op'[att[a].client].pc = IF why = "switch" THEN "switching"
                                                                          ELSE "leaving"
  PROVE  \A a \in DOMAIN att' : ReleaseOK(a)'
<1>1. SUFFICES ASSUME NEW a \in DOMAIN att PROVE ReleaseOK(a)'
  BY ReleasingFacts
<1>2. Running(a)' \subseteq Running(a)
  BY DEF Running
<1>3. CASE a \notin A \/ att[a].release # "none"
  <2>1. att'[a] = att[a]
    BY <1>3, ReleasingFacts
  <2>. QED BY <1>2, <2>1, KeptRelease
<1>4. CASE a \in A /\ att[a].release = "none"
  <2>1. /\ att'[a].client = att[a].client /\ att'[a].lease = att[a].lease
        /\ att'[a].listed = att[a].listed
        /\ att'[a].release = "calls" /\ att'[a].why = why /\ att'[a].waits = Running(a)
    BY <1>4, ReleasingFacts
  <2>. QED BY <1>2, <1>4, <2>1 DEF ReleaseOK, Own
<1>. QED BY <1>3, <1>4

\* Operations that end change nothing else, once what they were leaving is
\* released.
LEMMA FinishOK ==
  ASSUME IInv, NEW C \in SUBSET Clients, \A c \in C : queue[c] # <<>>, Finish(C),
         opening' \subseteq opening,
         UNCHANGED <<hosted, current, att, handle, removal, online, route>>,
         call' \in Seq(ServiceCalls),
         \A a \in DOMAIN att :
           att[a].release = "calls" /\ att[a].why \notin {"removed", "terminated"} =>
             Running(a)' \subseteq Running(a),
         \A c \in C : op[c].pc \in {"switching", "leaving"} =>
                        att[op[c].att].release \notin {"calls", "lease"}
  PROVE  IInv'
<1>0. TypeOK /\ \A c \in Clients : OpOK(c) /\ ClientOK(c)
  BY DEF IInv
<1>1. /\ queue' \in [Clients -> Seq(Operations)] /\ op' \in [Clients -> Standings]
      /\ refused' \subseteq Clients /\ shutdown' \in Shutdowns
      /\ shutdown'.pc = shutdown.pc
      /\ \A c \in C : op'[c].pc = "idle"
      /\ \A c \in Clients \ C : op'[c] = op[c] /\ queue'[c] = queue[c]
      /\ \A c \in Clients : Members(queue'[c]) \subseteq Members(queue[c])
  BY <1>0, FinishFacts
<1>2. TypeOK'
  BY <1>0, <1>1 DEF TypeOK
<1>3. \A c \in Clients : OpOK(c)' /\ ClientOK(c)'
  <2>1. SUFFICES ASSUME NEW c \in Clients PROVE OpOK(c)' /\ ClientOK(c)'
    OBVIOUS
  <2>2. OpOK(c)'
    BY <1>0, <1>1 DEF OpOK, Head1
  <2>3. ClientOK(c)'
    BY <1>0, <1>1 DEF ClientOK
  <2>. QED BY <2>2, <2>3
<1>4. \A a \in DOMAIN att' : Accounted(a)' /\ ReleaseOK(a)'
  <2>1. SUFFICES ASSUME NEW a \in DOMAIN att PROVE Accounted(a)' /\ ReleaseOK(a)'
    OBVIOUS
  <2>2. Accounted(a) /\ ReleaseOK(a)
    BY DEF IInv
  <2>3. Accounted(a)'
    BY <1>1, <2>2 DEF Accounted, Session
  <2>4. att[a].client \in Clients
    <3>1. att[a] \in Attachments
      BY <1>0, Positions DEF TypeOK
    <3>. QED BY <3>1 DEF Attachments
  <2>5. att[a].release \in {"calls", "lease"} /\ att[a].why \in Own => att[a].client \notin C
    BY <2>2 DEF ReleaseOK
  <2>6. ReleaseOK(a)'
    BY <1>1, <2>2, <2>4, <2>5, KeptRelease DEF Closing
  <2>. QED BY <2>3, <2>6
<1>5. (\A s \in Sessions : SessionOK(s)') /\ (\A h \in DOMAIN handle' : HandleOK(h)')
  BY DEF IInv, SessionOK, HandleOK
<1>6. Offline' /\ RouteCurrent'
  BY <1>1 DEF IInv, Offline, RouteCurrent
<1>. QED BY <1>2, <1>3, <1>4, <1>5, <1>6 DEF IInv

\* What is known of an attachment.
LEMMA AttFacts ==
  ASSUME TypeOK, NEW a \in DOMAIN att
  PROVE  /\ att[a] \in Attachments /\ att[a].client \in Clients /\ a \in Nat \ {0}
         /\ att[a].handle \in DOMAIN handle /\ att[a].handle \in Nat \ {0}
         /\ handle[att[a].handle] \in Opens /\ Session(a) \in Sessions
<1>1. att[a] \in Attachments /\ a \in Nat \ {0} /\ att[a].handle \in DOMAIN handle
  BY Positions DEF TypeOK
<1>2. handle[att[a].handle] \in Opens /\ att[a].handle \in Nat \ {0}
  BY <1>1, Positions DEF TypeOK
<1>. QED BY <1>1, <1>2 DEF Attachments, Opens, Session

\* Requests, calls and disconnects join queues; connections go; calls end or
\* are asked for; the shutdown begins.
LEMMA JoinOK ==
  ASSUME IInv, UNCHANGED <<hosted, opening, current, op, att, handle, removal>>,
         queue' \in [Clients -> Seq(Operations)],
         \A c \in Clients : queue[c] # <<>> => queue'[c] # <<>> /\ Head(queue'[c]) = Head(queue[c]),
         \A c \in Clients : \A x \in Members(queue'[c]) :
            x \in Members(queue[c]) \/ (x.kind = "disconnect" => c \notin online'),
         online' \subseteq online, refused' \subseteq Clients,
         route' \in [Clients -> DOMAIN att \cup {0}],
         \A c \in online' : route'[c] = route[c],
         shutdown' \in Shutdowns, Offline',
         shutdown'.pc # shutdown.pc => /\ shutdown.pc \in {"none", "closing"}
                                       /\ shutdown'.pc \in {"closing", "waiting"},
         call' \in Seq(ServiceCalls), \A a \in DOMAIN att : Running(a)' \subseteq Running(a)
  PROVE  IInv'
<1>0. TypeOK /\ \A c \in Clients : OpOK(c) /\ ClientOK(c)
  BY DEF IInv
<1>1. TypeOK'
  BY <1>0 DEF TypeOK
<1>2. ASSUME NEW c \in Clients PROVE OpOK(c)' /\ ClientOK(c)'
  <2>1. OpOK(c)'
    BY <1>0 DEF OpOK, Head1, TypeOK
  <2>2. ClientOK(c)'
    BY <1>0 DEF ClientOK
  <2>. QED BY <2>1, <2>2
<1>3. ASSUME NEW a \in DOMAIN att PROVE Accounted(a)' /\ ReleaseOK(a)'
  <2>1. Accounted(a) /\ ReleaseOK(a)
    BY DEF IInv
  <2>2. Accounted(a)'
    BY <2>1 DEF Accounted, Session
  <2>3. ReleaseOK(a)'
    BY <2>1, KeptRelease DEF Closing
  <2>. QED BY <2>2, <2>3
<1>4. (\A s \in Sessions : SessionOK(s)') /\ (\A h \in DOMAIN handle' : HandleOK(h)')
  BY DEF IInv, SessionOK, HandleOK
<1>5. RouteCurrent'
  BY DEF IInv, RouteCurrent
<1>. QED BY <1>1, <1>2, <1>3, <1>4, <1>5 DEF IInv

\* An operation that joins one queue.
LEMMA OneJoins ==
  ASSUME TypeOK, NEW c \in Clients, NEW x \in Operations,
         queue' = [queue EXCEPT ![c] = Append(@, x)]
  PROVE  /\ queue' \in [Clients -> Seq(Operations)]
         /\ \A d \in Clients : queue[d] # <<>> =>
              queue'[d] # <<>> /\ Head(queue'[d]) = Head(queue[d])
         /\ \A d \in Clients : \A y \in Members(queue'[d]) : y \in Members(queue[d]) \/ y = x
<1>1. queue \in [Clients -> Seq(Operations)]
  BY DEF TypeOK
<1>2. \A d \in Clients : queue'[d] = IF d = c THEN Append(queue[d], x) ELSE queue[d]
  BY <1>1
<1>3. \A d \in Clients : /\ Append(queue[d], x) \in Seq(Operations) /\ Append(queue[d], x) # <<>>
                         /\ queue[d] # <<>> => Head(Append(queue[d], x)) = Head(queue[d])
                         /\ Members(Append(queue[d], x)) = Members(queue[d]) \cup {x}
  BY <1>1, OneAdded
<1>. QED BY <1>1, <1>2, <1>3

\* The management service gets to a request.
LEMMA ManageOK ==
  ASSUME IInv, NEW c \in Clients, NEW r \in Request, Manage(c, r)
  PROVE  IInv'
<1>0. TypeOK /\ Offline
  BY DEF IInv
<1>1. r \in Operations /\ r.kind # "disconnect"
  BY DEF Request, Operations
<1>2. /\ queue' = [queue EXCEPT ![c] = Append(@, r)]
      /\ UNCHANGED <<hosted, opening, current, op, att, handle, removal, refused, shutdown,
                     online, route, call>>
  BY DEF Manage
<1>3. \A a \in DOMAIN att : Running(a)' \subseteq Running(a)
  BY <1>2 DEF Running
<1>. QED BY <1>0, <1>1, <1>2, <1>3, OneJoins, JoinOK DEF TypeOK, Offline

\* A service call is asked for.
LEMMA AskOK ==
  ASSUME IInv, NEW c \in Clients, Ask(c)
  PROVE  IInv'
<1>0. TypeOK /\ Offline
  BY DEF IInv
<1>. DEFINE x == [kind |-> "call", call |-> Len(call) + 1]
<1>1. call \in Seq(ServiceCalls) /\ Len(call) \in Nat
  BY <1>0, Positions DEF TypeOK
<1>2. x \in Operations /\ x.kind # "disconnect"
  BY <1>1 DEF Operations
<1>3. /\ queue' = [queue EXCEPT ![c] = Append(@, x)]
      /\ UNCHANGED <<hosted, opening, current, op, att, handle, removal, refused, shutdown,
                     online, route>>
  BY DEF Ask
<1>4. PICK a \in DOMAIN att : call' = Append(call, [att |-> a, state |-> "queued"])
  BY DEF Ask
<1>5. [att |-> a, state |-> "queued"] \in ServiceCalls
  BY <1>0, AttFacts DEF ServiceCalls
<1>6. /\ call' \in Seq(ServiceCalls) /\ DOMAIN call' = DOMAIN call \cup {Len(call) + 1}
      /\ \A k \in DOMAIN call : call'[k] = call[k]
      /\ call'[Len(call) + 1].state = "queued"
  BY <1>1, <1>4, <1>5, OneAdded
<1>7. \A b \in DOMAIN att : Running(b)' \subseteq Running(b)
  BY <1>6 DEF Running
<1>. HIDE DEF x
<1>. QED BY <1>0, <1>2, <1>3, <1>6, <1>7, OneJoins, JoinOK DEF TypeOK, Offline

\* A service call ends; the calls that run only get fewer.
LEMMA CallEndsOK ==
  ASSUME IInv, NEW k \in DOMAIN call, CallEnds(k)
  PROVE  IInv'
<1>0. TypeOK /\ Offline
  BY DEF IInv
<1>1. UNCHANGED <<hosted, opening, current, op, att, handle, removal, refused, queue, shutdown,
                  online, route>>
  BY DEF CallEnds, routerVars
<1>2. call' = [call EXCEPT ![k].state = "over"] /\ call \in Seq(ServiceCalls)
  BY <1>0 DEF CallEnds, TypeOK
<1>3. [call[k] EXCEPT !.state = "over"] \in ServiceCalls
  <2>1. call[k] \in ServiceCalls
    BY <1>2, Positions
  <2>. QED BY <2>1 DEF ServiceCalls
<1>4. /\ call' \in Seq(ServiceCalls) /\ DOMAIN call' = DOMAIN call
      /\ \A j \in DOMAIN call : j # k => call'[j] = call[j]
      /\ call'[k].state = "over"
  <2>1. [call[k] EXCEPT !.state = "over"].state = "over"
    BY <1>2, Positions DEF ServiceCalls
  <2>. QED BY <1>2, <1>3, <2>1, OneReplaced
<1>5. \A b \in DOMAIN att : Running(b)' \subseteq Running(b)
  BY <1>1, <1>4 DEF Running
<1>. QED BY <1>0, <1>1, <1>4, <1>5, JoinOK DEF TypeOK, Offline

\* Connections that go.
LEMMA GoneFacts ==
  ASSUME TypeOK, NEW C \in SUBSET Clients, Gone(C)
  PROVE  /\ queue' \in [Clients -> Seq(Operations)]
         /\ \A c \in Clients : queue[c] # <<>> =>
              queue'[c] # <<>> /\ Head(queue'[c]) = Head(queue[c])
         /\ \A c \in Clients : \A x \in Members(queue'[c]) :
              x \in Members(queue[c]) \/ (x.kind = "disconnect" => c \notin online')
         /\ online' \subseteq online /\ refused' \subseteq Clients
         /\ route' \in [Clients -> DOMAIN att \cup {0}]
         /\ \A c \in online' : route'[c] = route[c]
<1>. DEFINE x == [kind |-> "disconnect"]
<1>1. queue \in [Clients -> Seq(Operations)] /\ x \in Operations
  BY DEF TypeOK, Operations
<1>2. \A c \in Clients : queue'[c] = IF c \in C THEN Append(queue[c], x) ELSE queue[c]
  BY DEF Gone
<1>. HIDE DEF x
<1>3. \A d \in Clients : /\ Append(queue[d], x) \in Seq(Operations) /\ Append(queue[d], x) # <<>>
                         /\ queue[d] # <<>> => Head(Append(queue[d], x)) = Head(queue[d])
                         /\ Members(Append(queue[d], x)) = Members(queue[d]) \cup {x}
  BY <1>1, OneAdded
<1>4. queue' \in [Clients -> Seq(Operations)]
  BY <1>1, <1>2, <1>3 DEF Gone
<1>5. /\ online' = online \ C /\ refused' \subseteq Clients
      /\ route' \in [Clients -> DOMAIN att \cup {0}]
      /\ \A c \in online' : route'[c] = route[c]
  BY DEF Gone, TypeOK
<1>. QED BY <1>1, <1>2, <1>3, <1>4, <1>5

\* A connection is lost: its route goes, and its disconnect joins the queue.
LEMMA DisconnectOK ==
  ASSUME IInv, NEW c \in Clients, Disconnect(c)
  PROVE  IInv'
<1>0. TypeOK /\ Offline
  BY DEF IInv
<1>1. Gone({c}) /\ UNCHANGED <<hosted, opening, current, op, att, handle, removal, shutdown, call>>
  BY DEF Disconnect
<1>2. \A b \in DOMAIN att : Running(b)' \subseteq Running(b)
  BY <1>1 DEF Running
<1>. QED BY <1>0, <1>1, <1>2, GoneFacts, JoinOK DEF TypeOK, Offline

\* The shutdown begins.
LEMMA ShutdownOK ==
  ASSUME IInv, Shutdown
  PROVE  IInv'
<1>0. TypeOK /\ Offline
  BY DEF IInv
<1>1. /\ shutdown' = [shutdown EXCEPT !.pc = "closing"] /\ shutdown.pc = "none"
      /\ UNCHANGED <<hosted, opening, current, refused, queue, op, att, handle, removal,
                     online, route, call>>
  BY DEF Shutdown, Closing
<1>2. shutdown' \in Shutdowns /\ shutdown'.pc = "closing"
  BY <1>0, <1>1 DEF TypeOK, Shutdowns
<1>3. \A b \in DOMAIN att : Running(b)' \subseteq Running(b)
  BY <1>1 DEF Running
<1>. QED BY <1>0, <1>1, <1>2, <1>3, JoinOK DEF TypeOK, Offline

\* The shutdown drops every connection.
LEMMA DropConnectionsOK ==
  ASSUME IInv, DropConnections
  PROVE  IInv'
<1>0. TypeOK /\ Offline
  BY DEF IInv
<1>. DEFINE owed == [c \in Clients |-> Len(queue'[c])]
<1>1. /\ shutdown.pc = "closing" /\ Gone(online)
      /\ shutdown' = [shutdown EXCEPT !.pc = "waiting", !.owed = owed]
      /\ UNCHANGED <<hosted, opening, current, op, att, handle, removal, call>>
  BY DEF DropConnections
<1>2. queue' \in [Clients -> Seq(Operations)] /\ online' = {}
  BY <1>0, <1>1, GoneFacts DEF TypeOK, Gone
<1>3. owed \in [Clients -> Nat]
  BY <1>2, Positions
<1>. HIDE DEF owed
<1>4. shutdown' \in Shutdowns /\ shutdown'.pc = "waiting"
  BY <1>0, <1>1, <1>3 DEF TypeOK, Shutdowns
<1>5. \A b \in DOMAIN att : Running(b)' \subseteq Running(b)
  BY <1>1 DEF Running
<1>6. online \in SUBSET Clients
  BY <1>0 DEF TypeOK
<1>7. /\ queue' \in [Clients -> Seq(Operations)]
      /\ \A c \in Clients : queue[c] # <<>> =>
           queue'[c] # <<>> /\ Head(queue'[c]) = Head(queue[c])
      /\ \A c \in Clients : \A x \in Members(queue'[c]) :
           x \in Members(queue[c]) \/ (x.kind = "disconnect" => c \notin online')
      /\ online' \subseteq online /\ refused' \subseteq Clients
      /\ route' \in [Clients -> DOMAIN att \cup {0}]
      /\ \A c \in online' : route'[c] = route[c]
  BY <1>0, <1>1, <1>6, GoneFacts
<1>8. Offline' /\ (shutdown'.pc # shutdown.pc => /\ shutdown.pc \in {"none", "closing"}
                                               /\ shutdown'.pc \in {"closing", "waiting"})
  BY <1>1, <1>2, <1>4 DEF Offline
<1>9. UNCHANGED <<hosted, opening, current, op, att, handle, removal>> /\ call' \in Seq(ServiceCalls)
  BY <1>0, <1>1 DEF TypeOK
<1>10. shutdown' \in Shutdowns
  BY <1>4
<1>. QED BY <1>5, <1>7, <1>8, <1>9, <1>10, JoinOK

-----------------------------------------------------------------------------
(***************************************************************************)
(* Releases.                                                               *)
(***************************************************************************)

\* The lease of an attachment goes when the calls it waited for are over.
LEMMA ReleaseLeaseOK ==
  ASSUME IInv, NEW a \in DOMAIN att, ReleaseLease(a)
  PROVE  IInv'
<1>0. TypeOK /\ (\A c \in Clients : OpOK(c) /\ ClientOK(c))
      /\ (\A b \in DOMAIN att : Accounted(b) /\ ReleaseOK(b))
  BY DEF IInv
<1>u. UNCHANGED <<hosted, opening, current, refused, queue, op, handle, removal, shutdown,
                  online, route, call, events>>
  BY DEF ReleaseLease
<1>1. /\ att[a].release = "calls" /\ att[a].lease # "acquiring"
      /\ att' = [att EXCEPT ![a].release = "lease",
                            ![a].lease = IF @ = "held" THEN "released" ELSE @]
  BY DEF ReleaseLease
<1>2. att[a] \in Attachments /\ att \in Seq(Attachments)
  BY <1>0, AttFacts DEF TypeOK
<1>. DEFINE r == [att[a] EXCEPT !.release = "lease",
                                !.lease = IF @ = "held" THEN "released" ELSE @]
<1>3. /\ r \in Attachments /\ r.release = "lease" /\ r.client = att[a].client
      /\ r.handle = att[a].handle /\ r.listed = att[a].listed /\ r.why = att[a].why
      /\ r.lease = IF att[a].lease = "held" THEN "released" ELSE att[a].lease
  BY <1>2 DEF Attachments
<1>4. att' = [att EXCEPT ![a] = r]
  BY <1>1, <1>2
<1>. HIDE DEF r
<1>5. /\ att' \in Seq(Attachments) /\ DOMAIN att' = DOMAIN att /\ att'[a] = r
      /\ \A b \in DOMAIN att : b # a => att'[b] = att[b]
  BY <1>2, <1>3, <1>4, OneReplaced
<1>6. TypeOK'
  BY <1>0, <1>u, <1>3, <1>5 DEF TypeOK
<1>7. ASSUME NEW c \in Clients PROVE OpOK(c)' /\ ClientOK(c)'
  <2>1. OpOK(c)'
    BY <1>0, <1>u, <1>1, <1>3, <1>5 DEF OpOK, Head1
  <2>2. ClientOK(c)'
    BY <1>0, <1>u, <1>3, <1>5 DEF ClientOK, TypeOK
  <2>. QED BY <2>1, <2>2
<1>8. ASSUME NEW b \in DOMAIN att PROVE Accounted(b)' /\ ReleaseOK(b)'
  <2>0. Running(b)' = Running(b)
    BY <1>u DEF Running
  <2>1. Accounted(b)'
    BY <1>0, <1>u, <1>3, <1>5 DEF Accounted, Session
  <2>2. CASE b # a
    BY <1>0, <1>u, <1>5, <2>0, <2>1, <2>2, KeptRelease DEF Closing
  <2>3. CASE b = a
    BY <1>0, <1>u, <1>1, <1>3, <1>5, <2>0, <2>1, <2>3 DEF ReleaseOK, Closing
  <2>. QED BY <2>1, <2>2, <2>3
<1>9. (\A s \in Sessions : SessionOK(s)') /\ (\A h \in DOMAIN handle' : HandleOK(h)')
  BY <1>u DEF IInv, SessionOK, HandleOK
<1>10. Offline' /\ RouteCurrent'
  <2>1. \A c \in Clients : route[c] # 0 => route[c] \in DOMAIN att
    BY <1>0 DEF TypeOK
  <2>2. \A b \in DOMAIN att : att'[b].why = att[b].why
    BY <1>3, <1>5
  <2>. QED BY <1>0, <1>u, <2>1, <2>2 DEF IInv, Offline, RouteCurrent, TypeOK
<1>. QED BY <1>5, <1>6, <1>7, <1>8, <1>9, <1>10 DEF IInv

\* An attachment is cleared: its client's route goes with it, but for a switch.
LEMMA ClearOK ==
  ASSUME IInv, NEW a \in DOMAIN att, Clear(a)
  PROVE  IInv'
<1>0. TypeOK /\ (\A c \in Clients : OpOK(c) /\ ClientOK(c))
      /\ (\A b \in DOMAIN att : Accounted(b) /\ ReleaseOK(b))
  BY DEF IInv
<1>. DEFINE c == att[a].client
<1>u. UNCHANGED <<hosted, opening, refused, queue, op, handle, removal, shutdown, online, call>>
  BY DEF Clear
<1>1. /\ att[a].release = "lease"
      /\ current' = [current EXCEPT ![c] = IF @ = a THEN 0 ELSE @]
      /\ route' = [route EXCEPT ![c] = IF current[c] = a /\ Publishes(att[a].why) THEN 0 ELSE @]
  BY DEF Clear
<1>2. /\ att[a] \in Attachments /\ att \in Seq(Attachments) /\ c \in Clients
      /\ a \in Nat \ {0}
  BY <1>0, AttFacts DEF TypeOK
<1>3. PICK failed \in {att[a].failed, TRUE} :
        att' = [att EXCEPT ![a] = [@ EXCEPT !.release = "cleared", !.listed = FALSE,
                                            !.failed = failed]]
  <2>1. \/ att' = [att EXCEPT ![a].release = "cleared", ![a].listed = FALSE]
        \/ att' = [att EXCEPT ![a].release = "cleared", ![a].listed = FALSE, ![a].failed = TRUE]
    BY DEF Clear
  <2>2. [att[a] EXCEPT !.release = "cleared", !.listed = FALSE] =
        [att[a] EXCEPT !.release = "cleared", !.listed = FALSE, !.failed = att[a].failed]
    BY <1>2 DEF Attachments
  <2>. QED BY <1>2, <2>1, <2>2
<1>. DEFINE r == [att[a] EXCEPT !.release = "cleared", !.listed = FALSE, !.failed = failed]
<1>4. /\ r \in Attachments /\ r.release = "cleared" /\ r.client = att[a].client
      /\ r.handle = att[a].handle /\ r.why = att[a].why /\ r.lease = att[a].lease
  BY <1>2 DEF Attachments
<1>5. att' = [att EXCEPT ![a] = r]
  BY <1>2, <1>3
<1>. HIDE DEF r
<1>6. /\ att' \in Seq(Attachments) /\ DOMAIN att' = DOMAIN att /\ att'[a] = r
      /\ \A b \in DOMAIN att : b # a => att'[b] = att[b]
  BY <1>2, <1>4, <1>5, OneReplaced
<1>7. /\ current \in [Clients -> DOMAIN att \cup {0}] /\ route \in [Clients -> DOMAIN att \cup {0}]
  BY <1>0 DEF TypeOK
<1>. HIDE DEF c
<1>8. /\ \A d \in Clients : current'[d] = IF current[d] = a THEN 0 ELSE current[d]
      /\ route'[c] = IF current[c] = a /\ Publishes(att[a].why) THEN 0 ELSE route[c]
      /\ \A d \in Clients : d # c => route'[d] = route[d]
      /\ current' \in [Clients -> DOMAIN att' \cup {0}]
      /\ route' \in [Clients -> DOMAIN att' \cup {0}]
  <2>1. \A d \in Clients : current[d] = a => d = c
    BY <1>0, <1>2 DEF ClientOK, c
  <2>. QED BY <1>1, <1>2, <1>6, <1>7, <2>1
<1>9. TypeOK'
  BY <1>0, <1>u, <1>4, <1>6, <1>8 DEF TypeOK
<1>10. ASSUME NEW d \in Clients PROVE OpOK(d)' /\ ClientOK(d)'
  <2>0. op[d].pc \in {"leasing"} => op[d].att # a
    BY <1>0, <1>1 DEF OpOK, ReleaseOK
  <2>1. OpOK(d)'
    BY <1>0, <1>u, <1>1, <1>4, <1>6, <1>8, <2>0 DEF OpOK, Head1
  <2>2. ClientOK(d)'
    BY <1>0, <1>u, <1>4, <1>6, <1>7, <1>8 DEF ClientOK
  <2>. QED BY <2>1, <2>2
<1>11. ASSUME NEW b \in DOMAIN att PROVE Accounted(b)' /\ ReleaseOK(b)'
  <2>0. Running(b)' = Running(b) /\ att[b].client \in Clients
    BY <1>0, <1>u, AttFacts DEF Running
  <2>1. Accounted(b)'
    BY <1>0, <1>u, <1>1, <1>4, <1>6, <1>8, <2>0 DEF Accounted, Session
  <2>2. CASE b # a
    BY <1>0, <1>u, <1>6, <2>0, <2>1, <2>2, KeptRelease DEF Closing
  <2>3. CASE b = a
    BY <1>0, <1>u, <1>1, <1>4, <1>6, <2>0, <2>1, <2>3 DEF ReleaseOK, Closing
  <2>. QED BY <2>1, <2>2, <2>3
<1>12. (\A s \in Sessions : SessionOK(s)') /\ (\A h \in DOMAIN handle' : HandleOK(h)')
  BY <1>u DEF IInv, SessionOK, HandleOK
<1>13. Offline' /\ RouteCurrent'
  <2>1. \A d \in Clients : route[d] # 0 => route[d] \in DOMAIN att
    BY <1>7
  <2>2. \A b \in DOMAIN att : att'[b].why = att[b].why
    BY <1>4, <1>6
  <2>3. current[c] = a /\ c \in online => att[a].why # "disconnect"
    BY <1>0 DEF ReleaseOK, c
  <2>4. RouteCurrent
    BY DEF IInv
  <2>5. ASSUME NEW d \in online, route'[d] # current'[d]
        PROVE  route'[d] # 0 /\ att'[route'[d]].why = "switch"
    <3>0. d \in Clients
      BY <1>0 DEF TypeOK
    <3>1. CASE d # c
      <4>1. current[d] # a
        BY <1>0, <1>2, <3>0, <3>1 DEF ClientOK, c
      <4>. QED BY <1>8, <2>1, <2>2, <2>4, <2>5, <3>0, <3>1, <4>1 DEF RouteCurrent
    <3>2. CASE d = c /\ current[c] = a
      <4>1. route'[c] = route[c] /\ ~Publishes(att[a].why)
        BY <1>8, <2>5, <3>0, <3>2
      <4>2. att[a].why = "switch"
        BY <2>3, <2>5, <3>2, <4>1 DEF Publishes
      <4>. QED BY <1>2, <1>8, <2>1, <2>2, <2>4, <2>5, <3>0, <3>2, <4>1, <4>2 DEF RouteCurrent
    <3>3. CASE d = c /\ current[c] # a
      BY <1>8, <2>1, <2>2, <2>4, <2>5, <3>0, <3>3 DEF RouteCurrent
    <3>. QED BY <3>1, <3>2, <3>3
  <2>6. RouteCurrent'
    BY <1>u, <2>5 DEF RouteCurrent
  <2>. QED BY <1>u, <2>6 DEF IInv, Offline
<1>. QED BY <1>6, <1>9, <1>10, <1>11, <1>12, <1>13 DEF IInv

-----------------------------------------------------------------------------
(***************************************************************************)
(* The operations of a client.                                             *)
(***************************************************************************)

\* What the head of a client's queue is.
LEMMA HeadFacts ==
  ASSUME TypeOK, NEW c \in Clients, queue[c] # <<>>
  PROVE  /\ Head1(c) \in Operations /\ Head1(c) \in Members(queue[c])
         /\ Head1(c).kind = "attach" => Head1(c).session \in Sessions
<1>1. Head1(c) \in Operations /\ Head1(c) \in Members(queue[c])
  BY HeadTaken DEF TypeOK, Head1
<1>. QED BY <1>1 DEF Operations, Request

\* An operation that ends without any other effect.
LEMMA EndsOK ==
  ASSUME IInv, NEW c \in Clients, queue[c] # <<>>, Finish({c}),
         UNCHANGED <<hosted, opening, current, att, handle, removal, online, route, call>>,
         op[c].pc \in {"switching", "leaving"} =>
           att[op[c].att].release \notin {"calls", "lease"}
  PROVE  IInv'
<1>1. call' \in Seq(ServiceCalls) /\ \A a \in DOMAIN att : Running(a)' \subseteq Running(a)
  BY DEF IInv, TypeOK, Running
<1>. QED BY <1>1, FinishOK

\* A client whose operation is not waiting for a release has none of its own.
LEMMA NoneOfItsOwn ==
  ASSUME IInv, NEW c \in Clients,
         op[c].pc \in {"switching", "leaving"} => att[op[c].att].release = "cleared",
         NEW a \in DOMAIN att, att[a].release \in {"calls", "lease"}, att[a].why \in Own
  PROVE  att[a].client # c
<1>1. ReleaseOK(a)
  BY DEF IInv
<1>. QED BY <1>1 DEF ReleaseOK

\* An attach starts: it notes the attachment it found.
LEMMA StartAttachOK ==
  ASSUME IInv, NEW c \in Clients, StartAttach(c)
  PROVE  IInv'
<1>0. TypeOK /\ (\A d \in Clients : OpOK(d) /\ ClientOK(d))
      /\ (\A b \in DOMAIN att : Accounted(b) /\ ReleaseOK(b))
      /\ (\A s \in Sessions : SessionOK(s))
  BY DEF IInv
<1>. DEFINE s == Head1(c).session
            h == hosted[s]
<1>u. UNCHANGED <<hosted, current, att, handle, removal, online, route, call>>
  BY DEF StartAttach
<1>1. /\ queue[c] # <<>> /\ op[c].pc = "idle" /\ Head1(c).kind = "attach"
  BY DEF StartAttach, Starts
<1>2. s \in Sessions
  BY <1>0, <1>1, HeadFacts
<1>3. CASE Finish({c}) /\ UNCHANGED opening
  BY <1>u, <1>1, <1>3, EndsOK
<1>4. CASE /\ \/ h # 0 /\ At(c, "acquired", current[c], h) /\ UNCHANGED opening
              \/ h = 0 /\ At(c, "opening", current[c], 0) /\ opening' = opening \cup {s}
           /\ UNCHANGED <<queue, refused, shutdown>>
  <2>1. op \in [Clients -> Standings] /\ current[c] \in DOMAIN att \cup {0} /\ current[c] \in Nat
        /\ h \in DOMAIN handle \cup {0} /\ h \in Nat
    BY <1>0, <1>2, Positions DEF TypeOK
  <2>. HIDE DEF s, h
  <2>2. PICK pc \in {"acquired", "opening"} :
          /\ op' = [op EXCEPT ![c] = [pc |-> pc, att |-> current[c], handle |-> h]]
          /\ IF h # 0 THEN pc = "acquired" /\ opening' = opening
                      ELSE pc = "opening" /\ opening' = opening \cup {s}
    BY <1>4 DEF At
  <2>3. /\ op' \in [Clients -> Standings]
        /\ op'[c] = [pc |-> pc, att |-> current[c], handle |-> h]
        /\ \A d \in Clients : d # c => op'[d] = op[d]
    BY <2>1, <2>2 DEF Standings
  <2>4. TypeOK'
    BY <1>0, <1>1, <1>2, <1>u, <1>4, <2>2, <2>3 DEF TypeOK
  <2>5. ASSUME NEW d \in Clients PROVE OpOK(d)' /\ ClientOK(d)'
    <3>1. CASE d = c
      BY <1>0, <1>1, <1>u, <1>4, <2>1, <2>2, <2>3, <3>1 DEF OpOK, ClientOK, Head1
    <3>2. CASE d # c
      BY <1>0, <1>u, <1>4, <2>3, <3>2 DEF OpOK, ClientOK, Head1
    <3>. QED BY <3>1, <3>2
  <2>6. ASSUME NEW b \in DOMAIN att PROVE Accounted(b)' /\ ReleaseOK(b)'
    <3>1. Accounted(b)' /\ Running(b)' = Running(b) /\ att[b].client \in Clients
      BY <1>0, <1>u, <1>4, AttFacts DEF Accounted, Session, Running
    <3>2. att[b].release \in {"calls", "lease"} /\ att[b].why \in Own => att[b].client # c
      BY <1>1, NoneOfItsOwn
    <3>. QED BY <1>0, <1>u, <1>4, <2>3, <3>1, <3>2, KeptRelease DEF Closing
  <2>7. ASSUME NEW t \in Sessions PROVE SessionOK(t)'
    <3>1. t = s => h = hosted[t]
      BY DEF s, h
    <3>2. SessionOK(t) /\ (t \in opening' => t \in opening \/ hosted[t] = 0)
      BY <1>0, <2>2, <3>1
    <3>. QED BY <1>u, <3>2 DEF SessionOK
  <2>8. (\A k \in DOMAIN handle' : HandleOK(k)') /\ Offline' /\ RouteCurrent'
    BY <1>u, <1>4 DEF IInv, HandleOK, Offline, RouteCurrent
  <2>. QED BY <1>u, <2>4, <2>5, <2>6, <2>7, <2>8 DEF IInv
<1>. QED BY <1>3, <1>4 DEF StartAttach

\* A release keeps what is said of operations and clients.
LEMMA ReleasingViews ==
  ASSUME IInv, NEW A, NEW why \in Whys \ {"none"}, att' = Releasing(A, why),
         UNCHANGED <<queue, online, route>>, DOMAIN handle' = DOMAIN handle,
         current' \in [Clients -> Nat],
         \A d \in Clients : current'[d] \in {current[d], 0},
         online = {} \/ current' = current
  PROVE  /\ (\A d \in Clients : op'[d] = op[d] => OpOK(d)')
         /\ (\A d \in Clients : ClientOK(d)')
         /\ RouteCurrent'
<1>0. TypeOK /\ (\A d \in Clients : OpOK(d) /\ ClientOK(d))
      /\ (\A b \in DOMAIN att : ReleaseOK(b))
  BY DEF IInv
<1>1. /\ DOMAIN att' = DOMAIN att
      /\ \A a \in DOMAIN att :
           /\ att'[a].client = att[a].client /\ att'[a].handle = att[a].handle
           /\ att'[a].lease = att[a].lease
           /\ att[a].release # "none" => att'[a] = att[a]
           /\ att'[a].release = "cleared" => att[a].release = "cleared"
  BY <1>0, ReleasingFacts
<1>2. ASSUME NEW d \in Clients, op'[d] = op[d] PROVE OpOK(d)'
  BY <1>0, <1>1, <1>2 DEF OpOK, Head1
<1>3. ASSUME NEW d \in Clients PROVE ClientOK(d)'
  <2>1. current'[d] # 0 => current'[d] = current[d] /\ current[d] \in DOMAIN att
    BY <1>0 DEF TypeOK
  <2>2. ClientOK(d)
    BY <1>0
  <2>. QED BY <1>1, <2>1, <2>2 DEF ClientOK
<1>4. RouteCurrent'
  <2>1. SUFFICES ASSUME NEW d \in online, route[d] # current'[d]
                 PROVE  route[d] # 0 /\ att'[route[d]].why = "switch"
    BY DEF RouteCurrent
  <2>2. route[d] # 0 /\ att[route[d]].why = "switch" /\ route[d] \in DOMAIN att
    BY <1>0, <2>1 DEF IInv, RouteCurrent, TypeOK
  <2>3. att[route[d]].release # "none"
    BY <1>0, <2>2 DEF ReleaseOK
  <2>. QED BY <1>1, <2>2, <2>3
<1>. QED BY <1>2, <1>3, <1>4

\* A client's operation releases an attachment and waits for it.
LEMMA LeavingOK ==
  ASSUME IInv, NEW c \in Clients, NEW a \in DOMAIN att, att[a].client = c,
         NEW why \in {"switch", "detach", "disconnect"},
         op[c].pc \notin {"switching", "leaving"},
         queue[c] # <<>>,
         why = "disconnect" => c \notin online,
         why = "switch" => op[c].pc = "acquired" /\ op[c].att = a,
         att' = Releasing({a}, why),
         NEW h \in Nat, why = "switch" => h = op[c].handle,
         At(c, IF why = "switch" THEN "switching" ELSE "leaving", a, h),
         UNCHANGED <<queue, refused, shutdown, hosted, opening, current, handle, removal, online,
                     route, call>>
  PROVE  IInv'
<1>0. TypeOK /\ (\A d \in Clients : OpOK(d) /\ ClientOK(d))
      /\ (\A b \in DOMAIN att : Accounted(b) /\ ReleaseOK(b))
  BY DEF IInv
<1>1. /\ att' \in Seq(Attachments) /\ DOMAIN att' = DOMAIN att
      /\ \A b \in DOMAIN att :
           /\ att'[b].client = att[b].client /\ att'[b].handle = att[b].handle
           /\ att'[b].release = "none" => att'[b] = att[b]
  BY <1>0, ReleasingFacts DEF Whys
<1>. DEFINE pc == IF why = "switch" THEN "switching" ELSE "leaving"
<1>2. pc \in {"switching", "leaving"} /\ (pc = "switching" <=> why = "switch")
  OBVIOUS
<1>3. op' = [op EXCEPT ![c] = [pc |-> pc, att |-> a, handle |-> h]]
  BY DEF At
<1>. HIDE DEF pc
<1>4. /\ op' \in [Clients -> Standings] /\ op'[c] = [pc |-> pc, att |-> a, handle |-> h]
      /\ \A d \in Clients : d # c => op'[d] = op[d]
  <2>1. op \in [Clients -> Standings] /\ a \in Nat
    BY <1>0, AttFacts DEF TypeOK
  <2>. QED BY <1>2, <1>3, <2>1 DEF Standings
<1>5. TypeOK'
  BY <1>0, <1>1, <1>4 DEF TypeOK
<1>6. why \in Whys \ {"none"}
  BY DEF Whys
<1>7. /\ (\A d \in Clients : op'[d] = op[d] => OpOK(d)')
      /\ (\A d \in Clients : ClientOK(d)')
      /\ RouteCurrent'
  <2>1. current \in [Clients -> Nat]
    BY <1>0, Positions DEF TypeOK
  <2>. QED BY <1>6, <2>1, ReleasingViews
<1>8. OpOK(c)'
  <2>1. att'[a].client = c /\ a \in DOMAIN att' /\ a \in Nat \ {0}
    BY <1>0, <1>1, AttFacts
  <2>2. why = "switch" => /\ current[c] \in {a, 0} /\ h \in DOMAIN handle
                          /\ Head1(c).kind = "attach"
    BY <1>0 DEF OpOK
  <2>. QED BY <1>2, <1>4, <2>1, <2>2 DEF OpOK, Head1
<1>9. \A b \in DOMAIN att' : ReleaseOK(b)'
  <2>1. \A b \in DOMAIN att : att[b].release \in {"calls", "lease"} /\ att[b].why \in Own =>
          att[b].client # c
    BY NoneOfItsOwn
  <2>2. \A b \in DOMAIN att : att[b].client \in Clients
    BY <1>0, AttFacts
  <2>3. \A b \in DOMAIN att : att[b].release \in {"calls", "lease"} /\ att[b].why \in Own =>
          /\ op'[att[b].client].att = op[att[b].client].att
          /\ op'[att[b].client].pc = op[att[b].client].pc
    BY <1>4, <2>1, <2>2
  <2>. DEFINE A == {a}
  <2>4. \A b \in DOMAIN att : b \in A =>
          /\ why = "disconnect" => att[b].client \notin online'
          /\ why \in Own => /\ op'[att[b].client].att = b
                            /\ op'[att[b].client].pc = IF why = "switch" THEN "switching"
                                                                        ELSE "leaving"
    BY <1>2, <1>4
  <2>5. Closing => Closing'
    BY DEF Closing
  <2>6. /\ att' = Releasing(A, why) /\ call' = call /\ online' \subseteq online
        /\ why = "shutdown" => Closing'
    OBVIOUS
  <2>7. \A b \in DOMAIN att : ReleaseOK(b)
    BY <1>0
  <2>. HIDE DEF A
  <2>8. TypeOK
    BY <1>0
  <2>. QED BY <1>6, <2>3, <2>4, <2>5, <2>6, <2>7, <2>8, ReleasingOK
<1>10. ASSUME NEW b \in DOMAIN att PROVE Accounted(b)'
  <2>1. SUFFICES ASSUME att'[b].lease = "held", att'[b].release = "none" PROVE Accounted(b)'
    BY DEF Accounted
  <2>2. att'[b] = att[b] /\ Session(b)' = Session(b)
    BY <1>0, <1>1, <1>6, <2>1, ReleasingFacts DEF Session
  <2>3. Accounted(b)
    BY <1>0
  <2>. QED BY <2>1, <2>2, <2>3 DEF Accounted
<1>11. (\A s \in Sessions : SessionOK(s)') /\ (\A k \in DOMAIN handle' : HandleOK(k)') /\ Offline'
  BY DEF IInv, SessionOK, HandleOK, Offline
<1>. QED BY <1>1, <1>4, <1>5, <1>7, <1>8, <1>9, <1>10, <1>11 DEF IInv

\* A detach or a disconnect starts to release what the client has.
LEMMA StartLeaveOK ==
  ASSUME IInv, NEW c \in Clients, StartLeave(c)
  PROVE  IInv'
<1>0. TypeOK /\ OpOK(c) /\ ClientOK(c)
  BY DEF IInv
<1>1. /\ queue[c] # <<>> /\ op[c].pc = "idle" /\ Head1(c).kind \in {"detach", "disconnect"}
      /\ UNCHANGED <<hosted, opening, current, handle, removal, online, route, call, events>>
  BY DEF StartLeave, Starts
<1>2. Head1(c).kind = "disconnect" => c \notin online
  BY <1>0, <1>1, HeadFacts DEF ClientOK
<1>3. CASE current[c] = 0
  BY <1>1, <1>3, EndsOK DEF StartLeave
<1>4. CASE current[c] # 0
  <2>1. current[c] \in DOMAIN att /\ att[current[c]].client = c
    BY <1>0, <1>4 DEF TypeOK, ClientOK
  <2>2. /\ att' = Releasing({current[c]}, Head1(c).kind)
        /\ At(c, "leaving", current[c], 0)
        /\ UNCHANGED <<queue, refused, shutdown>>
    BY <1>4 DEF StartLeave
  <2>3. At(c, IF Head1(c).kind = "switch" THEN "switching" ELSE "leaving", current[c], 0)
    BY <1>1, <2>2
  <2>. QED BY <1>1, <1>2, <2>1, <2>2, <2>3, LeavingOK
<1>. QED BY <1>3, <1>4

\* A release that an operation waited for is over.
LEMMA LeftOK ==
  ASSUME IInv, NEW c \in Clients, Left(c)
  PROVE  IInv'
<1>1. queue[c] # <<>> /\ att[op[c].att].release = "cleared"
  BY DEF IInv, TypeOK, Left
<1>. QED BY <1>1, EndsOK DEF Left

\* A call is admitted: no release of the client's own is under way.
LEMMA StartCallOK ==
  ASSUME IInv, NEW c \in Clients, StartCall(c)
  PROVE  IInv'
<1>0. TypeOK /\ (\A b \in DOMAIN att : ReleaseOK(b)) /\ ClientOK(c)
  BY DEF IInv
<1>. DEFINE k == Head1(c).call
            state == IF ~Refuses(c) /\ current[c] = call[k].att THEN "running" ELSE "over"
<1>1. /\ queue[c] # <<>> /\ op[c].pc = "idle" /\ Finish({c})
      /\ call' = [call EXCEPT ![k].state = state]
      /\ UNCHANGED <<hosted, opening, current, att, handle, removal, online, route, events>>
  BY DEF StartCall, Starts
<1>2. call \in Seq(ServiceCalls)
  BY <1>0 DEF TypeOK
<1>3. state \in {"running", "over"}
      /\ (state = "running" => ~Refuses(c) /\ current[c] = call[k].att)
  OBVIOUS
<1>. HIDE DEF k, state
<1>4. /\ call' \in Seq(ServiceCalls) /\ DOMAIN call' = DOMAIN call
      /\ \A j \in DOMAIN call : j # k => call'[j] = call[j]
      /\ k \in DOMAIN call => call'[k].state = state /\ call'[k].att = call[k].att
  <2>1. \A j \in DOMAIN call : call[j] \in ServiceCalls
    BY <1>2, Positions
  <2>2. call' \in [DOMAIN call -> ServiceCalls]
    BY <1>1, <1>2, <1>3, <2>1, LenProperties DEF ServiceCalls
  <2>3. call' \in Seq(ServiceCalls) /\ DOMAIN call' = DOMAIN call
    BY <1>2, <2>2, SamePositions
  <2>. QED BY <1>1, <2>1, <2>3 DEF ServiceCalls
<1>5. ASSUME NEW b \in DOMAIN att, att[b].release = "calls",
             att[b].why \notin {"removed", "terminated"}
      PROVE  Running(b)' \subseteq Running(b)
  <2>1. SUFFICES ASSUME k \in DOMAIN call, state = "running", call[k].att = b PROVE FALSE
    BY <1>1, <1>4 DEF Running
  <2>2. current[c] = b /\ ~Refuses(c) /\ att[b].client = c
    BY <1>0, <1>3, <2>1, AttFacts DEF ClientOK
  <2>3. att[b].why \notin Own
    BY <1>1, <1>5, <2>2, NoneOfItsOwn
  <2>4. att[b].why \in Whys
    BY <1>0, AttFacts DEF Attachments, Whys
  <2>. QED BY <1>0, <1>5, <2>2, <2>3, <2>4 DEF ReleaseOK, Refuses, Own, Whys
<1>. QED BY <1>1, <1>4, <1>5, FinishOK

\* A new attachment belongs to the operation that leases it.
LEMMA NewAttachmentOK ==
  ASSUME IInv, NEW c \in Clients, op[c].pc \in {"acquired", "switching"}, current[c] = 0,
         op[c].pc = "switching" => att[op[c].att].release = "cleared",
         NewAttachment(c, op[c].handle),
         UNCHANGED <<queue, refused, shutdown, hosted, opening, current, handle, removal, online,
                     route, call>>
  PROVE  IInv'
<1>0. TypeOK /\ (\A d \in Clients : OpOK(d) /\ ClientOK(d))
      /\ (\A b \in DOMAIN att : Accounted(b) /\ ReleaseOK(b))
  BY DEF IInv
<1>. DEFINE h == op[c].handle
            n == Len(att) + 1
            r == [NoAtt EXCEPT !.client = c, !.handle = h, !.lease = "acquiring", !.listed = TRUE]
<1>1. /\ h \in DOMAIN handle /\ h \in Nat /\ queue[c] # <<>> /\ Head1(c).kind = "attach"
      /\ att \in Seq(Attachments) /\ op \in [Clients -> Standings]
  <2>1. h \in DOMAIN handle /\ Head1(c).kind = "attach"
    BY <1>0 DEF OpOK
  <2>. QED BY <1>0, <2>1, Positions DEF TypeOK
<1>2. att' = Append(att, r) /\ op' = [op EXCEPT ![c] = [pc |-> "leasing", att |-> n, handle |-> h]]
  BY DEF NewAttachment, At
<1>. HIDE DEF h
<1>3. /\ r \in Attachments /\ r.client = c /\ r.handle = h /\ r.lease = "acquiring"
      /\ r.listed = TRUE /\ r.release = "none" /\ r.why = "none"
  BY <1>1 DEF NoAtt, Attachments
<1>. HIDE DEF r
<1>4. /\ att' \in Seq(Attachments) /\ DOMAIN att' = DOMAIN att \cup {n}
      /\ \A b \in DOMAIN att : att'[b] = att[b]
      /\ att'[n] = r /\ n \notin DOMAIN att /\ n \in Nat \ {0}
  BY <1>1, <1>2, <1>3, OneAdded
<1>. HIDE DEF n
<1>5. /\ op' \in [Clients -> Standings] /\ op'[c] = [pc |-> "leasing", att |-> n, handle |-> h]
      /\ \A d \in Clients : d # c => op'[d] = op[d]
  BY <1>1, <1>2, <1>4 DEF Standings
<1>6. TypeOK'
  <2>1. \A b \in DOMAIN att' : att'[b].handle \in DOMAIN handle
    BY <1>0, <1>1, <1>3, <1>4 DEF TypeOK
  <2>2. /\ current' \in [Clients -> DOMAIN att' \cup {0}]
        /\ route' \in [Clients -> DOMAIN att' \cup {0}]
    BY <1>0, <1>4 DEF TypeOK
  <2>. QED BY <1>0, <1>1, <1>4, <1>5, <2>1, <2>2 DEF TypeOK
<1>7. ASSUME NEW d \in Clients PROVE OpOK(d)' /\ ClientOK(d)'
  <2>1. ClientOK(d)'
    <3>1. current[d] # 0 => current[d] \in DOMAIN att
      BY <1>0 DEF TypeOK
    <3>. QED BY <1>0, <1>4, <3>1 DEF ClientOK
  <2>2. CASE d = c
    BY <1>1, <1>3, <1>4, <1>5, <2>1, <2>2 DEF OpOK, Head1
  <2>3. CASE d # c
    BY <1>0, <1>4, <1>5, <2>1, <2>3 DEF OpOK, Head1
  <2>. QED BY <2>2, <2>3
<1>8. ASSUME NEW b \in DOMAIN att' PROVE Accounted(b)' /\ ReleaseOK(b)'
  <2>1. CASE b = n
    BY <1>3, <1>4, <2>1 DEF Accounted, ReleaseOK
  <2>2. CASE b \in DOMAIN att
    <3>1. att'[b] = att[b] /\ Accounted(b) /\ ReleaseOK(b) /\ att[b].client \in Clients
      BY <1>0, <1>4, <2>2, AttFacts
    <3>2. Accounted(b)'
      BY <3>1 DEF Accounted, Session
    <3>3. att[b].release \in {"calls", "lease"} /\ att[b].why \in Own => att[b].client # c
      BY <2>2, NoneOfItsOwn
    <3>4. Running(b)' = Running(b) /\ (Closing => Closing')
      BY DEF Running, Closing
    <3>. QED BY <1>5, <2>2, <3>1, <3>2, <3>3, <3>4, KeptRelease
  <2>. QED BY <1>4, <2>1, <2>2
<1>9. (\A s \in Sessions : SessionOK(s)') /\ (\A k \in DOMAIN handle' : HandleOK(k)')
      /\ Offline'
  BY DEF IInv, SessionOK, HandleOK, Offline
<1>10. RouteCurrent'
  <2>1. \A d \in online : d \in Clients /\ (route[d] # 0 => route[d] \in DOMAIN att)
    BY <1>0 DEF TypeOK
  <2>. QED BY <1>4, <2>1 DEF IInv, RouteCurrent
<1>. QED BY <1>6, <1>7, <1>8, <1>9, <1>10 DEF IInv

\* An attach has its handle.
LEMMA AcquiredOK ==
  ASSUME IInv, NEW c \in Clients, Acquired(c)
  PROVE  IInv'
<1>0. TypeOK /\ OpOK(c) /\ ClientOK(c)
  BY DEF IInv
<1>1. /\ op[c].pc = "acquired" /\ queue[c] # <<>>
      /\ UNCHANGED <<hosted, opening, current, handle, removal, online, route, call, events>>
  BY <1>0 DEF Acquired, TypeOK
<1>2. CASE Finish({c}) /\ UNCHANGED att
  BY <1>1, <1>2, EndsOK
<1>3. CASE /\ op[c].att # 0 /\ att' = Releasing({op[c].att}, "switch")
           /\ At(c, "switching", op[c].att, op[c].handle)
           /\ UNCHANGED <<queue, refused, shutdown>>
  <2>1. op[c].att \in DOMAIN att /\ att[op[c].att].client = c
    BY <1>0, <1>1, <1>3 DEF OpOK
  <2>2. op[c].handle \in Nat
    BY <1>0 DEF TypeOK, Standings
  <2>. QED BY <1>1, <1>3, <2>1, <2>2, LeavingOK
<1>4. CASE /\ op[c].att = 0 /\ NewAttachment(c, op[c].handle)
           /\ UNCHANGED <<queue, refused, shutdown>>
  <2>1. current[c] = 0
    BY <1>0, <1>1, <1>4 DEF OpOK
  <2>. QED BY <1>1, <1>4, <2>1, NewAttachmentOK
<1>. QED BY <1>2, <1>3, <1>4 DEF Acquired

\* An attach has left the attachment before it.
LEMMA SwitchedOK ==
  ASSUME IInv, NEW c \in Clients, Switched(c)
  PROVE  IInv'
<1>0. TypeOK /\ OpOK(c) /\ ClientOK(c)
  BY DEF IInv
<1>1. /\ op[c].pc = "switching" /\ att[op[c].att].release = "cleared" /\ queue[c] # <<>>
      /\ UNCHANGED <<hosted, opening, current, handle, removal, online, route, call, events>>
  BY <1>0 DEF Switched, TypeOK
<1>2. CASE Finish({c}) /\ UNCHANGED att
  BY <1>1, <1>2, EndsOK
<1>3. CASE NewAttachment(c, op[c].handle) /\ UNCHANGED <<queue, refused, shutdown>>
  <2>1. current[c] = 0
    BY <1>0, <1>1 DEF OpOK, ClientOK
  <2>. QED BY <1>1, <1>3, <2>1, NewAttachmentOK
<1>. QED BY <1>2, <1>3 DEF Switched

\* The operation that was leasing an attachment learns what became of it; the
\* other clients are as they were.
LEMMA LeaseArrives ==
  ASSUME IInv, NEW c \in Clients, op[c].pc = "leasing", NEW a \in DOMAIN att, a = op[c].att,
         NEW r \in Attachments, r.client = c, r.handle = att[a].handle,
         att' = [att EXCEPT ![a] = r],
         UNCHANGED <<hosted, opening, handle, removal, online, call>>,
         queue' \in [Clients -> Seq(Operations)], op' \in [Clients -> Standings],
         refused' \subseteq Clients, shutdown' \in Shutdowns, shutdown'.pc = shutdown.pc,
         \A d \in Clients : d # c => op'[d] = op[d] /\ queue'[d] = queue[d],
         op'[c].pc # "idle" => queue'[c] # <<>>,
         current' \in [Clients -> DOMAIN att \cup {0}], route' \in [Clients -> DOMAIN att \cup {0}],
         \A d \in Clients : d # c => current'[d] = current[d] /\ route'[d] = route[d],
         \/ current'[c] = current[c] /\ route'[c] = route[c]
         \/ current'[c] = a /\ (c \in online => route'[c] = a),
         OpOK(c)', ClientOK(c)', Accounted(a)', ReleaseOK(a)'
  PROVE  IInv'
<1>0. TypeOK /\ (\A d \in Clients : OpOK(d) /\ ClientOK(d))
      /\ (\A b \in DOMAIN att : Accounted(b) /\ ReleaseOK(b))
  BY DEF IInv
<1>1. att[a].client = c /\ att[a].why \notin Own /\ current[c] = 0
  <2>1. att[a].client = c /\ current[c] = 0 /\ att[a].lease = "acquiring"
    BY <1>0 DEF OpOK
  <2>2. att[a].release \in {"none", "calls"}
    BY <1>0, <2>1 DEF ReleaseOK
  <2>3. att[a].why \notin Own
    BY <1>0, <2>1, <2>2 DEF ReleaseOK, Own
  <2>. QED BY <2>1, <2>3
<1>2. /\ att' \in Seq(Attachments) /\ DOMAIN att' = DOMAIN att /\ att'[a] = r
      /\ \A b \in DOMAIN att : b # a => att'[b] = att[b]
  BY <1>0, OneReplaced DEF TypeOK
<1>3. \A b \in DOMAIN att : att'[b].client = att[b].client /\ att'[b].handle = att[b].handle
  BY <1>1, <1>2
<1>4. TypeOK'
  <2>1. \A d \in Clients : op'[d].pc # "idle" => queue'[d] # <<>>
    BY <1>0 DEF TypeOK
  <2>2. \A b \in DOMAIN att' : att'[b].handle \in DOMAIN handle'
    BY <1>0, <1>2, <1>3 DEF TypeOK
  <2>. QED BY <1>0, <1>2, <2>1, <2>2 DEF TypeOK
<1>5. ASSUME NEW d \in Clients, d # c PROVE OpOK(d)' /\ ClientOK(d)'
  <2>1. /\ op'[d] = op[d] /\ queue'[d] = queue[d] /\ current'[d] = current[d]
    BY <1>5
  <2>2. OpOK(d) /\ ClientOK(d) /\ (current[d] # 0 => current[d] \in DOMAIN att)
    BY <1>0 DEF TypeOK
  <2>3. OpOK(d)'
    BY <1>1, <1>2, <1>3, <1>5, <2>1, <2>2 DEF OpOK, Head1
  <2>4. ClientOK(d)'
    BY <1>1, <1>2, <1>3, <1>5, <2>1, <2>2 DEF ClientOK
  <2>. QED BY <2>3, <2>4
<1>6. ASSUME NEW b \in DOMAIN att, b # a PROVE Accounted(b)' /\ ReleaseOK(b)'
  <2>1. /\ Running(b)' = Running(b) /\ (Closing' <=> Closing)
        /\ att[b].client \in Clients /\ b \in Nat \ {0} /\ Session(b)' = Session(b)
    BY <1>0, <1>2, <1>3, AttFacts DEF Running, Closing, Session
  <2>2. current[att[b].client] = b => current'[att[b].client] = b
    BY <1>1, <2>1
  <2>3. Accounted(b)'
    BY <1>0, <1>2, <1>6, <2>1, <2>2 DEF Accounted
  <2>4. att[b].release \in {"calls", "lease"} /\ att[b].why \in Own => att[b].client # c
    BY NoneOfItsOwn
  <2>5. ReleaseOK(b)'
    BY <1>0, <1>2, <1>6, <2>1, <2>4, KeptRelease
  <2>. QED BY <2>3, <2>5
<1>7. (\A s \in Sessions : SessionOK(s)') /\ (\A k \in DOMAIN handle' : HandleOK(k)') /\ Offline'
  BY DEF IInv, SessionOK, HandleOK, Offline
<1>8. RouteCurrent'
  <2>1. SUFFICES ASSUME NEW d \in online, route'[d] # current'[d]
                 PROVE  route'[d] # 0 /\ att'[route'[d]].why = "switch"
    BY DEF RouteCurrent
  <2>2. d \in Clients /\ route[d] = route'[d] /\ route[d] # current[d]
    BY <1>0, <2>1 DEF TypeOK
  <2>3. route[d] # 0 /\ route[d] \in DOMAIN att /\ att[route[d]].why = "switch"
    BY <1>0, <2>2 DEF IInv, RouteCurrent, TypeOK
  <2>4. route[d] # a
    BY <1>1, <2>3 DEF Own
  <2>. QED BY <1>2, <2>2, <2>3, <2>4
<1>9. (\A d \in Clients : OpOK(d)' /\ ClientOK(d)') /\ (\A b \in DOMAIN att' : Accounted(b)' /\ ReleaseOK(b)')
  BY <1>2, <1>5, <1>6
<1>. QED BY <1>4, <1>7, <1>8, <1>9 DEF IInv

\* The attachment that an operation is leasing.
LEMMA LeasingFacts ==
  ASSUME IInv, NEW c \in Clients, op[c].pc = "leasing"
  PROVE  LET a == op[c].att
         IN  /\ queue[c] # <<>> /\ current[c] = 0 /\ op[c].handle \in Nat
             /\ a \in DOMAIN att /\ att[a] \in Attachments /\ att[a].client = c
             /\ att[a].handle = op[c].handle /\ att[a].lease = "acquiring"
             /\ att[a].release \in {"none", "calls"} /\ att[a].why \notin Own
             /\ ReleaseOK(a) /\ a \in Nat \ {0} /\ Running(a) \in SUBSET Nat
<1>. DEFINE a == op[c].att
<1>0. TypeOK /\ OpOK(c) /\ op \in [Clients -> Standings]
  BY DEF IInv, TypeOK
<1>1. /\ queue[c] # <<>> /\ current[c] = 0 /\ op[c].handle \in Nat
      /\ a \in DOMAIN att /\ att[a].client = c
      /\ att[a].handle = op[c].handle /\ att[a].lease = "acquiring"
  BY <1>0 DEF OpOK, TypeOK, Standings
<1>2. att[a] \in Attachments /\ ReleaseOK(a) /\ a \in Nat \ {0}
  BY <1>0, <1>1, AttFacts DEF IInv
<1>. HIDE DEF a
<1>3. att[a].release \in {"none", "calls"}
  BY <1>1, <1>2 DEF ReleaseOK
<1>4. att[a].why \notin Own
  <2>1. a = op[c].att
    BY DEF a
  <2>. QED BY <1>1, <1>2, <1>3, <2>1 DEF ReleaseOK, Own
<1>5. Running(a) \in SUBSET Nat
  BY <1>0, Positions DEF Running, TypeOK
<1>. QED BY <1>1, <1>2, <1>3, <1>4, <1>5 DEF a

\* The operation of one client ends: the form in which LeaseArrives asks it.
LEMMA OneFinishes ==
  ASSUME TypeOK, NEW c \in Clients, queue[c] # <<>>, Finish({c})
  PROVE  /\ queue' \in [Clients -> Seq(Operations)] /\ op' \in [Clients -> Standings]
         /\ refused' \subseteq Clients /\ shutdown' \in Shutdowns
         /\ shutdown'.pc = shutdown.pc /\ op'[c].pc = "idle"
         /\ \A d \in Clients : d # c => op'[d] = op[d] /\ queue'[d] = queue[d]
         /\ Members(queue'[c]) \subseteq Members(queue[c])
<1>1. /\ queue' \in [Clients -> Seq(Operations)] /\ op' \in [Clients -> Standings]
      /\ refused' \subseteq Clients /\ shutdown' \in Shutdowns
      /\ shutdown'.pc = shutdown.pc
      /\ \A d \in {c} : op'[d].pc = "idle"
      /\ \A d \in Clients \ {c} : op'[d] = op[d] /\ queue'[d] = queue[d]
      /\ \A d \in Clients : Members(queue'[d]) \subseteq Members(queue[d])
  BY FinishFacts
<1>. QED BY <1>1

\* The handle was closing and threw.
LEMMA LeaseRefused ==
  ASSUME IInv, NEW c \in Clients, op[c].pc = "leasing", NEW a, a = op[c].att,
         att' = [att EXCEPT ![a].lease = "none", ![a].listed = FALSE], Finish({c}),
         UNCHANGED <<current, route, hosted, opening, handle, removal, online, call>>
  PROVE  IInv'
<1>0. TypeOK /\ ClientOK(c)
  BY DEF IInv
<1>1. /\ queue[c] # <<>> /\ current[c] = 0
      /\ a \in DOMAIN att /\ att[a] \in Attachments /\ att[a].client = c
      /\ att[a].lease = "acquiring" /\ att[a].release \in {"none", "calls"} /\ att[a].why \notin Own
      /\ ReleaseOK(a)
  BY LeasingFacts
<1>. DEFINE r == [att[a] EXCEPT !.lease = "none", !.listed = FALSE]
<1>2. /\ r \in Attachments /\ r.client = c /\ r.handle = att[a].handle /\ r.lease = "none"
      /\ r.release = att[a].release /\ r.why = att[a].why /\ r.waits = att[a].waits
  BY <1>1 DEF Attachments
<1>3. att' = [att EXCEPT ![a] = r]
  BY <1>1
<1>. HIDE DEF r
<1>4. att'[a] = r
  BY <1>0, <1>1, <1>2, <1>3, OneReplaced DEF TypeOK
<1>5. /\ queue' \in [Clients -> Seq(Operations)] /\ op' \in [Clients -> Standings]
      /\ refused' \subseteq Clients /\ shutdown' \in Shutdowns
      /\ shutdown'.pc = shutdown.pc /\ op'[c].pc = "idle"
      /\ \A d \in Clients : d # c => op'[d] = op[d] /\ queue'[d] = queue[d]
      /\ Members(queue'[c]) \subseteq Members(queue[c])
  BY <1>0, <1>1, OneFinishes
<1>6. OpOK(c)' /\ ClientOK(c)'
  BY <1>0, <1>1, <1>5 DEF OpOK, ClientOK
<1>7. Accounted(a)' /\ ReleaseOK(a)'
  <2>1. (Closing => Closing') /\ Running(a)' \subseteq Running(a)
    BY <1>5 DEF Closing, Running
  <2>. QED BY <1>1, <1>2, <1>4, <2>1 DEF Accounted, ReleaseOK
<1>8. current \in [Clients -> DOMAIN att \cup {0}] /\ route \in [Clients -> DOMAIN att \cup {0}]
  BY <1>0 DEF TypeOK
<1>. QED BY <1>1, <1>2, <1>3, <1>5, <1>6, <1>7, <1>8, LeaseArrives

\* Still wanted, the attachment becomes the client's.
LEMMA LeaseInstalled ==
  ASSUME IInv, NEW c \in Clients, op[c].pc = "leasing", NEW a, a = op[c].att,
         StillWanted(c, a, op[c].handle),
         att' = [att EXCEPT ![a].lease = "held"], Finish({c}),
         current' = [current EXCEPT ![c] = a],
         route' = IF c \in online THEN [route EXCEPT ![c] = a] ELSE route,
         UNCHANGED <<hosted, opening, handle, removal, online, call>>
  PROVE  IInv'
<1>0. TypeOK /\ ClientOK(c)
  BY DEF IInv
<1>1. /\ queue[c] # <<>> /\ current[c] = 0
      /\ a \in DOMAIN att /\ att[a] \in Attachments /\ att[a].client = c
      /\ att[a].handle = op[c].handle /\ att[a].lease = "acquiring"
      /\ att[a].release \in {"none", "calls"} /\ att[a].why \notin Own
      /\ ReleaseOK(a) /\ a \in Nat \ {0}
  BY LeasingFacts
<1>. DEFINE r == [att[a] EXCEPT !.lease = "held"]
<1>2. /\ r \in Attachments /\ r.client = c /\ r.handle = att[a].handle /\ r.lease = "held"
      /\ r.release = att[a].release /\ r.why = att[a].why /\ r.waits = att[a].waits
      /\ r.listed = att[a].listed
  BY <1>1 DEF Attachments
<1>3. att' = [att EXCEPT ![a] = r]
  BY <1>1
<1>. HIDE DEF r
<1>4. att'[a] = r
  BY <1>0, <1>1, <1>2, <1>3, OneReplaced DEF TypeOK
<1>5. /\ queue' \in [Clients -> Seq(Operations)] /\ op' \in [Clients -> Standings]
      /\ refused' \subseteq Clients /\ shutdown' \in Shutdowns
      /\ shutdown'.pc = shutdown.pc /\ op'[c].pc = "idle"
      /\ \A d \in Clients : d # c => op'[d] = op[d] /\ queue'[d] = queue[d]
      /\ Members(queue'[c]) \subseteq Members(queue[c])
  BY <1>0, <1>1, OneFinishes
<1>6. /\ current' \in [Clients -> DOMAIN att \cup {0}] /\ route' \in [Clients -> DOMAIN att \cup {0}]
      /\ current'[c] = a /\ (c \in online => route'[c] = a)
      /\ \A d \in Clients : d # c => current'[d] = current[d] /\ route'[d] = route[d]
  <2>1. current \in [Clients -> DOMAIN att \cup {0}] /\ route \in [Clients -> DOMAIN att \cup {0}]
    BY <1>0 DEF TypeOK
  <2>. QED BY <1>1, <2>1
<1>7. OpOK(c)' /\ ClientOK(c)'
  BY <1>0, <1>1, <1>2, <1>4, <1>5, <1>6 DEF OpOK, ClientOK
<1>8. Accounted(a)'
  <2>1. hosted[handle[op[c].handle].session] = op[c].handle /\ shutdown.pc = "none"
    BY DEF StillWanted, Refuses, Closing
  <2>2. Session(a)' = handle[op[c].handle].session
    BY <1>1, <1>2, <1>4 DEF Session
  <2>3. hosted'[Session(a)'] = att'[a].handle
    <3>1. hosted' = hosted /\ att'[a].handle = op[c].handle
      BY <1>1, <1>2, <1>4
    <3>. QED BY <2>1, <2>2, <3>1
  <2>5. shutdown'.pc = "none"
    BY <1>5, <2>1
  <2>4. current'[att'[a].client] = a
    BY <1>2, <1>4, <1>6
  <2>. QED BY <2>3, <2>4, <2>5 DEF Accounted
<1>9. ReleaseOK(a)'
  <2>1. (Closing => Closing') /\ Running(a)' \subseteq Running(a)
    BY <1>5 DEF Closing, Running
  <2>. QED BY <1>1, <1>2, <1>4, <2>1 DEF ReleaseOK
<1>. QED BY <1>1, <1>2, <1>3, <1>5, <1>6, <1>7, <1>8, <1>9, LeaseArrives, ZenonT(60)

\* No longer wanted, it is released again.
LEMMA LeaseReturned ==
  ASSUME IInv, NEW c \in Clients, op[c].pc = "leasing", NEW a, a = op[c].att,
         NEW kept, kept = [att[a] EXCEPT !.lease = "held"],
         att' = [att EXCEPT ![a] = Released(kept, a, "unwanted")],
         At(c, "leaving", a, op[c].handle),
         UNCHANGED <<current, route, queue, refused, shutdown, hosted, opening, handle, removal,
                     online, call>>
  PROVE  IInv'
<1>0. TypeOK /\ ClientOK(c)
  BY DEF IInv
<1>1. /\ queue[c] # <<>> /\ current[c] = 0 /\ op[c].handle \in Nat
      /\ a \in DOMAIN att /\ att[a] \in Attachments /\ att[a].client = c
      /\ att[a].lease = "acquiring"
      /\ att[a].release \in {"none", "calls"} /\ att[a].why \notin Own
      /\ ReleaseOK(a) /\ a \in Nat \ {0} /\ Running(a) \in SUBSET Nat
  BY LeasingFacts
<1>2. /\ kept \in Attachments /\ kept.client = c /\ kept.handle = att[a].handle
      /\ kept.lease = "held" /\ kept.release = att[a].release /\ kept.why = att[a].why
      /\ kept.waits = att[a].waits /\ kept.listed = att[a].listed
  BY <1>1 DEF Attachments
<1>. DEFINE r == Released(kept, a, "unwanted")
<1>3. /\ r \in Attachments /\ r.client = c /\ r.handle = att[a].handle /\ r.lease = "held"
      /\ r.release = "calls" /\ r.listed = att[a].listed
      /\ IF att[a].release = "none" THEN r.why = "unwanted" /\ r.waits = Running(a)
                                    ELSE r.why = att[a].why /\ r.waits = att[a].waits
  <2>1. CASE att[a].release = "none"
    <3>1. r = [kept EXCEPT !.release = "calls", !.why = "unwanted", !.waits = Running(a)]
      BY <1>2, <2>1 DEF Released
    <3>2. kept \in Attachments /\ Running(a) \in SUBSET Nat
      BY <1>1, <1>2
    <3>. HIDE DEF r
    <3>3. /\ r \in Attachments /\ r.client = kept.client /\ r.handle = kept.handle
          /\ r.lease = kept.lease /\ r.listed = kept.listed
          /\ r.release = "calls" /\ r.why = "unwanted" /\ r.waits = Running(a)
      BY <3>1, <3>2, ZenonT(60) DEF Attachments
    <3>. QED BY <1>2, <2>1, <3>3
  <2>2. CASE att[a].release = "calls"
    BY <1>1, <1>2, <2>2 DEF Released
  <2>. QED BY <1>1, <2>1, <2>2
<1>4. att' = [att EXCEPT ![a] = r]
  OBVIOUS
<1>. HIDE DEF r
<1>5. att'[a] = r
  BY <1>0, <1>1, <1>3, <1>4, OneReplaced DEF TypeOK
<1>6. /\ op' \in [Clients -> Standings] /\ op'[c] = [pc |-> "leaving", att |-> a, handle |-> op[c].handle]
      /\ \A d \in Clients : d # c => op'[d] = op[d] /\ queue'[d] = queue[d]
  <2>1. op \in [Clients -> Standings]
    BY <1>0 DEF TypeOK
  <2>. QED BY <1>1, <2>1 DEF At, Standings
<1>7. OpOK(c)' /\ ClientOK(c)'
  <2>1. a \in DOMAIN att'
    BY <1>1, <1>4
  <2>. QED BY <1>0, <1>1, <1>3, <1>5, <1>6, <2>1 DEF OpOK, ClientOK
<1>8. Accounted(a)' /\ ReleaseOK(a)'
  <2>1. (Closing => Closing') /\ Running(a)' = Running(a)
    BY DEF Closing, Running
  <2>2. Accounted(a)'
    BY <1>3, <1>5 DEF Accounted
  <2>3. CASE att[a].release = "none"
    BY <1>1, <1>3, <1>5, <1>6, <2>1, <2>2, <2>3 DEF ReleaseOK
  <2>4. CASE att[a].release # "none"
    BY <1>1, <1>3, <1>5, <2>1, <2>2, <2>4 DEF ReleaseOK
  <2>. QED BY <2>3, <2>4
<1>9. /\ current \in [Clients -> DOMAIN att \cup {0}] /\ route \in [Clients -> DOMAIN att \cup {0}]
      /\ queue' \in [Clients -> Seq(Operations)] /\ refused' \subseteq Clients
      /\ shutdown' \in Shutdowns
  BY <1>0 DEF TypeOK
<1>. QED BY <1>1, <1>3, <1>4, <1>6, <1>7, <1>8, <1>9, LeaseArrives

\* A lease arrives.
LEMMA LeasedOK ==
  ASSUME IInv, NEW c \in Clients, Leased(c)
  PROVE  IInv'
<1>. DEFINE a == op[c].att
            held == [att EXCEPT ![a].lease = "held"]
<1>1. /\ op[c].pc = "leasing"
      /\ UNCHANGED <<hosted, opening, handle, removal, online, call, events>>
  BY DEF Leased
<1>2. CASE /\ att' = [att EXCEPT ![a].lease = "none", ![a].listed = FALSE]
           /\ Finish({c}) /\ UNCHANGED <<current, route>>
  BY <1>1, <1>2, LeaseRefused
<1>3. CASE /\ StillWanted(c, a, op[c].handle)
           /\ att' = held /\ current' = [current EXCEPT ![c] = a]
           /\ route' = IF c \in online THEN [route EXCEPT ![c] = a] ELSE route
           /\ Finish({c})
  BY <1>1, <1>3, LeaseInstalled
<1>4. CASE /\ att' = [held EXCEPT ![a] = Released(held[a], a, "unwanted")]
           /\ At(c, "leaving", a, op[c].handle)
           /\ UNCHANGED <<current, route, queue, refused, shutdown>>
  <2>1. a \in DOMAIN att
    BY <1>1, LeasingFacts
  <2>2. held[a] = [att[a] EXCEPT !.lease = "held"]
    BY <2>1
  <2>3. att' = [att EXCEPT ![a] = Released(held[a], a, "unwanted")]
    BY <1>4, <2>1
  <2>. QED BY <1>1, <1>4, <2>2, <2>3, LeaseReturned
<1>. QED BY <1>2, <1>3, <1>4 DEF Leased

-----------------------------------------------------------------------------
(***************************************************************************)
(* Handles that open.                                                      *)
(***************************************************************************)

\* The clients that wait for a Session are in the queue of their attach.
LEMMA WaitingFacts ==
  ASSUME TypeOK, NEW s \in Sessions
  PROVE  /\ Waiting(s) \in SUBSET Clients
         /\ \A c \in Waiting(s) : queue[c] # <<>> /\ op[c].pc = "opening"
BY DEF Waiting, TypeOK

\* A Session does not open: the attaches that waited are over.
LEMMA OpenFailsOK ==
  ASSUME IInv, NEW s \in Sessions, OpenFails(s)
  PROVE  IInv'
<1>1. /\ opening' \subseteq opening /\ Finish(Waiting(s))
      /\ UNCHANGED <<hosted, current, att, handle, removal, online, route, call>>
  BY DEF OpenFails
<1>2. /\ Waiting(s) \in SUBSET Clients
      /\ \A c \in Waiting(s) : queue[c] # <<>> /\ op[c].pc = "opening"
  BY WaitingFacts DEF IInv
<1>3. call' \in Seq(ServiceCalls) /\ \A a \in DOMAIN att : Running(a)' \subseteq Running(a)
  BY <1>1 DEF IInv, TypeOK, Running
<1>. QED BY <1>1, <1>2, <1>3, FinishOK

\* A Session opens: it is registered, or closed when the server drains.
LEMMA OpenedOK ==
  ASSUME IInv, NEW s \in Sessions, Opened(s)
  PROVE  IInv'
<1>0. TypeOK /\ (\A d \in Clients : OpOK(d) /\ ClientOK(d))
      /\ (\A b \in DOMAIN att : Accounted(b) /\ ReleaseOK(b))
      /\ (\A t \in Sessions : SessionOK(t)) /\ (\A k \in DOMAIN handle : HandleOK(k))
  BY DEF IInv
<1>. DEFINE h == Len(handle) + 1
            W == Waiting(s)
            r == [session |-> s, state |-> IF Closing THEN "closed" ELSE "open"]
<1>1. /\ s \in opening /\ opening' = opening \ {s} /\ handle' = Append(handle, r)
      /\ UNCHANGED <<current, att, removal, online, route, call, events>>
      /\ IF Closing THEN Finish(W) /\ UNCHANGED hosted
         ELSE /\ hosted' = [hosted EXCEPT ![s] = h]
              /\ op' = [c \in Clients |-> IF c \in W THEN [op[c] EXCEPT !.pc = "acquired", !.handle = h]
                                          ELSE op[c]]
              /\ UNCHANGED <<queue, refused, shutdown>>
  BY DEF Opened
<1>2. r \in Opens /\ r.session = s /\ (r.state = "open" <=> ~Closing)
  BY DEF Opens
<1>3. /\ W \in SUBSET Clients /\ \A c \in W : queue[c] # <<>> /\ op[c].pc = "opening"
  BY <1>0, WaitingFacts
<1>. HIDE DEF r, W
<1>4. /\ handle' \in Seq(Opens) /\ DOMAIN handle' = DOMAIN handle \cup {h}
      /\ \A k \in DOMAIN handle : handle'[k] = handle[k]
      /\ handle'[h] = r /\ h \notin DOMAIN handle /\ h \in Nat \ {0}
  <2>1. handle \in Seq(Opens) /\ handle' = Append(handle, r)
    BY <1>0, <1>1 DEF TypeOK
  <2>. QED BY <1>2, <2>1, OneAdded
<1>. HIDE DEF h
<1>5. /\ queue' \in [Clients -> Seq(Operations)] /\ op' \in [Clients -> Standings]
      /\ refused' \subseteq Clients /\ shutdown' \in Shutdowns /\ shutdown'.pc = shutdown.pc
      /\ \A c \in Clients : c \notin W => op'[c] = op[c] /\ queue'[c] = queue[c]
      /\ \A c \in W : \/ op'[c].pc = "idle"
                      \/ /\ op'[c].pc = "acquired" /\ op'[c].att = op[c].att /\ op'[c].handle = h
                         /\ queue'[c] = queue[c]
      /\ \A c \in Clients : Members(queue'[c]) \subseteq Members(queue[c])
  <2>1. CASE Closing
    BY <1>0, <1>1, <1>3, <2>1, FinishFacts
  <2>2. CASE ~Closing
    <3>1. op \in [Clients -> Standings]
      BY <1>0 DEF TypeOK
    <3>2. op' = [c \in Clients |-> IF c \in W THEN [op[c] EXCEPT !.pc = "acquired", !.handle = h]
                                   ELSE op[c]]
          /\ UNCHANGED <<queue, refused, shutdown>>
      BY <1>1, <2>2
    <3>3. ASSUME NEW c \in Clients
          PROVE  /\ op'[c] \in Standings
                 /\ c \notin W => op'[c] = op[c]
                 /\ c \in W => op'[c].pc = "acquired" /\ op'[c].att = op[c].att /\ op'[c].handle = h
      BY <1>4, <3>1, <3>2 DEF Standings
    <3>. QED BY <1>0, <1>3, <3>2, <3>3 DEF TypeOK
  <2>. QED BY <2>1, <2>2
<1>6. /\ hosted' \in [Sessions -> DOMAIN handle' \cup {0}]
      /\ \A t \in Sessions : t # s => hosted'[t] = hosted[t]
      /\ hosted'[s] = IF Closing THEN 0 ELSE h
  <2>1. hosted \in [Sessions -> DOMAIN handle \cup {0}] /\ hosted[s] = 0
    BY <1>0, <1>1 DEF TypeOK, SessionOK
  <2>. QED BY <1>1, <1>4, <2>1
<1>7. TypeOK'
  <2>1. \A b \in DOMAIN att' : att'[b].handle \in DOMAIN handle'
    BY <1>0, <1>1, <1>4 DEF TypeOK
  <2>2. \A c \in Clients : op'[c].pc # "idle" => queue'[c] # <<>>
    BY <1>0, <1>3, <1>5 DEF TypeOK
  <2>. QED BY <1>0, <1>1, <1>4, <1>5, <1>6, <2>1, <2>2 DEF TypeOK
<1>8. ASSUME NEW d \in Clients PROVE OpOK(d)' /\ ClientOK(d)'
  <2>1. ClientOK(d)'
    BY <1>0, <1>1, <1>5 DEF ClientOK
  <2>2. CASE d \notin W
    <3>1. OpOK(d) /\ op'[d] = op[d] /\ queue'[d] = queue[d] /\ att' = att /\ current' = current
      BY <1>0, <1>1, <1>5, <2>2
    <3>2. OpOK(d)'
      BY <1>4, <3>1 DEF OpOK, Head1
    <3>. QED BY <2>1, <3>2
  <2>3. CASE d \in W
    <3>1. OpOK(d) /\ op[d].pc = "opening" /\ att' = att /\ current' = current
      BY <1>0, <1>1, <1>3, <2>3
    <3>2. h \in DOMAIN handle' /\ h \in Nat
      BY <1>4
    <3>3. CASE op'[d].pc = "idle"
      BY <2>1, <3>3 DEF OpOK
    <3>4. CASE /\ op'[d].pc = "acquired" /\ op'[d].att = op[d].att /\ op'[d].handle = h
               /\ queue'[d] = queue[d]
      <4>1. OpOK(d)'
        BY <3>1, <3>2, <3>4 DEF OpOK, Head1
      <4>. QED BY <2>1, <4>1
    <3>. QED BY <1>5, <2>3, <3>3, <3>4
  <2>. QED BY <2>2, <2>3
<1>9. ASSUME NEW b \in DOMAIN att PROVE Accounted(b)' /\ ReleaseOK(b)'
  <2>1. /\ Running(b)' = Running(b) /\ (Closing' <=> Closing) /\ att[b].client \in Clients
        /\ Session(b)' = Session(b) /\ Session(b) \in Sessions
        /\ att[b].handle \in DOMAIN handle /\ att[b].handle # 0
    BY <1>0, <1>1, <1>4, <1>5, AttFacts DEF Running, Closing, Session
  <2>2. Accounted(b)'
    <3>1. hosted[s] = 0
      BY <1>0, <1>1 DEF SessionOK
    <3>2. hosted[Session(b)] = att[b].handle => hosted'[Session(b)] = att[b].handle
      BY <1>6, <2>1, <3>1
    <3>. QED BY <1>0, <1>1, <1>4, <1>5, <2>1, <3>2 DEF Accounted
  <2>3. att[b].release \in {"calls", "lease"} /\ att[b].why \in Own => att[b].client \notin W
    <3>1. ReleaseOK(b)
      BY <1>0
    <3>. QED BY <1>3, <3>1 DEF ReleaseOK
  <2>4. ReleaseOK(b)'
    BY <1>0, <1>1, <1>5, <2>1, <2>3, KeptRelease
  <2>. QED BY <2>2, <2>4
<1>10. ASSUME NEW t \in Sessions PROVE SessionOK(t)'
  <2>1. SessionOK(t) /\ (hosted[t] # 0 => hosted[t] \in DOMAIN handle)
    BY <1>0 DEF TypeOK
  <2>2. CASE t = s
    BY <1>1, <1>2, <1>4, <1>6, <2>1, <2>2 DEF SessionOK
  <2>3. CASE t # s
    BY <1>1, <1>4, <1>6, <2>1, <2>3 DEF SessionOK
  <2>. QED BY <2>2, <2>3
<1>11. ASSUME NEW k \in DOMAIN handle' PROVE HandleOK(k)'
  <2>1. CASE k = h
    BY <1>2, <1>4, <1>6, <2>1 DEF HandleOK
  <2>2. CASE k \in DOMAIN handle
    <3>1. hosted[s] = 0 /\ k # 0 /\ handle[k] \in Opens /\ HandleOK(k) /\ handle'[k] = handle[k]
      BY <1>0, <1>1, <1>4, <2>2, Positions DEF SessionOK, TypeOK
    <3>2. handle[k].session \in Sessions
      BY <3>1 DEF Opens
    <3>. QED BY <1>6, <3>1, <3>2 DEF HandleOK
  <2>. QED BY <1>4, <2>1, <2>2
<1>12. Offline' /\ RouteCurrent'
  BY <1>1, <1>5 DEF IInv, Offline, RouteCurrent
<1>. QED BY <1>1, <1>7, <1>8, <1>9, <1>10, <1>11, <1>12 DEF IInv

-----------------------------------------------------------------------------
(***************************************************************************)
(* The end of a Session and of the server.                                 *)
(***************************************************************************)

\* Attachments are released from outside, and handles change their states.
\* What holds a lease without a release afterwards must still be accounted for.
LEMMA EndingOK ==
  ASSUME IInv, NEW A, NEW why \in {"removed", "terminated", "shutdown"},
         att' = Releasing(A, why), why = "shutdown" => Closing,
         UNCHANGED <<opening, refused, queue, op, online, route, call>>,
         handle' \in Seq(Opens), DOMAIN handle' = DOMAIN handle,
         \A k \in DOMAIN handle : handle'[k].session = handle[k].session,
         hosted' \in [Sessions -> DOMAIN handle \cup {0}],
         \A t \in Sessions : hosted'[t] \in {hosted[t], 0},
         \A t \in Sessions : hosted'[t] # 0 => handle'[hosted'[t]].state \in {"open", "closing"},
         \A k \in DOMAIN handle : handle'[k].state = "open" =>
            handle[k].state = "open" /\ hosted'[handle[k].session] = hosted[handle[k].session],
         removal' \in [Sessions -> Removals],
         \A t \in Sessions : removal'[t].pc # "none" =>
            removal'[t].handle \in DOMAIN handle /\ handle[removal'[t].handle].session = t,
         shutdown' \in Shutdowns, Closing => Closing', Offline',
         current' \in [Clients -> DOMAIN att \cup {0}],
         \A d \in Clients : current'[d] \in {current[d], 0}, online = {} \/ current' = current,
         shutdown.pc = "done" => shutdown'.pc = "done",
         shutdown'.pc = "done" \/ current' = current,
         \A b \in DOMAIN att : att'[b] = att[b] /\ att[b].lease = "held" /\ att[b].release = "none" =>
            \/ hosted'[Session(b)] = att[b].handle /\ shutdown'.pc \notin {"releasing", "done"}
            \/ handle'[att[b].handle].state = "removed" /\ Session(b) \notin Announcing
  PROVE  IInv'
<1>0. TypeOK /\ (\A d \in Clients : OpOK(d) /\ ClientOK(d))
      /\ (\A b \in DOMAIN att : Accounted(b) /\ ReleaseOK(b))
      /\ (\A t \in Sessions : SessionOK(t)) /\ (\A k \in DOMAIN handle : HandleOK(k))
  BY DEF IInv
<1>1. why \in Whys \ {"none"} /\ why \notin Own /\ why # "disconnect"
  BY DEF Whys, Own
<1>2. /\ att' \in Seq(Attachments) /\ DOMAIN att' = DOMAIN att
      /\ \A b \in DOMAIN att :
           /\ att'[b].client = att[b].client /\ att'[b].handle = att[b].handle
           /\ att'[b].lease = att[b].lease
           /\ att'[b].release = "none" => att'[b] = att[b]
  BY <1>0, <1>1, ReleasingFacts
<1>3. TypeOK'
  BY <1>0, <1>2 DEF TypeOK
<1>4. (\A d \in Clients : OpOK(d)' /\ ClientOK(d)') /\ RouteCurrent'
  <2>1. current' \in [Clients -> Nat]
    BY <1>0, Positions DEF TypeOK
  <2>2. \A d \in Clients : op'[d] = op[d]
    OBVIOUS
  <2>. QED BY <1>1, <2>1, <2>2, ReleasingViews
<1>5. \A b \in DOMAIN att' : ReleaseOK(b)'
  BY <1>0, <1>1, ReleasingOK
<1>6. ASSUME NEW b \in DOMAIN att PROVE Accounted(b)'
  <2>1. SUFFICES ASSUME att'[b].lease = "held", att'[b].release = "none" PROVE Accounted(b)'
    BY DEF Accounted
  <2>2. att'[b] = att[b] /\ Session(b)' = Session(b)
    BY <1>0, <1>2, <2>1, AttFacts DEF Session
  <2>3. current'[att'[b].client] = b \/ shutdown'.pc = "done"
    BY <1>0, <2>1, <2>2 DEF Accounted
  <2>. QED BY <2>1, <2>2, <2>3 DEF Accounted
<1>7. ASSUME NEW t \in Sessions PROVE SessionOK(t)'
  <2>1. hosted'[t] # 0 =>
          handle'[hosted'[t]].session = t /\ handle'[hosted'[t]].state \in {"open", "closing"}
    <3>1. hosted'[t] # 0 => hosted'[t] = hosted[t] /\ hosted[t] \in DOMAIN handle
      BY <1>0 DEF TypeOK
    <3>2. hosted[t] # 0 => handle[hosted[t]].session = t
      BY <1>0 DEF SessionOK
    <3>. QED BY <3>1, <3>2
  <2>2. t \in opening' => hosted'[t] = 0
    BY <1>0 DEF SessionOK
  <2>. QED BY <2>1, <2>2 DEF SessionOK
<1>8. ASSUME NEW k \in DOMAIN handle PROVE HandleOK(k)'
  BY <1>0 DEF HandleOK
<1>9. \A b \in DOMAIN att' : Accounted(b)' /\ ReleaseOK(b)'
  BY <1>2, <1>5, <1>6
<1>10. (\A t \in Sessions : SessionOK(t)') /\ (\A k \in DOMAIN handle' : HandleOK(k)')
  BY <1>7, <1>8
<1>. QED BY <1>3, <1>4, <1>9, <1>10, Zenon DEF IInv

\* What EndingOK asks of the parts that an ending leaves alone.
LEMMA AsItWas ==
  ASSUME IInv
  PROVE  /\ handle \in Seq(Opens) /\ hosted \in [Sessions -> DOMAIN handle \cup {0}]
         /\ \A t \in Sessions : hosted[t] # 0 =>
              /\ handle[hosted[t]].session = t /\ handle[hosted[t]].state \in {"open", "closing"}
              /\ hosted[t] \in DOMAIN handle
         /\ \A k \in DOMAIN handle :
              /\ handle[k] \in Opens /\ k \in Nat \ {0} /\ handle[k].session \in Sessions
              /\ handle[k].state = "open" => hosted[handle[k].session] = k
         /\ removal \in [Sessions -> Removals]
         /\ \A t \in Sessions : removal[t].pc # "none" =>
              removal[t].handle \in DOMAIN handle /\ handle[removal[t].handle].session = t
         /\ shutdown \in Shutdowns /\ Offline
         /\ current \in [Clients -> DOMAIN att \cup {0}]
<1>1. TypeOK /\ (\A t \in Sessions : SessionOK(t)) /\ (\A k \in DOMAIN handle : HandleOK(k))
      /\ Offline
  BY DEF IInv
<1>2. \A k \in DOMAIN handle : handle[k] \in Opens /\ k \in Nat \ {0}
  BY <1>1, Positions DEF TypeOK
<1>3. \A k \in DOMAIN handle : handle[k].session \in Sessions
  BY <1>2 DEF Opens
<1>4. \A t \in Sessions : hosted[t] # 0 => hosted[t] \in DOMAIN handle
  BY <1>1 DEF TypeOK
<1>. QED BY <1>1, <1>2, <1>3, <1>4 DEF TypeOK, SessionOK, HandleOK

\* A lease whose release has not begun is in the list of its handle.
LEMMA LeasesListed ==
  ASSUME IInv, NEW b \in DOMAIN att, att[b].lease = "held", att[b].release = "none"
  PROVE  /\ b \in Listed(att[b].handle) /\ att[b].handle \in DOMAIN handle
         /\ att[b].handle # 0 /\ Session(b) \in Sessions
         /\ Session(b) = handle[att[b].handle].session
         /\ \/ hosted[Session(b)] = att[b].handle /\ shutdown.pc \notin {"releasing", "done"}
            \/ handle[att[b].handle].state = "removed" /\ Session(b) \notin Announcing
<1>1. ReleaseOK(b) /\ Accounted(b) /\ TypeOK
  BY DEF IInv
<1>2. att[b].listed = TRUE
  <2>1. att[b].listed \in BOOLEAN
    BY <1>1, AttFacts DEF Attachments
  <2>. QED BY <1>1, <2>1 DEF ReleaseOK
<1>3. b \in Listed(att[b].handle)
  BY <1>2 DEF Listed
<1>4. /\ att[b].handle \in DOMAIN handle /\ att[b].handle # 0 /\ Session(b) \in Sessions
  BY <1>1, AttFacts
<1>. QED BY <1>1, <1>3, <1>4 DEF Accounted, Session

\* A release that finds an attachment in its set changes it.
LEMMA ReleasedChanges ==
  ASSUME TypeOK, NEW A, NEW why \in Whys \ {"none"}, att' = Releasing(A, why),
         NEW b \in DOMAIN att, att[b].release = "none", att'[b] = att[b]
  PROVE  b \notin A
BY ReleasingFacts

\* A removal begins with the attachments of the handle.
LEMMA RemoveOK ==
  ASSUME IInv, NEW s \in Sessions, Remove(s)
  PROVE  IInv'
<1>. DEFINE h == hosted[s]
            A == Listed(h)
<1>1. /\ h # 0 /\ removal' = [removal EXCEPT ![s] = [pc |-> "releasing", handle |-> h, waits |-> A]]
      /\ att' = Releasing(A, "removed")
      /\ UNCHANGED <<hosted, opening, current, refused, queue, op, handle, shutdown, online, route, call>>
  BY DEF Remove
<1>2. A \in SUBSET Nat /\ h \in DOMAIN handle /\ handle[h].session = s /\ h \in Nat
  <2>1. A \in SUBSET Nat
    BY Positions DEF Listed, IInv, TypeOK
  <2>. QED BY <1>1, <2>1, AsItWas
<1>. HIDE DEF h, A
<1>3. /\ removal' \in [Sessions -> Removals]
      /\ \A t \in Sessions : removal'[t].pc # "none" =>
           removal'[t].handle \in DOMAIN handle /\ handle[removal'[t].handle].session = t
  <2>1. removal \in [Sessions -> Removals]
        /\ \A t \in Sessions : removal[t].pc # "none" =>
             removal[t].handle \in DOMAIN handle /\ handle[removal[t].handle].session = t
    BY AsItWas
  <2>2. [pc |-> "releasing", handle |-> h, waits |-> A] \in Removals
    BY <1>2 DEF Removals
  <2>. QED BY <1>1, <1>2, <2>1, <2>2
<1>4. \A b \in DOMAIN att : att'[b] = att[b] /\ att[b].lease = "held" /\ att[b].release = "none" =>
            \/ hosted'[Session(b)] = att[b].handle /\ shutdown'.pc \notin {"releasing", "done"}
            \/ handle'[att[b].handle].state = "removed" /\ Session(b) \notin Announcing
  BY <1>1, LeasesListed
<1>5. Offline' /\ (Closing => Closing')
  BY <1>1, AsItWas DEF Offline, Closing
<1>6. /\ handle' = handle /\ hosted' = hosted /\ current' = current /\ shutdown' = shutdown
      /\ UNCHANGED <<opening, refused, queue, op, online, route, call>>
  BY <1>1
<1>7. /\ handle' \in Seq(Opens) /\ hosted' \in [Sessions -> DOMAIN handle \cup {0}]
      /\ \A t \in Sessions : hosted'[t] # 0 => handle'[hosted'[t]].state \in {"open", "closing"}
      /\ shutdown' \in Shutdowns /\ current' \in [Clients -> DOMAIN att \cup {0}]
  BY <1>6, AsItWas
<1>. QED BY <1>1, <1>3, <1>4, <1>5, <1>6, <1>7, EndingOK

\* A removal closes the handle.
LEMMA RemovalClosesOK ==
  ASSUME IInv, NEW s \in Sessions, RemovalCloses(s)
  PROVE  IInv'
<1>. DEFINE h == removal[s].handle
<1>1. /\ removal[s].pc = "releasing"
      /\ removal' = [removal EXCEPT ![s].pc = "closing"]
      /\ handle' = [handle EXCEPT ![h].state = IF @ = "open" THEN "closing" ELSE @]
      /\ UNCHANGED <<hosted, opening, current, refused, queue, op, att, shutdown, online, route, call, events>>
  BY DEF RemovalCloses
<1>2. h \in DOMAIN handle /\ handle[h].session = s /\ handle[h] \in Opens /\ handle \in Seq(Opens)
  BY <1>1, AsItWas
<1>. DEFINE r == [handle[h] EXCEPT !.state = IF @ = "open" THEN "closing" ELSE @]
<1>3. /\ r \in Opens /\ r.session = handle[h].session
      /\ r.state = IF handle[h].state = "open" THEN "closing" ELSE handle[h].state
  BY <1>2 DEF Opens
<1>4. handle' = [handle EXCEPT ![h] = r]
  BY <1>1, <1>2
<1>. HIDE DEF h, r
<1>5. /\ handle' \in Seq(Opens) /\ DOMAIN handle' = DOMAIN handle /\ handle'[h] = r
      /\ \A k \in DOMAIN handle : k # h => handle'[k] = handle[k]
  BY <1>2, <1>3, <1>4, OneReplaced
<1>6. /\ removal' \in [Sessions -> Removals]
      /\ \A t \in Sessions : removal'[t].pc # "none" =>
           removal'[t].handle \in DOMAIN handle /\ handle[removal'[t].handle].session = t
  <2>1. removal \in [Sessions -> Removals]
        /\ \A t \in Sessions : removal[t].pc # "none" =>
             removal[t].handle \in DOMAIN handle /\ handle[removal[t].handle].session = t
    BY AsItWas
  <2>2. removal' \in [Sessions -> Removals]
    BY <1>1, <2>1 DEF Removals
  <2>3. \A t \in Sessions : removal'[t].handle = removal[t].handle
                            /\ (removal'[t].pc # "none" => removal[t].pc # "none")
    BY <1>1, <2>1 DEF Removals
  <2>. QED BY <2>1, <2>2, <2>3
<1>7. att' = Releasing({}, "removed")
  <2>1. Releasing({}, "removed") = [a \in DOMAIN att |-> att[a]]
    BY DEF Releasing
  <2>2. att = [a \in DOMAIN att |-> att[a]]
    BY LenProperties DEF IInv, TypeOK
  <2>. QED BY <1>1, <2>1, <2>2
<1>8. \A b \in DOMAIN att : att'[b] = att[b] /\ att[b].lease = "held" /\ att[b].release = "none" =>
            \/ hosted'[Session(b)] = att[b].handle /\ shutdown'.pc \notin {"releasing", "done"}
            \/ handle'[att[b].handle].state = "removed" /\ Session(b) \notin Announcing
  BY <1>1, <1>3, <1>5, LeasesListed
<1>9. Offline' /\ (Closing => Closing')
  BY <1>1, AsItWas DEF Offline, Closing
<1>10. /\ hosted' \in [Sessions -> DOMAIN handle \cup {0}]
       /\ \A t \in Sessions : hosted'[t] # 0 => handle'[hosted'[t]].state \in {"open", "closing"}
       /\ shutdown' \in Shutdowns /\ current' \in [Clients -> DOMAIN att \cup {0}]
       /\ \A k \in DOMAIN handle : handle'[k].session = handle[k].session
       /\ \A k \in DOMAIN handle : handle'[k].state = "open" => handle[k].state = "open"
  <2>1. /\ hosted' = hosted /\ shutdown' = shutdown /\ current' = current
    BY <1>1
  <2>. QED BY <1>3, <1>5, <2>1, AsItWas
<1>11. UNCHANGED <<opening, refused, queue, op, online, route, call, hosted, current, shutdown>>
  BY <1>1
<1>. QED BY <1>5, <1>6, <1>7, <1>8, <1>9, <1>10, <1>11, EndingOK

\* The end of one handle: unregistered, and if it announces its end with its
\* attachments released.
LEMMA HandleEnds ==
  ASSUME IInv, NEW s \in Sessions, NEW h \in DOMAIN handle, handle[h].session = s,
         NEW state \in {"closed", "removed"},
         state = "removed" \/ s \in Announcing,
         handle' = [handle EXCEPT ![h].state = state], att' = Invalidated({h}),
         hosted' = [hosted EXCEPT ![s] = IF @ = h THEN 0 ELSE @],
         state = "closed" => handle[h].state = "open",
         removal' \in [Sessions -> Removals],
         \A t \in Sessions : removal'[t].pc # "none" =>
            removal'[t].handle \in DOMAIN handle /\ handle[removal'[t].handle].session = t,
         UNCHANGED <<opening, current, refused, queue, op, shutdown, online, route, call>>
  PROVE  IInv'
<1>. DEFINE A == UNION {IF handle[k].session \in Announcing /\ hosted[handle[k].session] = k
                          THEN Listed(k) ELSE {} : k \in {h}}
<1>1. att' = Releasing(A, "terminated")
      /\ A = IF s \in Announcing /\ hosted[s] = h THEN Listed(h) ELSE {}
  BY DEF Invalidated
<1>. HIDE DEF A
<1>2. handle[h] \in Opens /\ handle \in Seq(Opens) /\ h \in Nat \ {0} /\ TypeOK
      /\ hosted \in [Sessions -> DOMAIN handle \cup {0}]
  BY AsItWas DEF IInv
<1>. DEFINE r == [handle[h] EXCEPT !.state = state]
<1>3. r \in Opens /\ r.session = s /\ r.state = state
  BY <1>2 DEF Opens
<1>4. handle' = [handle EXCEPT ![h] = r]
  BY <1>2
<1>. HIDE DEF r
<1>5. /\ handle' \in Seq(Opens) /\ DOMAIN handle' = DOMAIN handle /\ handle'[h] = r
      /\ \A k \in DOMAIN handle : k # h => handle'[k] = handle[k]
  BY <1>2, <1>3, <1>4, OneReplaced
<1>6. /\ hosted' \in [Sessions -> DOMAIN handle \cup {0}]
      /\ \A t \in Sessions : hosted'[t] = IF t = s /\ hosted[s] = h THEN 0 ELSE hosted[t]
  BY <1>2
<1>7. \A t \in Sessions : hosted'[t] # 0 => handle'[hosted'[t]].state \in {"open", "closing"}
  <2>1. SUFFICES ASSUME NEW t \in Sessions, hosted'[t] # 0
                 PROVE  handle'[hosted'[t]].state \in {"open", "closing"}
    OBVIOUS
  <2>2. /\ hosted[t] = hosted'[t] /\ handle[hosted[t]].session = t
        /\ handle[hosted[t]].state \in {"open", "closing"} /\ hosted[t] \in DOMAIN handle
    BY <1>6, <2>1, AsItWas
  <2>3. hosted[t] # h
    BY <1>6, <2>1, <2>2
  <2>. QED BY <1>5, <2>2, <2>3
<1>8. /\ \A k \in DOMAIN handle : handle'[k].session = handle[k].session
      /\ \A k \in DOMAIN handle : handle'[k].state = "open" =>
            handle[k].state = "open" /\ hosted'[handle[k].session] = hosted[handle[k].session]
  <2>1. \A k \in DOMAIN handle : handle'[k].state = "open" => k # h /\ handle[k].state = "open"
    BY <1>3, <1>5
  <2>2. \A k \in DOMAIN handle : handle[k].state = "open" =>
          hosted[handle[k].session] = k /\ handle[k].session \in Sessions
    BY AsItWas
  <2>. QED BY <1>3, <1>5, <1>6, <2>1, <2>2
<1>9. \A b \in DOMAIN att : att'[b] = att[b] /\ att[b].lease = "held" /\ att[b].release = "none" =>
            \/ hosted'[Session(b)] = att[b].handle /\ shutdown'.pc \notin {"releasing", "done"}
            \/ handle'[att[b].handle].state = "removed" /\ Session(b) \notin Announcing
  <2>1. SUFFICES ASSUME NEW b \in DOMAIN att, att'[b] = att[b], att[b].lease = "held",
                        att[b].release = "none"
                 PROVE  \/ /\ hosted'[Session(b)] = att[b].handle
                           /\ shutdown'.pc \notin {"releasing", "done"}
                        \/ /\ handle'[att[b].handle].state = "removed"
                           /\ Session(b) \notin Announcing
    OBVIOUS
  <2>2. /\ b \in Listed(att[b].handle) /\ att[b].handle \in DOMAIN handle
        /\ att[b].handle # 0 /\ Session(b) \in Sessions
        /\ Session(b) = handle[att[b].handle].session
        /\ \/ hosted[Session(b)] = att[b].handle /\ shutdown.pc \notin {"releasing", "done"}
           \/ handle[att[b].handle].state = "removed" /\ Session(b) \notin Announcing
    BY <2>1, LeasesListed
  <2>3. b \notin A
    BY <1>1, <1>2, <2>1, ReleasedChanges DEF Whys
  <2>4. CASE att[b].handle = h
    <3>1. Session(b) = s /\ ~(s \in Announcing /\ hosted[s] = h)
      BY <1>1, <2>2, <2>3, <2>4
    <3>2. s \notin Announcing
      BY <2>2, <2>4, <3>1
    <3>. QED BY <1>3, <1>5, <2>4, <3>1, <3>2
  <2>5. CASE att[b].handle # h
    BY <1>5, <1>6, <2>2, <2>5
  <2>. QED BY <2>4, <2>5
<1>10. Offline' /\ (Closing => Closing')
  BY AsItWas DEF Offline, Closing
<1>11. shutdown' \in Shutdowns /\ current' \in [Clients -> DOMAIN att \cup {0}]
  BY AsItWas
<1>12. \A t \in Sessions : hosted'[t] \in {hosted[t], 0}
  BY <1>6
<1>. QED BY <1>1, <1>5, <1>6, <1>7, <1>8, <1>9, <1>10, <1>11, <1>12, EndingOK

\* A Session is removed.
LEMMA RemovedOK ==
  ASSUME IInv, NEW s \in Sessions, Removed(s)
  PROVE  IInv'
<1>. DEFINE h == removal[s].handle
<1>1. /\ removal[s].pc = "closing" /\ removal' = [removal EXCEPT ![s].pc = "none"]
      /\ handle' = [handle EXCEPT ![h].state = "removed"] /\ att' = Invalidated({h})
      /\ hosted' = [hosted EXCEPT ![s] = IF @ = h THEN 0 ELSE @]
      /\ UNCHANGED <<opening, current, refused, queue, op, shutdown, online, route, call>>
  BY DEF Removed
<1>2. h \in DOMAIN handle /\ handle[h].session = s
  BY <1>1, AsItWas
<1>. HIDE DEF h
<1>3. /\ removal' \in [Sessions -> Removals]
      /\ \A t \in Sessions : removal'[t].pc # "none" =>
           removal'[t].handle \in DOMAIN handle /\ handle[removal'[t].handle].session = t
  <2>1. removal \in [Sessions -> Removals]
        /\ \A t \in Sessions : removal[t].pc # "none" =>
             removal[t].handle \in DOMAIN handle /\ handle[removal[t].handle].session = t
    BY AsItWas
  <2>2. removal' \in [Sessions -> Removals]
    BY <1>1, <2>1 DEF Removals
  <2>3. \A t \in Sessions : removal'[t].handle = removal[t].handle
                            /\ (removal'[t].pc # "none" => removal[t].pc # "none")
    BY <1>1, <2>1 DEF Removals
  <2>. QED BY <2>1, <2>2, <2>3
<1>. QED BY <1>1, <1>2, <1>3, HandleEnds

\* A Session terminates by itself.
LEMMA TerminateOK ==
  ASSUME IInv, NEW h \in DOMAIN handle, Terminate(h)
  PROVE  IInv'
<1>. DEFINE s == handle[h].session
<1>1. /\ handle[h].state = "open" /\ s \in Announcing
      /\ handle' = [handle EXCEPT ![h].state = "closed"] /\ att' = Invalidated({h})
      /\ hosted' = [hosted EXCEPT ![s] = IF @ = h THEN 0 ELSE @] /\ removal' = removal
      /\ UNCHANGED <<opening, current, refused, queue, op, shutdown, online, route, call>>
  BY DEF Terminate
<1>2. s \in Sessions /\ handle[h].session = s
  BY AsItWas
<1>3. /\ removal' \in [Sessions -> Removals]
      /\ \A t \in Sessions : removal'[t].pc # "none" =>
           removal'[t].handle \in DOMAIN handle /\ handle[removal'[t].handle].session = t
  BY <1>1, AsItWas
<1>. HIDE DEF s
<1>. QED BY <1>1, <1>2, <1>3, HandleEnds

\* The server releases every attachment.
LEMMA ReleaseAllOK ==
  ASSUME IInv, ReleaseAll
  PROVE  IInv'
<1>. DEFINE A == UNION {Listed(h) : h \in Registered}
<1>1. /\ shutdown.pc = "waiting"
      /\ shutdown' = [shutdown EXCEPT !.pc = "releasing", !.waits = A]
      /\ att' = Releasing(A, "shutdown")
      /\ UNCHANGED <<hosted, opening, current, refused, queue, op, handle, removal, online, route, call>>
  BY DEF ReleaseAll
<1>2. A \in SUBSET Nat
  <2>1. \A h : Listed(h) \subseteq Nat
    BY Positions DEF Listed, IInv, TypeOK
  <2>. QED BY <2>1
<1>3. \A b \in DOMAIN att : att'[b] = att[b] /\ att[b].lease = "held" /\ att[b].release = "none" =>
            \/ hosted'[Session(b)] = att[b].handle /\ shutdown'.pc \notin {"releasing", "done"}
            \/ handle'[att[b].handle].state = "removed" /\ Session(b) \notin Announcing
  <2>1. SUFFICES ASSUME NEW b \in DOMAIN att, att'[b] = att[b], att[b].lease = "held",
                        att[b].release = "none"
                 PROVE  handle'[att[b].handle].state = "removed" /\ Session(b) \notin Announcing
    OBVIOUS
  <2>2. /\ b \in Listed(att[b].handle) /\ att[b].handle # 0 /\ Session(b) \in Sessions
        /\ \/ hosted[Session(b)] = att[b].handle
           \/ handle[att[b].handle].state = "removed" /\ Session(b) \notin Announcing
    BY <2>1, LeasesListed
  <2>3. b \notin A
    BY <1>1, <2>1, ReleasedChanges DEF Whys, IInv
  <2>4. hosted[Session(b)] # att[b].handle
    BY <2>2, <2>3 DEF Registered
  <2>. QED BY <1>1, <2>2, <2>4
<1>. HIDE DEF A
<1>4. shutdown' \in Shutdowns /\ shutdown'.pc = "releasing"
  BY <1>1, <1>2, AsItWas DEF Shutdowns
<1>5. Offline' /\ (Closing => Closing') /\ Closing
  <2>1. online = {}
    BY <1>1, AsItWas DEF Offline
  <2>. QED BY <1>1, <1>4, <2>1 DEF Offline, Closing
<1>6. /\ handle' = handle /\ hosted' = hosted /\ current' = current /\ removal' = removal
      /\ UNCHANGED <<opening, refused, queue, op, online, route, call>>
  BY <1>1
<1>7. /\ handle' \in Seq(Opens) /\ hosted' \in [Sessions -> DOMAIN handle \cup {0}]
      /\ \A t \in Sessions : hosted'[t] # 0 => handle'[hosted'[t]].state \in {"open", "closing"}
      /\ removal' \in [Sessions -> Removals]
      /\ \A t \in Sessions : removal'[t].pc # "none" =>
           removal'[t].handle \in DOMAIN handle /\ handle[removal'[t].handle].session = t
      /\ current' \in [Clients -> DOMAIN att \cup {0}]
  BY <1>6, AsItWas
<1>8. shutdown.pc = "done" => shutdown'.pc = "done"
  BY <1>1
<1>. QED BY <1>1, <1>3, <1>4, <1>5, <1>6, <1>7, <1>8, EndingOK

\* The server closes every handle that is left.
LEMMA CloseHandlesOK ==
  ASSUME IInv, CloseHandles
  PROVE  IInv'
<1>. DEFINE A == UNION {IF handle[h].session \in Announcing /\ hosted[handle[h].session] = h
                          THEN Listed(h) ELSE {} : h \in Registered}
<1>1. /\ shutdown.pc = "releasing" /\ shutdown' = [shutdown EXCEPT !.pc = "done"]
      /\ handle' = [h \in DOMAIN handle |->
                      IF h \in Registered THEN [handle[h] EXCEPT !.state = "closed"] ELSE handle[h]]
      /\ att' = Releasing(A, "terminated")
      /\ hosted' = [s \in Sessions |-> 0] /\ current' = [c \in Clients |-> 0]
      /\ UNCHANGED <<opening, refused, queue, op, removal, online, route, call>>
  BY DEF CloseHandles, Invalidated
<1>. HIDE DEF A
<1>2. \A k \in DOMAIN handle : [handle[k] EXCEPT !.state = "closed"] \in Opens
                               /\ [handle[k] EXCEPT !.state = "closed"].session = handle[k].session
                               /\ [handle[k] EXCEPT !.state = "closed"].state = "closed"
  BY AsItWas DEF Opens
<1>3. handle' \in Seq(Opens) /\ DOMAIN handle' = DOMAIN handle
  <2>1. handle' \in [DOMAIN handle -> Opens]
    BY <1>1, <1>2, AsItWas
  <2>. QED BY <2>1, AsItWas, SamePositions
<1>4. \A k \in DOMAIN handle :
        /\ handle'[k].session = handle[k].session
        /\ k \in Registered => handle'[k].state = "closed"
        /\ k \notin Registered => handle'[k] = handle[k]
  BY <1>1, <1>2
<1>5. \A k \in DOMAIN handle : handle'[k].state # "open"
  <2>1. \A k \in DOMAIN handle : handle[k].state = "open" => k \in Registered
    BY AsItWas DEF Registered
  <2>. QED BY <1>4, <2>1
<1>6. \A b \in DOMAIN att : att'[b] = att[b] /\ att[b].lease = "held" /\ att[b].release = "none" =>
            handle'[att[b].handle].state = "removed" /\ Session(b) \notin Announcing
  <2>1. SUFFICES ASSUME NEW b \in DOMAIN att, att[b].lease = "held", att[b].release = "none"
                 PROVE  handle'[att[b].handle].state = "removed" /\ Session(b) \notin Announcing
    OBVIOUS
  <2>2. /\ att[b].handle \in DOMAIN handle
        /\ handle[att[b].handle].state = "removed" /\ Session(b) \notin Announcing
    BY <1>1, <2>1, LeasesListed
  <2>3. att[b].handle \notin Registered
    BY <2>2, AsItWas DEF Registered
  <2>. QED BY <1>4, <2>2, <2>3
<1>7. /\ hosted' \in [Sessions -> DOMAIN handle \cup {0}]
      /\ \A t \in Sessions : hosted'[t] = 0
      /\ current' \in [Clients -> DOMAIN att \cup {0}]
      /\ \A d \in Clients : current'[d] = 0
  BY <1>1
<1>8. shutdown' \in Shutdowns /\ shutdown'.pc = "done"
  BY <1>1, AsItWas DEF Shutdowns
<1>9. Offline' /\ (Closing => Closing') /\ online = {}
  <2>1. online = {}
    BY <1>1, AsItWas DEF Offline
  <2>. QED BY <1>1, <1>8, <2>1 DEF Offline, Closing
<1>10. /\ removal' \in [Sessions -> Removals]
       /\ \A t \in Sessions : removal'[t].pc # "none" =>
            removal'[t].handle \in DOMAIN handle /\ handle[removal'[t].handle].session = t
  BY <1>1, AsItWas
<1>. QED BY <1>1, <1>3, <1>4, <1>5, <1>6, <1>7, <1>8, <1>9, <1>10, EndingOK

-----------------------------------------------------------------------------
(***************************************************************************)
(* The invariant holds at the start, and every step keeps it.              *)
(***************************************************************************)
LEMMA InitOK == Init => IInv
<1>. SUFFICES ASSUME Init PROVE IInv
  OBVIOUS
<1>1. DOMAIN att = {} /\ DOMAIN handle = {}
  BY DEF Init
<1>2. TypeOK
  <2>1. queue \in [Clients -> Seq(Operations)] /\ op \in [Clients -> Standings]
    BY DEF Init, Idle, Standings
  <2>2. removal \in [Sessions -> Removals] /\ shutdown \in Shutdowns
    BY DEF Init, Removals, Shutdowns
  <2>. QED BY <1>1, <2>1, <2>2 DEF Init, TypeOK, Idle
<1>3. ASSUME NEW c \in Clients PROVE OpOK(c) /\ ClientOK(c)
  BY DEF Init, OpOK, ClientOK, Idle, Members
<1>4. ASSUME NEW s \in Sessions PROVE SessionOK(s)
  BY DEF Init, SessionOK
<1>5. Offline /\ RouteCurrent
  BY DEF Init, Offline, RouteCurrent
<1>. QED BY <1>1, <1>2, <1>3, <1>4, <1>5 DEF IInv

LEMMA StutterOK ==
  ASSUME IInv, UNCHANGED vars
  PROVE  IInv'
<1>1. UNCHANGED <<hosted, opening, current, refused, queue, op, att, handle, removal, shutdown>>
  BY DEF vars, routerVars
<1>2. UNCHANGED <<online, route, call>>
  BY DEF vars
<1>3. TypeOK'
  BY <1>1, <1>2 DEF IInv, TypeOK
<1>4. ASSUME NEW c \in Clients PROVE OpOK(c)' /\ ClientOK(c)'
  BY <1>1, <1>2 DEF IInv, OpOK, ClientOK, Head1, Members
<1>5. ASSUME NEW a \in DOMAIN att PROVE Accounted(a)' /\ ReleaseOK(a)'
  BY <1>1, <1>2 DEF IInv, Accounted, ReleaseOK, Running, Session, Closing
<1>6. (\A s \in Sessions : SessionOK(s)') /\ (\A h \in DOMAIN handle : HandleOK(h)')
  BY <1>1 DEF IInv, SessionOK, HandleOK
<1>7. Offline' /\ RouteCurrent'
  BY <1>1, <1>2 DEF IInv, Offline, RouteCurrent
<1>. QED BY <1>1, <1>3, <1>4, <1>5, <1>6, <1>7 DEF IInv

LEMMA NextOK ==
  ASSUME IInv, [Next]_vars
  PROVE  IInv'
<1>1. ASSUME NEW c \in Clients, Steps(c) PROVE IInv'
  BY <1>1, StartAttachOK, AcquiredOK, SwitchedOK, LeasedOK, StartLeaveOK, LeftOK, StartCallOK
     DEF Steps
<1>2. ASSUME NEW c \in Clients, Ask(c) \/ Disconnect(c) \/ \E r \in Request : Manage(c, r)
      PROVE  IInv'
  BY <1>2, AskOK, DisconnectOK, ManageOK
<1>3. ASSUME NEW s \in Sessions, Sessionwise(s) \/ Remove(s) PROVE IInv'
  BY <1>3, OpenedOK, OpenFailsOK, RemovalClosesOK, RemovedOK, RemoveOK DEF Sessionwise
<1>4. ASSUME NEW a \in DOMAIN att, ReleaseLease(a) \/ Clear(a) PROVE IInv'
  BY <1>4, ReleaseLeaseOK, ClearOK
<1>5. ASSUME NEW k \in DOMAIN call, CallEnds(k) PROVE IInv'
  BY <1>5, CallEndsOK
<1>6. ASSUME NEW h \in DOMAIN handle, Terminate(h) PROVE IInv'
  BY <1>6, TerminateOK
<1>7. ASSUME Shutdown \/ Closes PROVE IInv'
  BY <1>7, ShutdownOK, DropConnectionsOK, ReleaseAllOK, CloseHandlesOK DEF Closes
<1>8. ASSUME UNCHANGED vars PROVE IInv'
  BY <1>8, StutterOK
<1>. QED BY <1>1, <1>2, <1>3, <1>4, <1>5, <1>6, <1>7, <1>8 DEF Next

\* The inductive invariant, type correctness among it.
THEOREM Inductive == Spec => []IInv
<1>1. Init => IInv
  BY InitOK
<1>2. IInv /\ [Next]_vars => IInv'
  BY NextOK
<1>. QED BY <1>1, <1>2, PTL DEF Spec

\* Nothing that was leased or opened is forgotten (the tails of attachClientNow,
\* removeSession, invalidate and close in session-router.ts).
THEOREM NothingForgotten == Spec => []LeasesAccounted
<1>1. IInv => LeasesAccounted
  <2>. SUFFICES ASSUME IInv PROVE LeasesAccounted
    OBVIOUS
  <2>1. ASSUME NEW a \in DOMAIN att, att[a].lease = "held" /\ att[a].release = "none"
        PROVE  /\ current[att[a].client] = a \/ shutdown.pc = "done"
               /\ \/ hosted[Session(a)] = att[a].handle
                  \/ handle[att[a].handle].state = "removed" /\ Session(a) \notin Announcing
    BY <2>1 DEF IInv, Accounted
  <2>2. TypeOK /\ \A h \in DOMAIN handle :
                     handle[h].state = "open" => hosted[handle[h].session] = h
    BY DEF IInv, HandleOK
  <2>. QED BY <2>1, <2>2 DEF LeasesAccounted
<1>. QED BY <1>1, Inductive, PTL

\* A connected client was told of its current attachment, but for a switch
\* (publishRoute in session-router.ts).
THEOREM ToldOfItsAttachment == Spec => []RouteCurrent
<1>1. IInv => RouteCurrent
  BY DEF IInv
<1>. QED BY <1>1, Inductive, PTL

\* Only ReleaseLease returns a lease that is held.
NoneReturned == \A b \in DOMAIN att : att[b].lease = "held" => att'[b].lease # "released"

LEMMA ReleasingReturnsNothing ==
  ASSUME TypeOK, NEW A, NEW why \in Whys \ {"none"}, att' = Releasing(A, why)
  PROVE  NoneReturned
BY ReleasingFacts DEF NoneReturned

LEMMA NewReturnsNothing ==
  ASSUME TypeOK, NEW c \in Clients, NEW h, NewAttachment(c, h)
  PROVE  NoneReturned
<1>1. att \in Seq(Attachments)
  BY DEF TypeOK
<1>2. att \in Seq({att[b] : b \in DOMAIN att} \cup
                  {[NoAtt EXCEPT !.client = c, !.handle = h, !.lease = "acquiring", !.listed = TRUE]})
  <2>1. att \in [DOMAIN att -> {att[b] : b \in DOMAIN att} \cup
                  {[NoAtt EXCEPT !.client = c, !.handle = h, !.lease = "acquiring", !.listed = TRUE]}]
    BY <1>1, LenProperties
  <2>. QED BY <1>1, <2>1, SamePositions
<1>3. \A b \in DOMAIN att : att'[b] = att[b]
  BY <1>2, OneAdded DEF NewAttachment
<1>. QED BY <1>3 DEF NoneReturned

\* The lease that arrives was not held before.
LEMMA LeasedReturnsNothing ==
  ASSUME IInv, NEW c \in Clients, Leased(c)
  PROVE  NoneReturned
<1>. DEFINE a == op[c].att
<1>1. a \in DOMAIN att /\ att[a].lease = "acquiring"
  BY DEF Leased, IInv, OpOK
<1>. HIDE DEF a
<1>2. \A b \in DOMAIN att : b # a => att'[b] = att[b]
  BY <1>1 DEF Leased, a
<1>. QED BY <1>1, <1>2 DEF NoneReturned

LEMMA ClearReturnsNothing ==
  ASSUME TypeOK, NEW a \in DOMAIN att, Clear(a)
  PROVE  NoneReturned
<1>1. att[a] \in Attachments /\ att \in Seq(Attachments)
  BY AttFacts DEF TypeOK
<1>2. PICK r \in Attachments : att' = [att EXCEPT ![a] = r] /\ r.lease = att[a].lease
  <2>1. /\ [att[a] EXCEPT !.release = "cleared", !.listed = FALSE] \in Attachments
        /\ [att[a] EXCEPT !.release = "cleared", !.listed = FALSE].lease = att[a].lease
    BY <1>1 DEF Attachments
  <2>2. /\ [att[a] EXCEPT !.release = "cleared", !.listed = FALSE, !.failed = TRUE] \in Attachments
        /\ [att[a] EXCEPT !.release = "cleared", !.listed = FALSE, !.failed = TRUE].lease = att[a].lease
    BY <1>1 DEF Attachments
  <2>3. \/ att' = [att EXCEPT ![a] = [att[a] EXCEPT !.release = "cleared", !.listed = FALSE]]
        \/ att' = [att EXCEPT ![a] = [att[a] EXCEPT !.release = "cleared", !.listed = FALSE,
                                                    !.failed = TRUE]]
    BY <1>1 DEF Clear
  <2>. QED BY <2>1, <2>2, <2>3
<1>3. \A b \in DOMAIN att : att'[b].lease = att[b].lease
  BY <1>1, <1>2, OneReplaced
<1>. QED BY <1>3 DEF NoneReturned

\* A step that is no ReleaseLease returns no lease.
LEMMA OnlyReleaseLeaseReturns ==
  ASSUME IInv, [Next]_vars, ~ \E a \in DOMAIN att : ReleaseLease(a)
  PROVE  NoneReturned
<1>0. TypeOK
  BY DEF IInv
<1>1. CASE att' = att
  BY <1>1 DEF NoneReturned
<1>2. ASSUME NEW c \in Clients, Steps(c) PROVE NoneReturned
  <2>1. CASE StartAttach(c) \/ Left(c) \/ StartCall(c)
    BY <1>1, <2>1 DEF StartAttach, Left, StartCall
  <2>2. CASE Acquired(c)
    <3>1. CASE att' = Releasing({op[c].att}, "switch")
      BY <1>0, <3>1, ReleasingReturnsNothing DEF Whys
    <3>2. CASE NewAttachment(c, op[c].handle)
      BY <1>0, <3>2, NewReturnsNothing
    <3>. QED BY <1>1, <2>2, <3>1, <3>2 DEF Acquired
  <2>3. CASE Switched(c)
    BY <1>0, <1>1, <2>3, NewReturnsNothing DEF Switched
  <2>4. CASE Leased(c)
    BY <2>4, LeasedReturnsNothing
  <2>5. CASE StartLeave(c)
    <3>1. CASE att' = Releasing({current[c]}, Head1(c).kind)
      BY <1>0, <2>5, <3>1, ReleasingReturnsNothing DEF StartLeave, Starts, Whys
    <3>. QED BY <1>1, <2>5, <3>1 DEF StartLeave
  <2>. QED BY <1>2, <2>1, <2>2, <2>3, <2>4, <2>5 DEF Steps
<1>3. ASSUME NEW c \in Clients, Ask(c) \/ Disconnect(c) \/ \E r \in Request : Manage(c, r)
      PROVE  NoneReturned
  BY <1>1, <1>3 DEF Ask, Disconnect, Manage
<1>4. ASSUME NEW s \in Sessions, Sessionwise(s) \/ Remove(s) PROVE NoneReturned
  <2>1. CASE Opened(s) \/ OpenFails(s) \/ RemovalCloses(s)
    BY <1>1, <2>1 DEF Opened, OpenFails, RemovalCloses
  <2>2. CASE Removed(s)
    BY <1>0, <2>2, ReleasingReturnsNothing DEF Removed, Invalidated, Whys
  <2>3. CASE Remove(s)
    BY <1>0, <2>3, ReleasingReturnsNothing DEF Remove, Whys
  <2>. QED BY <1>4, <2>1, <2>2, <2>3 DEF Sessionwise
<1>5. ASSUME NEW a \in DOMAIN att, Clear(a) PROVE NoneReturned
  BY <1>0, <1>5, ClearReturnsNothing
<1>6. ASSUME NEW k \in DOMAIN call, CallEnds(k) PROVE NoneReturned
  BY <1>1, <1>6 DEF CallEnds, routerVars
<1>7. ASSUME NEW h \in DOMAIN handle, Terminate(h) PROVE NoneReturned
  BY <1>0, <1>7, ReleasingReturnsNothing DEF Terminate, Invalidated, Whys
<1>8. ASSUME Shutdown \/ Closes PROVE NoneReturned
  <2>1. CASE Shutdown \/ DropConnections
    BY <1>1, <2>1 DEF Shutdown, DropConnections
  <2>2. CASE ReleaseAll
    BY <1>0, <2>2, ReleasingReturnsNothing DEF ReleaseAll, Whys
  <2>3. CASE CloseHandles
    BY <1>0, <2>3, ReleasingReturnsNothing DEF CloseHandles, Invalidated, Whys
  <2>. QED BY <1>8, <2>1, <2>2, <2>3 DEF Closes
<1>9. ASSUME UNCHANGED vars PROVE NoneReturned
  BY <1>1, <1>9 DEF vars, routerVars
<1>. QED BY <1>2, <1>3, <1>4, <1>5, <1>6, <1>7, <1>8, <1>9 DEF Next

\* A lease that is returned under a running call was released because its
\* Session ended (releaseAttachment's wait for the attachment's calls).
THEOREM CallsKeepTheirLease == Spec => CallsKeepLease
<1>1. IInv /\ [Next]_vars =>
        \A a \in DOMAIN att : att[a].lease = "held" /\ att'[a].lease = "released" /\ Running(a) # {} =>
          att[a].why \in {"removed", "terminated"}
  <2>. SUFFICES ASSUME IInv, [Next]_vars, NEW a \in DOMAIN att, att[a].lease = "held",
                       att'[a].lease = "released", att[a].why \notin {"removed", "terminated"}
                PROVE  Running(a) = {}
    OBVIOUS
  <2>1. ReleaseLease(a)
    <3>1. PICK b \in DOMAIN att : ReleaseLease(b)
      BY OnlyReleaseLeaseReturns DEF NoneReturned
    <3>2. a = b
      BY <3>1 DEF ReleaseLease
    <3>. QED BY <3>1, <3>2
  <2>2. att[a].release = "calls" /\ CallsOver(att[a].waits)
    BY <2>1 DEF ReleaseLease
  <2>3. Running(a) \subseteq att[a].waits
    BY <2>2 DEF IInv, ReleaseOK
  <2>4. \A k \in Running(a) : call[k].state = "over" /\ call[k].state = "running"
    BY <2>2, <2>3 DEF CallsOver, Over, Running
  <2>. QED BY <2>4
<1>. QED BY <1>1, Inductive, PTL DEF Spec, CallsKeepLease
=============================================================================
