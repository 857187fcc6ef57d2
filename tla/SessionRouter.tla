---------------------------- MODULE SessionRouter ----------------------------
(***************************************************************************)
(* Attachment of client connections to hosted Sessions: the router         *)
(* (server/src/session-router.ts), the connection's disconnect and the     *)
(* server's shutdown (server/src/server.ts), and the Session management    *)
(* service that asks for attachments on a client's behalf and may be busy  *)
(* first (decorator-agent/src/services/server.ts).  A step is the code     *)
(* between two awaits.                                                     *)
(***************************************************************************)
EXTENDS Naturals, Sequences, FiniteSets

CONSTANTS Clients, Sessions,
          Announcing,      \* Sessions whose handles have a `terminated` promise
          MaxEvents        \* bound: what happens to the router from outside: requests,
                           \* calls, connections lost, Sessions removed, terminated or
                           \* that do not open, releases that fail, the shutdown

ASSUME RouterAssumption ==
  /\ Announcing \subseteq Sessions
  /\ MaxEvents \in Nat

VARIABLES
  \* the router
  hosted,    \* hostedSessions: the registered handle of a Session, 0 when none
  opening,   \* openingSessions
  current,   \* attachmentsByClient, 0 when none
  refused,   \* disconnectedClients
  queue,     \* clientOperations: a client's operations, the first one running
  op,        \* where the running operation of each client stands
  att,       \* every attachment made
  handle,    \* every handle opened: its Session and its life (history: what closed it)
  removal,   \* removeSession, per Session
  shutdown,  \* close(), and the operations it still waits for
  \* around the router
  online,    \* connections that are not disconnected
  route,     \* the attachment last published to each client
  call,      \* every service call made
  events

routerVars == <<hosted, opening, current, refused, queue, op, att, handle, removal, shutdown>>
vars == <<routerVars, online, route, call, events>>

Atts == 1..MaxEvents
Calls == 1..MaxEvents

NoAtt == [client |-> CHOOSE c \in Clients : TRUE, handle |-> 0, lease |-> "none",
          listed |-> FALSE, release |-> "none", why |-> "none", waits |-> {}, failed |-> FALSE]
NoCall == [att |-> 0, state |-> "none"]
Idle == [pc |-> "idle", att |-> 0, handle |-> 0]

Init ==
  /\ hosted = [s \in Sessions |-> 0] /\ opening = {}
  /\ current = [c \in Clients |-> 0] /\ refused = {}
  /\ queue = [c \in Clients |-> <<>>] /\ op = [c \in Clients |-> Idle]
  /\ att = <<>> /\ handle = <<>>
  /\ removal = [s \in Sessions |-> [pc |-> "none", handle |-> 0, waits |-> {}]]
  /\ shutdown = [pc |-> "none", owed |-> [c \in Clients |-> 0], waits |-> {}]
  /\ online = Clients
  /\ route = [c \in Clients |-> 0] /\ call = <<>>
  /\ events = 0

Event == events < MaxEvents /\ events' = events + 1
Closing == shutdown.pc # "none"
Session(a) == handle[att[a].handle].session
Refuses(c) == Closing \/ c \in refused
Unsettled(a) ==                           \* mutant: a release waits for calls queued behind it
  {k \in DOMAIN call : call[k].att = a /\ call[k].state # "over"}
Running(a) == {k \in DOMAIN call : call[k] = [att |-> a, state |-> "running"]}
Listed(h) == {a \in DOMAIN att : att[a].handle = h /\ att[a].listed}   \* hosted.attachments

-----------------------------------------------------------------------------
(***************************************************************************)
(* Releasing an attachment: once, after the calls it has at that moment,   *)
(* and after the lease it is still acquiring.                              *)
(***************************************************************************)
Released(r, a, why) ==
  IF r.release # "none" THEN r
  ELSE [r EXCEPT !.release = "calls", !.why = why, !.waits = Running(a)]
\* releaseAttachment of every attachment in A.
Releasing(A, why) ==
  [a \in DOMAIN att |-> IF a \in A THEN Released(att[a], a, why) ELSE att[a]]
\* Whether the client is told that its route is gone.
TellsSomeone(why) == why \in {"detach", "shutdown"}  \* mutant: not when the Session ends
Publishes(why) == why \notin {"switch", "disconnect"}

Over(ks) == \A k \in ks : call[k].state = "over"
NotWaiting(ks) == TRUE                    \* mutant: releases under a running call
CallsOver(ks) == Over(ks)

ReleaseLease(a) ==
  /\ att[a].release = "calls" /\ CallsOver(att[a].waits) /\ att[a].lease # "acquiring"
  /\ att' = [att EXCEPT ![a].release = "lease",
                        ![a].lease = IF @ = "held" THEN "released" ELSE @]
  /\ UNCHANGED <<hosted, opening, current, refused, queue, op, handle, removal, shutdown,
                 online, route, call, events>>

\* clearAttachment; a release that failed still clears.
Clear(a) ==
  LET c == att[a].client
  IN  /\ att[a].release = "lease"
      /\ \/ att' = [att EXCEPT ![a].release = "cleared", ![a].listed = FALSE] /\ UNCHANGED events
         \/ /\ Event
            /\ att' = [att EXCEPT ![a].release = "cleared", ![a].listed = FALSE, ![a].failed = TRUE]
      /\ current' = [current EXCEPT ![c] = IF @ = a THEN 0 ELSE @]
      /\ route' = [route EXCEPT ![c] = IF current[c] = a /\ Publishes(att[a].why) THEN 0 ELSE @]
      /\ UNCHANGED <<hosted, opening, refused, queue, op, handle, removal, shutdown,
                     online, call>>

-----------------------------------------------------------------------------
(***************************************************************************)
(* Operations of one client run one after another (runForClient).          *)
(***************************************************************************)
Head1(c) == Head(queue[c])
Starts(c, kind) == queue[c] # <<>> /\ op[c].pc = "idle" /\ Head1(c).kind = kind
At(c, pc, a, h) == op' = [op EXCEPT ![c] = [pc |-> pc, att |-> a, handle |-> h]]

\* The operation of each client in C is over.
Finish(C) ==
  /\ queue' = [c \in Clients |-> IF c \in C THEN Tail(queue[c]) ELSE queue[c]]
  /\ op' = [c \in Clients |-> IF c \in C THEN Idle ELSE op[c]]
  /\ refused' = refused \ {c \in C : Head1(c).kind = "disconnect"}
  /\ shutdown' = [shutdown EXCEPT !.owed =
       [c \in Clients |-> IF c \in C /\ @[c] > 0 THEN @[c] - 1 ELSE @[c]]]

\* attachClientNow up to acquire: repeating an attach changes nothing, a
\* Session that is being opened is shared.
StartAttach(c) ==
  LET s == Head1(c).session
      h == hosted[s]
  IN  /\ Starts(c, "attach")
      /\ \/ /\ Refuses(c) \/ (current[c] # 0 /\ Session(current[c]) = s)
            /\ Finish({c}) /\ UNCHANGED opening
         \/ /\ ~Refuses(c) /\ ~(current[c] # 0 /\ Session(current[c]) = s)
            /\ IF h # 0 THEN At(c, "acquired", current[c], h) /\ UNCHANGED opening
                        ELSE At(c, "opening", current[c], 0) /\ opening' = opening \cup {s}
            /\ UNCHANGED <<queue, refused, shutdown>>
      /\ UNCHANGED <<hosted, current, att, handle, removal, online, route, call, events>>

Waiting(s) == {c \in Clients : op[c].pc = "opening" /\ Head1(c).session = s}

\* openSession returns a handle; one acquired while the server drains is closed.
Opened(s) ==
  LET h == Len(handle) + 1
      W == Waiting(s)
  IN  /\ s \in opening
      /\ opening' = opening \ {s}
      /\ handle' = Append(handle, [session |-> s, state |-> IF Closing THEN "closed" ELSE "open"])
      /\ IF Closing THEN Finish(W) /\ UNCHANGED hosted
         ELSE /\ hosted' = [hosted EXCEPT ![s] = h]
              /\ op' = [c \in Clients |-> IF c \in W THEN [op[c] EXCEPT !.pc = "acquired", !.handle = h]
                                          ELSE op[c]]
              /\ UNCHANGED <<queue, refused, shutdown>>
      /\ UNCHANGED <<current, att, removal, online, route, call, events>>

OpenFails(s) ==
  /\ s \in opening /\ Event
  /\ opening' = opening \ {s} /\ Finish(Waiting(s))
  /\ UNCHANGED <<hosted, current, att, handle, removal, online, route, call>>

NewAttachment(c, h) ==
  /\ att' = Append(att, [NoAtt EXCEPT !.client = c, !.handle = h, !.lease = "acquiring", !.listed = TRUE])
  /\ At(c, "leasing", Len(att) + 1, h)

\* The Session is open: the client leaves the one it is attached to first.
Acquired(c) ==
  /\ op[c].pc = "acquired"
  /\ \/ Refuses(c) /\ Finish({c}) /\ UNCHANGED att
     \/ /\ ~Refuses(c) /\ op[c].att # 0
        /\ att' = Releasing({op[c].att}, "switch")
        /\ At(c, "switching", op[c].att, op[c].handle)
        /\ UNCHANGED <<queue, refused, shutdown>>
     \/ /\ ~Refuses(c) /\ op[c].att = 0
        /\ NewAttachment(c, op[c].handle) /\ UNCHANGED <<queue, refused, shutdown>>
  /\ UNCHANGED <<hosted, opening, current, handle, removal, online, route, call, events>>

Switched(c) ==
  /\ op[c].pc = "switching" /\ att[op[c].att].release = "cleared"
  /\ IF att[op[c].att].failed THEN Finish({c}) /\ UNCHANGED att
     ELSE NewAttachment(c, op[c].handle) /\ UNCHANGED <<queue, refused, shutdown>>
  /\ UNCHANGED <<hosted, opening, current, handle, removal, online, route, call, events>>

\* What must still hold when the lease arrives.
Unchecked(c, a, h) == TRUE                \* mutant: installs whatever happened meanwhile
StillWanted(c, a, h) ==
  hosted[handle[h].session] = h /\ att[a].listed /\ ~Refuses(c)

\* handle.attachClient answers; a handle that is closing may throw.
Leased(c) ==
  LET a == op[c].att
      h == op[c].handle
      held == [att EXCEPT ![a].lease = "held"]
  IN  /\ op[c].pc = "leasing"
      /\ \/ /\ handle[h].state # "open"
            /\ att' = [att EXCEPT ![a].lease = "none", ![a].listed = FALSE]
            /\ Finish({c}) /\ UNCHANGED <<current, route>>
         \/ /\ StillWanted(c, a, h)
            /\ att' = held /\ current' = [current EXCEPT ![c] = a]
            /\ route' = IF c \in online THEN [route EXCEPT ![c] = a] ELSE route
            /\ Finish({c})
         \/ /\ ~StillWanted(c, a, h)
            /\ att' = [held EXCEPT ![a] = Released(held[a], a, "unwanted")]
            /\ At(c, "leaving", a, h)
            /\ UNCHANGED <<current, route, queue, refused, shutdown>>
      /\ UNCHANGED <<hosted, opening, handle, removal, online, call, events>>

\* detachClient and disconnect: release the attachment there is.
StartLeave(c) ==
  /\ Starts(c, "detach") \/ Starts(c, "disconnect")
  /\ IF current[c] = 0 THEN Finish({c}) /\ UNCHANGED att
     ELSE /\ att' = Releasing({current[c]}, Head1(c).kind)
          /\ At(c, "leaving", current[c], 0)
          /\ UNCHANGED <<queue, refused, shutdown>>
  /\ UNCHANGED <<hosted, opening, current, handle, removal, online, route, call, events>>

Left(c) ==
  /\ op[c].pc = "leaving" /\ att[op[c].att].release = "cleared"
  /\ Finish({c})
  /\ UNCHANGED <<hosted, opening, current, att, handle, removal, online, route, call, events>>

\* executeServiceCall: admitted in turn, then it runs beside everything else.
StartCall(c) ==
  LET k == Head1(c).call
      a == call[k].att
  IN  /\ Starts(c, "call")
      /\ call' = [call EXCEPT ![k].state = IF ~Refuses(c) /\ current[c] = a THEN "running" ELSE "over"]
      /\ Finish({c})
      /\ UNCHANGED <<hosted, opening, current, att, handle, removal, online, route, events>>

CallEnds(k) ==
  /\ call[k].state = "running" /\ call' = [call EXCEPT ![k].state = "over"]
  /\ UNCHANGED <<routerVars, online, route, events>>

-----------------------------------------------------------------------------
(***************************************************************************)
(* Connections.                                                            *)
(***************************************************************************)
Request == [kind: {"attach"}, session: Sessions] \cup [kind: {"detach"}]
\* The management service gets to a request that the client sent while it was
\* connected; the connection may be gone by then.
Manage(c, r) ==
  /\ Event
  /\ r.kind = "attach" => ~Closing
  /\ queue' = [queue EXCEPT ![c] = Append(@, r)]
  /\ UNCHANGED <<hosted, opening, current, refused, op, att, handle, removal, shutdown,
                 online, route, call>>

\* A service call goes straight to the router; its target is the route the
\* client has, or one it had and that a delayed frame still carries.
Ask(c) ==
  /\ Event /\ c \in online
  /\ \E a \in {b \in DOMAIN att : att[b].client = c /\ att[b].lease \in {"held", "released"}} :
       call' = Append(call, [att |-> a, state |-> "queued"])
  /\ queue' = [queue EXCEPT ![c] = Append(@, [kind |-> "call", call |-> Len(call) + 1])]
  /\ UNCHANGED <<hosted, opening, current, refused, op, att, handle, removal, shutdown, online, route>>

Gone(C) ==
  /\ online' = online \ C /\ refused' = refused \cup C
  /\ queue' = [c \in Clients |-> IF c \in C THEN Append(queue[c], [kind |-> "disconnect"]) ELSE queue[c]]
  /\ route' = [c \in Clients |-> IF c \in C THEN 0 ELSE route[c]]

Disconnect(c) ==
  /\ Event /\ c \in online /\ Gone({c})
  /\ UNCHANGED <<hosted, opening, current, op, att, handle, removal, shutdown, call>>

-----------------------------------------------------------------------------
(***************************************************************************)
(* The end of a Session: removed, terminated by itself, or shut down.      *)
(***************************************************************************)
Remove(s) ==
  LET h == hosted[s]
  IN  /\ Event /\ h # 0 /\ removal[s].pc = "none" /\ ~Closing
      /\ removal' = [removal EXCEPT ![s] = [pc |-> "releasing", handle |-> h, waits |-> Listed(h)]]
      /\ att' = Releasing(Listed(h), "removed")
      /\ UNCHANGED <<hosted, opening, current, refused, queue, op, handle, shutdown, online, route, call>>

Cleared(A) == \A a \in A : att[a].release = "cleared"

RemovalCloses(s) ==
  LET h == removal[s].handle
  IN  /\ removal[s].pc = "releasing" /\ Cleared(removal[s].waits)
      /\ removal' = [removal EXCEPT ![s].pc = "closing"]
      /\ handle' = [handle EXCEPT ![h].state = IF @ = "open" THEN "closing" ELSE @]
      /\ UNCHANGED <<hosted, opening, current, refused, queue, op, att, shutdown, online, route, call, events>>

\* A handle that announces its end is invalidated: unregistered, and all its
\* attachments released.
Invalidated(H) ==
  Releasing(UNION {IF handle[h].session \in Announcing /\ hosted[handle[h].session] = h
                     THEN Listed(h) ELSE {} : h \in H}, "terminated")
Removed(s) ==
  LET h == removal[s].handle
  IN  /\ removal[s].pc = "closing"
      /\ removal' = [removal EXCEPT ![s].pc = "none"]
      /\ handle' = [handle EXCEPT ![h].state = "removed"]
      /\ att' = Invalidated({h})
      /\ hosted' = [hosted EXCEPT ![s] = IF @ = h THEN 0 ELSE @]
      /\ UNCHANGED <<opening, current, refused, queue, op, shutdown, online, route, call,
                     events>>

Terminate(h) ==
  LET s == handle[h].session
  IN  /\ Event /\ handle[h].state = "open" /\ s \in Announcing
      /\ handle' = [handle EXCEPT ![h].state = "closed"]
      /\ att' = Invalidated({h})
      /\ hosted' = [hosted EXCEPT ![s] = IF @ = h THEN 0 ELSE @]
      /\ UNCHANGED <<opening, current, refused, queue, op, removal, shutdown, online, route,
                     call>>

\* close(): the connections go first, then what they had under way, then the
\* attachments and the handles.
Shutdown ==
  /\ Event /\ ~Closing /\ shutdown' = [shutdown EXCEPT !.pc = "closing"]
  /\ UNCHANGED <<hosted, opening, current, refused, queue, op, att, handle, removal,
                 online, route, call>>

DropConnections ==
  /\ shutdown.pc = "closing" /\ Gone(online)
  /\ shutdown' = [shutdown EXCEPT !.pc = "waiting", !.owed = [c \in Clients |-> Len(queue'[c])]]
  /\ UNCHANGED <<hosted, opening, current, op, att, handle, removal, call, events>>

Registered == {hosted[s] : s \in Sessions} \ {0}
ReleaseAll ==
  LET A == UNION {Listed(h) : h \in Registered}
  IN  /\ shutdown.pc = "waiting" /\ opening = {} /\ \A c \in Clients : shutdown.owed[c] = 0
      /\ shutdown' = [shutdown EXCEPT !.pc = "releasing", !.waits = A]
      /\ att' = Releasing(A, "shutdown")
      /\ UNCHANGED <<hosted, opening, current, refused, queue, op, handle, removal, online, route, call, events>>

CloseHandles ==
  /\ shutdown.pc = "releasing" /\ Cleared(shutdown.waits)
  /\ shutdown' = [shutdown EXCEPT !.pc = "done"]
  /\ handle' = [h \in DOMAIN handle |-> IF h \in Registered THEN [handle[h] EXCEPT !.state = "closed"]
                                        ELSE handle[h]]
  /\ att' = Invalidated(Registered)
  /\ hosted' = [s \in Sessions |-> 0] /\ current' = [c \in Clients |-> 0]
  /\ UNCHANGED <<opening, refused, queue, op, removal, online, route, call, events>>

-----------------------------------------------------------------------------
Steps(c) ==
  \/ StartAttach(c) \/ Acquired(c) \/ Switched(c) \/ Leased(c) \/ StartLeave(c) \/ Left(c) \/ StartCall(c)
Sessionwise(s) == Opened(s) \/ OpenFails(s) \/ RemovalCloses(s) \/ Removed(s)
Closes == DropConnections \/ ReleaseAll \/ CloseHandles

Next ==
  \/ \E c \in Clients : Steps(c) \/ Ask(c) \/ Disconnect(c) \/ \E r \in Request : Manage(c, r)
  \/ \E s \in Sessions : Sessionwise(s) \/ Remove(s)
  \/ \E a \in DOMAIN att : ReleaseLease(a) \/ Clear(a)
  \/ \E k \in DOMAIN call : CallEnds(k)
  \/ \E h \in DOMAIN handle : Terminate(h)
  \/ Shutdown \/ Closes

Spec == Init /\ [][Next]_vars

\* Promises settle: what the router and the hosts have begun goes on.  Nobody
\* has to ask, to disconnect, or to close the server.
FairSpec ==
  /\ Spec /\ WF_vars(Closes)
  /\ \A c \in Clients : WF_vars(Steps(c))
  /\ \A s \in Sessions : WF_vars(Sessionwise(s))
  /\ \A a \in Atts : WF_vars(a \in DOMAIN att /\ (ReleaseLease(a) \/ Clear(a)))
  /\ \A k \in Calls : WF_vars(k \in DOMAIN call /\ CallEnds(k))

-----------------------------------------------------------------------------
(***************************************************************************)
(* Properties.                                                             *)
(***************************************************************************)
Operations == Request \cup [kind: {"disconnect"}] \cup [kind: {"call"}, call: Nat]
Standings == [pc: {"idle", "opening", "acquired", "switching", "leasing", "leaving"},
              att: Nat, handle: Nat]
Attachments == [client: Clients, handle: Nat, lease: {"none", "acquiring", "held", "released"},
                listed: BOOLEAN, release: {"none", "calls", "lease", "cleared"},
                why: {"none", "switch", "unwanted", "detach", "disconnect", "removed",
                      "terminated", "shutdown"},
                waits: SUBSET Nat, failed: BOOLEAN]
Opens == [session: Sessions, state: {"open", "closing", "closed", "removed"}]
Removals == [pc: {"none", "releasing", "closing"}, handle: Nat, waits: SUBSET Nat]
Shutdowns == [pc: {"none", "closing", "waiting", "releasing", "done"},
              owed: [Clients -> Nat], waits: SUBSET Nat]
ServiceCalls == [att: Nat, state: {"queued", "running", "over"}]

TypeOK ==
  /\ opening \subseteq Sessions /\ refused \subseteq Clients /\ online \subseteq Clients
  /\ queue \in [Clients -> Seq(Operations)] /\ op \in [Clients -> Standings]
  /\ att \in Seq(Attachments) /\ handle \in Seq(Opens) /\ call \in Seq(ServiceCalls)
  /\ removal \in [Sessions -> Removals] /\ shutdown \in Shutdowns
  /\ hosted \in [Sessions -> DOMAIN handle \cup {0}]
  /\ current \in [Clients -> DOMAIN att \cup {0}] /\ route \in [Clients -> DOMAIN att \cup {0}]
  /\ \A a \in DOMAIN att : att[a].handle \in DOMAIN handle
  /\ \A c \in Clients : op[c].pc # "idle" => queue[c] # <<>>

\* Nothing that was leased or opened is forgotten.  A lease whose release has
\* not begun is its client's current attachment, to a handle that is still
\* registered: not one that terminated, nor one left over by close().  The
\* exception is a client that attached while its Session was being removed,
\* when the handle does not announce its end.  An open handle is registered.
LeasesAccounted ==
  /\ TypeOK
  /\ \A a \in DOMAIN att : att[a].lease = "held" /\ att[a].release = "none" =>
       /\ current[att[a].client] = a \/ shutdown.pc = "done"
       /\ \/ hosted[Session(a)] = att[a].handle
          \/ handle[att[a].handle].state = "removed" /\ Session(a) \notin Announcing
  /\ \A h \in DOMAIN handle : handle[h].state = "open" => hosted[handle[h].session] = h

\* A lease is released under a running call only when its Session ends: a
\* client that detaches, switches or disconnects keeps its lease until the
\* calls it had admitted settle (server/README.md).
CallsKeepLease ==
  [][\A a \in DOMAIN att : att[a].lease = "held" /\ att'[a].lease = "released" /\ Running(a) # {} =>
       att[a].why \in {"removed", "terminated"}]_vars

\* The route a connected client was told is its current attachment, except
\* that a switch tells it only of the new one: while it goes on, and for good
\* when it fails after the old attachment was released.
RouteCurrent ==
  \A c \in online : route[c] # current[c] => route[c] # 0 /\ att[route[c]].why = "switch"

\* Every operation of a client ends, and so does close().
OperationsEnd ==
  /\ \A c \in Clients : queue[c] # <<>> ~> queue[c] = <<>>
  /\ Closing ~> shutdown.pc = "done"

\* A connection that is gone releases its attachment (server/README.md,
\* protocol/README.md): with no operation left it holds none.
GoneHoldsNothing ==
  \A c \in Clients \ online :
    queue[c] = <<>> /\ current[c] # 0 => att[current[c]].release # "none"
=============================================================================
