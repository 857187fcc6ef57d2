------------------------- MODULE ServiceSubscription -------------------------
(***************************************************************************)
(* A remote view of one replicated state: the provider of the service and  *)
(* its state (chord/src/services/provider.ts, state.ts), the server's      *)
(* subscribe request (server/src/server.ts), the client's subscription     *)
(* (client/src/client.ts) and the binding that installs it and is rebound  *)
(* (chord/src/services/consumer.ts).  Frames of a connection arrive in     *)
(* order; a value is named by the instance that had it and its sequence.   *)
(***************************************************************************)
EXTENDS Naturals, Sequences, FiniteSets, Functions

CONSTANTS MaxChanges,   \* bound: changes of the state, replacements, withdrawals
          MaxRebinds,   \* bound: times the binding is bound again
          MaxDrops      \* bound: lost connections

ASSUME SubscriptionAssumption == {MaxChanges, MaxRebinds, MaxDrops} \subseteq Nat

VARIABLES
  \* the provider
  source,   \* the instance, whether it is provided, its sequence, unpublished changes
  had,      \* history: the values published, and the withdrawals between them
  \* the connection
  up,
  wire,     \* frames from the server, oldest first
  \* subscriptions, oldest first: the server's half and the client's
  sub,
  \* the binding
  binding,  \* its revision, whether it is bound, its subscription
  starts,   \* starts under way: the revision they act for, the subscription they
            \* close first
  view,     \* the replica: sequence and value
  seen,     \* history: position of the last value shown
  faulty,   \* history: an update did not fit the replica
  changes, rebinds, drops

vars == <<source, had, up, wire, sub, binding, starts, view, seen, faulty, changes, rebinds, drops>>

Value == <<source.inst, source.seq>>
Withdrawn == MaxChanges + 1        \* in place of a sequence
Cold == [seq |-> 0, val |-> <<0, 0>>]
Corrupt == <<0, 1>>
NewSub(rev) == [rev |-> rev, srv |-> "asked", pending |-> <<>>, snap |-> <<0, 0>>,
                cli |-> "asking", listening |-> TRUE, queued |-> <<>>, tail |-> <<>>]

Init ==
  /\ source = [inst |-> 1, provided |-> TRUE, seq |-> 0, dirty |-> FALSE]
  /\ had = << <<1, 0>> >>
  /\ up = TRUE /\ wire = <<>> /\ sub = <<>>
  /\ binding = [rev |-> 0, bound |-> TRUE, sub |-> 0]
  /\ starts = {[rev |-> 0, after |-> 0]}
  /\ view = Cold /\ seen = 0 /\ faulty = FALSE
  /\ changes = 0 /\ rebinds = 0 /\ drops = 0

Subs == DOMAIN sub
Frame(i, type, val) == [sub |-> i, type |-> type, val |-> val]
Change == changes < MaxChanges /\ changes' = changes + 1

-----------------------------------------------------------------------------
(***************************************************************************)
(* The provider.  An update goes to every subscriber there is: one whose   *)
(* subscribe request is not finished holds it back, the others send it.    *)
(***************************************************************************)
OnlyUntilAnswered == {"subscribed"}       \* mutant: sends past the updates held back
Holding == {"subscribed", "flushing"}
Subscribers == Holding \cup {"ready"}

\* What update `u` makes of the subscriptions, and the frames it sends.
Held(u) == [i \in Subs |-> IF sub[i].srv \in Holding THEN [sub[i] EXCEPT !.pending = Append(@, u)]
                           ELSE sub[i]]
InOrder(S) == {q \in Bijection(1..Cardinality(S), S) :
                 \A j, k \in DOMAIN q : j < k => q[j] < q[k]}
Send(u) == \E to \in InOrder({i \in Subs : up /\ sub[i].srv \in Subscribers \ Holding}) :
             wire' = wire \o [k \in DOMAIN to |-> [u EXCEPT !.sub = to[k]]]
Emit(type, val) == LET u == Frame(0, type, val) IN sub' = Held(u) /\ Send(u)

clientVars == <<binding, starts, view, seen, faulty, rebinds>>

Mutate ==
  /\ Change /\ ~source.dirty /\ source' = [source EXCEPT !.dirty = TRUE]
  /\ UNCHANGED <<had, up, wire, sub, clientVars, drops>>

Published == [source EXCEPT !.seq = @ + 1, !.dirty = FALSE]
Publish ==
  /\ source.dirty /\ source.provided
  /\ source' = Published /\ had' = Append(had, Value')
  /\ Emit("state", Value')
  /\ UNCHANGED <<up, clientVars, changes, drops>>

Replace ==
  /\ Change
  /\ source' = [inst |-> source.inst + 1, provided |-> TRUE, seq |-> 0, dirty |-> FALSE]
  /\ had' = Append(had, Value')
  /\ Emit("replaced", Value')
  /\ UNCHANGED <<up, clientVars, drops>>

Withdraw ==
  /\ Change /\ source.provided /\ source' = [source EXCEPT !.provided = FALSE]
  /\ had' = Append(had, <<source.inst, Withdrawn>>)
  /\ Emit("unavailable", <<source.inst, Withdrawn>>)
  /\ UNCHANGED <<up, clientVars, drops>>

-----------------------------------------------------------------------------
(***************************************************************************)
(* The server's half of a subscription.                                    *)
(***************************************************************************)
Reply(f) == wire' = IF up THEN Append(wire, f) ELSE wire

\* provider.subscribe: what is unpublished is published first, to the
\* subscribers there were.
Subscribe(i) ==
  /\ sub[i].srv = "asked"
  /\ \/ /\ source.provided /\ ~source.dirty
        /\ sub' = [sub EXCEPT ![i].srv = "subscribed", ![i].snap = Value]
        /\ UNCHANGED <<source, had, wire>>
     \/ /\ source.provided /\ source.dirty
        /\ source' = Published /\ had' = Append(had, Value')
        /\ LET u == Frame(0, "state", Value')
           IN  /\ sub' = [Held(u) EXCEPT ![i].srv = "subscribed", ![i].snap = Value']
               /\ Send(u)
     \/ /\ ~source.provided
        /\ sub' = [sub EXCEPT ![i].srv = "closed"] /\ Reply(Frame(i, "failed", <<0, 0>>))
        /\ UNCHANGED <<source, had>>
  /\ UNCHANGED <<up, clientVars, changes, drops>>

Respond(i) ==
  /\ sub[i].srv = "subscribed"
  /\ sub' = [sub EXCEPT ![i].srv = "flushing"]
  /\ Reply(Frame(i, "snapshot", sub[i].snap))
  /\ UNCHANGED <<source, had, up, clientVars, changes, drops>>

\* After the response the held updates follow one by one, those that came in
\* while the previous one was being sent included.
DoneOnce(q) == TRUE                       \* mutant: sends what it had when it answered
Flushed(q) == q = <<>>
Flush(i) ==
  /\ sub[i].srv = "flushing"
  /\ IF Flushed(sub[i].pending)
       THEN sub' = [sub EXCEPT ![i].srv = "ready"] /\ UNCHANGED wire
       ELSE /\ sub' = [sub EXCEPT ![i].pending = Tail(@)]
            /\ Reply([Head(sub[i].pending) EXCEPT !.sub = i])
  /\ UNCHANGED <<source, had, up, clientVars, changes, drops>>

Closed(r) == [r EXCEPT !.srv = "closed", !.pending = <<>>]
Unsubscribe(i) ==
  /\ sub[i].cli = "disposing" /\ sub[i].srv \in Subscribers
  /\ sub' = [sub EXCEPT ![i] = Closed(@)]
  /\ Reply(Frame(i, "closed", <<0, 0>>))
  /\ UNCHANGED <<source, had, up, clientVars, changes, drops>>

-----------------------------------------------------------------------------
(***************************************************************************)
(* The client's half.                                                      *)
(***************************************************************************)
Dispose(r) == [r EXCEPT !.listening = FALSE, !.cli = IF up THEN "disposing" ELSE "drained"]

\* A start runs when the subscription before it has closed.
Start(t) ==
  /\ t \in starts /\ (t.after # 0 => sub[t.after].cli \in {"gone", "failed"})
  /\ starts' = starts \ {t}
  /\ IF up /\ (t.after # 0 => sub[t.after].cli = "gone")
       THEN sub' = Append(sub, NewSub(t.rev)) ELSE UNCHANGED sub
  /\ UNCHANGED <<source, had, up, wire, binding, view, seen, faulty, changes, rebinds, drops>>

UpdateTypes == {"state", "replaced", "unavailable"}
Arrived(r, f) ==
  CASE f.type = "snapshot" -> [r EXCEPT !.cli = "answered"]
    [] f.type = "failed" -> [r EXCEPT !.cli = "gone", !.listening = FALSE]
    [] f.type = "closed" -> [r EXCEPT !.cli = "drained"]
    [] f.type \in UpdateTypes /\ ~r.listening -> r
    [] f.type \in UpdateTypes /\ r.listening ->
         IF r.cli = "open" THEN [r EXCEPT !.tail = Append(@, f)] ELSE [r EXCEPT !.queued = Append(@, f)]
Receive ==
  /\ wire # <<>> /\ wire' = Tail(wire)
  /\ sub' = [sub EXCEPT ![Head(wire).sub] = Arrived(@, Head(wire))]
  /\ UNCHANGED <<source, had, up, clientVars, changes, drops>>

Position(v) == IF \E k \in DOMAIN had : had[k] = v THEN CHOOSE k \in DOMAIN had : had[k] = v ELSE 0
At(v) == [seq |-> v[2] + 1, val |-> v]
Show(v) == view' = v /\ seen' = IF v = Cold THEN seen ELSE Position(v.val)

\* startSingleton goes on with the subscription it asked for.
Started(r) == r.listening                 \* mutant: installs a snapshot of an old revision
Wanted(r) == r.listening /\ binding.bound /\ binding.rev = r.rev
Install(i) ==
  LET r == sub[i]
  IN  /\ r.cli = "answered"
      /\ \/ /\ Wanted(r)
            /\ binding' = [binding EXCEPT !.sub = i] /\ Show(At(r.snap))
            /\ sub' = [sub EXCEPT ![i].cli = "open", ![i].snap = <<0, 0>>, ![i].tail = r.queued, ![i].queued = <<>>]
         \/ /\ ~Wanted(r)
            /\ sub' = [sub EXCEPT ![i] = IF r.listening THEN Dispose(r)
                                      ELSE [r EXCEPT !.cli = "gone", !.queued = <<>>]]
            /\ UNCHANGED <<binding, view, seen>>
      /\ UNCHANGED <<source, had, up, wire, starts, faulty, changes, rebinds, drops>>

\* One update reaches the listener, which takes it while its revision is the
\* binding's.  ReplicatedStateReplica.update checks the sequence, not the value.
Fits(f) == f.type # "state" \/ (view # Cold /\ f.val[2] + 1 = view.seq + 1)
Updated(f) ==
  CASE f.type = "unavailable" \/ ~Fits(f) -> Cold
    [] f.type = "replaced" -> At(f.val)
    [] OTHER -> At(IF view.val = <<f.val[1], f.val[2] - 1>> THEN f.val ELSE Corrupt)
Deliver(i) ==
  LET f == Head(sub[i].tail)
  IN  /\ sub[i].tail # <<>>
      /\ sub' = [sub EXCEPT ![i].tail = Tail(@)]
      /\ \/ binding.rev # sub[i].rev /\ UNCHANGED <<view, seen, faulty>>
         \/ binding.rev = sub[i].rev /\ Show(Updated(f)) /\ faulty' = (faulty \/ ~Fits(f))
      /\ UNCHANGED <<source, had, up, wire, binding, starts, changes, rebinds, drops>>

\* dispose() returns when the server has answered and the updates already
\* received have been delivered.
Drained(i) ==
  /\ sub[i].cli = "drained" /\ sub[i].tail = <<>>
  /\ sub' = [sub EXCEPT ![i].cli = "gone", ![i].queued = <<>>]
  /\ UNCHANGED <<source, had, up, wire, clientVars, changes, drops>>

\* The view is cleared at once; the subscription closes, and when it has, the
\* next one starts.
Rebind(bound) ==
  LET old == binding.sub
  IN  /\ IF bound THEN up /\ rebinds < MaxRebinds /\ rebinds' = rebinds + 1
                  ELSE binding.bound /\ UNCHANGED rebinds
      /\ binding' = [rev |-> binding.rev + 1, bound |-> bound, sub |-> 0]
      /\ view' = Cold
      /\ sub' = IF old = 0 THEN sub ELSE [sub EXCEPT ![old] = Dispose(@)]
      /\ starts' = IF bound THEN starts \cup {[rev |-> binding.rev + 1, after |-> old]} ELSE starts
      /\ UNCHANGED <<source, had, up, wire, seen, faulty, changes, drops>>

-----------------------------------------------------------------------------
(***************************************************************************)
(* The connection.                                                         *)
(***************************************************************************)
Cut(r) == [Closed(r) EXCEPT !.listening = FALSE,
             !.cli = CASE @ = "asking" -> "gone" [] @ = "disposing" -> "failed" [] OTHER -> @]
Drop ==
  /\ up /\ drops < MaxDrops /\ drops' = drops + 1
  /\ up' = FALSE /\ wire' = <<>>
  /\ sub' = [i \in Subs |-> Cut(sub[i])]
  /\ UNCHANGED <<source, had, clientVars, changes>>

\* The binding's owner unbinds it while the connection is lost and binds it
\* again when there is a new one.
Reconnect ==
  /\ ~up /\ ~binding.bound /\ up' = TRUE
  /\ UNCHANGED <<source, had, wire, sub, clientVars, changes, drops>>

-----------------------------------------------------------------------------
ServerStep(i) == Subscribe(i) \/ Respond(i) \/ Flush(i) \/ Unsubscribe(i)
ClientStep(i) == Install(i) \/ Deliver(i) \/ Drained(i)
Begin == \E t \in starts : Start(t)

Next ==
  \/ Mutate \/ Publish \/ Replace \/ Withdraw
  \/ \E i \in Subs : ServerStep(i) \/ ClientStep(i)
  \/ Begin \/ Receive \/ (\E b \in BOOLEAN : Rebind(b)) \/ Drop \/ Reconnect

Spec == Init /\ [][Next]_vars

\* Frames in transit arrive, promises continue.  Nothing is published, rebound
\* or reconnected that somebody does not ask for, but a subscribe publishes.
FairSpec ==
  /\ Spec /\ WF_vars(Begin) /\ WF_vars(Receive)
  /\ \A i \in 1..(MaxRebinds + 1) :
       WF_vars(i \in Subs /\ ServerStep(i)) /\ WF_vars(i \in Subs /\ ClientStep(i))

-----------------------------------------------------------------------------
(***************************************************************************)
(* Properties.                                                             *)
(***************************************************************************)
TypeOK ==
  /\ source.inst \in 1..(MaxChanges + 1) /\ source.seq \in 0..MaxChanges
  /\ \A i \in Subs :
       /\ sub[i].srv \in Subscribers \cup {"asked", "closed"}
       /\ sub[i].cli \in {"asking", "answered", "open", "disposing", "drained", "failed", "gone"}
       /\ sub[i].srv = "asked" => sub[i].cli = "asking"
  /\ binding.sub \in Subs \cup {0} /\ \A t \in starts : t.after \in Subs \cup {0}
  /\ \A k \in DOMAIN wire : wire[k].sub \in Subs

\* No update reaches a replica out of order, twice, before its snapshot or
\* for a value it does not hold: the sequence check never has to clear it.
GapFree == TypeOK /\ ~faulty /\ view.val # Corrupt

\* The view implements ReplicatedState.
Remote == INSTANCE ReplicatedState
            WITH Values <- (1..(MaxChanges + 1)) \X (0..MaxChanges),
                 Absent <- (1..(MaxChanges + 1)) \X {Withdrawn},
                 view <- IF view = Cold THEN 0 ELSE Position(view.val)
ViewSpec == Remote!Spec

\* Nothing the provider published is left behind: a subscription that stays
\* open ends up showing the published value, or nothing when the service was
\* withdrawn, and no start is under way for ever.
Live == up /\ binding.sub # 0 /\ sub[binding.sub].listening
Converges ==
  <>[](/\ starts = {} \/ ~up
       /\ \A i \in Subs : sub[i].cli \notin {"answered", "drained"}
       /\ Live => view = IF source.provided THEN [seq |-> source.seq + 1, val |-> Value] ELSE Cold)
=============================================================================
